--------------------------- MODULE OutwardPayment ---------------------------
(***************************************************************************)
(* Outward payments of src/src/treasury: the payables recorded for one     *)
(* source document (a purchase order), the approval chain of each, and the *)
(* way from a draft to the bank transfer.                                  *)
(*                                                                         *)
(* A handler loads the payment with its approval rows in one query, decides *)
(* on that copy (the cashflow gate included), and then opens a PostgreSQL   *)
(* transaction at READ COMMITTED.  Its UPDATEs lock their row to the end of *)
(* the transaction; its writes are seen by others at the commit.  The       *)
(* decision is never taken again under the lock.                            *)
(***************************************************************************)
EXTENDS Naturals, Sequences

CONSTANTS
    Workers,      \* requests that can be in flight at the same time
    Payments,     \* rows of treasury_outward_payments
    Ops,          \* the endpoints that clients call
    Bands,        \* amount bands that occur
    ManualLinks   \* may a recorded payment name the source document?

CreateOps == {"Record", "Sync", "Push"}
UpdateOps == {"Submit", "Approve", "Reject", "Hold", "Schedule", "Execute"}
AllOps    == CreateOps \cup UpdateOps

AllBands == {"small", "medium", "large", "capex"}

ASSUME OpsAssumption   == Ops \subseteq AllOps
ASSUME BandsAssumption == Bands \subseteq AllBands
ASSUME LinksAssumption == ManualLinks \subseteq BOOLEAN
ASSUME PaymentsAssumption == Payments # {}

\* approvalChainFor: below 10k, below 50k, below 2L, the rest and CAPEX.
ChainFor(band) ==
    CASE band = "small"  -> <<"treasury_officer">>
      [] band = "medium" -> <<"function_head", "treasury_officer">>
      [] band = "large"  -> <<"function_head", "cfo">>
      [] OTHER           -> <<"function_head", "cfo", "admin">>

Levels(band) == DOMAIN ChainFor(band)

InApproval == {"submitted", "function_approved", "treasury_approved", "admin_approved"}
Closed     == {"rejected", "reconciled"}
Statuses   == {"absent", "draft", "scheduled", "on_hold"} \cup InApproval \cup Closed

-----------------------------------------------------------------------------
VARIABLES
    pay,       \* the payment rows
    steps,     \* the treasury_approvals rows of each payment
    receipt,   \* po_tracking.payment_transaction_no of the document is set
    signed,    \* levels of the chain that somebody has approved, ever
    sent,      \* payments whose bank transfer has been recorded
    job        \* the request each worker is serving

vars == <<pay, steps, receipt, signed, sent, job>>

PayRow  == [status: Statuses, band: AllBands, auto: BOOLEAN, linked: BOOLEAN]
StepRow == [level: 1..3, status: {"pending", "approved", "rejected"}]
NoPay   == [status |-> "absent", band |-> "small", auto |-> FALSE, linked |-> FALSE]

\* Where a request stands: before the scan of syncProcurementPayables, before
\* the look for an existing payment, before the load, at its decision; inside
\* approve after its first UPDATE and after its count; inside reject after its
\* first UPDATE.
Stages == {"idle", "scan", "check", "load", "act", "stamped", "counted", "marked"}
Job    == [at: Stages, op: AllOps, p: Payments, row: PayRow, steps: Seq(StepRow),
           i: Nat, status: Statuses]
Idle   == [at |-> "idle", op |-> "Record", p |-> CHOOSE p \in Payments : TRUE,
           row |-> NoPay, steps |-> <<>>, i |-> 0, status |-> "absent"]

Init ==
    /\ pay = [p \in Payments |-> NoPay]
    /\ steps = [p \in Payments |-> <<>>]
    /\ receipt = FALSE
    /\ signed = [p \in Payments |-> {}]
    /\ sent = {}
    /\ job = [w \in Workers |-> Idle]

At(w, stage) == job[w].at = stage
Acts(w, op)  == At(w, "act") /\ job[w].op = op
Reply(w)     == job' = [job EXCEPT ![w] = Idle]

-----------------------------------------------------------------------------
(* Approval chain.                                                         *)

NewSteps(band, status) ==
    [level \in Levels(band) |-> [level |-> level, status |-> status]]

AllApproved(chain) ==
    chain # <<>> /\ \A i \in DOMAIN chain : chain[i].status = "approved"

Pending(chain) == {i \in DOMAIN chain : chain[i].status = "pending"}

FirstPending(chain) ==
    {i \in Pending(chain) : \A j \in Pending(chain) : chain[i].level <= chain[j].level}

\* statusFromApprovals
StatusFrom(band, chain) ==
    LET done == {ChainFor(band)[chain[i].level] :
                    i \in {j \in DOMAIN chain : chain[j].status = "approved"}}
    IN  IF "admin" \in done THEN "admin_approved"
        ELSE IF done \cap {"cfo", "treasury_officer"} # {} THEN "treasury_approved"
        ELSE IF "function_head" \in done THEN "function_approved"
        ELSE "submitted"

-----------------------------------------------------------------------------
(* Mutated forms, one per checked property: what a plausible slip in the    *)
(* handler of the same name would do.  No action uses them.                 *)

\* createOutwardPayment: a status of its own for payments approved in advance.
FinalStatusApproved(band) == IF band = "capex" THEN "admin_approved" ELSE "auto_approved"

\* schedule and execute: the last role has approved, whoever else has not.
ReadyByStatus(w) ==
    job[w].row.auto \/ job[w].row.status \in {"scheduled", "treasury_approved", "admin_approved"}

\* createOutwardFromSource: a payment on hold does not count as existing.
LiveUnlessHeld(p) == pay[p].linked /\ pay[p].status \notin Closed \cup {"on_hold"}

\* submit: any payment that is not closed can be submitted again.
SubmitAgain(w) ==
    /\ Acts(w, "Submit")
    /\ job[w].row.status \notin Closed
    /\ pay' = [pay EXCEPT ![job[w].p].status = "submitted"]
    /\ steps' = [steps EXCEPT ![job[w].p] =
                    IF job[w].steps = <<>> THEN @ \o NewSteps(job[w].row.band, "pending") ELSE @]
    /\ Reply(w)
    /\ UNCHANGED <<receipt, signed, sent>>

\* approve: the status is computed from the loaded chain, not counted again.
RecountLoaded(w) ==
    /\ At(w, "stamped")
    /\ job' = [job EXCEPT ![w].at = "counted",
                  ![w].status = StatusFrom(job[w].row.band, job[w].steps)]
    /\ UNCHANGED <<pay, steps, receipt, signed, sent>>

\* hold: any payment can be put on hold.
HoldAny(w) ==
    /\ Acts(w, "Hold")
    /\ pay' = [pay EXCEPT ![job[w].p].status = "on_hold"]
    /\ Reply(w)
    /\ UNCHANGED <<steps, receipt, signed, sent>>

-----------------------------------------------------------------------------
FinalStatus(band) == IF band = "capex" THEN "admin_approved" ELSE "treasury_approved"

\* The readiness test of schedule and execute, on the loaded copy.
Ready(w) == job[w].row.auto \/ AllApproved(job[w].steps)

-----------------------------------------------------------------------------
(* The request protocol.                                                   *)

\* A column equal to the loaded copy is not part of the UPDATE.
Put(current, loaded, new) == IF new = loaded THEN current ELSE new

\* Row locks: reject holds the payment row until it has its approval row,
\* approve holds its approval row until it has the payment row.
PayFree(w) ==
    \A v \in Workers \ {w} : At(v, "marked") => job[v].p # job[w].p
StepFree(w, i) ==
    \A v \in Workers \ {w} :
        At(v, "stamped") \/ At(v, "counted") => job[v].p # job[w].p \/ job[v].i # i

\* Routing of the endpoints that create a payment ...
Begin(w, op) ==
    /\ At(w, "idle")
    /\ op \in Ops \cap CreateOps
    /\ job' = [job EXCEPT ![w] = [Idle EXCEPT !.op = op,
                  !.at = CASE op = "Sync" -> "scan" [] op = "Push" -> "check" [] OTHER -> "act"]]
    /\ UNCHANGED <<pay, steps, receipt, signed, sent>>

\* ... and of those that act on one.
Open(w, op, p) ==
    /\ At(w, "idle")
    /\ op \in Ops \cap UpdateOps
    /\ pay[p].status # "absent"
    /\ job' = [job EXCEPT ![w] = [Idle EXCEPT !.op = op, !.p = p, !.at = "load"]]
    /\ UNCHANGED <<pay, steps, receipt, signed, sent>>

\* findByPk with include: payment and approval rows of one query.
Load(w) ==
    /\ At(w, "load")
    /\ job' = [job EXCEPT ![w].row = pay[job[w].p], ![w].steps = steps[job[w].p], ![w].at = "act"]
    /\ UNCHANGED <<pay, steps, receipt, signed, sent>>

\* A 4xx reply, a gate verdict "over" without an override, an error, a crash,
\* the victim of a deadlock, or a transaction spoilt by a failed audit row:
\* PostgreSQL keeps nothing of the request.
Fail(w) ==
    /\ ~At(w, "idle")
    /\ Reply(w)
    /\ UNCHANGED <<pay, steps, receipt, signed, sent>>

-----------------------------------------------------------------------------
(* Creation.                                                               *)

\* createOutwardPayment, and generateOneOutward for a recurring payment.
Record(w, p, band, how, linked) ==
    /\ Acts(w, "Record")
    /\ pay[p].status = "absent"
    /\ pay' = [pay EXCEPT ![p] =
                  [status |-> CASE how = "draft"  -> "draft"
                                [] how = "submit" -> "submitted"
                                [] OTHER          -> FinalStatus(band),
                   band |-> band, auto |-> how = "auto", linked |-> linked]]
    /\ steps' = [steps EXCEPT ![p] =
                  CASE how = "draft"  -> <<>>
                    [] how = "submit" -> NewSteps(band, "pending")
                    [] OTHER          -> NewSteps(band, "approved")]
    /\ Reply(w)
    /\ UNCHANGED <<receipt, signed, sent>>

\* syncProcurementPayables selects tracking rows without a transaction number.
Scan(w) ==
    /\ At(w, "scan")
    /\ ~receipt
    /\ job' = [job EXCEPT ![w].at = "check"]
    /\ UNCHANGED <<pay, steps, receipt, signed, sent>>

\* A payment of the document that is neither rejected nor paid.
Live(p) == pay[p].linked /\ pay[p].status \notin Closed

\* The idempotency guard of createOutwardFromSource, outside its transaction.
Check(w) ==
    /\ At(w, "check")
    /\ \A p \in Payments : ~Live(p)
    /\ job' = [job EXCEPT ![w].at = "act"]
    /\ UNCHANGED <<pay, steps, receipt, signed, sent>>

\* createOutwardFromSource; a push may ask for a draft (autoSubmit = false).  One
\* that names no document is a Record.
Insert(w, p, band, how) ==
    /\ \/ Acts(w, "Sync") /\ how = "submit"
       \/ Acts(w, "Push")
    /\ pay[p].status = "absent"
    /\ pay' = [pay EXCEPT ![p] =
                  [status |-> IF how = "draft" THEN "draft" ELSE "submitted",
                   band |-> band, auto |-> FALSE, linked |-> TRUE]]
    /\ steps' = [steps EXCEPT ![p] =
                    IF how = "draft" THEN <<>> ELSE NewSteps(band, "pending")]
    /\ Reply(w)
    /\ UNCHANGED <<receipt, signed, sent>>

-----------------------------------------------------------------------------
(* Approval.                                                               *)

Move(w, status) ==
    /\ PayFree(w)
    /\ pay' = [pay EXCEPT ![job[w].p].status = Put(@, job[w].row.status, status)]

Submit(w) ==
    /\ Acts(w, "Submit")
    /\ job[w].row.status = "draft"
    /\ Move(w, "submitted")
    /\ steps' = [steps EXCEPT ![job[w].p] =
                    IF job[w].steps = <<>> THEN @ \o NewSteps(job[w].row.band, "pending") ELSE @]
    /\ Reply(w)
    /\ UNCHANGED <<receipt, signed, sent>>

\* approveOutwardPayment: the approval row first (of any level the body names,
\* whatever its status is by now) ...
Stamp(w, i) ==
    /\ Acts(w, "Approve")
    /\ job[w].row.status \in InApproval
    /\ i \in Pending(job[w].steps)
    /\ StepFree(w, i)
    /\ job' = [job EXCEPT ![w].at = "stamped", ![w].i = i]
    /\ UNCHANGED <<pay, steps, receipt, signed, sent>>

\* ... then the count over what is committed and the row just written ...
Recount(w) ==
    /\ At(w, "stamped")
    /\ job' = [job EXCEPT ![w].at = "counted",
                  ![w].status = StatusFrom(pay[job[w].p].band,
                                   [steps[job[w].p] EXCEPT ![job[w].i].status = "approved"])]
    /\ UNCHANGED <<pay, steps, receipt, signed, sent>>

\* ... then the payment row, and the commit.
CommitApproval(w) ==
    /\ At(w, "counted")
    /\ Move(w, job[w].status)
    /\ steps' = [steps EXCEPT ![job[w].p][job[w].i].status = "approved"]
    /\ signed' = [signed EXCEPT ![job[w].p] = @ \cup {steps[job[w].p][job[w].i].level}]
    /\ Reply(w)
    /\ UNCHANGED <<receipt, sent>>

\* rejectOutwardPayment: the payment row first, then the first pending row of
\* the loaded chain, if there is one.
Mark(w, i) ==
    /\ Acts(w, "Reject")
    /\ job[w].row.status \in InApproval
    /\ i \in FirstPending(job[w].steps)
    /\ PayFree(w)
    /\ job' = [job EXCEPT ![w].at = "marked", ![w].i = i]
    /\ UNCHANGED <<pay, steps, receipt, signed, sent>>

CommitReject(w) ==
    /\ At(w, "marked")
    /\ StepFree(w, job[w].i)
    /\ pay' = [pay EXCEPT ![job[w].p].status = "rejected"]
    /\ steps' = [steps EXCEPT ![job[w].p][job[w].i].status = "rejected"]
    /\ Reply(w)
    /\ UNCHANGED <<receipt, signed, sent>>

RejectApproved(w) ==
    /\ Acts(w, "Reject")
    /\ job[w].row.status \in InApproval
    /\ Pending(job[w].steps) = {}
    /\ Move(w, "rejected")
    /\ Reply(w)
    /\ UNCHANGED <<steps, receipt, signed, sent>>

Hold(w) ==
    /\ Acts(w, "Hold")
    /\ job[w].row.status \in InApproval \cup {"draft", "scheduled"}
    /\ Move(w, "on_hold")
    /\ Reply(w)
    /\ UNCHANGED <<steps, receipt, signed, sent>>

-----------------------------------------------------------------------------
(* Payment.                                                                *)

Schedule(w) ==
    /\ Acts(w, "Schedule")
    /\ Ready(w)
    /\ job[w].row.status \in {"function_approved", "treasury_approved", "admin_approved", "scheduled"}
    /\ Move(w, "scheduled")
    /\ Reply(w)
    /\ UNCHANGED <<steps, receipt, signed, sent>>

\* applyReceiptToSource, in the transaction of the execution.
ApplyReceipt(w) == receipt' = (receipt \/ job[w].row.linked)

Execute(w) ==
    /\ Acts(w, "Execute")
    /\ Ready(w)
    /\ job[w].row.status \in {"scheduled", "treasury_approved", "admin_approved"}
    /\ Move(w, "reconciled")
    /\ ApplyReceipt(w)
    /\ sent' = sent \cup {job[w].p}
    /\ Reply(w)
    /\ UNCHANGED <<steps, signed>>

-----------------------------------------------------------------------------
Create(w, p, band) ==
    \/ \E how \in {"draft", "submit", "auto"}, linked \in ManualLinks : Record(w, p, band, how, linked)
    \/ \E how \in {"draft", "submit"} : Insert(w, p, band, how)

Step(w) ==
    \/ Load(w)
    \/ Scan(w)
    \/ Check(w)
    \/ Fail(w)
    \/ Submit(w)
    \/ \E i \in Pending(job[w].steps) : Stamp(w, i) \/ Mark(w, i)
    \/ Recount(w)
    \/ CommitApproval(w)
    \/ CommitReject(w)
    \/ RejectApproved(w)
    \/ Hold(w)
    \/ Schedule(w)
    \/ Execute(w)

Next ==
    \E w \in Workers :
        \/ \E op \in CreateOps : Begin(w, op)
        \/ \E op \in UpdateOps, p \in Payments : Open(w, op, p)
        \/ \E p \in Payments, band \in Bands : Create(w, p, band)
        \/ Step(w)

Spec == Init /\ [][Next]_vars

-----------------------------------------------------------------------------
(* Properties.                                                             *)

\* Rows, chains and the copies a request holds have the columns and values
\* that models.js and the handlers give them.
TypeOK ==
    /\ pay \in [Payments -> PayRow]
    /\ steps \in [Payments -> Seq(StepRow)]
    /\ receipt \in BOOLEAN
    /\ signed \in [Payments -> SUBSET (1..3)]
    /\ sent \subseteq Payments
    /\ job \in [Workers -> Job]

\* The status column and the approval rows tell the same story: a payment in
\* approval stands where statusFromApprovals puts its chain, and one that is
\* scheduled or paid has every step approved.
StatusInv ==
    \A p \in Payments :
        CASE pay[p].status \in InApproval ->
                steps[p] # <<>> /\ pay[p].status = StatusFrom(pay[p].band, steps[p])
          [] pay[p].status \in {"scheduled", "reconciled"} -> AllApproved(steps[p])
          [] pay[p].status \in {"absent", "draft"} -> steps[p] = <<>>
          [] OTHER -> TRUE

\* One document has at most one payment that is not rejected, and is stamped as
\* paid just when that one has been executed: what the idempotency guard of
\* createOutwardFromSource and applyReceiptToSource do together.
SourceInv ==
    /\ \A p, q \in Payments :
          /\ pay[p].linked /\ pay[p].status # "rejected"
          /\ pay[q].linked /\ pay[q].status # "rejected"
          => p = q
    /\ receipt <=> \E p \in Payments : pay[p].linked /\ pay[p].status = "reconciled"

\* "Repeated syncs never create duplicate outward payments" (sourceLink.js).
NoDuplicate == \A p, q \in Payments : Live(p) /\ Live(q) => p = q

\* No money leaves unless every level of the payment's chain has been approved
\* by somebody, or the payment was recorded as approved in advance: approve,
\* reject, submit, schedule and execute in any order and on stale copies.
SignedInv ==
    \A p \in sent : pay[p].auto \/ Levels(pay[p].band) \subseteq signed[p]

\* Approvals given out of order or at the same time never leave a payment
\* stranded: once every step is approved its status is one that
\* scheduleOutwardPayment accepts.
NeverStranded ==
    \A p \in Payments :
        AllApproved(steps[p]) /\ pay[p].status \in InApproval => pay[p].status # "submitted"

\* The phase of a payment in the sense of PaymentLifecycle.
PhaseOf(p) ==
    CASE pay[p].status = "absent"     -> "none"
      [] pay[p].status = "draft"      -> "draft"
      [] pay[p].status = "on_hold"    -> "held"
      [] pay[p].status = "rejected"   -> "rejected"
      [] pay[p].status = "reconciled" -> "paid"
      [] pay[p].status = "scheduled"  -> "approved"
      [] OTHER -> IF AllApproved(steps[p]) THEN "approved" ELSE "approving"

Abstract == INSTANCE PaymentLifecycle
    WITH phase  <- [p \in Payments |-> PhaseOf(p)],
         claims <- {p \in Payments : pay[p].linked}

\* The handlers, served one at a time, implement the promised life cycle: end
\* states are final, money is paid from approved only, and a document is
\* claimed again only after a rejection.
Lifecycle == Abstract!Spec

=============================================================================
