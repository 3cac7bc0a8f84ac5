---------------------------- MODULE PoSettlement ----------------------------
(***************************************************************************)
(* From the goods receipt to the closing of one purchase order that has    *)
(* been sent to its vendor: invoice and three-way match, payment by hand   *)
(* or through the treasury, short close, return to vendor (RTV), closing   *)
(* (matchController.js, grnExceptionController.js), with the hold, resume  *)
(* and cancel of exceptionController.js.                                   *)
(*                                                                         *)
(* A request passes the notBlocked middleware, loads the order, its        *)
(* tracking row, its goods receipts and its latest treasury payment,       *)
(* decides on these copies, and writes one row after the other without a   *)
(* transaction.  The warehouse, PUT /po-tracking and the treasury write    *)
(* the same rows; the payments themselves live as PaymentLifecycle says.   *)
(***************************************************************************)
EXTENDS Naturals, FiniteSets

CONSTANTS
    Workers,       \* requests of the purchase-order routes in flight
    Endpoints,     \* the routes that clients call
    MaxOutwards,   \* bound on the treasury payments made out for the order
    Overlap,       \* may other modules write while a request is in flight?
    LookupsFail    \* may a query fail whose error the handler swallows?

MatchOps     == {"Invoice", "Override", "Pay", "Send", "Close"}
GrnOps       == {"ShortClose", "RaiseRtv", "ResolveRtv"}
ExceptionOps == {"Hold", "Resume", "Cancel"}

\* The routes that carry the notBlocked middleware.
GuardedOps == MatchOps \cup GrnOps

ASSUME EndpointsAssumption   == Endpoints \subseteq GuardedOps \cup ExceptionOps
ASSUME MaxOutwardsAssumption == MaxOutwards \in Nat
ASSUME OverlapAssumption     == Overlap \in BOOLEAN
ASSUME LookupsAssumption     == LookupsFail \in BOOLEAN

Outwards   == 1..MaxOutwards
Quantities == {"none", "part", "full"}   \* what an invoice is worth of the order

-----------------------------------------------------------------------------
VARIABLES
    po,        \* the purchase_orders row
    trk,       \* the po_tracking row
    pr,        \* status of the linked procurement request
    grn,       \* what the goods receipts of the order say
    phase,     \* treasury payments: phase of each ...
    claims,    \* ... and those made out for the order, in order of their id
    hand,      \* number of payments recorded by hand
    accepted,  \* the invoice whose variance is accepted, while one is
    wiped,     \* PUT /po-tracking has cleared the number of a treasury payment
    lost,      \* a handler has died or failed after its first write
    job        \* the request each worker is serving

vars == <<po, trk, pr, grn, phase, claims, hand, accepted, wiped, lost, job>>

Treasury == INSTANCE PaymentLifecycle WITH Payments <- Outwards

\* No handler here tells an RTV that was resolved from none, or an order of which
\* nothing has been received from one of which a part has.
PoRow  == [status: {"Released", "Completed", "Cancelled"},
           exception: {"none", "on_hold", "cancelled"},
           short: BOOLEAN, rtv: {"none", "raised"}]
TrkRow == [invoice: Quantities, match: {"none", "pass", "variance", "overridden"},
           finalPaid: BOOLEAN, transaction: BOOLEAN, grnComplete: BOOLEAN, closed: BOOLEAN]
Grns   == [received: {"part", "full"}, complete: BOOLEAN]

SentPo  == [status |-> "Released", exception |-> "none", short |-> FALSE, rtv |-> "none"]
SentTrk == [invoice |-> "none", match |-> "none", finalPaid |-> FALSE,
            transaction |-> FALSE, grnComplete |-> FALSE, closed |-> FALSE]
NoGrns  == [received |-> "part", complete |-> FALSE]

\* Where a request stands: before its queries, at its decision and first write,
\* before the status of the order, its match, its request, or the treasury.
Stages == {"idle", "load", "act", "complete", "accept", "finish", "reopen", "push"}
Idle   == [at |-> "idle", op |-> "none", po |-> SentPo, trk |-> SentTrk, grn |-> NoGrns,
           latest |-> "none"]
Job    == [at: Stages, op: GuardedOps \cup ExceptionOps \cup {"none"}, po: PoRow, trk: TrkRow,
           grn: Grns, latest: Treasury!Phases]

Init ==
    /\ po = SentPo /\ trk = SentTrk /\ pr = "PO Released" /\ grn = NoGrns
    /\ Treasury!Init
    /\ hand = 0 /\ accepted = "none" /\ wiped = FALSE /\ lost = FALSE
    /\ job = [w \in Workers |-> Idle]

At(w, stage) == job[w].at = stage
Acts(w, op)  == At(w, "act") /\ job[w].op = op
Go(w, stage) == job' = [job EXCEPT ![w].at = stage]
Reply(w)     == job' = [job EXCEPT ![w] = Idle]

\* A column equal to the loaded copy is not part of the UPDATE.
Put(current, loaded, new) == IF new = loaded THEN current ELSE new

-----------------------------------------------------------------------------
(* What a handler derives from its copies (computeThreeWayMatch,           *)
(* buildMatchState, computeState).                                         *)

\* Every line received as ordered, and the invoice worth what was received.
Verdict(received, invoice) ==
    CASE invoice = "none"                        -> "awaiting_invoice"
      [] received = "full" /\ invoice = received -> "pass"
      [] OTHER                                   -> "variance"

GrnDone(w)      == job[w].trk.grnComplete \/ job[w].grn.complete
MatchCleared(w) == \/ Verdict(job[w].grn.received, job[w].trk.invoice) = "pass"
                   \/ job[w].trk.match = "overridden"
Cleared(w)      == GrnDone(w) /\ MatchCleared(w) /\ job[w].po.rtv # "raised"

\* loadTreasuryLink: the payment with the highest id.
Latest == IF claims = {} THEN "none" ELSE phase[Cardinality(claims)]

\* No payment of the order is on its way: createOutwardFromSource.
NoneLive == \A p \in claims : phase[p] \in {"rejected", "paid"}

-----------------------------------------------------------------------------
(* The request protocol.                                                   *)

\* Mutated: IsPaid looks for a transaction number and at the treasury only.
IsPaidByNumber(w) == job[w].trk.transaction \/ job[w].latest = "paid"

IsPaid(w) == job[w].trk.finalPaid \/ job[w].trk.transaction \/ job[w].latest = "paid"

Begin(w, op) ==
    /\ At(w, "idle")
    /\ op \in GuardedOps => po.exception = "none"
    /\ job' = [job EXCEPT ![w] = [Idle EXCEPT !.op = op, !.at = "load"]]
    /\ UNCHANGED <<po, trk, pr, grn, phase, claims, hand, accepted, wiped, lost>>

\* What a request finds of a row that some handlers decide on.
Found(w, readers, row, nothing) ==
    IF job[w].op \notin readers THEN {nothing}
    ELSE {row} \cup (IF LookupsFail THEN {nothing} ELSE {})

\* loadContext, loadCtx, loadTreasuryLink: a query for the receipts or for the
\* payment that fails counts as one that found nothing.
Load(w) ==
    /\ At(w, "load")
    /\ \E g \in Found(w, GuardedOps \ {"Override", "ResolveRtv"}, grn, NoGrns),
          l \in Found(w, {"Pay", "Send"}, Latest, "none") :
          job' = [job EXCEPT ![w].at = "act", ![w].po = po, ![w].trk = trk, ![w].grn = g,
                             ![w].latest = l]
    /\ UNCHANGED <<po, trk, pr, grn, phase, claims, hand, accepted, wiped, lost>>

\* A 4xx reply, or an error before the first write.
Refuse(w) ==
    /\ At(w, "act") \/ At(w, "push")
    /\ Reply(w)
    /\ UNCHANGED <<po, trk, pr, grn, phase, claims, hand, accepted, wiped, lost>>

\* A crash, an error, or a swallowed failure between two writes; shortClosePo
\* goes on to the request when the match could not be written.
Abort(w) ==
    /\ job[w].at \in {"complete", "accept", "finish", "reopen"}
    /\ lost' = TRUE
    /\ Reply(w) \/ (At(w, "accept") /\ Go(w, "reopen"))
    /\ UNCHANGED <<po, trk, pr, grn, phase, claims, hand, accepted, wiped>>

WriteTrk(w, column, value) ==
    trk' = [trk EXCEPT ![column] = Put(@, job[w].trk[column], value)]

WritePo(w, column, value) ==
    po' = [po EXCEPT ![column] = Put(@, job[w].po[column], value)]

-----------------------------------------------------------------------------
(* Match, payment and closing.                                             *)

\* Mutated: Invoice compares amounts and leaves an accepted variance accepted.
InvoiceKeepsOverride(w, invoice) ==
    /\ Acts(w, "Invoice")
    /\ trk' = [trk EXCEPT !.invoice = Put(@, job[w].trk.invoice, invoice)]
    /\ Reply(w)
    /\ UNCHANGED <<po, pr, grn, phase, claims, hand, accepted, wiped, lost>>

\* captureInvoice: at any time, whatever has been matched, paid or closed.
Invoice(w, invoice) ==
    /\ Acts(w, "Invoice")
    /\ trk' = [trk EXCEPT
          !.invoice = Put(@, job[w].trk.invoice, invoice),
          !.match = Put(@, job[w].trk.match, Verdict(job[w].grn.received, invoice))]
    /\ accepted' = IF trk'.match = "overridden" THEN accepted ELSE "none"
    /\ Reply(w)
    /\ UNCHANGED <<po, pr, grn, phase, claims, hand, wiped, lost>>

Override(w) ==
    /\ Acts(w, "Override")
    /\ job[w].trk.invoice # "none"
    /\ WriteTrk(w, "match", "overridden")
    /\ accepted' = job[w].trk.invoice
    /\ Reply(w)
    /\ UNCHANGED <<po, pr, grn, phase, claims, hand, wiped, lost>>

\* recordFinalPayment; the transaction number is optional.
Pay(w, numbered) ==
    /\ Acts(w, "Pay")
    /\ Cleared(w) /\ ~IsPaid(w)
    /\ trk' = [trk EXCEPT !.finalPaid = TRUE,
                          !.transaction = Put(@, job[w].trk.transaction, numbered)]
    /\ hand' = hand + 1
    /\ Reply(w)
    /\ UNCHANGED <<po, pr, grn, phase, claims, accepted, wiped, lost>>

\* closePo: the tracking row, then the order, then the request.
Close(w) ==
    /\ Acts(w, "Close")
    /\ Cleared(w) /\ ~job[w].trk.closed
    /\ WriteTrk(w, "closed", TRUE)
    /\ Go(w, "complete")
    /\ UNCHANGED <<po, pr, grn, phase, claims, hand, accepted, wiped, lost>>

\* Mutated: Complete gives the order the status of its tracking row.
CompleteAsClosed(w) ==
    /\ At(w, "complete")
    /\ WritePo(w, "status", "Closed")
    /\ Go(w, "finish")
    /\ UNCHANGED <<trk, pr, grn, phase, claims, hand, accepted, wiped, lost>>

Complete(w) ==
    /\ At(w, "complete")
    /\ WritePo(w, "status", "Completed")
    /\ Go(w, "finish")
    /\ UNCHANGED <<trk, pr, grn, phase, claims, hand, accepted, wiped, lost>>

SyncRequest(w) ==
    /\ job[w].at \in {"finish", "reopen"}
    /\ pr' = IF At(w, "finish") THEN "Completed" ELSE "New"
    /\ Reply(w)
    /\ UNCHANGED <<po, trk, grn, phase, claims, hand, accepted, wiped, lost>>

\* sendToTreasury: any earlier payment, a rejected one too, counts as sent.
Send(w) ==
    /\ Acts(w, "Send")
    /\ Cleared(w) /\ job[w].latest = "none"
    /\ Go(w, "push")
    /\ UNCHANGED <<po, trk, pr, grn, phase, claims, hand, accepted, wiped, lost>>

\* createOutwardFromSource: an existing payment is returned as it is.
Claim ==
    /\ NoneLive
    /\ LET p == Cardinality(claims) + 1
       IN  /\ p \in Outwards
           /\ phase' = [phase EXCEPT ![p] = "approving"]
           /\ claims' = claims \cup {p}

Push(w) ==
    /\ At(w, "push")
    /\ Claim \/ (~NoneLive /\ UNCHANGED <<phase, claims>>)
    /\ Reply(w)
    /\ UNCHANGED <<po, trk, pr, grn, hand, accepted, wiped, lost>>

-----------------------------------------------------------------------------
(* Exceptions at the goods receipt, hold, resume, cancel.                  *)

\* shortClosePo: the order, then the match, then the request.
ShortClose(w) ==
    /\ Acts(w, "ShortClose")
    /\ GrnDone(w) /\ job[w].grn.received # "full"
    /\ ~job[w].po.short /\ job[w].po.exception # "cancelled"
    /\ WritePo(w, "short", TRUE)
    /\ Go(w, "accept")
    /\ UNCHANGED <<trk, pr, grn, phase, claims, hand, accepted, wiped, lost>>

Accept(w) ==
    /\ At(w, "accept")
    /\ WriteTrk(w, "match", "overridden")
    /\ accepted' = job[w].trk.invoice
    /\ Go(w, "reopen")
    /\ UNCHANGED <<po, pr, grn, phase, claims, hand, wiped, lost>>

RaiseRtv(w) ==
    /\ Acts(w, "RaiseRtv")
    /\ GrnDone(w) /\ job[w].po.rtv # "raised" /\ job[w].po.exception # "cancelled"
    /\ WritePo(w, "rtv", "raised")
    /\ Reply(w)
    /\ UNCHANGED <<trk, pr, grn, phase, claims, hand, accepted, wiped, lost>>

ResolveRtv(w) ==
    /\ Acts(w, "ResolveRtv")
    /\ job[w].po.rtv = "raised"
    /\ WritePo(w, "rtv", "none")
    /\ Reply(w)
    /\ UNCHANGED <<trk, pr, grn, phase, claims, hand, accepted, wiped, lost>>

Hold(w) ==
    /\ Acts(w, "Hold")
    /\ job[w].po.exception = "none" /\ job[w].po.status # "Completed"
    /\ WritePo(w, "exception", "on_hold")
    /\ Reply(w)
    /\ UNCHANGED <<trk, pr, grn, phase, claims, hand, accepted, wiped, lost>>

Resume(w) ==
    /\ Acts(w, "Resume")
    /\ job[w].po.exception = "on_hold"
    /\ WritePo(w, "exception", "none")
    /\ Reply(w)
    /\ UNCHANGED <<trk, pr, grn, phase, claims, hand, accepted, wiped, lost>>

\* Mutated: Cancel without the check of the completed status.
CancelClosed(w) ==
    /\ Acts(w, "Cancel")
    /\ job[w].po.exception # "cancelled" /\ ~job[w].trk.grnComplete
    /\ po' = [po EXCEPT !.exception = "cancelled",
                        !.status = Put(@, job[w].po.status, "Cancelled")]
    /\ Go(w, "reopen")
    /\ UNCHANGED <<trk, pr, grn, phase, claims, hand, accepted, wiped, lost>>

\* cancelPo looks at the tracking row only, not at the goods receipts.
Cancel(w) ==
    /\ Acts(w, "Cancel")
    /\ job[w].po.exception # "cancelled" /\ job[w].po.status # "Completed"
    /\ ~job[w].trk.grnComplete
    /\ po' = [po EXCEPT !.exception = "cancelled",
                        !.status = Put(@, job[w].po.status, "Cancelled")]
    /\ Go(w, "reopen")
    /\ UNCHANGED <<trk, pr, grn, phase, claims, hand, accepted, wiped, lost>>

-----------------------------------------------------------------------------
(* Other modules.                                                          *)

Quiet == Overlap \/ \A w \in Workers : At(w, "idle")

\* The warehouse books goods, and completes a receipt.
Receive ==
    /\ Quiet
    /\ \/ grn' = [grn EXCEPT !.received = "full"]
       \/ grn' = [grn EXCEPT !.complete = TRUE]
    /\ UNCHANGED <<po, trk, pr, phase, claims, hand, accepted, wiped, lost, job>>

TreasuryPaid == \E p \in claims : phase[p] = "paid"

\* PUT /po-tracking: sets or clears the receipt date or a transaction number (that
\* of an advance, or the one a payment has left).
Track(column, present) ==
    /\ Quiet
    /\ trk' = [trk EXCEPT ![column] = present]
    /\ wiped' = (\/ wiped
                 \/ column = "transaction" /\ trk.transaction /\ ~present /\ TreasuryPaid)
    /\ UNCHANGED <<po, pr, grn, phase, claims, hand, accepted, lost, job>>

\* Mutated: Sync without the filter on the transaction number.
SyncAll ==
    /\ Quiet
    /\ trk.grnComplete
    /\ Claim
    /\ UNCHANGED <<po, trk, pr, grn, hand, accepted, wiped, lost, job>>

\* syncProcurementPayables.
Sync ==
    /\ Quiet
    /\ trk.grnComplete /\ ~trk.transaction
    /\ Claim
    /\ UNCHANGED <<po, trk, pr, grn, hand, accepted, wiped, lost, job>>

Decide(p) ==
    /\ Quiet
    /\ Treasury!Authorise(p) \/ Treasury!Reject(p) \/ Treasury!Hold(p)
    /\ UNCHANGED <<po, trk, pr, grn, hand, accepted, wiped, lost, job>>

\* Mutated: ApplyReceipt leaves the columns of the three-way match alone.
ApplyNumber == trk' = [trk EXCEPT !.transaction = TRUE]

\* applyReceiptToSource, in the transaction of the execution.
ApplyReceipt == trk' = [trk EXCEPT !.transaction = TRUE, !.finalPaid = TRUE]

Execute(p) ==
    /\ Quiet
    /\ Treasury!Pay(p)
    /\ ApplyReceipt
    /\ UNCHANGED <<po, pr, grn, hand, accepted, wiped, lost, job>>

-----------------------------------------------------------------------------
Step(w) ==
    \/ \E op \in Endpoints : Begin(w, op)
    \/ Load(w) \/ Refuse(w) \/ Abort(w)
    \/ \E invoice \in {"part", "full"} : Invoice(w, invoice)
    \/ Override(w)
    \/ \E numbered \in BOOLEAN : Pay(w, numbered)
    \/ Close(w) \/ Complete(w) \/ SyncRequest(w)
    \/ Send(w) \/ Push(w)
    \/ ShortClose(w) \/ Accept(w)
    \/ RaiseRtv(w) \/ ResolveRtv(w)
    \/ Hold(w) \/ Resume(w) \/ Cancel(w)

Next ==
    \/ \E w \in Workers : Step(w)
    \/ Receive
    \/ \E column \in {"grnComplete", "transaction"}, present \in BOOLEAN : Track(column, present)
    \/ Sync
    \/ \E p \in Outwards : Decide(p) \/ Execute(p)

Spec == Init /\ [][Next]_vars

-----------------------------------------------------------------------------
(* Properties.                                                             *)

\* Rows, copies and history variables have the columns and values that
\* models.js and the handlers give them.
TypeOK ==
    /\ po \in PoRow /\ trk \in TrkRow /\ grn \in Grns
    /\ pr \in {"PO Released", "New", "Completed"}
    /\ phase \in [Outwards -> Treasury!Phases] /\ claims \subseteq Outwards
    /\ hand \in Nat
    /\ accepted \in Quantities /\ wiped \in BOOLEAN /\ lost \in BOOLEAN
    /\ job \in [Workers -> Job]

\* The order is marked as finally paid just when somebody has paid it, by hand
\* (recordFinalPayment) or through the treasury (applyReceiptToSource), and no
\* other write of any module wipes the mark.
PaidInv == trk.finalPaid <=> hand > 0 \/ TreasuryPaid

\* recordFinalPayment never pays an order that is already paid, whichever of
\* its three marks shows it: the date, the number, the treasury's own status.
PaysUnpaidOnly == [][hand' # hand => hand = 0 /\ ~TreasuryPaid]_vars

Resting == ~lost /\ \A w \in Workers : At(w, "idle")

\* What closePo writes later implies what it writes first, wherever it dies.
WriteOrder ==
    /\ po.status = "Completed" => trk.closed
    /\ pr = "Completed" => po.status = "Completed"

\* The three rows agree on what is closed (closePo), and nothing done later to
\* an order that is closed undoes it: cancelPo, shortClosePo, holdPo.  After a
\* handler has died half way, only the order of its writes is left.
ClosedInv ==
    /\ WriteOrder
    /\ Resting =>
          /\ trk.closed <=> po.status = "Completed"
          /\ trk.closed => pr = "Completed" \/ (po.short /\ pr = "New")
          /\ po.exception = "cancelled" => ~trk.closed /\ pr = "New"

\* A variance is accepted for one invoice: capturing another one takes the
\* acceptance back (captureInvoice, overrideMatch, shortClosePo).
OverrideInv == trk.match = "overridden" => accepted = trk.invoice

\* What makes an order that the treasury has paid look unpaid: its number is gone,
\* or sendToTreasury pushes after a query for the payment that failed.
Excused == wiped \/ (LookupsFail /\ \E w \in Workers : At(w, "push"))

\* Neither sendToTreasury nor syncProcurementPayables makes out a payment for an
\* order that the treasury has paid, although the guard of createOutwardFromSource
\* lets paid ones pass; but for the two cases that hide the payment.
ClaimsUnpaidOnly == [][claims' # claims /\ TreasuryPaid => Excused]_vars

\* "RTV ... BLOCK payment/close until resolved" (grnExceptionController.js): no
\* money leaves, by hand or through the treasury, while one is open.
RtvBlocksPayment ==
    [][hand' # hand \/ (\E p \in Outwards : phase[p] # "paid" /\ phase'[p] = "paid")
         => po.rtv # "raised"]_vars

=============================================================================
