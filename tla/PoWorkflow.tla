------------------------------ MODULE PoWorkflow ------------------------------
(***************************************************************************)
(* The life of one purchase order before goods are received: the approval  *)
(* loop, the vendor loop and the exception paths of src/src/purchaseOrders *)
(* over the two database rows they share (purchase_orders, po_tracking)    *)
(* and the status of the linked procurement request.                       *)
(*                                                                         *)
(* No handler takes a row lock or opens a transaction, so a request is a   *)
(* sequence of steps: the guard middleware reads the exception status, the *)
(* handler reads the PO row, then the tracking row, decides on these       *)
(* copies, and issues one UPDATE per row.  Between two steps any other     *)
(* request may run (server.js under PM2 runs several processes, and every  *)
(* await yields).  Sequelize writes only the columns whose new value       *)
(* differs from the copy the handler loaded: operator Put.                 *)
(***************************************************************************)
EXTENDS Naturals

CONSTANTS
    Workers,         \* requests that can be in flight at the same time
    Ops,             \* the endpoints that clients call
    Classes,         \* commercial classes of the PO
    TrackedColumns,  \* po_tracking columns sent with PUT /po-tracking
    MaxAmendments,   \* bound on amendment_count
    MayAbort         \* may a handler die between two of its writes?

ApprovalOps  == {"Submit", "Forward", "Approve", "RequestChanges", "RejectApproval"}
VendorOps    == {"Send", "Acknowledge", "VendorReject", "Resend", "Reopen"}
ExceptionOps == {"Hold", "Resume", "Cancel", "Amend"}
RecordOps    == {"EditPo", "Track", "ViewTracking"}
AllOps       == ApprovalOps \cup VendorOps \cup ExceptionOps \cup RecordOps

\* The routes that carry the notBlocked middleware.
GuardedOps   == ApprovalOps \cup VendorOps

\* "small": a PO the Procurement Head approves.  "special": the CFO approves
\* because of its type (blanket, spot, consignment, sample above 50k) and it is
\* not above 5L.  "large": above 5L, the CFO approves it and its cancellation.
AllClasses == {"small", "special", "large"}
Columns    == {"released", "confirmed", "rejected", "shipped", "grnComplete"}

ASSUME OpsAssumption        == Ops \subseteq AllOps
ASSUME ClassesAssumption    == Classes \subseteq AllClasses
ASSUME ColumnsAssumption    == TrackedColumns \subseteq Columns
ASSUME AmendmentsAssumption == MaxAmendments \in Nat
ASSUME AbortAssumption      == MayAbort \in BOOLEAN

PoStatus        == {"Draft", "Released", "Cancelled", "Completed"}
ApprovalStatus  == {"none", "under_review", "under_approval", "approved",
                    "changes_requested", "rejected"}
ExceptionStatus == {"none", "on_hold", "cancelled"}
RequestStatus   == {"New", "PO Draft", "PO Released"}

\* One user per kind of usertype: reviewer, CFO side, both, neither.
Roles == {"manager", "accounts_team", "admin", "sales"}

CanActAs(role, need) ==
    \/ role = "admin"
    \/ role = "manager" /\ need = "proc_head"
    \/ role = "accounts_team" /\ need = "cfo"

FinalApprover(class) == IF class = "small" THEN "proc_head" ELSE "cfo"
TwoStep(class)       == FinalApprover(class) = "cfo"

-----------------------------------------------------------------------------
VARIABLES
    po,          \* the purchase_orders row
    trk,         \* the po_tracking row
    pr,          \* status of the linked procurement request
    approvedBy,  \* actor_role of the latest approve entry of po_approval_log
    edited,      \* PUT /purchase-orders/:id has written the row
    lost,        \* a handler has died or lost a write after its first write
    job          \* the request each worker is serving

vars == <<po, trk, pr, approvedBy, edited, lost, job>>

PoRow  == [status: PoStatus, approval: ApprovalStatus, exception: ExceptionStatus,
           class: AllClasses, amendments: 0..MaxAmendments]
TrkRow == [exists: BOOLEAN, released: BOOLEAN, confirmed: BOOLEAN,
           rejected: BOOLEAN, shipped: BOOLEAN, grnComplete: BOOLEAN]

DraftPo(class) == [status |-> "Draft", approval |-> "none", exception |-> "none",
                   class |-> class, amendments |-> 0]
NoTrk == [exists |-> FALSE, released |-> FALSE, confirmed |-> FALSE,
          rejected |-> FALSE, shipped |-> FALSE, grnComplete |-> FALSE]

\* Where a request stands: before its PO query, before its tracking query, at
\* its decision and first write, or before one of its later writes.
Stages == {"idle", "load", "track", "act", "release", "reset", "sync"}
Idle   == [at |-> "idle", op |-> "none", po |-> DraftPo("small"), trk |-> NoTrk]
Job    == [at: Stages, op: Ops \cup {"none"}, po: PoRow, trk: TrkRow]

Init ==
    /\ \E class \in Classes : po = DraftPo(class)
    /\ trk = NoTrk
    /\ pr = "PO Draft"
    /\ approvedBy = "none"
    /\ edited = FALSE
    /\ lost = FALSE
    /\ job = [w \in Workers |-> Idle]

-----------------------------------------------------------------------------
(* The request protocol shared by the handlers.                            *)

\* Value of a column after instance.update: a value equal to the loaded copy
\* is not in the UPDATE, so it leaves whatever the row holds now.
Put(current, loaded, new) == IF new = loaded THEN current ELSE new

\* A DATEONLY column stamped with today's date: the same date as the loaded
\* one is not written, another date is.
Stamped(current, loaded) == IF loaded THEN {current, TRUE} ELSE {TRUE}

At(w, stage)  == job[w].at = stage
Acts(w, op)   == At(w, "act") /\ job[w].op = op
Go(w, stage)  == job' = [job EXCEPT ![w].at = stage]
Reply(w)      == job' = [job EXCEPT ![w] = Idle]

\* upsertTracking: INSERT when no row was loaded (the unique key makes it fail
\* when another request has inserted the row since), UPDATE otherwise.
Upsertable(w) == job[w].trk.exists \/ ~trk.exists

-----------------------------------------------------------------------------
(* Mutated forms, one per checked property: what a plausible slip in the    *)
(* handler of the same name would do.  No action uses them.                 *)

\* Routing: the route lost its notBlocked middleware.
EnterUnguarded(w, op) ==
    /\ At(w, "idle")
    /\ op \in Ops
    /\ job' = [job EXCEPT ![w] = [Idle EXCEPT !.op = op,
                  !.at = IF op \in {"Track", "ViewTracking"} THEN "track" ELSE "load"]]
    /\ UNCHANGED <<po, trk, pr, approvedBy, edited, lost>>

\* Approve: any reviewer may give the final approval.
ApproveByReviewer(w, role) ==
    /\ Acts(w, "Approve")
    /\ job[w].po.approval \in {"under_review", "under_approval"}
    /\ CanActAs(role, "proc_head") \/ CanActAs(role, FinalApprover(job[w].po.class))
    /\ po' = [po EXCEPT !.approval = "approved"]
    /\ approvedBy' = role
    /\ Reply(w)
    /\ UNCHANGED <<trk, pr, edited, lost>>

\* Send: the APPROVAL_REQUIRED gate is gone.
SendUnapproved(w) ==
    /\ Acts(w, "Send")
    /\ Upsertable(w)
    /\ trk' = [trk EXCEPT !.exists = TRUE, !.released = Put(@, job[w].trk.released, TRUE)]
    /\ IF job[w].po.status = "Released" THEN Reply(w) ELSE Go(w, "release")
    /\ UNCHANGED <<po, pr, approvedBy, edited, lost>>

\* Reopen: marks the exception and forgets the status.
ReopenKeepsStatus(w) ==
    /\ Acts(w, "Reopen")
    /\ job[w].trk.rejected
    /\ po' = [po EXCEPT !.exception = "cancelled"]
    /\ Go(w, "sync")
    /\ UNCHANGED <<trk, pr, approvedBy, edited, lost>>

\* Hold: a cancelled PO can be put on hold.
HoldCancelled(w) ==
    /\ Acts(w, "Hold")
    /\ job[w].po.status # "Completed"
    /\ po' = [po EXCEPT !.exception = "on_hold"]
    /\ Reply(w)
    /\ UNCHANGED <<trk, pr, approvedBy, edited, lost>>

\* What an amendment asks for beside the exception status.
SentAndOpen(row, tracking) ==
    /\ row.status # "Completed"
    /\ ~tracking.shipped
    /\ ~tracking.grnComplete
    /\ row.approval = "approved" \/ tracking.released

\* Amend: the approval is reset, the status is not.
AmendKeepsStatus(w) ==
    /\ Acts(w, "Amend")
    /\ job[w].po.exception = "none" /\ SentAndOpen(job[w].po, job[w].trk)
    /\ job[w].po.amendments < MaxAmendments
    /\ po' = [po EXCEPT !.approval = "changes_requested", !.amendments = @ + 1]
    /\ Go(w, IF job[w].trk.exists THEN "reset" ELSE "sync")
    /\ UNCHANGED <<trk, pr, approvedBy, edited, lost>>

\* Amend: the vendor loop is not reset.
AmendSkipsReset(w) ==
    /\ Acts(w, "Amend")
    /\ job[w].po.exception = "none" /\ SentAndOpen(job[w].po, job[w].trk)
    /\ job[w].po.amendments < MaxAmendments
    /\ po' = [po EXCEPT !.status = "Draft", !.approval = "changes_requested",
                        !.amendments = @ + 1]
    /\ Go(w, "sync")
    /\ UNCHANGED <<trk, pr, approvedBy, edited, lost>>

\* ResetVendorLoop: the acknowledgement survives the amendment.
ResetKeepsAnswer(w) ==
    /\ At(w, "reset")
    /\ trk' = [trk EXCEPT !.released = FALSE, !.rejected = FALSE]
    /\ Go(w, "sync")
    /\ UNCHANGED <<po, pr, approvedBy, edited, lost>>

\* RequestTarget: a cancelled PO gives its request a status of its own.
RequestTargetCancelled(op) ==
    CASE op \in {"Send", "EditPo"} -> "PO Released"
      [] op = "Amend" -> "PO Draft"
      [] OTHER -> "Cancelled"

-----------------------------------------------------------------------------
(* The steps every request goes through.                                   *)

\* Routing: isAuthenticated, then notBlocked reads exception_status.
Enter(w, op) ==
    /\ At(w, "idle")
    /\ op \in Ops
    /\ op \in GuardedOps => po.exception = "none"
    /\ job' = [job EXCEPT ![w] = [Idle EXCEPT !.op = op,
                  !.at = IF op \in {"Track", "ViewTracking"} THEN "track" ELSE "load"]]
    /\ UNCHANGED <<po, trk, pr, approvedBy, edited, lost>>

\* PurchaseOrder.findByPk; approval actions and PUT read no tracking row.
LoadPo(w) ==
    /\ At(w, "load")
    /\ job' = [job EXCEPT ![w].po = po,
                          ![w].at = IF job[w].op \in ApprovalOps \cup {"EditPo"}
                                    THEN "act" ELSE "track"]
    /\ UNCHANGED <<po, trk, pr, approvedBy, edited, lost>>

\* PoTracking.findOne
LoadTracking(w) ==
    /\ At(w, "track")
    /\ job' = [job EXCEPT ![w].trk = trk, ![w].at = "act"]
    /\ UNCHANGED <<po, trk, pr, approvedBy, edited, lost>>

\* A 4xx reply, or an error before the first write: nothing was changed.
Refuse(w) ==
    /\ job[w].at \in {"load", "track", "act"}
    /\ Reply(w)
    /\ UNCHANGED <<po, trk, pr, approvedBy, edited, lost>>

\* An error or a process restart after the first write: what was written stays.
Abort(w) ==
    /\ MayAbort
    /\ job[w].at \in {"release", "reset", "sync"}
    /\ lost' = TRUE
    /\ Reply(w)
    /\ UNCHANGED <<po, trk, pr, approvedBy, edited>>

-----------------------------------------------------------------------------
(* Approval loop: approvalController.js                                    *)

Approval(w, status) ==
    /\ po' = [po EXCEPT !.approval = status]
    /\ Reply(w)
    /\ UNCHANGED <<trk, pr, edited, lost>>

Undecided(w) == job[w].po.approval \in {"under_review", "under_approval"}

Submit(w) ==
    /\ Acts(w, "Submit")
    /\ job[w].po.approval \in {"none", "changes_requested", "rejected"}
    /\ Approval(w, "under_review")
    /\ UNCHANGED approvedBy

Forward(w, role) ==
    /\ Acts(w, "Forward")
    /\ job[w].po.approval = "under_review"
    /\ TwoStep(job[w].po.class)
    /\ CanActAs(role, "proc_head")
    /\ Approval(w, "under_approval")
    /\ UNCHANGED approvedBy

Approve(w, role) ==
    /\ Acts(w, "Approve")
    /\ Undecided(w)
    /\ CanActAs(role, FinalApprover(job[w].po.class))
    /\ Approval(w, "approved")
    /\ approvedBy' = role

MayReview(role, class) == CanActAs(role, "proc_head") \/ CanActAs(role, FinalApprover(class))

RequestChanges(w, role) ==
    /\ Acts(w, "RequestChanges")
    /\ Undecided(w)
    /\ MayReview(role, job[w].po.class)
    /\ Approval(w, "changes_requested")
    /\ UNCHANGED approvedBy

RejectApproval(w, role) ==
    /\ Acts(w, "RejectApproval")
    /\ Undecided(w)
    /\ MayReview(role, job[w].po.class)
    /\ Approval(w, "rejected")
    /\ UNCHANGED approvedBy

-----------------------------------------------------------------------------
(* Vendor loop: vendorController.js                                        *)

\* sendPoToVendor: tracking row first, then status and request unless the
\* loaded PO was already released.
Send(w) ==
    /\ Acts(w, "Send")
    /\ job[w].po.approval = "approved"
    /\ Upsertable(w)
    /\ trk' = [trk EXCEPT !.exists = TRUE, !.released = Put(@, job[w].trk.released, TRUE)]
    /\ IF job[w].po.status = "Released" THEN Reply(w) ELSE Go(w, "release")
    /\ UNCHANGED <<po, pr, approvedBy, edited, lost>>

Release(w) ==
    /\ At(w, "release")
    /\ po' = [po EXCEPT !.status = "Released"]
    /\ Go(w, "sync")
    /\ UNCHANGED <<trk, pr, approvedBy, edited, lost>>

Acknowledge(w) ==
    /\ Acts(w, "Acknowledge")
    /\ job[w].trk.released
    /\ ~job[w].trk.rejected
    /\ \E stamp \in Stamped(trk.confirmed, job[w].trk.confirmed) :
          trk' = [trk EXCEPT !.confirmed = stamp]
    /\ Reply(w)
    /\ UNCHANGED <<po, pr, approvedBy, edited, lost>>

VendorReject(w) ==
    /\ Acts(w, "VendorReject")
    /\ job[w].trk.released
    /\ ~job[w].trk.confirmed
    /\ \E stamp \in Stamped(trk.rejected, job[w].trk.rejected) :
          trk' = [trk EXCEPT !.rejected = stamp]
    /\ Reply(w)
    /\ UNCHANGED <<po, pr, approvedBy, edited, lost>>

Resend(w) ==
    /\ Acts(w, "Resend")
    /\ job[w].po.approval = "approved"
    /\ job[w].trk.rejected
    /\ \E stamp \in Stamped(trk.released, job[w].trk.released) :
          trk' = [trk EXCEPT !.rejected = FALSE, !.released = stamp]
    /\ Reply(w)
    /\ UNCHANGED <<po, pr, approvedBy, edited, lost>>

\* reopenAfterReject loads no exception_status, so that column is always written.
Reopen(w) ==
    /\ Acts(w, "Reopen")
    /\ job[w].trk.rejected
    /\ po' = [po EXCEPT !.exception = "cancelled",
                        !.status = Put(@, job[w].po.status, "Cancelled")]
    /\ Go(w, "sync")
    /\ UNCHANGED <<trk, pr, approvedBy, edited, lost>>

-----------------------------------------------------------------------------
(* Exception paths: exceptionController.js                                 *)

Hold(w) ==
    /\ Acts(w, "Hold")
    /\ job[w].po.exception = "none"
    /\ job[w].po.status # "Completed"
    /\ po' = [po EXCEPT !.exception = "on_hold"]
    /\ Reply(w)
    /\ UNCHANGED <<trk, pr, approvedBy, edited, lost>>

Resume(w) ==
    /\ Acts(w, "Resume")
    /\ job[w].po.exception = "on_hold"
    /\ po' = [po EXCEPT !.exception = "none"]
    /\ Reply(w)
    /\ UNCHANGED <<trk, pr, approvedBy, edited, lost>>

Cancel(w, role) ==
    /\ Acts(w, "Cancel")
    /\ job[w].po.exception # "cancelled"
    /\ job[w].po.status # "Completed"
    /\ ~job[w].trk.grnComplete
    /\ job[w].po.class = "large" => CanActAs(role, "cfo")
    /\ po' = [po EXCEPT !.exception = "cancelled",
                        !.status = Put(@, job[w].po.status, "Cancelled")]
    /\ Go(w, "sync")
    /\ UNCHANGED <<trk, pr, approvedBy, edited, lost>>

Amendable(row, tracking) ==
    /\ row.exception = "none"
    /\ row.status # "Completed"
    /\ ~tracking.shipped
    /\ ~tracking.grnComplete
    /\ row.approval = "approved" \/ tracking.released

Amend(w) ==
    /\ Acts(w, "Amend")
    /\ Amendable(job[w].po, job[w].trk)
    /\ job[w].po.amendments < MaxAmendments
    /\ po' = [po EXCEPT !.status = Put(@, job[w].po.status, "Draft"),
                        !.approval = Put(@, job[w].po.approval, "changes_requested"),
                        !.amendments = job[w].po.amendments + 1]
    /\ Go(w, IF job[w].trk.exists THEN "reset" ELSE "sync")
    /\ UNCHANGED <<trk, pr, approvedBy, edited, lost>>

\* The second UPDATE of amendPo clears the vendor loop ...
ResetVendorLoop(w) ==
    /\ At(w, "reset")
    /\ trk' = [trk EXCEPT !.released  = Put(@, job[w].trk.released, FALSE),
                          !.confirmed = Put(@, job[w].trk.confirmed, FALSE),
                          !.rejected  = Put(@, job[w].trk.rejected, FALSE)]
    /\ Go(w, "sync")
    /\ UNCHANGED <<po, pr, approvedBy, edited, lost>>

\* ... and its failure is logged and swallowed.
LoseReset(w) ==
    /\ MayAbort
    /\ At(w, "reset")
    /\ lost' = TRUE
    /\ Go(w, "sync")
    /\ UNCHANGED <<po, trk, pr, approvedBy, edited>>

\* syncRequestStatus: the last write of send, reopen, cancel, amend and PUT.
RequestTarget(op) ==
    CASE op \in {"Send", "EditPo"} -> "PO Released"
      [] op = "Amend" -> "PO Draft"
      [] OTHER -> "New"

SyncRequest(w) ==
    /\ At(w, "sync")
    /\ pr' = RequestTarget(job[w].op)
    /\ Reply(w)
    /\ UNCHANGED <<po, trk, approvedBy, edited, lost>>

-----------------------------------------------------------------------------
(* Plain record endpoints: PUT /purchase-orders/:id, /po-tracking          *)

\* updatePurchaseOrder writes any status and any items the body carries; it
\* syncs the request when the instance it saved says Released.
EditPo(w, status, class) ==
    /\ Acts(w, "EditPo")
    /\ po' = [po EXCEPT !.status = Put(@, job[w].po.status, status),
                        !.class = Put(@, job[w].po.class, class)]
    /\ IF status = "Released" THEN Go(w, "sync") ELSE Reply(w)
    /\ edited' = TRUE
    /\ UNCHANGED <<trk, pr, approvedBy, lost>>

Track(w, column, stamp) ==
    /\ Acts(w, "Track")
    /\ Upsertable(w)
    /\ trk' = [trk EXCEPT !.exists = TRUE, ![column] = Put(@, job[w].trk[column], stamp)]
    /\ Reply(w)
    /\ UNCHANGED <<po, pr, approvedBy, edited, lost>>

\* GET /po-tracking creates the missing row.
ViewTracking(w) ==
    /\ Acts(w, "ViewTracking")
    /\ Upsertable(w)
    /\ trk' = [trk EXCEPT !.exists = TRUE]
    /\ Reply(w)
    /\ UNCHANGED <<po, pr, approvedBy, edited, lost>>

-----------------------------------------------------------------------------
Decide(w, role) ==
    \/ Forward(w, role)
    \/ Approve(w, role)
    \/ RequestChanges(w, role)
    \/ RejectApproval(w, role)
    \/ Cancel(w, role)

Handle(w) ==
    \/ Submit(w)
    \/ Send(w)
    \/ Release(w)
    \/ Acknowledge(w)
    \/ VendorReject(w)
    \/ Resend(w)
    \/ Reopen(w)
    \/ Hold(w)
    \/ Resume(w)
    \/ Amend(w)
    \/ ResetVendorLoop(w)
    \/ LoseReset(w)
    \/ SyncRequest(w)
    \/ ViewTracking(w)

Record(w) ==
    \/ \E status \in PoStatus, class \in Classes : EditPo(w, status, class)
    \/ \E column \in TrackedColumns, stamp \in BOOLEAN : Track(w, column, stamp)

\* What a request in flight does next.
Step(w) ==
    \/ LoadPo(w)
    \/ LoadTracking(w)
    \/ Refuse(w)
    \/ Abort(w)
    \/ \E role \in Roles : Decide(w, role)
    \/ Handle(w)
    \/ Record(w)

Next == \E w \in Workers : (\E op \in AllOps : Enter(w, op)) \/ Step(w)

Spec == Init /\ [][Next]_vars

\* Every await of a handler resolves or rejects, so a request that has started
\* goes on; nothing makes a client send one.
Fairness == \A w \in Workers : WF_vars(Step(w))
FairSpec == Spec /\ Fairness

\* Every row and every copy a request holds has the columns and values that
\* models.js, poTracking/models.js and the handlers give it.
TypeOK ==
    /\ po \in PoRow
    /\ trk \in TrkRow
    /\ pr \in RequestStatus
    /\ approvedBy \in Roles \cup {"none"}
    /\ edited \in BOOLEAN
    /\ lost \in BOOLEAN
    /\ job \in [Workers -> Job]

-----------------------------------------------------------------------------
(* What must be true of the rows.                                          *)

\* A vendor has given one answer: the header of vendorController.js draws
\* ACKNOWLEDGED and REJECTED as the two alternatives that leave SENT.
OneAnswer == ~(trk.confirmed /\ trk.rejected)

\* And the answer belongs to a PO that is out with the vendor: acknowledgePo,
\* rejectPoByVendor, resendToVendor and the reset in amendPo keep the three
\* po_tracking dates consistent.
VendorAnswerInv == OneAnswer /\ (trk.confirmed \/ trk.rejected => trk.released)

\* A Released PO is approved and its tracking row says it was sent: the order
\* of the two writes of sendPoToVendor, and of the two of amendPo, keeps this
\* even when the handler dies between them.  It ends with the first direct edit
\* of the row, which may write any status.
ReleasedIsSent == po.status = "Released" => po.approval = "approved" /\ trk.released
ReleasedInv    == ~edited => ReleasedIsSent

\* exception_status and status tell the same story about cancellation: they
\* are set by one UPDATE in cancelPo and in reopenAfterReject, and no other
\* handler moves one of them away from it.
CancelAgrees == po.exception = "cancelled" <=> po.status = "Cancelled"
CancelInv    == ~edited => CancelAgrees

\* No PO is approved, sent or Released unless a user who may act as the final
\* approver of the PO as it is now has approved it (poApprovalMatrix.js,
\* poApprovalRoles.js, the APPROVAL_REQUIRED gates of vendorController.js).
Sanctioned ==
    po.approval = "approved" \/ trk.released \/ po.status = "Released"
        => CanActAs(approvedBy, FinalApprover(po.class))
AuthorisedInv == ~edited => Sanctioned

AllIdle == \A w \in Workers : At(w, "idle")

\* When no request is in flight and none has died half way, the request and the
\* tracking row agree with the PO: cancelled reopens the request, released is
\* out with the vendor, and an amended PO is back to a draft the vendor has not
\* been sent (sendPoToVendor, cancelPo, reopenAfterReject, amendPo).
RequestInv ==
    AllIdle /\ ~lost /\ ~edited =>
        CASE po.status = "Released"  -> pr = "PO Released" /\ trk.released
          [] po.status = "Cancelled" -> pr = "New"
          [] OTHER                   -> pr = "PO Draft" /\ ~trk.released

\* The columns that the approval and vendor loops move, but for the status.
loops == <<po.approval, po.amendments, trk.released, trk.confirmed, trk.rejected>>

\* HOLD pauses the workflow: while a PO stays on hold nothing but the record
\* endpoints changes it (poExceptionGuard.js and the gates of computeState).
HoldPauses ==
    [][po.exception = "on_hold" /\ po'.exception = "on_hold"
         => UNCHANGED loops /\ (~edited' => po'.status = po.status)]_vars

\* A cancelled PO stays cancelled, and the workflow never moves it again,
\* whatever is edited.
CancelIsFinal ==
    [][po.exception = "cancelled" => po'.exception = "cancelled" /\ UNCHANGED loops]_vars

\* Requests that have passed the guard, or the self-gate of amendPo, and may
\* still move the workflow.
Moving == {w \in Workers : /\ job[w].op \in GuardedOps \cup {"Amend"}
                           /\ \/ job[w].op \in GuardedOps
                              \/ ~At(w, "load") /\ job[w].po.exception = "none"}

\* A PO that stays on hold comes to rest: the requests that were under way when
\* it was blocked end, and the guards let no others follow them for ever.
HoldComesToRest == <>[](po.exception = "on_hold") => <>[](Moving = {})

=============================================================================
