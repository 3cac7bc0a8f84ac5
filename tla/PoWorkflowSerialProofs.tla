------------------------ MODULE PoWorkflowSerialProofs ------------------------
(***************************************************************************)
(* What the handlers guarantee when requests do not overlap, for every     *)
(* class, amendment bound and place where a handler may die.  The PO row   *)
(* may be edited directly (PUT) at any time: that ends what is said of the *)
(* columns it overwrites, and nothing else.                                *)
(***************************************************************************)
EXTENDS PoWorkflowProofs

\* Requests are served one at a time.
OneAtATime == \A v, w \in Workers : v = w

\* The copies a lone request decides on are the rows, and a request past its
\* first write finds what that write, and its guard, left.
CopyFresh(w) ==
    /\ job[w].at \in {"track", "act"} /\ job[w].op \notin {"Track", "ViewTracking"}
          => job[w].po = po
    /\ job[w].at = "act" /\ job[w].op \notin ApprovalOps \cup {"EditPo"}
          => job[w].trk = trk
    /\ job[w].at \in {"load", "track", "act", "release"} /\ job[w].op \in GuardedOps
          => po.exception = "none"
    /\ job[w].at = "release"
          => po.approval = "approved" /\ trk.released /\ job[w].op = "Send"
    /\ job[w].at = "reset"
          => job[w].trk = trk /\ po.status = "Draft" /\ po.exception = "none"

\* The rows agree at every point of the writes; a direct edit of the PO spoils
\* what is said of its status, and nothing else.
RowsAgree == VendorAnswerInv /\ (~edited => ReleasedIsSent /\ CancelAgrees)
SerialInd == RowsAgree /\ \A w \in Workers : CopyFresh(w)

\* A request that replies, or that only its sync is left of, holds no copy.
LEMMA DoneIsFresh ==
    ASSUME TypeOK, OneAtATime, NEW w \in Workers, Reply(w) \/ Go(w, "sync")
    PROVE  \A v \in Workers : CopyFresh(v)'
<1>1. job'[w].at \in {"idle", "sync"}
    BY DEF Reply, Go, Idle, TypeOK, Job
<1>2. QED
    BY <1>1 DEF OneAtATime, CopyFresh

LEMMA SerialProtocol ==
    ASSUME TypeOK, OneAtATime, edited => edited', SerialInd, NEW w \in Workers,
           \/ \E op \in AllOps : Enter(w, op)
           \/ LoadPo(w) \/ LoadTracking(w) \/ Refuse(w) \/ Abort(w)
    PROVE  SerialInd'
<1>1. UNCHANGED <<po, trk>>
    BY DEF Enter, LoadPo, LoadTracking, Refuse, Abort
<1>2. RowsAgree'
    BY <1>1 DEF SerialInd, RowsAgree, VendorAnswerInv, OneAnswer, ReleasedIsSent, CancelAgrees
<1>3. ASSUME NEW op \in AllOps, Enter(w, op) PROVE CopyFresh(w)'
  <2>1. job'[w].op = op /\ job'[w].at \in {"load", "track"}
        /\ (job'[w].at = "track" => op \in {"Track", "ViewTracking"})
      BY <1>3 DEF Enter, TypeOK, Idle
  <2>2. op \in GuardedOps => po'.exception = "none"
      BY <1>1, <1>3 DEF Enter
  <2>3. QED
      BY <2>1, <2>2 DEF CopyFresh
<1>4. ASSUME LoadPo(w) PROVE CopyFresh(w)'
  <2>1. job'[w].po = po /\ job'[w].op = job[w].op /\ At(w, "load")
        /\ job'[w].at = IF job[w].op \in ApprovalOps \cup {"EditPo"} THEN "act" ELSE "track"
      BY <1>4 DEF LoadPo, TypeOK, Job
  <2>2. QED
      BY <1>1, <2>1 DEF SerialInd, CopyFresh, At
<1>5. ASSUME LoadTracking(w) PROVE CopyFresh(w)'
  <2>1. job'[w].trk = trk /\ job'[w].po = job[w].po /\ job'[w].op = job[w].op
        /\ job'[w].at = "act" /\ At(w, "track")
      BY <1>5 DEF LoadTracking, TypeOK, Job
  <2>2. QED
      BY <1>1, <2>1 DEF SerialInd, CopyFresh, At
<1>6. CASE Refuse(w) \/ Abort(w)
    BY <1>2, <1>6, DoneIsFresh DEF Refuse, Abort, SerialInd
<1>7. QED
    BY <1>2, <1>3, <1>4, <1>5, <1>6 DEF SerialInd, OneAtATime

LEMMA SerialDecide ==
    ASSUME TypeOK, OneAtATime, edited => edited', SerialInd, NEW w \in Workers, NEW role \in Roles,
           Decide(w, role) \/ Submit(w)
    PROVE  SerialInd'
<1>1. CASE Cancel(w, role)
  <2>1. job[w].po = po
      BY <1>1 DEF Cancel, Acts, At, SerialInd, CopyFresh
  <2>2. po'.exception = "cancelled" /\ po'.status = "Cancelled"
      BY <1>1, <2>1 DEF Cancel, Put, TypeOK, PoRow
  <2>3. RowsAgree'
      BY <1>1, <2>2 DEF Cancel, SerialInd, RowsAgree, VendorAnswerInv, OneAnswer,
                        ReleasedIsSent, CancelAgrees
  <2>4. QED
      BY <1>1, <2>3, DoneIsFresh DEF Cancel, SerialInd
<1>2. CASE ~Cancel(w, role)
  <2>1. UNCHANGED trk /\ Reply(w)
        /\ po'.status = po.status /\ po'.exception = po.exception
      BY <1>2 DEF Decide, Submit, Forward, Approve, RequestChanges, RejectApproval, Approval,
                  TypeOK, PoRow
  <2>2. po.approval # "approved"
    <3>1. job[w].po = po
        BY <1>2 DEF Decide, Submit, Forward, Approve, RequestChanges, RejectApproval, Acts, At,
                    SerialInd, CopyFresh
    <3>2. QED
        BY <1>2, <3>1 DEF Decide, Submit, Forward, Approve, RequestChanges, RejectApproval,
                          Approval, Undecided, TypeOK, PoRow
  <2>3. RowsAgree'
      BY <2>1, <2>2 DEF SerialInd, RowsAgree, VendorAnswerInv, OneAnswer, ReleasedIsSent, CancelAgrees
  <2>4. QED
      BY <2>1, <2>3, DoneIsFresh DEF SerialInd
<1>3. QED
    BY <1>1, <1>2

LEMMA SerialVendor ==
    ASSUME TypeOK, OneAtATime, edited => edited', SerialInd, NEW w \in Workers,
           \/ Send(w) \/ Release(w) \/ Acknowledge(w)
           \/ VendorReject(w) \/ Resend(w) \/ Reopen(w)
    PROVE  SerialInd'
<1>1. CASE Send(w)
  <2>1. job[w].po = po /\ job[w].trk = trk /\ po.exception = "none" /\ po.approval = "approved"
      BY <1>1 DEF Send, Acts, At, SerialInd, CopyFresh, ApprovalOps, GuardedOps, VendorOps
  <2>2. trk'.released /\ trk'.confirmed = trk.confirmed /\ trk'.rejected = trk.rejected
      BY <1>1, <2>1 DEF Send, Put, TypeOK, TrkRow
  <2>3. RowsAgree'
      BY <1>1, <2>1, <2>2 DEF Send, SerialInd, RowsAgree, VendorAnswerInv, OneAnswer,
                              ReleasedIsSent, CancelAgrees
  <2>4. CASE Reply(w)
      BY <2>3, <2>4, DoneIsFresh DEF SerialInd
  <2>5. CASE Go(w, "release")
    <3>1. job'[w].at = "release" /\ job'[w].op = "Send"
        BY <1>1, <2>5 DEF Send, Acts, Go, TypeOK, Job
    <3>2. UNCHANGED po
        BY <1>1 DEF Send
    <3>3. CopyFresh(w)'
        BY <2>1, <2>2, <3>1, <3>2 DEF CopyFresh
    <3>4. QED
        BY <2>3, <3>3 DEF SerialInd, OneAtATime
  <2>6. QED
      BY <1>1, <2>4, <2>5 DEF Send
<1>2. CASE Release(w)
  <2>1. po.approval = "approved" /\ trk.released /\ po.exception = "none"
      BY <1>2 DEF Release, At, SerialInd, CopyFresh, GuardedOps, VendorOps
  <2>2. po'.approval = "approved" /\ po'.exception = "none" /\ po'.status = "Released"
      BY <1>2, <2>1 DEF Release, TypeOK, PoRow
  <2>3. RowsAgree'
      BY <1>2, <2>1, <2>2 DEF Release, SerialInd, RowsAgree, VendorAnswerInv, OneAnswer,
                              ReleasedIsSent, CancelAgrees
  <2>4. QED
      BY <1>2, <2>3, DoneIsFresh DEF Release, SerialInd
<1>3. CASE Acknowledge(w) \/ VendorReject(w) \/ Resend(w)
  <2>1. job[w].trk = trk
      BY <1>3 DEF Acknowledge, VendorReject, Resend, Acts, At, SerialInd, CopyFresh, ApprovalOps
  <2>2. trk.released => trk'.released
      BY <1>3, <2>1 DEF Acknowledge, VendorReject, Resend, Stamped, TypeOK, TrkRow
  <2>3. VendorAnswerInv'
    <3>1. CASE Acknowledge(w)
        BY <2>1, <3>1 DEF Acknowledge, SerialInd, RowsAgree, VendorAnswerInv, OneAnswer, TypeOK,
                          TrkRow
    <3>2. CASE VendorReject(w)
        BY <2>1, <3>2 DEF VendorReject, SerialInd, RowsAgree, VendorAnswerInv, OneAnswer, TypeOK,
                          TrkRow
    <3>3. CASE Resend(w)
        BY <2>1, <3>3 DEF Resend, Stamped, SerialInd, RowsAgree, VendorAnswerInv, OneAnswer,
                          TypeOK, TrkRow
    <3>4. QED
        BY <1>3, <3>1, <3>2, <3>3
  <2>4. UNCHANGED po /\ Reply(w)
      BY <1>3 DEF Acknowledge, VendorReject, Resend
  <2>5. QED
      BY <2>2, <2>3, <2>4, DoneIsFresh DEF SerialInd, RowsAgree, ReleasedIsSent, CancelAgrees
<1>4. CASE Reopen(w)
  <2>1. job[w].po = po
      BY <1>4 DEF Reopen, Acts, At, SerialInd, CopyFresh
  <2>2. po'.exception = "cancelled" /\ po'.status = "Cancelled"
      BY <1>4, <2>1 DEF Reopen, Put, TypeOK, PoRow
  <2>3. RowsAgree'
      BY <1>4, <2>2 DEF Reopen, SerialInd, RowsAgree, VendorAnswerInv, OneAnswer,
                        ReleasedIsSent, CancelAgrees
  <2>4. QED
      BY <1>4, <2>3, DoneIsFresh DEF Reopen, SerialInd
<1>5. QED
    BY <1>1, <1>2, <1>3, <1>4

LEMMA SerialException ==
    ASSUME TypeOK, OneAtATime, edited => edited', SerialInd, NEW w \in Workers,
           Hold(w) \/ Resume(w) \/ Amend(w) \/ ResetVendorLoop(w) \/ LoseReset(w)
    PROVE  SerialInd'
<1>1. CASE Hold(w) \/ Resume(w)
  <2>1. job[w].po = po /\ UNCHANGED trk /\ Reply(w)
      BY <1>1 DEF Hold, Resume, Acts, At, SerialInd, CopyFresh
  <2>2. po.exception # "cancelled" /\ po'.exception # "cancelled"
        /\ po'.status = po.status /\ po'.approval = po.approval
      BY <1>1, <2>1 DEF Hold, Resume, TypeOK, PoRow
  <2>3. RowsAgree'
      BY <2>1, <2>2 DEF SerialInd, RowsAgree, VendorAnswerInv, OneAnswer, ReleasedIsSent, CancelAgrees
  <2>4. QED
      BY <2>1, <2>3, DoneIsFresh DEF SerialInd
<1>2. CASE Amend(w)
  <2>1. job[w].po = po /\ job[w].trk = trk /\ UNCHANGED trk /\ po.exception = "none"
      BY <1>2 DEF Amend, Amendable, Acts, At, SerialInd, CopyFresh, ApprovalOps
  <2>2. po'.status = "Draft" /\ po'.exception = "none"
      BY <1>2, <2>1 DEF Amend, Put, TypeOK, PoRow
  <2>3. RowsAgree'
      BY <2>1, <2>2 DEF SerialInd, RowsAgree, VendorAnswerInv, OneAnswer, ReleasedIsSent, CancelAgrees
  <2>4. CASE Go(w, "sync")
      BY <2>3, <2>4, DoneIsFresh DEF SerialInd
  <2>5. CASE Go(w, "reset")
    <3>1. job'[w].at = "reset" /\ job'[w].trk = job[w].trk
        BY <2>5 DEF Go, TypeOK, Job
    <3>2. CopyFresh(w)'
        BY <2>1, <2>2, <3>1 DEF CopyFresh
    <3>3. QED
        BY <2>3, <3>2 DEF SerialInd, OneAtATime
  <2>6. QED
      BY <1>2, <2>4, <2>5 DEF Amend
<1>3. CASE ResetVendorLoop(w)
  <2>1. job[w].trk = trk /\ po.status = "Draft" /\ UNCHANGED po /\ Go(w, "sync")
      BY <1>3 DEF ResetVendorLoop, At, SerialInd, CopyFresh
  <2>2. ~trk'.confirmed /\ ~trk'.rejected
      BY <1>3, <2>1 DEF ResetVendorLoop, Put, TypeOK, TrkRow
  <2>3. RowsAgree'
      BY <2>1, <2>2 DEF SerialInd, RowsAgree, VendorAnswerInv, OneAnswer, ReleasedIsSent, CancelAgrees
  <2>4. QED
      BY <2>1, <2>3, DoneIsFresh DEF SerialInd
<1>4. CASE LoseReset(w)
  <2>1. UNCHANGED <<po, trk>> /\ Go(w, "sync")
      BY <1>4 DEF LoseReset
  <2>2. RowsAgree'
      BY <2>1 DEF SerialInd, RowsAgree, VendorAnswerInv, OneAnswer, ReleasedIsSent, CancelAgrees
  <2>3. QED
      BY <2>1, <2>2, DoneIsFresh DEF SerialInd
<1>5. QED
    BY <1>1, <1>2, <1>3, <1>4

LEMMA SerialRecord ==
    ASSUME TypeOK, OneAtATime, edited => edited', ShipmentOnly, SerialInd, NEW w \in Workers,
           Record(w) \/ ViewTracking(w) \/ SyncRequest(w)
    PROVE  SerialInd'
<1>1. ASSUME NEW status \in PoStatus, NEW class \in Classes, EditPo(w, status, class)
      PROVE  SerialInd'
  <2>1. edited' /\ UNCHANGED trk
      BY <1>1 DEF EditPo
  <2>2. RowsAgree'
      BY <2>1 DEF SerialInd, RowsAgree, VendorAnswerInv, OneAnswer
  <2>3. QED
      BY <1>1, <2>2, DoneIsFresh DEF EditPo, SerialInd
<1>2. CASE ~\E status \in PoStatus, class \in Classes : EditPo(w, status, class)
  <2>1. UNCHANGED po /\ Reply(w)
      BY <1>2 DEF Record, Track, ViewTracking, SyncRequest
  <2>2. /\ trk'.released = trk.released
        /\ trk'.confirmed = trk.confirmed /\ trk'.rejected = trk.rejected
    <3>1. ASSUME NEW column \in TrackedColumns, NEW stamp \in BOOLEAN, Track(w, column, stamp)
          PROVE  trk' = [trk EXCEPT !.exists = TRUE, ![column] = trk'[column]]
                 /\ column \in {"shipped", "grnComplete"}
        BY <3>1 DEF Track, ShipmentOnly, TypeOK, TrkRow
    <3>2. QED
        BY <1>2, <3>1 DEF Record, ViewTracking, SyncRequest, TypeOK, TrkRow
  <2>3. RowsAgree'
      BY <2>1, <2>2 DEF SerialInd, RowsAgree, VendorAnswerInv, OneAnswer, ReleasedIsSent, CancelAgrees
  <2>4. QED
      BY <2>1, <2>3, DoneIsFresh DEF SerialInd
<1>3. QED
    BY <1>1, <1>2

LEMMA SerialNext ==
    ASSUME OneAtATime, ShipmentOnly
    PROVE  TypeOK /\ SerialInd /\ [Next]_vars => SerialInd'
<1> SUFFICES ASSUME TypeOK, SerialInd, [Next]_vars PROVE SerialInd'
    OBVIOUS
<1> edited => edited'
    BY EditedStays
<1>1. CASE UNCHANGED vars
    BY <1>1 DEF vars, SerialInd, RowsAgree, VendorAnswerInv, OneAnswer, ReleasedIsSent, CancelAgrees,
                CopyFresh
<1>2. ASSUME NEW w \in Workers, NEW op \in AllOps, Enter(w, op) PROVE SerialInd'
    BY <1>2, SerialProtocol
<1>3. ASSUME NEW w \in Workers, Step(w) PROVE SerialInd'
  <2>1. CASE LoadPo(w) \/ LoadTracking(w) \/ Refuse(w) \/ Abort(w)
      BY <2>1, SerialProtocol
  <2>2. CASE Submit(w) \/ \E role \in Roles : Decide(w, role)
    <3>1. ASSUME NEW role \in Roles, Decide(w, role) \/ Submit(w) PROVE SerialInd'
        BY <3>1, SerialDecide
    <3>2. QED
        BY <2>2, <3>1 DEF Roles
  <2>3. CASE Send(w) \/ Release(w) \/ Acknowledge(w) \/ VendorReject(w) \/ Resend(w) \/ Reopen(w)
      BY <2>3, SerialVendor
  <2>4. CASE Hold(w) \/ Resume(w) \/ Amend(w) \/ ResetVendorLoop(w) \/ LoseReset(w)
      BY <2>4, SerialException
  <2>5. CASE Record(w) \/ ViewTracking(w) \/ SyncRequest(w)
      BY <2>5, SerialRecord
  <2>6. QED
      BY <1>3, <2>1, <2>2, <2>3, <2>4, <2>5, StepCases
<1>4. QED
    BY <1>1, <1>2, <1>3 DEF Next

LEMMA SerialInit == Init => SerialInd
<1> SUFFICES ASSUME Init PROVE SerialInd
    OBVIOUS
<1>1. PICK class \in Classes : po = DraftPo(class)
    BY DEF Init
<1>2. RowsAgree
    BY <1>1 DEF Init, DraftPo, NoTrk, RowsAgree, VendorAnswerInv, OneAnswer, ReleasedIsSent, CancelAgrees
<1>3. ASSUME NEW w \in Workers PROVE CopyFresh(w)
    BY DEF Init, CopyFresh, Idle
<1>4. QED
    BY <1>2, <1>3 DEF SerialInd

LEMMA SerialAlways ==
    ASSUME OneAtATime, ShipmentOnly
    PROVE  Spec => [](TypeOK /\ SerialInd)
<1>1. Init => SerialInd
    BY SerialInit
<1>2. TypeOK /\ SerialInd /\ [Next]_vars => SerialInd'
    BY SerialNext
<1>3. QED
    BY <1>1, <1>2, TypeCorrect, PTL DEF Spec

\* With requests served one at a time, a PO with status Released has been
\* approved and its tracking row says so, wherever handlers die, until its row is
\* edited directly.
THEOREM ReleasedIsApproved ==
    ASSUME OneAtATime, ShipmentOnly
    PROVE  Spec => []ReleasedInv
<1>1. SerialInd => ReleasedInv
    BY DEF SerialInd, RowsAgree, ReleasedInv
<1>2. QED
    BY <1>1, SerialAlways, PTL

\* With requests served one at a time, a vendor gives one answer and only to a
\* PO that is out with the vendor, however the PO row is edited.
THEOREM VendorAnswersOnce ==
    ASSUME OneAtATime, ShipmentOnly
    PROVE  Spec => []VendorAnswerInv
<1>1. SerialInd => VendorAnswerInv
    BY DEF SerialInd, RowsAgree
<1>2. QED
    BY <1>1, SerialAlways, PTL

\* With requests served one at a time, status and exception_status never
\* disagree about a cancellation, until the row is edited directly.
THEOREM CancellationAgrees ==
    ASSUME OneAtATime, ShipmentOnly
    PROVE  Spec => []CancelInv
<1>1. SerialInd => CancelInv
    BY DEF SerialInd, RowsAgree, CancelInv
<1>2. QED
    BY <1>1, SerialAlways, PTL

-----------------------------------------------------------------------------
(* A blocked PO.                                                           *)

\* A request that is served alone moves nothing of the workflow of a blocked
\* PO, wherever it stands, and cannot unblock a cancelled one.
LEMMA BlockedRests ==
    ASSUME TypeOK, OneAtATime, ShipmentOnly, SerialInd, [Next]_vars, po.exception # "none"
    PROVE  /\ UNCHANGED loops
           /\ po.exception = "cancelled" => po'.exception = "cancelled"
           /\ ~edited' /\ po'.exception = "on_hold" => po'.status = po.status
<1> USE DEF loops
<1>1. CASE UNCHANGED <<po, trk>>
    BY <1>1
<1>2. ASSUME NEW w \in Workers, Step(w), ~UNCHANGED <<po, trk>>
      PROVE  \/ Hold(w) \/ Resume(w) \/ \E role \in Roles : Cancel(w, role)
             \/ ViewTracking(w) \/ Record(w)
  <2>1. job[w].at \in {"act", "release", "reset"}
      BY <1>2, StepCases DEF Submit, Decide, Forward, Approve, RequestChanges, RejectApproval,
             Cancel, Send, Release, Acknowledge, VendorReject, Resend, Reopen, Hold, Resume, Amend,
             ResetVendorLoop, LoseReset, Record, EditPo, Track, ViewTracking, SyncRequest, LoadPo,
             LoadTracking, Refuse, Abort, Acts, At
  <2>2. job[w].at \in {"act", "release"} => job[w].op \notin GuardedOps
      BY DEF SerialInd, CopyFresh
  <2>3. ~ResetVendorLoop(w) /\ ~LoseReset(w) /\ ~Release(w)
      BY <2>2 DEF ResetVendorLoop, LoseReset, Release, At, SerialInd, CopyFresh, GuardedOps, VendorOps
  <2>4. ~Amend(w)
      BY DEF Amend, Amendable, Acts, At, SerialInd, CopyFresh
  <2>5. ~(Submit(w) \/ Send(w) \/ Acknowledge(w) \/ VendorReject(w) \/ Resend(w) \/ Reopen(w))
      BY <2>2 DEF Submit, Send, Acknowledge, VendorReject, Resend, Reopen, Acts, At, GuardedOps,
                  ApprovalOps, VendorOps
  <2>6. ASSUME NEW role \in Roles, Decide(w, role) PROVE Cancel(w, role)
      BY <2>2, <2>6 DEF Decide, Forward, Approve, RequestChanges, RejectApproval, Acts, At,
                        GuardedOps, ApprovalOps
  <2>7. ~(LoadPo(w) \/ LoadTracking(w) \/ Refuse(w) \/ Abort(w) \/ SyncRequest(w))
      BY <1>2 DEF LoadPo, LoadTracking, Refuse, Abort, SyncRequest
  <2>8. QED
      BY <1>2, <2>3, <2>4, <2>5, <2>6, <2>7, StepCases
<1>3. ASSUME NEW w \in Workers, Hold(w) \/ Resume(w)
      PROVE  /\ UNCHANGED trk /\ po'.status = po.status /\ po.exception # "cancelled"
             /\ po'.approval = po.approval /\ po'.amendments = po.amendments
    BY <1>3 DEF Hold, Resume, Acts, At, SerialInd, CopyFresh, TypeOK, PoRow
<1>4. ASSUME NEW w \in Workers, NEW role \in Roles, Cancel(w, role)
      PROVE  /\ UNCHANGED trk /\ po'.exception = "cancelled"
             /\ po'.approval = po.approval /\ po'.amendments = po.amendments
    BY <1>4 DEF Cancel, TypeOK, PoRow
<1>5. ASSUME NEW w \in Workers, ViewTracking(w) \/ Record(w)
      PROVE  /\ UNCHANGED <<trk.released, trk.confirmed, trk.rejected>>
             /\ po'.approval = po.approval /\ po'.amendments = po.amendments
             /\ po'.exception = po.exception
             /\ ~edited' => po' = po
  <2>1. CASE ViewTracking(w)
      BY <2>1 DEF ViewTracking, TypeOK, TrkRow
  <2>2. ASSUME NEW status \in PoStatus, NEW class \in Classes, EditPo(w, status, class)
        PROVE  /\ UNCHANGED trk /\ edited'
               /\ po'.approval = po.approval /\ po'.amendments = po.amendments
               /\ po'.exception = po.exception
      BY <2>2 DEF EditPo, TypeOK, PoRow
  <2>3. ASSUME NEW column \in TrackedColumns, NEW stamp \in BOOLEAN, Track(w, column, stamp)
        PROVE  UNCHANGED <<po, trk.released, trk.confirmed, trk.rejected>>
      BY <2>3 DEF Track, ShipmentOnly, TypeOK, TrkRow
  <2>4. QED
      BY <1>5, <2>1, <2>2, <2>3 DEF Record, ViewTracking
<1>6. ASSUME NEW w \in Workers, NEW op \in AllOps, Enter(w, op) PROVE UNCHANGED <<po, trk>>
    BY <1>6 DEF Enter
<1>7. QED
    BY <1>1, <1>2, <1>3, <1>4, <1>5, <1>6 DEF Next, vars

\* With requests served one at a time, a PO on hold stands still: no approval,
\* dispatch, answer or amendment, until it is resumed (holdPo, notBlocked).
THEOREM HoldStandsStill ==
    ASSUME OneAtATime, ShipmentOnly
    PROVE  Spec => HoldPauses
<1>1. TypeOK /\ SerialInd /\ [Next]_vars
        => [po.exception = "on_hold" /\ po'.exception = "on_hold"
              => UNCHANGED loops /\ (~edited' => po'.status = po.status)]_vars
    BY BlockedRests
<1>2. QED
    BY <1>1, SerialAlways, PTL DEF Spec, HoldPauses

\* With requests served one at a time, nothing undoes a cancellation or moves
\* the workflow of a cancelled PO, direct edits included (cancelPo).
THEOREM CancelledForGood ==
    ASSUME OneAtATime, ShipmentOnly
    PROVE  Spec => CancelIsFinal
<1>1. TypeOK /\ SerialInd /\ [Next]_vars
        => [po.exception = "cancelled" => po'.exception = "cancelled" /\ UNCHANGED loops]_vars
    BY BlockedRests
<1>2. QED
    BY <1>1, SerialAlways, PTL DEF Spec, CancelIsFinal

-----------------------------------------------------------------------------
(* The procurement request follows the PO.                                 *)

\* What the request and the tracking row say when nothing is left to write.
InStep ==
    CASE po.status = "Released"  -> pr = "PO Released" /\ trk.released
      [] po.status = "Cancelled" -> pr = "New"
      [] OTHER                   -> pr = "PO Draft" /\ ~trk.released

\* A request that has yet to write, and one whose last write is the sync: what
\* it is about to tell the procurement request is what the PO has become.
NothingWritten == \A w \in Workers : job[w].at \in {"idle", "load", "track", "act"}

SyncDue(w) ==
    job[w].at = "sync" =>
        CASE job[w].op = "Send"  -> po.status = "Released" /\ trk.released
          [] job[w].op = "Amend" -> po.status = "Draft" /\ ~trk.released
          [] OTHER               -> job[w].op # "EditPo" /\ po.status = "Cancelled"

RequestInd ==
    ~lost /\ ~edited =>
        /\ po.status # "Completed"
        /\ trk.released => trk.exists
        /\ NothingWritten => InStep
        /\ \A w \in Workers : SyncDue(w)
        /\ \A w \in Workers : job[w].at = "reset" => job[w].op = "Amend"

\* A step that writes nothing the invariant speaks of, of a request that has
\* written nothing.
LEMMA RequestKept ==
    ASSUME OneAtATime, RequestInd, NEW w \in Workers, lost' = lost, edited => edited',
           job[w].at \in {"idle", "load", "track", "act"},
           job'[w].at \in {"idle", "load", "track", "act"},
           po'.status = po.status, pr' = pr, trk'.released = trk.released,
           trk.exists => trk'.exists
    PROVE  RequestInd'
<1>1. NothingWritten
    BY DEF OneAtATime, NothingWritten
<1>2. InStep => InStep'
    BY DEF InStep
<1>3. \A v \in Workers : SyncDue(v)' /\ job'[v].at # "reset"
    BY DEF OneAtATime, SyncDue
<1>4. QED
    BY <1>1, <1>2, <1>3 DEF RequestInd

\* A step after which only the sync is left.
LEMMA RequestSyncs ==
    ASSUME TypeOK, OneAtATime, NEW w \in Workers, Go(w, "sync"), job[w].op # "EditPo",
           po'.status # "Completed", trk'.released => trk'.exists,
           job[w].op = "Send" => po'.status = "Released" /\ trk'.released,
           job[w].op = "Amend" => po'.status = "Draft" /\ ~trk'.released,
           job[w].op \notin {"Send", "Amend"} => po'.status = "Cancelled"
    PROVE  RequestInd'
<1>1. job'[w].at = "sync" /\ job'[w].op = job[w].op
    BY DEF Go, TypeOK, Job
<1>2. ~NothingWritten'
    BY <1>1 DEF NothingWritten
<1>3. \A v \in Workers : SyncDue(v)' /\ job'[v].at # "reset"
    BY <1>1 DEF OneAtATime, SyncDue
<1>4. QED
    BY <1>2, <1>3 DEF RequestInd

LEMMA RequestProtocol ==
    ASSUME TypeOK, OneAtATime, edited => edited', RequestInd, NEW w \in Workers,
           \/ \E op \in AllOps : Enter(w, op)
           \/ LoadPo(w) \/ LoadTracking(w) \/ Refuse(w) \/ Abort(w) \/ LoseReset(w)
    PROVE  RequestInd'
<1>1. CASE Abort(w) \/ LoseReset(w)
    BY <1>1 DEF Abort, LoseReset, RequestInd
<1>2. CASE ~(Abort(w) \/ LoseReset(w))
  <2>1. UNCHANGED <<po, trk, pr, lost>>
      BY <1>2 DEF Enter, LoadPo, LoadTracking, Refuse
  <2>2. job[w].at \in {"idle", "load", "track", "act"}
      BY <1>2 DEF Enter, LoadPo, LoadTracking, Refuse, At
  <2>3. job'[w].at \in {"idle", "load", "track", "act"}
    <3>1. CASE \E op \in AllOps : Enter(w, op)
        BY <3>1 DEF Enter, TypeOK, Idle
    <3>2. CASE LoadPo(w) \/ LoadTracking(w)
        BY <3>2 DEF LoadPo, LoadTracking, TypeOK, Job
    <3>3. CASE Refuse(w)
        BY <3>3 DEF Refuse, Reply, TypeOK, Idle
    <3>4. QED
        BY <1>2, <3>1, <3>2, <3>3
  <2>4. QED
      BY <2>1, <2>2, <2>3, RequestKept
<1>3. QED
    BY <1>1, <1>2

\* The one-write handlers: no status changes, and the vendor's answer leaves the
\* PO out with the vendor.
LEMMA RequestSimple ==
    ASSUME TypeOK, OneAtATime, edited => edited', SerialInd, RequestInd, NEW w \in Workers,
           \/ Submit(w)
           \/ \E role \in Roles : Decide(w, role) /\ ~Cancel(w, role)
           \/ Acknowledge(w) \/ VendorReject(w) \/ Resend(w)
           \/ Hold(w) \/ Resume(w) \/ ViewTracking(w)
    PROVE  RequestInd'
<1>1. Reply(w) /\ At(w, "act") /\ UNCHANGED <<pr, lost>>
    BY DEF Submit, Decide, Forward, Approve, RequestChanges, RejectApproval, Approval, Acknowledge,
           VendorReject, Resend, Hold, Resume, ViewTracking, Acts
<1>2. po'.status = po.status
    BY DEF Submit, Decide, Forward, Approve, RequestChanges, RejectApproval, Approval, Acknowledge,
           VendorReject, Resend, Hold, Resume, ViewTracking, TypeOK, PoRow
<1>3. trk'.released = trk.released /\ (trk.exists => trk'.exists)
  <2>1. CASE Resend(w)
    <3>1. trk.rejected
        BY <2>1 DEF Resend, Acts, At, SerialInd, CopyFresh, ApprovalOps
    <3>2. trk.released
        BY <3>1 DEF SerialInd, RowsAgree, VendorAnswerInv
    <3>3. QED
        BY <2>1, <3>2 DEF Resend, Stamped, TypeOK, TrkRow
  <2>2. CASE ~Resend(w)
      BY <2>2 DEF Submit, Decide, Forward, Approve, RequestChanges, RejectApproval, Approval,
                  Acknowledge, VendorReject, Hold, Resume, ViewTracking, TypeOK, TrkRow
  <2>3. QED
      BY <2>1, <2>2
<1>4. job'[w].at = "idle"
    BY <1>1 DEF Reply, TypeOK, Idle
<1>5. QED
    BY <1>1, <1>2, <1>3, <1>4, RequestKept DEF At

\* The handlers that end in a sync, up to that sync.
LEMMA RequestWrites ==
    ASSUME TypeOK, OneAtATime, SerialInd, RequestInd, NEW w \in Workers, ~lost, ~edited,
           \/ Send(w) \/ Release(w) \/ Reopen(w) \/ \E role \in Roles : Cancel(w, role)
           \/ Amend(w) \/ ResetVendorLoop(w)
    PROVE  RequestInd'
<1>1. CASE Send(w)
  <2>1. job[w].po = po /\ po.exception = "none" /\ po' = po /\ pr' = pr /\ lost' = lost
      BY <1>1 DEF Send, Acts, At, SerialInd, CopyFresh, ApprovalOps, GuardedOps, VendorOps
  <2>2. trk'.released /\ trk'.exists
      BY <1>1 DEF Send, Put, SerialInd, CopyFresh, Acts, At, ApprovalOps, TypeOK, TrkRow
  <2>3. CASE po.status = "Released"
    <3>1. Reply(w) /\ At(w, "act") /\ trk.released
        BY <1>1, <2>1, <2>3 DEF Send, Acts, SerialInd, RowsAgree, ReleasedIsSent
    <3>2. job'[w].at = "idle"
        BY <3>1 DEF Reply, TypeOK, Idle
    <3>3. QED
        BY <2>1, <2>2, <3>1, <3>2, RequestKept DEF At
  <2>4. CASE po.status # "Released"
    <3>1. job'[w].at = "release"
        BY <1>1, <2>1, <2>4 DEF Send, Go, TypeOK, Job
    <3>2. ~NothingWritten' /\ \A v \in Workers : SyncDue(v)' /\ job'[v].at # "reset"
        BY <3>1 DEF NothingWritten, OneAtATime, SyncDue
    <3>3. QED
        BY <2>1, <2>2, <3>2 DEF RequestInd
  <2>5. QED
      BY <2>3, <2>4
<1>2. CASE Release(w)
  <2>1. trk.released /\ job[w].op = "Send" /\ trk' = trk /\ Go(w, "sync")
      BY <1>2 DEF Release, At, SerialInd, CopyFresh
  <2>2. po'.status = "Released"
      BY <1>2 DEF Release, TypeOK, PoRow
  <2>3. QED
      BY <2>1, <2>2, RequestSyncs DEF RequestInd
<1>3. CASE Reopen(w) \/ \E role \in Roles : Cancel(w, role)
  <2>1. job[w].po = po /\ trk' = trk /\ Go(w, "sync") /\ job[w].op \in {"Reopen", "Cancel"}
      BY <1>3 DEF Reopen, Cancel, Acts, At, SerialInd, CopyFresh
  <2>2. po'.status = "Cancelled"
      BY <1>3, <2>1 DEF Reopen, Cancel, Put, TypeOK, PoRow
  <2>3. QED
      BY <2>1, <2>2, RequestSyncs DEF RequestInd
<1>4. CASE Amend(w)
  <2>1. job[w].po = po /\ job[w].trk = trk /\ trk' = trk /\ job[w].op = "Amend"
      BY <1>4 DEF Amend, Acts, At, SerialInd, CopyFresh, ApprovalOps
  <2>2. po'.status = "Draft"
      BY <1>4, <2>1 DEF Amend, Put, TypeOK, PoRow
  <2>3. CASE trk.exists
    <3>1. job'[w].at = "reset" /\ job'[w].op = "Amend"
        BY <1>4, <2>1, <2>3 DEF Amend, Go, TypeOK, Job
    <3>2. ~NothingWritten' /\ \A v \in Workers : SyncDue(v)' /\ job'[v].op = "Amend"
        BY <3>1 DEF NothingWritten, OneAtATime, SyncDue
    <3>3. QED
        BY <2>1, <2>2, <3>2 DEF RequestInd
  <2>4. CASE ~trk.exists
    <3>1. Go(w, "sync") /\ ~trk'.released
        BY <1>4, <2>1, <2>4 DEF Amend, RequestInd
    <3>2. QED
        BY <2>1, <2>2, <3>1, RequestSyncs DEF RequestInd
  <2>5. QED
      BY <2>3, <2>4
<1>5. CASE ResetVendorLoop(w)
  <2>1. job[w].trk = trk /\ po.status = "Draft" /\ po' = po /\ Go(w, "sync")
      BY <1>5 DEF ResetVendorLoop, At, SerialInd, CopyFresh
  <2>2. job[w].op = "Amend"
      BY <1>5 DEF ResetVendorLoop, At, RequestInd
  <2>3. ~trk'.released
      BY <1>5, <2>1 DEF ResetVendorLoop, Put, TypeOK, TrkRow
  <2>4. QED
      BY <2>1, <2>2, <2>3, RequestSyncs
<1>6. QED
    BY <1>1, <1>2, <1>3, <1>4, <1>5

\* The sync itself, and the tracking PUT.
LEMMA RequestRecord ==
    ASSUME TypeOK, OneAtATime, ShipmentOnly, RequestInd, NEW w \in Workers, ~lost, ~edited,
           SyncRequest(w) \/ Record(w)
    PROVE  RequestInd'
<1>1. CASE SyncRequest(w)
  <2>1. SyncDue(w) /\ job[w].at = "sync" /\ UNCHANGED <<po, trk, lost>> /\ Reply(w)
      BY <1>1 DEF SyncRequest, At, RequestInd
  <2>2. pr' = CASE job[w].op = "Send"  -> "PO Released"
                [] job[w].op = "Amend" -> "PO Draft"
                [] OTHER               -> "New"
      BY <1>1, <2>1 DEF SyncRequest, RequestTarget, SyncDue
  <2>3. InStep'
      BY <2>1, <2>2 DEF SyncDue, InStep
  <2>4. job'[w].at = "idle"
      BY <2>1 DEF Reply, TypeOK, Idle
  <2>5. \A v \in Workers : SyncDue(v)' /\ job'[v].at # "reset"
      BY <2>4 DEF OneAtATime, SyncDue
  <2>6. QED
      BY <2>1, <2>3, <2>5 DEF RequestInd
<1>2. ASSUME NEW status \in PoStatus, NEW class \in Classes, EditPo(w, status, class)
      PROVE  RequestInd'
    BY <1>2 DEF EditPo, RequestInd
<1>3. ASSUME NEW column \in TrackedColumns, NEW stamp \in BOOLEAN, Track(w, column, stamp)
      PROVE  RequestInd'
  <2>1. trk'.released = trk.released /\ trk'.exists
      BY <1>3 DEF Track, ShipmentOnly, TypeOK, TrkRow
  <2>2. Reply(w) /\ At(w, "act") /\ UNCHANGED <<po, pr, lost>>
      BY <1>3 DEF Track, Acts
  <2>3. job'[w].at = "idle"
      BY <2>2 DEF Reply, TypeOK, Idle
  <2>4. QED
      BY <2>1, <2>2, <2>3, RequestKept DEF At
<1>4. QED
    BY <1>1, <1>2, <1>3 DEF Record

LEMMA RequestNext ==
    ASSUME OneAtATime, ShipmentOnly, TypeOK, SerialInd, RequestInd, [Next]_vars
    PROVE  RequestInd'
<1>1. CASE UNCHANGED vars
    BY <1>1 DEF vars, RequestInd, InStep, NothingWritten, SyncDue
<1>2. CASE lost
  <2>1. ASSUME NEW w \in Workers, Step(w) PROVE lost'
      BY <1>2, <2>1, StepCases DEF Submit, Decide, Forward, Approve, RequestChanges, RejectApproval,
             Approval, Cancel, Send, Release, Acknowledge, VendorReject, Resend, Reopen, Hold,
             Resume, Amend, ResetVendorLoop, LoseReset, Record, EditPo, Track, ViewTracking,
             SyncRequest, LoadPo, LoadTracking, Refuse, Abort
  <2>2. lost'
      BY <1>2, <2>1 DEF Next, Enter, vars
  <2>3. QED
      BY <2>2 DEF RequestInd
<1> edited => edited'
    BY EditedStays
<1>3. ASSUME NEW w \in Workers, NEW op \in AllOps, Enter(w, op) PROVE RequestInd'
    BY <1>3, RequestProtocol
<1>4. ASSUME NEW w \in Workers, Step(w), ~lost, ~edited PROVE RequestInd'
    BY <1>4, StepCases, RequestProtocol, RequestSimple, RequestWrites, RequestRecord DEF Decide
<1>5. CASE edited
    BY <1>5, EditedStays DEF RequestInd
<1>6. QED
    BY <1>1, <1>2, <1>3, <1>4, <1>5 DEF Next

LEMMA RequestInit == Init => RequestInd
<1> SUFFICES ASSUME Init PROVE RequestInd
    OBVIOUS
<1>1. PICK class \in Classes : po = DraftPo(class)
    BY DEF Init
<1>2. InStep /\ po.status = "Draft" /\ ~trk.released
    BY <1>1 DEF Init, DraftPo, NoTrk, InStep
<1>3. \A w \in Workers : job[w].at = "idle"
    BY DEF Init, Idle
<1>4. QED
    BY <1>2, <1>3 DEF RequestInd, SyncDue

\* With requests served one at a time, none dead half way and no direct edit of
\* the row, the linked request, the tracking row and the PO agree whenever nothing
\* is in flight: the sync at the end of each handler tells what its writes have
\* made of the PO.
THEOREM RequestFollows ==
    ASSUME OneAtATime, ShipmentOnly
    PROVE  Spec => []RequestInv
<1>1. Spec => [](TypeOK /\ SerialInd)
    BY SerialAlways
<1>2. TypeOK /\ SerialInd /\ RequestInd /\ [Next]_vars => RequestInd'
    BY RequestNext
<1>3. RequestInd => RequestInv
    BY DEF RequestInd, RequestInv, AllIdle, At, NothingWritten, InStep
<1>4. QED
    BY <1>1, <1>2, <1>3, RequestInit, PTL DEF Spec

=============================================================================
