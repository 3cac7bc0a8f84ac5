--------------------------- MODULE PoWorkflowProofs ---------------------------
(***************************************************************************)
(* Proofs about PoWorkflow for every set of workers, endpoints, classes    *)
(* and every bound.                                                        *)
(***************************************************************************)
EXTENDS PoWorkflow, TLAPS

-----------------------------------------------------------------------------
(* Type correctness.                                                       *)

\* A copy-aware column write stores the new value or leaves the current one.
LEMMA PutResult ==
    ASSUME NEW S, NEW current \in S, NEW loaded, NEW new \in S
    PROVE  Put(current, loaded, new) \in S
BY DEF Put

LEMMA IdleIsJob == Idle \in Job
BY AmendmentsAssumption DEF AmendmentsAssumption, Idle, Job, Stages, DraftPo, NoTrk, PoRow, TrkRow, PoStatus, ApprovalStatus,
       ExceptionStatus, AllClasses

LEMMA InitType == Init => TypeOK
<1> SUFFICES ASSUME Init PROVE TypeOK
    OBVIOUS
<1>1. po \in PoRow
  <2>1. PICK class \in Classes : po = DraftPo(class)
      BY DEF Init
  <2>2. class \in AllClasses
      BY ClassesAssumption DEF ClassesAssumption
  <2>3. 0 \in 0..MaxAmendments
      BY AmendmentsAssumption DEF AmendmentsAssumption
  <2>4. QED
      BY <2>1, <2>2, <2>3 DEF DraftPo, PoRow, PoStatus, ApprovalStatus, ExceptionStatus
<1>2. trk \in TrkRow
    BY DEF Init, NoTrk, TrkRow
<1>3. job \in [Workers -> Job]
    BY IdleIsJob DEF Init
<1>4. QED
    BY <1>1, <1>2, <1>3 DEF Init, TypeOK, RequestStatus

\* The two ways a request's own record moves keep it a request.
LEMMA ReplyType ==
    ASSUME job \in [Workers -> Job], NEW w \in Workers, Reply(w)
    PROVE  job' \in [Workers -> Job]
BY IdleIsJob DEF Reply

LEMMA GoType ==
    ASSUME job \in [Workers -> Job], NEW w \in Workers, NEW stage \in Stages, Go(w, stage)
    PROVE  job' \in [Workers -> Job]
BY DEF Go, Job

LEMMA ProtocolType ==
    ASSUME TypeOK, NEW w \in Workers,
           \/ \E op \in AllOps : Enter(w, op)
           \/ LoadPo(w) \/ LoadTracking(w) \/ Refuse(w) \/ Abort(w)
    PROVE  TypeOK'
<1>1. ASSUME NEW op \in AllOps, Enter(w, op) PROVE TypeOK'
  <2>1. [Idle EXCEPT !.op = op,
                     !.at = IF op \in {"Track", "ViewTracking"} THEN "track" ELSE "load"] \in Job
      BY <1>1, IdleIsJob DEF Enter, Job, Stages
  <2>2. job' \in [Workers -> Job]
      BY <1>1, <2>1 DEF Enter, TypeOK
  <2>3. QED
      BY <1>1, <2>2 DEF Enter, TypeOK
<1>2. ASSUME LoadPo(w) PROVE TypeOK'
  <2>1. PICK stage \in Stages : job' = [job EXCEPT ![w].po = po, ![w].at = stage]
      BY <1>2 DEF LoadPo, Stages
  <2>2. job[w] \in Job /\ po \in PoRow
      BY DEF TypeOK
  <2>3. [job[w] EXCEPT !.po = po, !.at = stage] \in Job
      BY <2>2 DEF Job
  <2>4. job' = [job EXCEPT ![w] = [job[w] EXCEPT !.po = po, !.at = stage]]
      BY <2>1
  <2>5. job' \in [Workers -> Job]
      BY <2>3, <2>4 DEF TypeOK
  <2>6. QED
      BY <1>2, <2>5 DEF LoadPo, TypeOK
<1>3. ASSUME LoadTracking(w) PROVE TypeOK'
  <2>1. job' \in [Workers -> Job]
      BY <1>3 DEF LoadTracking, TypeOK, Job, Stages
  <2>2. QED
      BY <1>3, <2>1 DEF LoadTracking, TypeOK
<1>4. ASSUME Refuse(w) PROVE TypeOK'
    BY <1>4, ReplyType DEF Refuse, TypeOK
<1>5. ASSUME Abort(w) PROVE TypeOK'
    BY <1>5, ReplyType DEF Abort, TypeOK
<1>6. QED
    BY <1>1, <1>2, <1>3, <1>4, <1>5

LEMMA ApprovalType ==
    ASSUME TypeOK, NEW w \in Workers, NEW status \in ApprovalStatus, Approval(w, status),
           approvedBy' \in Roles \cup {"none"}
    PROVE  TypeOK'
<1>1. po' \in PoRow
    BY DEF Approval, TypeOK, PoRow
<1>2. QED
    BY <1>1, ReplyType DEF Approval, TypeOK

LEMMA DecideType ==
    ASSUME TypeOK, NEW w \in Workers, NEW role \in Roles, Decide(w, role)
    PROVE  TypeOK'
<1>1. CASE Forward(w, role)
    BY <1>1, ApprovalType DEF Forward, ApprovalStatus, TypeOK
<1>2. CASE Approve(w, role)
    BY <1>2, ApprovalType DEF Approve, ApprovalStatus, TypeOK
<1>3. CASE RequestChanges(w, role)
    BY <1>3, ApprovalType DEF RequestChanges, ApprovalStatus, TypeOK
<1>4. CASE RejectApproval(w, role)
    BY <1>4, ApprovalType DEF RejectApproval, ApprovalStatus, TypeOK
<1>5. CASE Cancel(w, role)
  <2>1. po' \in PoRow
      BY <1>5 DEF Cancel, Put, TypeOK, PoRow, PoStatus, ExceptionStatus
  <2>2. job' \in [Workers -> Job]
      BY <1>5, GoType DEF Cancel, TypeOK, Stages
  <2>3. QED
      BY <1>5, <2>1, <2>2 DEF Cancel, TypeOK
<1>6. QED
    BY <1>1, <1>2, <1>3, <1>4, <1>5 DEF Decide

LEMMA VendorType ==
    ASSUME TypeOK, NEW w \in Workers,
           \/ Send(w) \/ Release(w) \/ Acknowledge(w)
           \/ VendorReject(w) \/ Resend(w) \/ Reopen(w)
    PROVE  TypeOK'
<1>1. CASE Send(w)
  <2>1. trk' \in TrkRow
      BY <1>1 DEF Send, Put, TypeOK, TrkRow
  <2>2. job' \in [Workers -> Job]
      BY <1>1, GoType, ReplyType DEF Send, TypeOK, Stages
  <2>3. QED
      BY <1>1, <2>1, <2>2 DEF Send, TypeOK
<1>2. CASE Release(w)
  <2>1. po' \in PoRow
      BY <1>2 DEF Release, TypeOK, PoRow, PoStatus
  <2>2. job' \in [Workers -> Job]
      BY <1>2, GoType DEF Release, TypeOK, Stages
  <2>3. QED
      BY <1>2, <2>1, <2>2 DEF Release, TypeOK
<1>3. CASE Acknowledge(w)
  <2>1. trk' \in TrkRow
      BY <1>3 DEF Acknowledge, Stamped, TypeOK, TrkRow
  <2>2. QED
      BY <1>3, <2>1, ReplyType DEF Acknowledge, TypeOK
<1>4. CASE VendorReject(w)
  <2>1. trk' \in TrkRow
      BY <1>4 DEF VendorReject, Stamped, TypeOK, TrkRow
  <2>2. QED
      BY <1>4, <2>1, ReplyType DEF VendorReject, TypeOK
<1>5. CASE Resend(w)
  <2>1. trk' \in TrkRow
      BY <1>5 DEF Resend, Stamped, TypeOK, TrkRow
  <2>2. QED
      BY <1>5, <2>1, ReplyType DEF Resend, TypeOK
<1>6. CASE Reopen(w)
  <2>1. po' \in PoRow
      BY <1>6 DEF Reopen, Put, TypeOK, PoRow, PoStatus, ExceptionStatus
  <2>2. job' \in [Workers -> Job]
      BY <1>6, GoType DEF Reopen, TypeOK, Stages
  <2>3. QED
      BY <1>6, <2>1, <2>2 DEF Reopen, TypeOK
<1>7. QED
    BY <1>1, <1>2, <1>3, <1>4, <1>5, <1>6

LEMMA ExceptionType ==
    ASSUME TypeOK, NEW w \in Workers,
           Hold(w) \/ Resume(w) \/ Amend(w) \/ ResetVendorLoop(w) \/ LoseReset(w)
    PROVE  TypeOK'
<1>1. CASE Hold(w)
  <2>1. po' \in PoRow
      BY <1>1 DEF Hold, TypeOK, PoRow, ExceptionStatus
  <2>2. QED
      BY <1>1, <2>1, ReplyType DEF Hold, TypeOK
<1>2. CASE Resume(w)
  <2>1. po' \in PoRow
      BY <1>2 DEF Resume, TypeOK, PoRow, ExceptionStatus
  <2>2. QED
      BY <1>2, <2>1, ReplyType DEF Resume, TypeOK
<1>3. CASE Amend(w)
  <2>1. job[w].po \in PoRow
      BY DEF TypeOK, Job
  <2>2. job[w].po.amendments + 1 \in 0..MaxAmendments
      BY <1>3, <2>1, AmendmentsAssumption DEF Amend, PoRow, AmendmentsAssumption
  <2>3. po' \in PoRow
      BY <1>3, <2>2 DEF Amend, Put, TypeOK, PoRow, PoStatus, ApprovalStatus
  <2>4. job' \in [Workers -> Job]
      BY <1>3, GoType DEF Amend, TypeOK, Stages
  <2>5. QED
      BY <1>3, <2>3, <2>4 DEF Amend, TypeOK
<1>4. CASE ResetVendorLoop(w)
  <2>1. trk' \in TrkRow
      BY <1>4 DEF ResetVendorLoop, Put, TypeOK, TrkRow
  <2>2. job' \in [Workers -> Job]
      BY <1>4, GoType DEF ResetVendorLoop, TypeOK, Stages
  <2>3. QED
      BY <1>4, <2>1, <2>2 DEF ResetVendorLoop, TypeOK
<1>5. CASE LoseReset(w)
  <2>1. job' \in [Workers -> Job]
      BY <1>5, GoType DEF LoseReset, TypeOK, Stages
  <2>2. QED
      BY <1>5, <2>1 DEF LoseReset, TypeOK
<1>6. QED
    BY <1>1, <1>2, <1>3, <1>4, <1>5

LEMMA RecordType ==
    ASSUME TypeOK, NEW w \in Workers, Record(w) \/ ViewTracking(w) \/ SyncRequest(w)
    PROVE  TypeOK'
<1>1. ASSUME NEW status \in PoStatus, NEW class \in Classes, EditPo(w, status, class)
      PROVE  TypeOK'
  <2>1. class \in AllClasses
      BY ClassesAssumption DEF ClassesAssumption
  <2>2. po' \in PoRow
      BY <1>1, <2>1 DEF EditPo, Put, TypeOK, PoRow
  <2>3. job' \in [Workers -> Job]
      BY <1>1, GoType, ReplyType DEF EditPo, TypeOK, Stages
  <2>4. QED
      BY <1>1, <2>2, <2>3 DEF EditPo, TypeOK
<1>2. ASSUME NEW column \in TrackedColumns, NEW stamp \in BOOLEAN, Track(w, column, stamp)
      PROVE  TypeOK'
  <2>1. column \in {"released", "confirmed", "rejected", "shipped", "grnComplete"}
      BY ColumnsAssumption DEF ColumnsAssumption, Columns
  <2>2. trk' \in TrkRow
      BY <1>2, <2>1 DEF Track, Put, TypeOK, TrkRow
  <2>3. QED
      BY <1>2, <2>2, ReplyType DEF Track, TypeOK
<1>3. CASE ViewTracking(w)
  <2>1. trk' \in TrkRow
      BY <1>3 DEF ViewTracking, TypeOK, TrkRow
  <2>2. QED
      BY <1>3, <2>1, ReplyType DEF ViewTracking, TypeOK
<1>4. CASE SyncRequest(w)
  <2>1. pr' \in RequestStatus
      BY <1>4 DEF SyncRequest, RequestTarget, RequestStatus
  <2>2. QED
      BY <1>4, <2>1, ReplyType DEF SyncRequest, TypeOK
<1>5. QED
    BY <1>1, <1>2, <1>3, <1>4 DEF Record

\* The actions of one request, grouped as the lemmas below treat them.
LEMMA StepCases ==
    ASSUME NEW w \in Workers, Step(w)
    PROVE  \/ LoadPo(w) \/ LoadTracking(w) \/ Refuse(w) \/ Abort(w)
           \/ Submit(w)
           \/ \E role \in Roles : Decide(w, role)
           \/ Send(w) \/ Release(w) \/ Acknowledge(w)
           \/ VendorReject(w) \/ Resend(w) \/ Reopen(w)
           \/ Hold(w) \/ Resume(w) \/ Amend(w) \/ ResetVendorLoop(w) \/ LoseReset(w)
           \/ Record(w) \/ ViewTracking(w) \/ SyncRequest(w)
BY DEF Step, Handle

LEMMA NextType == TypeOK /\ [Next]_vars => TypeOK'
<1> SUFFICES ASSUME TypeOK, [Next]_vars PROVE TypeOK'
    OBVIOUS
<1>1. CASE UNCHANGED vars
    BY <1>1 DEF vars, TypeOK
<1>2. ASSUME NEW w \in Workers, NEW op \in AllOps, Enter(w, op) PROVE TypeOK'
    BY <1>2, ProtocolType
<1>3. ASSUME NEW w \in Workers, Step(w) PROVE TypeOK'
  <2>1. CASE LoadPo(w) \/ LoadTracking(w) \/ Refuse(w) \/ Abort(w)
      BY <2>1, ProtocolType
  <2>2. CASE Submit(w)
      BY <2>2, ApprovalType DEF Submit, ApprovalStatus, TypeOK
  <2>3. CASE \E role \in Roles : Decide(w, role)
      BY <2>3, DecideType
  <2>4. CASE Send(w) \/ Release(w) \/ Acknowledge(w) \/ VendorReject(w) \/ Resend(w) \/ Reopen(w)
      BY <2>4, VendorType
  <2>5. CASE Hold(w) \/ Resume(w) \/ Amend(w) \/ ResetVendorLoop(w) \/ LoseReset(w)
      BY <2>5, ExceptionType
  <2>6. CASE Record(w) \/ ViewTracking(w) \/ SyncRequest(w)
      BY <2>6, RecordType
  <2>7. QED
      BY <1>3, <2>1, <2>2, <2>3, <2>4, <2>5, <2>6, StepCases
<1>4. QED
    BY <1>1, <1>2, <1>3 DEF Next

\* Every reachable state of the PO workflow is well typed, whatever the number
\* of requests in flight and whichever endpoints are called.
THEOREM TypeCorrect == Spec => []TypeOK
BY InitType, NextType, PTL DEF Spec

-----------------------------------------------------------------------------
(* No PO reaches the vendor without an authorised approval, although every *)
(* handler decides on a copy that may be stale.  The invariant is made     *)
(* inductive by saying the same of the copies requests hold.               *)

\* PUT /po-tracking sends the columns of the warehouse, as the issued-orders
\* screen does, and none of the vendor's.
ShipmentOnly == TrackedColumns \subseteq {"shipped", "grnComplete"}

Authorised == CanActAs(approvedBy, FinalApprover(po.class))

CopyInv(w) ==
    /\ job[w].at \in {"track", "act"} /\ job[w].op \notin {"Track", "ViewTracking"}
          => job[w].po.class = po.class
    /\ job[w].po.approval = "approved" => Authorised
    /\ job[w].at = "release" => job[w].po.approval = "approved"

AuthInd == Sanctioned /\ \A w \in Workers : CopyInv(w)

\* A step that changes neither the class nor the approver, and whose request
\* keeps its copy or drops it, preserves CopyInv.
LEMMA CopyKept ==
    ASSUME TypeOK, AuthInd, NEW w \in Workers,
           po'.class = po.class, approvedBy' = approvedBy,
           \/ Reply(w)
           \/ \E stage \in {"reset", "sync"} : Go(w, stage)
    PROVE  \A v \in Workers : CopyInv(v)'
<1>1. Authorised' <=> Authorised
    BY DEF Authorised
<1>2. ASSUME NEW v \in Workers PROVE CopyInv(v)'
  <2>1. CASE Reply(w)
    <3>1. job' = [job EXCEPT ![w] = Idle]
        BY <2>1 DEF Reply
    <3>2. CASE v = w
        BY <3>1, <3>2 DEF CopyInv, Idle, DraftPo, TypeOK
    <3>3. CASE v # w
        BY <1>1, <3>1, <3>3 DEF CopyInv, AuthInd, TypeOK
    <3>4. QED
        BY <3>2, <3>3
  <2>2. ASSUME NEW stage \in {"reset", "sync"}, Go(w, stage) PROVE CopyInv(v)'
    <3>1. job' = [job EXCEPT ![w].at = stage]
        BY <2>2 DEF Go
    <3>2. CASE v = w
        BY <1>1, <3>1, <3>2 DEF CopyInv, AuthInd, TypeOK, Job
    <3>3. CASE v # w
        BY <1>1, <3>1, <3>3 DEF CopyInv, AuthInd, TypeOK
    <3>4. QED
        BY <3>2, <3>3
  <2>3. QED
      BY <2>1, <2>2
<1>3. QED
    BY <1>2

LEMMA AuthProtocol ==
    ASSUME TypeOK, AuthInd, NEW w \in Workers,
           \/ \E op \in AllOps : Enter(w, op)
           \/ LoadPo(w) \/ LoadTracking(w) \/ Refuse(w) \/ Abort(w)
    PROVE  AuthInd'
<1>1. UNCHANGED <<po, trk, approvedBy>>
    BY DEF Enter, LoadPo, LoadTracking, Refuse, Abort
<1>2. Sanctioned' /\ (Authorised' <=> Authorised)
    BY <1>1 DEF AuthInd, Sanctioned, Authorised
<1>3. ASSUME NEW op \in AllOps, Enter(w, op), NEW v \in Workers PROVE CopyInv(v)'
    BY <1>1, <1>2, <1>3 DEF Enter, CopyInv, AuthInd, TypeOK, Idle, DraftPo
<1>4. ASSUME LoadPo(w), NEW v \in Workers PROVE CopyInv(v)'
    BY <1>1, <1>2, <1>4 DEF LoadPo, CopyInv, AuthInd, Sanctioned, Authorised, TypeOK, Job
<1>5. ASSUME LoadTracking(w), NEW v \in Workers PROVE CopyInv(v)'
    BY <1>1, <1>2, <1>5 DEF LoadTracking, CopyInv, AuthInd, TypeOK, Job
<1>6. CASE Refuse(w) \/ Abort(w)
    BY <1>1, <1>2, <1>6, CopyKept DEF Refuse, Abort, AuthInd
<1>7. QED
    BY <1>2, <1>3, <1>4, <1>5, <1>6 DEF AuthInd

LEMMA AuthDecide ==
    ASSUME TypeOK, AuthInd, NEW w \in Workers, NEW role \in Roles, Decide(w, role)
    PROVE  AuthInd'
<1>1. CASE Forward(w, role) \/ RequestChanges(w, role) \/ RejectApproval(w, role)
  <2>1. po'.class = po.class /\ po'.status = po.status /\ po'.approval # "approved"
      BY <1>1 DEF Forward, RequestChanges, RejectApproval, Approval, TypeOK, PoRow
  <2>2. UNCHANGED <<trk, approvedBy>> /\ Reply(w)
      BY <1>1 DEF Forward, RequestChanges, RejectApproval, Approval
  <2>3. QED
      BY <2>1, <2>2, CopyKept DEF AuthInd, Sanctioned
<1>2. CASE Approve(w, role)
  <2>1. po'.class = po.class /\ Reply(w) /\ approvedBy' = role
      BY <1>2 DEF Approve, Approval, TypeOK, PoRow
  <2>2. job[w].po.class = po.class
      BY <1>2 DEF Approve, Acts, At, AuthInd, CopyInv
  <2>3. Authorised'
      BY <1>2, <2>1, <2>2 DEF Approve, Authorised
  <2>4. ASSUME NEW v \in Workers PROVE CopyInv(v)'
      BY <2>1, <2>3 DEF Reply, CopyInv, AuthInd, TypeOK, Idle
  <2>5. QED
      BY <2>3, <2>4 DEF AuthInd, Sanctioned, Authorised
<1>3. CASE Cancel(w, role)
  <2>1. po'.class = po.class /\ po'.approval = po.approval
      BY <1>3 DEF Cancel, TypeOK, PoRow
  <2>2. po'.status = "Released" => po.status = "Released"
      BY <1>3 DEF Cancel, Put, TypeOK, PoRow
  <2>3. UNCHANGED <<trk, approvedBy>> /\ Go(w, "sync")
      BY <1>3 DEF Cancel
  <2>4. QED
      BY <2>1, <2>2, <2>3, CopyKept DEF AuthInd, Sanctioned
<1>4. QED
    BY <1>1, <1>2, <1>3 DEF Decide

LEMMA AuthVendor ==
    ASSUME TypeOK, AuthInd, NEW w \in Workers,
           \/ Send(w) \/ Release(w) \/ Acknowledge(w)
           \/ VendorReject(w) \/ Resend(w) \/ Reopen(w)
    PROVE  AuthInd'
<1>1. CASE Send(w)
  <2>1. UNCHANGED <<po, approvedBy>> /\ Authorised /\ job[w].po.approval = "approved"
      BY <1>1 DEF Send, AuthInd, CopyInv
  <2>2. Authorised'
      BY <2>1 DEF Authorised
  <2>3. ASSUME NEW v \in Workers PROVE CopyInv(v)'
      BY <1>1, <2>1, <2>2 DEF Send, Reply, Go, CopyInv, AuthInd, TypeOK, Job, Idle
  <2>4. QED
      BY <2>2, <2>3 DEF AuthInd, Sanctioned, Authorised
<1>2. CASE Release(w)
  <2>1. Authorised /\ po'.class = po.class /\ approvedBy' = approvedBy /\ Go(w, "sync")
      BY <1>2 DEF Release, At, AuthInd, CopyInv, TypeOK, PoRow
  <2>2. Authorised'
      BY <2>1 DEF Authorised
  <2>3. QED
      BY <2>1, <2>2, CopyKept DEF AuthInd, Sanctioned, Authorised
<1>3. CASE Acknowledge(w) \/ VendorReject(w)
  <2>1. UNCHANGED <<po, approvedBy>> /\ Reply(w)
      BY <1>3 DEF Acknowledge, VendorReject
  <2>2. trk'.released = trk.released
      BY <1>3 DEF Acknowledge, VendorReject, TypeOK, TrkRow
  <2>3. QED
      BY <2>1, <2>2, CopyKept DEF AuthInd, Sanctioned
<1>4. CASE Resend(w)
  <2>1. UNCHANGED <<po, approvedBy>> /\ Reply(w) /\ Authorised
      BY <1>4 DEF Resend, AuthInd, CopyInv
  <2>2. QED
      BY <2>1, CopyKept DEF AuthInd, Sanctioned, Authorised
<1>5. CASE Reopen(w)
  <2>1. po'.class = po.class /\ po'.approval = po.approval
      BY <1>5 DEF Reopen, TypeOK, PoRow
  <2>2. po'.status = "Released" => po.status = "Released"
      BY <1>5 DEF Reopen, Put, TypeOK, PoRow
  <2>3. UNCHANGED <<trk, approvedBy>> /\ Go(w, "sync")
      BY <1>5 DEF Reopen
  <2>4. QED
      BY <2>1, <2>2, <2>3, CopyKept DEF AuthInd, Sanctioned
<1>6. QED
    BY <1>1, <1>2, <1>3, <1>4, <1>5

LEMMA AuthException ==
    ASSUME TypeOK, AuthInd, NEW w \in Workers,
           Hold(w) \/ Resume(w) \/ Amend(w) \/ ResetVendorLoop(w) \/ LoseReset(w)
    PROVE  AuthInd'
<1>1. approvedBy' = approvedBy /\ po'.class = po.class
    BY DEF Hold, Resume, Amend, ResetVendorLoop, LoseReset, TypeOK, PoRow
<1>2. \/ Reply(w)
      \/ \E stage \in {"reset", "sync"} : Go(w, stage)
    BY DEF Hold, Resume, Amend, ResetVendorLoop, LoseReset
<1>3. trk'.released => trk.released
    BY DEF Hold, Resume, Amend, ResetVendorLoop, LoseReset, Put, TypeOK, TrkRow
<1>4. po'.status = "Released" => po.status = "Released"
    BY DEF Hold, Resume, Amend, ResetVendorLoop, LoseReset, Put, TypeOK, PoRow
<1>5. po'.approval = "approved" => po.approval = "approved"
    BY DEF Hold, Resume, Amend, ResetVendorLoop, LoseReset, Put, TypeOK, PoRow
<1>6. QED
    BY <1>1, <1>2, <1>3, <1>4, <1>5, CopyKept DEF AuthInd, Sanctioned

LEMMA AuthRecord ==
    ASSUME TypeOK, AuthInd, ShipmentOnly, ~edited', NEW w \in Workers,
           Record(w) \/ ViewTracking(w) \/ SyncRequest(w) \/ Submit(w)
    PROVE  AuthInd'
<1>1. ASSUME NEW status \in PoStatus, NEW class \in Classes, EditPo(w, status, class)
      PROVE  FALSE
    BY <1>1 DEF EditPo
<1>2. ASSUME NEW column \in TrackedColumns, NEW stamp \in BOOLEAN, Track(w, column, stamp)
      PROVE  AuthInd'
  <2>1. column \in {"shipped", "grnComplete"}
      BY DEF ShipmentOnly
  <2>2. trk'.released = trk.released
      BY <1>2, <2>1 DEF Track, TypeOK, TrkRow
  <2>3. UNCHANGED <<po, approvedBy>> /\ Reply(w)
      BY <1>2 DEF Track
  <2>4. QED
      BY <2>2, <2>3, CopyKept DEF AuthInd, Sanctioned
<1>3. CASE ViewTracking(w) \/ SyncRequest(w)
  <2>1. UNCHANGED <<po, approvedBy>> /\ Reply(w)
      BY <1>3 DEF ViewTracking, SyncRequest
  <2>2. trk'.released = trk.released
      BY <1>3 DEF ViewTracking, SyncRequest, TypeOK, TrkRow
  <2>3. QED
      BY <2>1, <2>2, CopyKept DEF AuthInd, Sanctioned
<1>4. CASE Submit(w)
  <2>1. po'.class = po.class /\ po'.status = po.status /\ po'.approval # "approved"
      BY <1>4 DEF Submit, Approval, TypeOK, PoRow
  <2>2. UNCHANGED <<trk, approvedBy>> /\ Reply(w)
      BY <1>4 DEF Submit, Approval
  <2>3. QED
      BY <2>1, <2>2, CopyKept DEF AuthInd, Sanctioned
<1>5. QED
    BY <1>1, <1>2, <1>3, <1>4 DEF Record

\* No step takes back that the row has been edited.
LEMMA EditedStays == [Next]_vars /\ edited => edited'
<1> SUFFICES ASSUME [Next]_vars, edited PROVE edited'
    OBVIOUS
<1>1. CASE UNCHANGED vars
    BY <1>1 DEF vars
<1>2. ASSUME NEW w \in Workers, NEW op \in AllOps, Enter(w, op) PROVE edited'
    BY <1>2 DEF Enter
<1>3. ASSUME NEW w \in Workers, Step(w) PROVE edited'
    BY <1>3, StepCases DEF Submit, Decide, Forward, Approve, RequestChanges, RejectApproval,
           Approval, Cancel, Send, Release, Acknowledge, VendorReject, Resend, Reopen, Hold,
           Resume, Amend, ResetVendorLoop, LoseReset, Record, EditPo, Track, ViewTracking,
           SyncRequest, LoadPo, LoadTracking, Refuse, Abort
<1>4. QED
    BY <1>1, <1>2, <1>3 DEF Next

LEMMA AuthNext ==
    ASSUME ShipmentOnly
    PROVE  TypeOK /\ (~edited => AuthInd) /\ [Next]_vars => (~edited => AuthInd)'
<1> SUFFICES ASSUME TypeOK, AuthInd, [Next]_vars, ~edited' PROVE AuthInd'
    BY EditedStays
<1>1. CASE UNCHANGED vars
    BY <1>1 DEF vars, AuthInd, Sanctioned, CopyInv, Authorised
<1>2. ASSUME NEW w \in Workers, NEW op \in AllOps, Enter(w, op) PROVE AuthInd'
    BY <1>2, AuthProtocol
<1>3. ASSUME NEW w \in Workers, Step(w) PROVE AuthInd'
  <2>1. CASE LoadPo(w) \/ LoadTracking(w) \/ Refuse(w) \/ Abort(w)
      BY <2>1, AuthProtocol
  <2>2. CASE \E role \in Roles : Decide(w, role)
      BY <2>2, AuthDecide
  <2>3. CASE Send(w) \/ Release(w) \/ Acknowledge(w) \/ VendorReject(w) \/ Resend(w) \/ Reopen(w)
      BY <2>3, AuthVendor
  <2>4. CASE Hold(w) \/ Resume(w) \/ Amend(w) \/ ResetVendorLoop(w) \/ LoseReset(w)
      BY <2>4, AuthException
  <2>5. CASE Record(w) \/ ViewTracking(w) \/ SyncRequest(w) \/ Submit(w)
      BY <2>5, AuthRecord
  <2>6. QED
      BY <1>3, <2>1, <2>2, <2>3, <2>4, <2>5, StepCases
<1>4. QED
    BY <1>1, <1>2, <1>3 DEF Next

LEMMA AuthInit == Init => AuthInd
<1> SUFFICES ASSUME Init PROVE AuthInd
    OBVIOUS
<1> PICK class \in Classes : po = DraftPo(class)
    BY DEF Init
<1>1. po.approval = "none" /\ po.status = "Draft" /\ ~trk.released
    BY DEF Init, DraftPo, NoTrk
<1>2. ASSUME NEW w \in Workers PROVE CopyInv(w)
    BY DEF Init, CopyInv, Idle, DraftPo
<1>3. QED
    BY <1>1, <1>2 DEF AuthInd, Sanctioned

\* With any number of overlapping requests, until its row is edited directly, a PO
\* is approved, sent or Released only after someone entitled to be its final
\* approver has approved it.
THEOREM NoDispatchWithoutAuthority ==
    ASSUME ShipmentOnly
    PROVE  Spec => []AuthorisedInv
<1>1. Init => (~edited => AuthInd)
    BY AuthInit
<1>2. TypeOK /\ (~edited => AuthInd) /\ [Next]_vars => (~edited => AuthInd)'
    BY AuthNext
<1>3. (~edited => AuthInd) => AuthorisedInv
    BY DEF AuthInd, AuthorisedInv
<1>4. QED
    BY <1>1, <1>2, <1>3, TypeCorrect, PTL DEF Spec

=============================================================================
