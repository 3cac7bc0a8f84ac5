--------------------- MODULE OutwardPaymentSerialProofs ---------------------
(***************************************************************************)
(* Proofs about OutwardPayment while requests are served one at a time, for *)
(* every set of payments, endpoints and bands.  A request does one of two   *)
(* things to the rows: it enters a payment, or it changes one it has read   *)
(* as it is; what it leaves is told by the chain.                           *)
(***************************************************************************)
EXTENDS OutwardPaymentProofs

OneAtATime == \A v, w \in Workers : v = w

\* Payables of the document reach the treasury through the sync.
SyncedOnly == "Push" \notin Ops /\ ManualLinks \subseteq {FALSE}

-----------------------------------------------------------------------------
(* Rows and chains.                                                        *)

\* StatusInv of one payment; one that was approved in advance has a chain of
\* approved steps.
Told(row, chain) ==
    /\ row.status \in InApproval => chain # <<>> /\ row.status = StatusFrom(row.band, chain)
    /\ row.status \in {"scheduled", "reconciled"} => AllApproved(chain)
    /\ row.status \in {"absent", "draft"} => chain = <<>>
    /\ row.status = "absent" => ~row.linked
    /\ row.auto => AllApproved(chain)

\* PhaseOf of one payment.
PhaseFrom(row, chain) ==
    CASE row.status = "absent"     -> "none"
      [] row.status = "draft"      -> "draft"
      [] row.status = "on_hold"    -> "held"
      [] row.status = "rejected"   -> "rejected"
      [] row.status = "reconciled" -> "paid"
      [] row.status = "scheduled"  -> "approved"
      [] OTHER -> IF AllApproved(chain) THEN "approved" ELSE "approving"

RowsTold == \A p \in Payments : Told(pay[p], steps[p])

\* A request decides on the rows as they are, approves or rejects a step that is
\* pending, and has counted what its approval makes of the chain.
Fresh(w) ==
    /\ job[w].op \in UpdateOps /\ job[w].at \in Inside \cup {"act"} =>
          job[w].row = pay[job[w].p] /\ job[w].steps = steps[job[w].p]
    /\ job[w].at \in Inside =>
          job[w].i \in Pending(job[w].steps) /\ job[w].row.status \in InApproval
    /\ At(w, "counted") =>
          job[w].status = StatusFrom(pay[job[w].p].band,
                             [steps[job[w].p] EXCEPT ![job[w].i].status = "approved"])
    /\ At(w, "idle") \/ job[w].op \in Ops

\* What the sync has seen when it is about to look for a payment, and to insert.
SyncSaw(w) ==
    job[w].op = "Sync" =>
        /\ job[w].at \in {"check", "act"} => ~receipt
        /\ At(w, "act") => \A p \in Payments : ~Live(p)

SerialInd ==
    /\ StandInd
    /\ RowsTold
    /\ \A w \in Workers : Fresh(w) /\ SyncSaw(w)

SourceInd == SerialInd /\ SourceInv

-----------------------------------------------------------------------------
(* Chains of a new payment.                                                *)

LEMMA PendingChain ==
    ASSUME NEW band \in AllBands
    PROVE  /\ NewSteps(band, "pending") # <<>>
           /\ ~AllApproved(NewSteps(band, "pending"))
           /\ StatusFrom(band, NewSteps(band, "pending")) = "submitted"
<1>1. PICK chain : chain = NewSteps(band, "pending")
    OBVIOUS
<1>2. "pending" \in StepStatus
    BY DEF StepStatus
<1>3. DOMAIN chain = Levels(band) /\ 1 \in Levels(band)
    BY <1>1, <1>2, NewStepsType
<1>4. \A i \in DOMAIN chain : chain[i].status = "pending"
    BY <1>1, <1>2, <1>3, NewRows
<1>5. chain # <<>>
    BY <1>3, EmptyChain
<1>6. ~AllApproved(chain)
    BY <1>3, <1>4 DEF AllApproved
<1>7. {ChainFor(band)[chain[i].level] : i \in {j \in DOMAIN chain : chain[j].status = "approved"}} = {}
    BY <1>4
<1>8. StatusFrom(band, chain) = "submitted"
    BY <1>7 DEF StatusFrom
<1>9. QED
    BY <1>1, <1>5, <1>6, <1>8

\* createOutwardPayment gives a payment approved in advance the status that its
\* chain would.
LEMMA ApprovedChain ==
    ASSUME NEW band \in AllBands
    PROVE  /\ NewSteps(band, "approved") # <<>>
           /\ AllApproved(NewSteps(band, "approved"))
           /\ StatusFrom(band, NewSteps(band, "approved")) = FinalStatus(band)
<1>1. PICK chain : chain = NewSteps(band, "approved")
    OBVIOUS
<1>2. "approved" \in StepStatus
    BY DEF StepStatus
<1>3. DOMAIN chain = Levels(band) /\ 1 \in Levels(band)
    BY <1>1, <1>2, NewStepsType
<1>4. \A i \in DOMAIN chain : chain[i].status = "approved" /\ chain[i].level = i
    BY <1>1, <1>2, <1>3, NewRows
<1>5. chain # <<>>
    BY <1>3, EmptyChain
<1>6. AllApproved(chain)
    BY <1>4, <1>5 DEF AllApproved
<1> DEFINE done == {ChainFor(band)[chain[i].level] :
                       i \in {j \in DOMAIN chain : chain[j].status = "approved"}}
<1>7. done = {ChainFor(band)[level] : level \in Levels(band)}
    BY <1>3, <1>4
<1>8. StatusFrom(band, chain)
         = IF "admin" \in done THEN "admin_approved"
           ELSE IF done \cap {"cfo", "treasury_officer"} # {} THEN "treasury_approved"
           ELSE IF "function_head" \in done THEN "function_approved"
           ELSE "submitted"
    BY DEF StatusFrom
<1> HIDE DEF done
<1>9. CASE band = "small"
  <2>1. ChainFor(band) = <<"treasury_officer">> /\ Levels(band) = {1}
      BY <1>9 DEF ChainFor, Levels
  <2>2. done = {"treasury_officer"}
      BY <1>7, <2>1
  <2>3. "admin" \notin done /\ done \cap {"cfo", "treasury_officer"} # {}
      BY <2>2
  <2>4. StatusFrom(band, chain) = FinalStatus(band)
      BY <1>8, <1>9, <2>3 DEF FinalStatus
  <2>5. QED
      BY <1>1, <1>5, <1>6, <2>4
<1>10. CASE band = "medium"
  <2>1. ChainFor(band) = <<"function_head", "treasury_officer">> /\ Levels(band) = {1, 2}
      BY <1>10 DEF ChainFor, Levels
  <2>2. done = {"function_head", "treasury_officer"}
      BY <1>7, <2>1
  <2>3. "admin" \notin done /\ done \cap {"cfo", "treasury_officer"} # {}
      BY <2>2
  <2>4. StatusFrom(band, chain) = FinalStatus(band)
      BY <1>8, <1>10, <2>3 DEF FinalStatus
  <2>5. QED
      BY <1>1, <1>5, <1>6, <2>4
<1>11. CASE band = "large"
  <2>1. ChainFor(band) = <<"function_head", "cfo">> /\ Levels(band) = {1, 2}
      BY <1>11 DEF ChainFor, Levels
  <2>2. done = {"function_head", "cfo"}
      BY <1>7, <2>1
  <2>3. "admin" \notin done /\ done \cap {"cfo", "treasury_officer"} # {}
      BY <2>2
  <2>4. StatusFrom(band, chain) = FinalStatus(band)
      BY <1>8, <1>11, <2>3 DEF FinalStatus
  <2>5. QED
      BY <1>1, <1>5, <1>6, <2>4
<1>12. CASE band = "capex"
  <2>1. ChainFor(band) = <<"function_head", "cfo", "admin">> /\ Levels(band) = {1, 2, 3}
      BY <1>12 DEF ChainFor, Levels
  <2>2. done = {"function_head", "cfo", "admin"}
      BY <1>7, <2>1
  <2>3. "admin" \in done
      BY <2>2
  <2>4. StatusFrom(band, chain) = FinalStatus(band)
      BY <1>8, <1>12, <2>3 DEF FinalStatus
  <2>5. QED
      BY <1>1, <1>5, <1>6, <2>4
<1>13. QED
    BY <1>9, <1>10, <1>11, <1>12 DEF AllBands

LEMMA InitSerial == Init => SerialInd /\ SourceInv
<1> SUFFICES ASSUME Init PROVE SerialInd /\ SourceInv
    OBVIOUS
<1>1. StandInd
    BY InitStand
<1>2. RowsTold
    BY DEF Init, RowsTold, Told, NoPay, InApproval
<1>3. \A w \in Workers : Fresh(w) /\ SyncSaw(w)
    BY DEF Init, Idle, Fresh, SyncSaw, At, Inside, UpdateOps
<1>4. SourceInv
    BY DEF Init, SourceInv, NoPay
<1>5. QED
    BY <1>1, <1>2, <1>3, <1>4 DEF SerialInd

-----------------------------------------------------------------------------
(* What a request does to the rows.                                        *)

\* Payment p has become row with chain, which tells it.
Written(p, row, chain) ==
    /\ pay' = [pay EXCEPT ![p] = row]
    /\ steps' = [steps EXCEPT ![p] = chain]
    /\ Told(row, chain)

\* A payment of the document enters through the sync only, for approval.
Enters(w, p, row, chain) ==
    /\ pay[p].status = "absent"
    /\ Written(p, row, chain)
    /\ PhaseFrom(row, chain) \in {"draft", "approving", "approved"}
    /\ row.status \notin Closed
    /\ SyncedOnly /\ row.linked => Acts(w, "Sync") /\ PhaseFrom(row, chain) = "approving"
    /\ receipt' = receipt

\* The moves of PaymentLifecycle, and those that it does not see.
Moves == {<<"draft", "approving">>, <<"approving", "approving">>, <<"approving", "approved">>,
          <<"approved", "approved">>, <<"approving", "rejected">>, <<"approved", "rejected">>,
          <<"draft", "held">>, <<"approving", "held">>, <<"approved", "held">>,
          <<"approved", "paid">>}

Changes(p, row, chain) ==
    /\ pay[p].status \notin Closed \cup {"absent"}
    /\ row.linked = pay[p].linked
    /\ Written(p, row, chain)
    /\ <<PhaseFrom(pay[p], steps[p]), PhaseFrom(row, chain)>> \in Moves
    /\ receipt' = (receipt \/ (row.linked /\ row.status = "reconciled"))

\* A request that answers leaves nothing to go stale.
LEMMA ReplySerial ==
    ASSUME OneAtATime, SerialInd, StandInd', RowsTold', NEW w \in Workers, Reply(w)
    PROVE  SerialInd'
<1>1. \A v \in Workers : job'[v] = Idle
    BY DEF OneAtATime, Reply, SerialInd, StandInd, SignInd, TypeInd, TypeOK
<1>2. Idle.at = "idle" /\ Idle.op = "Record"
    BY DEF Idle
<1>3. ASSUME NEW v \in Workers PROVE Fresh(v)' /\ SyncSaw(v)'
  <2>1. job'[v].at = "idle" /\ job'[v].op = "Record"
      BY <1>1, <1>2
  <2>2. QED
      BY <2>1 DEF Fresh, SyncSaw, At, Inside
<1>4. QED
    BY <1>3 DEF SerialInd

\* A request that moves on without touching a row.
LEMMA JobSerial ==
    ASSUME OneAtATime, SerialInd, StandInd', NEW w \in Workers, NEW j,
           job' = [job EXCEPT ![w] = j], UNCHANGED <<pay, steps, receipt>>,
           j.op \in UpdateOps /\ j.at \in Inside \cup {"act"} =>
              j.row = pay[j.p] /\ j.steps = steps[j.p],
           j.at \in Inside => j.i \in Pending(j.steps) /\ j.row.status \in InApproval,
           j.at = "counted" =>
              j.status = StatusFrom(pay[j.p].band, [steps[j.p] EXCEPT ![j.i].status = "approved"]),
           j.at = "idle" \/ j.op \in Ops,
           j.op = "Sync" =>
              /\ j.at \in {"check", "act"} => ~receipt
              /\ j.at = "act" => \A p \in Payments : ~Live(p)
    PROVE  SerialInd'
<1>1. \A v \in Workers : job'[v] = j
    BY DEF OneAtATime, SerialInd, StandInd, SignInd, TypeInd, TypeOK
<1>2. RowsTold'
    BY DEF SerialInd, RowsTold
<1>3. ASSUME NEW v \in Workers PROVE Fresh(v)' /\ SyncSaw(v)'
  <2>1. job'[v] = j
      BY <1>1
  <2>2. Fresh(v)'
      BY <2>1 DEF Fresh, At
  <2>3. \A p \in Payments : Live(p)' = Live(p)
      BY DEF Live
  <2>4. SyncSaw(v)'
      BY <2>1, <2>3 DEF SyncSaw, At
  <2>5. QED
      BY <2>2, <2>4
<1>4. QED
    BY <1>2, <1>3 DEF SerialInd

LEMMA ProtocolSerial ==
    ASSUME OneAtATime, SerialInd, StandInd', NEW w \in Workers,
           \/ \E op \in CreateOps : Begin(w, op)
           \/ \E op \in UpdateOps, p \in Payments : Open(w, op, p)
           \/ Load(w) \/ Scan(w) \/ Check(w) \/ Fail(w) \/ Recount(w)
           \/ \E i \in Pending(job[w].steps) : Stamp(w, i) \/ Mark(w, i)
    PROVE  SerialInd' /\ UNCHANGED <<pay, steps, receipt>>
<1>0. /\ job[w] \in Job /\ job \in [Workers -> Job] /\ RequestInv(w) /\ CopyCovered(w)
      /\ Fresh(w) /\ SyncSaw(w)
    BY DEF SerialInd, StandInd, SignInd, TypeInd, TypeOK
<1>1. CASE \E op \in CreateOps : Begin(w, op)
  <2>1. PICK op \in CreateOps : Begin(w, op)
      BY <1>1
  <2> DEFINE j == [Idle EXCEPT !.op = op,
                  !.at = CASE op = "Sync" -> "scan" [] op = "Push" -> "check" [] OTHER -> "act"]
  <2>2. /\ j.op = op /\ op \in Ops /\ j.at \in {"scan", "check", "act"}
        /\ op = "Sync" => j.at = "scan"
      BY <2>1 DEF Begin, Idle
  <2>3. /\ job' = [job EXCEPT ![w] = j] /\ UNCHANGED <<pay, steps, receipt>>
      BY <2>1 DEF Begin
  <2> HIDE DEF j
  <2>4. j.op \notin UpdateOps /\ j.at \notin Inside /\ (j.op = "Sync" => j.at = "scan")
      BY <2>2 DEF CreateOps, UpdateOps, Inside
  <2>5. QED
      BY <2>2, <2>3, <2>4, JobSerial DEF Inside
<1>2. CASE \E op \in UpdateOps, p \in Payments : Open(w, op, p)
  <2>1. PICK op \in UpdateOps, p \in Payments : Open(w, op, p)
      BY <1>2
  <2> DEFINE j == [Idle EXCEPT !.op = op, !.p = p, !.at = "load"]
  <2>2. j.op \in Ops /\ j.op # "Sync" /\ j.at = "load"
      BY <2>1 DEF Open, Idle, UpdateOps
  <2>3. job' = [job EXCEPT ![w] = j] /\ UNCHANGED <<pay, steps, receipt>>
      BY <2>1 DEF Open
  <2> HIDE DEF j
  <2>4. QED
      BY <2>2, <2>3, JobSerial DEF Inside
<1>3. CASE Load(w)
  <2> DEFINE j == [job[w] EXCEPT !.row = pay[job[w].p], !.steps = steps[job[w].p], !.at = "act"]
  <2>1. /\ j.op = job[w].op /\ j.p = job[w].p /\ j.at = "act"
        /\ j.row = pay[j.p] /\ j.steps = steps[j.p]
      BY <1>0 DEF Job
  <2>2. job' = [job EXCEPT ![w] = j] /\ UNCHANGED <<pay, steps, receipt>>
      BY <1>0, <1>3 DEF Load, Job
  <2>3. job[w].at = "load"
      BY <1>3 DEF Load, At
  <2>4. job[w].op \in UpdateOps /\ job[w].op \in Ops
      BY <1>0, <2>3 DEF RequestInv, Fresh, At
  <2> HIDE DEF j
  <2>5. j.op # "Sync"
      BY <2>1, <2>4 DEF UpdateOps
  <2>6. QED
      BY <2>1, <2>2, <2>4, <2>5, JobSerial DEF Inside
<1>4. CASE Scan(w) \/ Check(w)
  <2>1. PICK stage \in {"check", "act"} : /\ job' = [job EXCEPT ![w].at = stage]
                                          /\ UNCHANGED <<pay, steps, receipt>>
                                          /\ stage = "check" => ~receipt
                                          /\ stage = "act" => At(w, "check") /\ \A p \in Payments : ~Live(p)
      BY <1>4 DEF Scan, Check
  <2> DEFINE j == [job[w] EXCEPT !.at = stage]
  <2>2. j.at = stage /\ j.op = job[w].op /\ job' = [job EXCEPT ![w] = j]
      BY <1>0, <2>1 DEF Job
  <2>3. job[w].at \in {"scan", "check"}
      BY <1>4 DEF Scan, Check, At
  <2>4. job[w].op \notin UpdateOps /\ job[w].op \in Ops
      BY <1>0, <2>3 DEF CopyCovered, Fresh, At
  <2>5. job[w].op = "Sync" /\ stage = "act" => ~receipt
      BY <1>0, <2>1 DEF SyncSaw, At
  <2> HIDE DEF j
  <2>6. j.at \notin Inside /\ j.at # "counted"
      BY <2>1, <2>2 DEF Inside
  <2>7. QED
      BY <2>1, <2>2, <2>4, <2>5, <2>6, JobSerial
<1>5. CASE Fail(w)
  <2>1. RowsTold' /\ Reply(w) /\ UNCHANGED <<pay, steps, receipt>>
      BY <1>5 DEF Fail, SerialInd, RowsTold
  <2>2. QED
      BY <2>1, ReplySerial
<1>6. CASE Recount(w)
  <2> DEFINE status == StatusFrom(pay[job[w].p].band,
                                  [steps[job[w].p] EXCEPT ![job[w].i].status = "approved"])
             j == [job[w] EXCEPT !.at = "counted", !.status = status]
  <2>1. /\ job' = [job EXCEPT ![w] = j] /\ UNCHANGED <<pay, steps, receipt>>
        /\ job[w].at = "stamped"
      BY <1>0, <1>6 DEF Recount, Job, At
  <2> HIDE DEF status
  <2>2. /\ j.op = job[w].op /\ j.p = job[w].p /\ j.at = "counted" /\ j.i = job[w].i
        /\ j.row = job[w].row /\ j.steps = job[w].steps /\ j.status = status
      BY <1>0 DEF Job
  <2> HIDE DEF j
  <2>3. /\ job[w].op \in UpdateOps /\ job[w].op \in Ops
        /\ job[w].row = pay[job[w].p] /\ job[w].steps = steps[job[w].p]
        /\ job[w].i \in Pending(job[w].steps) /\ job[w].row.status \in InApproval
      BY <1>0, <2>1 DEF RequestInv, Fresh, At, Inside
  <2>4. j.status = StatusFrom(pay[j.p].band, [steps[j.p] EXCEPT ![j.i].status = "approved"])
      BY <2>2 DEF status
  <2>5. j.op # "Sync"
      BY <2>2, <2>3 DEF UpdateOps
  <2>6. QED
      BY <2>1, <2>2, <2>3, <2>4, <2>5, JobSerial
<1>7. CASE \E i \in Pending(job[w].steps) : Stamp(w, i) \/ Mark(w, i)
  <2>1. PICK i \in Pending(job[w].steps), stage \in {"stamped", "marked"} :
           /\ job' = [job EXCEPT ![w].at = stage, ![w].i = i]
           /\ UNCHANGED <<pay, steps, receipt>>
           /\ At(w, "act") /\ job[w].op \in {"Approve", "Reject"} /\ job[w].row.status \in InApproval
      BY <1>7 DEF Stamp, Mark, Acts
  <2> DEFINE j == [job[w] EXCEPT !.at = stage, !.i = i]
  <2>2. /\ j.op = job[w].op /\ j.p = job[w].p /\ j.at = stage /\ j.i = i
        /\ j.row = job[w].row /\ j.steps = job[w].steps /\ job' = [job EXCEPT ![w] = j]
      BY <1>0, <2>1 DEF Job
  <2>3. /\ job[w].op \in Ops /\ job[w].op \in UpdateOps /\ job[w].op # "Sync"
        /\ job[w].row = pay[job[w].p] /\ job[w].steps = steps[job[w].p]
      BY <1>0, <2>1 DEF Fresh, At, UpdateOps
  <2> HIDE DEF j
  <2>4. QED
      BY <2>1, <2>2, <2>3, JobSerial
<1>8. QED
    BY <1>1, <1>2, <1>3, <1>4, <1>5, <1>6, <1>7

\* A status that a fresh copy does not have is written as it is.
LEMMA FreshMove ==
    ASSUME SerialInd, NEW p \in Payments, NEW new \in Statuses,
           pay' = [pay EXCEPT ![p].status = Put(@, pay[p].status, new)]
    PROVE  \E row \in PayRow :
              /\ pay' = [pay EXCEPT ![p] = row] /\ row.status = new
              /\ row.band = pay[p].band /\ row.auto = pay[p].auto /\ row.linked = pay[p].linked
<1>1. pay[p] \in PayRow /\ pay \in [Payments -> PayRow]
    BY DEF SerialInd, StandInd, SignInd, TypeInd, TypeOK
<1>2. Put(pay[p].status, pay[p].status, new) = new
    BY DEF Put
<1>3. PICK row \in PayRow : row = [pay[p] EXCEPT !.status = new]
    BY <1>1 DEF PayRow
<1>4. /\ row.status = new
      /\ row.band = pay[p].band /\ row.auto = pay[p].auto /\ row.linked = pay[p].linked
    BY <1>1, <1>3 DEF PayRow
<1>5. pay' = [pay EXCEPT ![p] = row]
    BY <1>1, <1>2, <1>3
<1>6. QED
    BY <1>4, <1>5

\* What an update knows of its payment.
LEMMA FreshCopy ==
    ASSUME SerialInd, NEW w \in Workers, job[w].op \in UpdateOps, job[w].at \in Inside \cup {"act"}
    PROVE  /\ job[w].p \in Payments /\ job[w].row = pay[job[w].p] /\ job[w].steps = steps[job[w].p]
           /\ steps[job[w].p] \in Seq(StepRow) /\ pay[job[w].p] \in PayRow
           /\ Told(pay[job[w].p], steps[job[w].p])
<1>1. job[w].p \in Payments
    BY DEF SerialInd, StandInd, SignInd, TypeInd, TypeOK, Job
<1>2. steps[job[w].p] \in Seq(StepRow) /\ pay[job[w].p] \in PayRow
    BY <1>1 DEF SerialInd, StandInd, SignInd, TypeInd, TypeOK
<1>3. Told(pay[job[w].p], steps[job[w].p])
    BY <1>1 DEF SerialInd, RowsTold
<1>4. Fresh(w)
    BY DEF SerialInd
<1>5. QED
    BY <1>1, <1>2, <1>3, <1>4 DEF Fresh

\* The phase of a payment that is in approval or further.
LEMMA PhaseIs ==
    ASSUME NEW row, NEW chain
    PROVE  /\ row.status = "draft" => PhaseFrom(row, chain) = "draft"
           /\ row.status = "on_hold" => PhaseFrom(row, chain) = "held"
           /\ row.status = "rejected" => PhaseFrom(row, chain) = "rejected"
           /\ row.status = "reconciled" => PhaseFrom(row, chain) = "paid"
           /\ row.status = "scheduled" => PhaseFrom(row, chain) = "approved"
           /\ row.status \in InApproval => PhaseFrom(row, chain)
                 = IF AllApproved(chain) THEN "approved" ELSE "approving"
<1>1. CASE row.status = "draft"
    BY <1>1 DEF PhaseFrom, InApproval
<1>2. CASE row.status = "on_hold"
    BY <1>2 DEF PhaseFrom, InApproval
<1>3. CASE row.status = "rejected"
    BY <1>3 DEF PhaseFrom, InApproval
<1>4. CASE row.status = "reconciled"
    BY <1>4 DEF PhaseFrom, InApproval
<1>5. CASE row.status = "scheduled"
    BY <1>5 DEF PhaseFrom, InApproval
<1>6. CASE row.status \in InApproval
    BY <1>6 DEF PhaseFrom, InApproval
<1>7. QED
    BY <1>1, <1>2, <1>3, <1>4, <1>5, <1>6

\* The handlers that write the status only.
LEMMA StatusChanges ==
    ASSUME SerialInd, NEW w \in Workers,
           RejectApproved(w) \/ Hold(w) \/ Schedule(w) \/ Execute(w)
    PROVE  \E p \in Payments : \E row, chain : Changes(p, row, chain)
<1>1. job[w].op \in UpdateOps /\ job[w].at = "act"
    BY DEF RejectApproved, Hold, Schedule, Execute, Acts, At, UpdateOps
<1>2. PICK p \in Payments : p = job[w].p
    BY <1>1, FreshCopy
<1>3. /\ job[w].row = pay[p] /\ job[w].steps = steps[p]
      /\ steps[p] \in Seq(StepRow) /\ pay[p] \in PayRow /\ Told(pay[p], steps[p])
    BY <1>1, <1>2, FreshCopy
<1>4. PICK new \in {"rejected", "on_hold", "scheduled", "reconciled"} :
         /\ pay' = [pay EXCEPT ![p].status = Put(@, job[w].row.status, new)]
         /\ steps' = steps
         /\ new = "rejected" => RejectApproved(w)
         /\ new = "on_hold" => Hold(w)
         /\ new = "scheduled" => Schedule(w)
         /\ new = "reconciled" => Execute(w)
    BY <1>2 DEF RejectApproved, Hold, Schedule, Execute, Move
<1>5. new \in Statuses
    BY DEF Statuses, Closed
<1>7. PICK row \in PayRow :
         /\ pay' = [pay EXCEPT ![p] = row] /\ row.status = new
         /\ row.band = pay[p].band /\ row.auto = pay[p].auto /\ row.linked = pay[p].linked
  <2>1. pay' = [pay EXCEPT ![p].status = Put(@, pay[p].status, new)]
      BY <1>3, <1>4
  <2>2. QED
      BY <1>5, <2>1, FreshMove
<1>8. steps' = [steps EXCEPT ![p] = steps[p]]
    BY <1>4 DEF SerialInd, StandInd, SignInd, TypeInd, TypeOK
<1>9. /\ pay[p].status \notin Closed \cup {"absent"}
      /\ receipt' = (receipt \/ (row.linked /\ row.status = "reconciled"))
      /\ new \in {"scheduled", "reconciled"} => AllApproved(steps[p])
      /\ <<PhaseFrom(pay[p], steps[p]), PhaseFrom(row, steps[p])>> \in Moves
  <2>1. CASE new = "rejected"
    <3>1. pay[p].status \in InApproval /\ receipt' = receipt
        BY <1>3, <1>4, <2>1 DEF RejectApproved
    <3>2. receipt \in BOOLEAN
        BY DEF SerialInd, StandInd, SignInd, TypeInd, TypeOK
    <3>3. PhaseFrom(row, steps[p]) = "rejected"
          /\ PhaseFrom(pay[p], steps[p]) \in {"approved", "approving"}
        BY <1>7, <2>1, <3>1, PhaseIs
    <3>4. <<PhaseFrom(pay[p], steps[p]), PhaseFrom(row, steps[p])>> \in Moves
        BY <3>3 DEF Moves
    <3>5. QED
        BY <1>7, <2>1, <3>1, <3>2, <3>4 DEF InApproval, Closed
  <2>2. CASE new = "on_hold"
    <3>1. pay[p].status \in InApproval \cup {"draft", "scheduled"} /\ receipt' = receipt
        BY <1>3, <1>4, <2>2 DEF Hold
    <3>2. receipt \in BOOLEAN
        BY DEF SerialInd, StandInd, SignInd, TypeInd, TypeOK
    <3>3. PhaseFrom(row, steps[p]) = "held"
          /\ PhaseFrom(pay[p], steps[p]) \in {"draft", "approved", "approving"}
        BY <1>7, <2>2, <3>1, PhaseIs
    <3>4. <<PhaseFrom(pay[p], steps[p]), PhaseFrom(row, steps[p])>> \in Moves
        BY <3>3 DEF Moves
    <3>5. QED
        BY <1>7, <2>2, <3>1, <3>2, <3>4 DEF InApproval, Closed
  <2>3. CASE new = "scheduled"
    <3>1. /\ pay[p].status \in InApproval \cup {"scheduled"} /\ receipt' = receipt
          /\ AllApproved(steps[p])
        BY <1>3, <1>4, <2>3 DEF Schedule, Ready, Told, InApproval
    <3>2. receipt \in BOOLEAN
        BY DEF SerialInd, StandInd, SignInd, TypeInd, TypeOK
    <3>3. PhaseFrom(row, steps[p]) = "approved" /\ PhaseFrom(pay[p], steps[p]) = "approved"
        BY <1>7, <2>3, <3>1, PhaseIs
    <3>4. <<PhaseFrom(pay[p], steps[p]), PhaseFrom(row, steps[p])>> \in Moves
        BY <3>3 DEF Moves
    <3>5. QED
        BY <1>7, <2>3, <3>1, <3>2, <3>4 DEF InApproval, Closed
  <2>4. CASE new = "reconciled"
    <3>1. /\ pay[p].status \in InApproval \cup {"scheduled"} /\ receipt' = (receipt \/ row.linked)
          /\ AllApproved(steps[p])
        BY <1>3, <1>4, <1>7, <2>4 DEF Execute, ApplyReceipt, Ready, Told, InApproval
    <3>2. PhaseFrom(row, steps[p]) = "paid" /\ PhaseFrom(pay[p], steps[p]) = "approved"
        BY <1>7, <2>4, <3>1, PhaseIs
    <3>3. <<PhaseFrom(pay[p], steps[p]), PhaseFrom(row, steps[p])>> \in Moves
        BY <3>2 DEF Moves
    <3>4. QED
        BY <1>7, <2>4, <3>1, <3>3 DEF InApproval, Closed
  <2>5. QED
      BY <2>1, <2>2, <2>3, <2>4
<1>10. Told(row, steps[p])
    BY <1>3, <1>4, <1>7, <1>9 DEF Told, InApproval
<1>11. QED
    BY <1>7, <1>8, <1>9, <1>10 DEF Changes, Written

\* The step that approve and reject write was pending.
LEMMA PendingStep ==
    ASSUME SerialInd, NEW w \in Workers, job[w].at \in Inside
    PROVE  /\ job[w].op \in UpdateOps
           /\ job[w].i \in DOMAIN steps[job[w].p]
           /\ steps[job[w].p][job[w].i].status = "pending"
           /\ ~AllApproved(steps[job[w].p])
           /\ pay[job[w].p].status \in InApproval
           /\ ~pay[job[w].p].auto
<1>1. job[w].op \in UpdateOps
    BY DEF SerialInd, StandInd, SignInd, TypeInd, RequestInv
<1>2. /\ job[w].row = pay[job[w].p] /\ job[w].steps = steps[job[w].p]
      /\ Told(pay[job[w].p], steps[job[w].p])
    BY <1>1, FreshCopy
<1>3. job[w].i \in Pending(steps[job[w].p]) /\ pay[job[w].p].status \in InApproval
    BY <1>2 DEF SerialInd, Fresh
<1>4. /\ job[w].i \in DOMAIN steps[job[w].p]
      /\ steps[job[w].p][job[w].i].status = "pending"
    BY <1>3 DEF Pending
<1>5. ~AllApproved(steps[job[w].p])
    BY <1>4 DEF AllApproved
<1>6. QED
    BY <1>1, <1>2, <1>3, <1>4, <1>5 DEF Told

LEMMA ApprovalChanges ==
    ASSUME SerialInd, NEW w \in Workers, CommitApproval(w)
    PROVE  \E p \in Payments : \E row, chain : Changes(p, row, chain)
<1>1. job[w].at = "counted" /\ job[w].at \in Inside
    BY DEF CommitApproval, At, Inside
<1>2. job[w].op \in UpdateOps
    BY <1>1, PendingStep
<1>3. PICK p \in Payments, s0 \in Seq(StepRow), i \in Nat : p = job[w].p /\ s0 = steps[p] /\ i = job[w].i
    BY <1>1, <1>2, FreshCopy DEF SerialInd, StandInd, SignInd, TypeInd, TypeOK, Job
<1>4. /\ i \in DOMAIN s0 /\ ~AllApproved(s0) /\ pay[p].status \in InApproval /\ ~pay[p].auto
    BY <1>1, <1>3, PendingStep
<1>5. PICK chain \in Seq(StepRow) : chain = [s0 EXCEPT ![i].status = "approved"]
    BY <1>4, MarkedChain DEF StepStatus
<1>6. chain # <<>>
  <2>1. DOMAIN chain = DOMAIN s0
      BY <1>5
  <2>2. QED
      BY <1>4, <2>1, EmptyChain
<1>7. PICK new \in InApproval : new = job[w].status
    BY <1>1 DEF SerialInd, StandInd, SignInd, TypeInd, RequestInv
<1>8. new = StatusFrom(pay[p].band, chain)
    BY <1>1, <1>3, <1>5, <1>7 DEF SerialInd, Fresh, At
<1>9. PICK row \in PayRow :
         /\ pay' = [pay EXCEPT ![p] = row] /\ row.status = new
         /\ row.band = pay[p].band /\ row.auto = pay[p].auto /\ row.linked = pay[p].linked
  <2>1. job[w].row = pay[p] /\ new \in Statuses
      BY <1>1, <1>2, <1>3, FreshCopy DEF Statuses
  <2>2. pay' = [pay EXCEPT ![p].status = Put(@, pay[p].status, new)]
      BY <1>3, <1>7, <2>1 DEF CommitApproval, Move
  <2>3. QED
      BY <2>1, <2>2, FreshMove
<1>10. steps' = [steps EXCEPT ![p] = chain]
  <2>1. steps' = [steps EXCEPT ![p][i].status = "approved"]
      BY <1>3 DEF CommitApproval
  <2>2. QED
      BY <1>3, <1>5, <2>1 DEF SerialInd, StandInd, SignInd, TypeInd, TypeOK
<1>11. Told(row, chain)
    BY <1>4, <1>6, <1>8, <1>9 DEF Told, InApproval
<1>12. <<PhaseFrom(pay[p], steps[p]), PhaseFrom(row, chain)>> \in Moves
  <2>1. PhaseFrom(pay[p], steps[p]) = "approving"
      BY <1>3, <1>4, PhaseIs
  <2>2. PhaseFrom(row, chain) \in {"approving", "approved"}
      BY <1>9, PhaseIs
  <2>3. QED
      BY <2>1, <2>2 DEF Moves
<1>13. receipt' = (receipt \/ (row.linked /\ row.status = "reconciled"))
  <2>1. receipt' = receipt /\ receipt \in BOOLEAN
      BY DEF CommitApproval, SerialInd, StandInd, SignInd, TypeInd, TypeOK
  <2>2. row.status # "reconciled"
      BY <1>9 DEF InApproval
  <2>3. QED
      BY <2>1, <2>2
<1>14. pay[p].status \notin Closed \cup {"absent"}
    BY <1>4 DEF InApproval, Closed
<1>15. QED
    BY <1>9, <1>10, <1>11, <1>12, <1>13, <1>14 DEF Changes, Written

LEMMA RejectionChanges ==
    ASSUME SerialInd, NEW w \in Workers, CommitReject(w)
    PROVE  \E p \in Payments : \E row, chain : Changes(p, row, chain)
<1>1. job[w].at \in Inside
    BY DEF CommitReject, At, Inside
<1>2. job[w].op \in UpdateOps
    BY <1>1, PendingStep
<1>3. PICK p \in Payments, s0 \in Seq(StepRow), i \in Nat : p = job[w].p /\ s0 = steps[p] /\ i = job[w].i
    BY <1>1, <1>2, FreshCopy DEF SerialInd, StandInd, SignInd, TypeInd, TypeOK, Job
<1>4. /\ i \in DOMAIN s0 /\ ~AllApproved(s0) /\ pay[p].status \in InApproval /\ ~pay[p].auto
      /\ pay[p] \in PayRow /\ pay \in [Payments -> PayRow] /\ steps \in [Payments -> Seq(StepRow)]
    BY <1>1, <1>3, PendingStep DEF SerialInd, StandInd, SignInd, TypeInd, TypeOK
<1>5. PICK chain \in Seq(StepRow) : chain = [s0 EXCEPT ![i].status = "rejected"]
    BY <1>4, MarkedChain DEF StepStatus
<1>6. PICK row \in PayRow : row = [pay[p] EXCEPT !.status = "rejected"]
    BY <1>4 DEF PayRow, Statuses, Closed
<1>7. /\ row.status = "rejected" /\ row.auto = pay[p].auto /\ row.linked = pay[p].linked
    BY <1>4, <1>6 DEF PayRow
<1>8. pay' = [pay EXCEPT ![p] = row] /\ steps' = [steps EXCEPT ![p] = chain]
    BY <1>3, <1>4, <1>5, <1>6 DEF CommitReject
<1>9. Told(row, chain)
    BY <1>4, <1>7 DEF Told, InApproval
<1>10. <<PhaseFrom(pay[p], steps[p]), PhaseFrom(row, chain)>> \in Moves
  <2>1. PhaseFrom(pay[p], steps[p]) = "approving"
      BY <1>3, <1>4, PhaseIs
  <2>2. PhaseFrom(row, chain) = "rejected"
      BY <1>7, PhaseIs
  <2>3. QED
      BY <2>1, <2>2 DEF Moves
<1>11. receipt' = (receipt \/ (row.linked /\ row.status = "reconciled"))
  <2>1. receipt' = receipt /\ receipt \in BOOLEAN
      BY DEF CommitReject, SerialInd, StandInd, SignInd, TypeInd, TypeOK
  <2>2. QED
      BY <1>7, <2>1
<1>12. pay[p].status \notin Closed \cup {"absent"}
    BY <1>4 DEF InApproval, Closed
<1>13. QED
    BY <1>7, <1>8, <1>9, <1>10, <1>11, <1>12 DEF Changes, Written

LEMMA SubmissionChanges ==
    ASSUME SerialInd, NEW w \in Workers, Submit(w)
    PROVE  \E p \in Payments : \E row, chain : Changes(p, row, chain)
<1>1. job[w].op \in UpdateOps /\ job[w].at = "act" /\ job[w].at \in Inside \cup {"act"}
    BY DEF Submit, Acts, At, UpdateOps
<1>2. PICK p \in Payments : p = job[w].p
    BY <1>1, FreshCopy
<1>3. /\ job[w].row = pay[p] /\ job[w].steps = steps[p] /\ pay[p] \in PayRow
      /\ Told(pay[p], steps[p]) /\ pay[p].status = "draft"
    BY <1>1, <1>2, FreshCopy DEF Submit
<1>4. steps[p] = <<>> /\ ~pay[p].auto
    BY <1>3 DEF Told, AllApproved
<1>5. PICK band \in AllBands : band = pay[p].band
    BY <1>3 DEF PayRow
<1>6. PICK chain \in Seq(StepRow) : chain = NewSteps(band, "pending")
    BY NewStepsType DEF StepStatus
<1>7. steps' = [steps EXCEPT ![p] = chain]
  <2>1. steps' = [steps EXCEPT ![p] = <<>> \o NewSteps(band, "pending")]
      BY <1>2, <1>3, <1>4, <1>5 DEF Submit, SerialInd, StandInd, SignInd, TypeInd, TypeOK
  <2>2. <<>> \o chain = chain
      BY <1>6
  <2>3. QED
      BY <1>6, <2>1, <2>2
<1>8. PICK row \in PayRow :
         /\ pay' = [pay EXCEPT ![p] = row] /\ row.status = "submitted"
         /\ row.band = pay[p].band /\ row.auto = pay[p].auto /\ row.linked = pay[p].linked
  <2>1. pay' = [pay EXCEPT ![p].status = Put(@, pay[p].status, "submitted")]
      BY <1>2, <1>3 DEF Submit, Move
  <2>2. "submitted" \in Statuses
      BY DEF Statuses, InApproval
  <2>3. QED
      BY <2>1, <2>2, FreshMove
<1>9. chain # <<>> /\ ~AllApproved(chain) /\ StatusFrom(band, chain) = "submitted"
    BY <1>6, PendingChain
<1>10. Told(row, chain)
    BY <1>4, <1>5, <1>8, <1>9 DEF Told, InApproval
<1>11. <<PhaseFrom(pay[p], steps[p]), PhaseFrom(row, chain)>> \in Moves
  <2>1. PhaseFrom(pay[p], steps[p]) = "draft"
      BY <1>3, PhaseIs
  <2>2. PhaseFrom(row, chain) = "approving"
      BY <1>8, <1>9, PhaseIs DEF InApproval
  <2>3. QED
      BY <2>1, <2>2 DEF Moves
<1>12. receipt' = (receipt \/ (row.linked /\ row.status = "reconciled"))
  <2>1. receipt' = receipt /\ receipt \in BOOLEAN
      BY DEF Submit, SerialInd, StandInd, SignInd, TypeInd, TypeOK
  <2>2. QED
      BY <1>8, <2>1
<1>13. pay[p].status \notin Closed \cup {"absent"}
    BY <1>3 DEF Closed
<1>14. QED
    BY <1>7, <1>8, <1>10, <1>11, <1>12, <1>13 DEF Changes, Written

\* The three rows that a creation writes.
LEMMA NewRow ==
    ASSUME NEW band \in AllBands, NEW row, NEW chain, row.band = band,
           \/ row.status = "draft" /\ chain = <<>> /\ ~row.auto
           \/ row.status = "submitted" /\ chain = NewSteps(band, "pending") /\ ~row.auto
           \/ row.status = FinalStatus(band) /\ chain = NewSteps(band, "approved")
    PROVE  /\ Told(row, chain)
           /\ PhaseFrom(row, chain) \in {"draft", "approving", "approved"}
           /\ row.status = "submitted" => PhaseFrom(row, chain) = "approving"
           /\ row.status \notin Closed
<1>1. CASE row.status = "draft" /\ chain = <<>> /\ ~row.auto
  <2>1. Told(row, chain)
      BY <1>1 DEF Told, InApproval
  <2>2. PhaseFrom(row, chain) = "draft"
      BY <1>1, PhaseIs
  <2>3. QED
      BY <1>1, <2>1, <2>2 DEF Closed
<1>2. CASE row.status = "submitted" /\ chain = NewSteps(band, "pending") /\ ~row.auto
  <2>1. chain # <<>> /\ ~AllApproved(chain) /\ StatusFrom(band, chain) = "submitted"
      BY <1>2, PendingChain
  <2>2. Told(row, chain)
      BY <1>2, <2>1 DEF Told, InApproval
  <2>3. PhaseFrom(row, chain) = "approving"
      BY <1>2, <2>1, PhaseIs DEF InApproval
  <2>4. QED
      BY <1>2, <2>2, <2>3 DEF Closed
<1>3. CASE row.status = FinalStatus(band) /\ chain = NewSteps(band, "approved")
  <2>1. chain # <<>> /\ AllApproved(chain) /\ StatusFrom(band, chain) = FinalStatus(band)
      BY <1>3, ApprovedChain
  <2>2. row.status \in {"treasury_approved", "admin_approved"}
      BY <1>3 DEF FinalStatus
  <2>3. Told(row, chain)
      BY <1>3, <2>1, <2>2 DEF Told
  <2>4. PhaseFrom(row, chain) = "approved"
      BY <2>1, <2>2, PhaseIs DEF InApproval
  <2>5. QED
      BY <2>2, <2>3, <2>4 DEF Closed
<1>4. QED
    BY <1>1, <1>2, <1>3

LEMMA CreationEnters ==
    ASSUME SerialInd, NEW w \in Workers, NEW p \in Payments, NEW band \in Bands, Create(w, p, band)
    PROVE  \E row, chain : Enters(w, p, row, chain)
<1>1. band \in AllBands /\ Fresh(w)
    BY BandsAssumption DEF SerialInd
<1>2. ASSUME NEW how \in {"draft", "submit", "auto"}, NEW linked \in ManualLinks,
             Record(w, p, band, how, linked)
      PROVE  \E row, chain : Enters(w, p, row, chain)
  <2>1. /\ pay[p].status = "absent" /\ receipt' = receipt
        /\ SyncedOnly => ~linked
      BY <1>2, LinksAssumption DEF Record, SyncedOnly
  <2>2. PICK row, chain :
           /\ pay' = [pay EXCEPT ![p] = row]
           /\ steps' = [steps EXCEPT ![p] = chain]
           /\ row.band = band /\ row.linked = linked
           /\ \/ row.status = "draft" /\ chain = <<>> /\ ~row.auto
              \/ row.status = "submitted" /\ chain = NewSteps(band, "pending") /\ ~row.auto
              \/ row.status = FinalStatus(band) /\ chain = NewSteps(band, "approved")
    <3>1. CASE how = "draft"
      <4> DEFINE row == [status |-> "draft", band |-> band, auto |-> FALSE, linked |-> linked]
      <4>1. pay' = [pay EXCEPT ![p] = row] /\ steps' = [steps EXCEPT ![p] = <<>>]
          BY <1>2, <3>1 DEF Record
      <4>2. row.band = band /\ row.linked = linked /\ row.status = "draft" /\ ~row.auto
          OBVIOUS
      <4> HIDE DEF row
      <4>3. QED
          BY <4>1, <4>2
    <3>2. CASE how = "submit"
      <4> DEFINE row == [status |-> "submitted", band |-> band, auto |-> FALSE, linked |-> linked]
      <4>1. pay' = [pay EXCEPT ![p] = row] /\ steps' = [steps EXCEPT ![p] = NewSteps(band, "pending")]
          BY <1>2, <3>2 DEF Record
      <4>2. row.band = band /\ row.linked = linked /\ row.status = "submitted" /\ ~row.auto
          OBVIOUS
      <4> HIDE DEF row
      <4>3. QED
          BY <4>1, <4>2
    <3>3. CASE how = "auto"
      <4> DEFINE row == [status |-> FinalStatus(band), band |-> band, auto |-> TRUE, linked |-> linked]
      <4>1. pay' = [pay EXCEPT ![p] = row] /\ steps' = [steps EXCEPT ![p] = NewSteps(band, "approved")]
          BY <1>2, <3>3 DEF Record
      <4>2. row.band = band /\ row.linked = linked /\ row.status = FinalStatus(band)
          OBVIOUS
      <4> HIDE DEF row
      <4>3. QED
          BY <4>1, <4>2
    <3>4. QED
        BY <3>1, <3>2, <3>3
  <2>3. /\ Told(row, chain)
        /\ PhaseFrom(row, chain) \in {"draft", "approving", "approved"}
        /\ row.status \notin Closed
      BY <1>1, <2>2, NewRow
  <2>4. QED
      BY <2>1, <2>2, <2>3 DEF Enters, Written
<1>3. ASSUME NEW how \in {"draft", "submit"}, Insert(w, p, band, how)
      PROVE  \E row, chain : Enters(w, p, row, chain)
  <2>1. pay[p].status = "absent" /\ receipt' = receipt
      BY <1>3 DEF Insert
  <2>2. SyncedOnly => Acts(w, "Sync") /\ how = "submit"
      BY <1>1, <1>3 DEF Insert, SyncedOnly, Fresh, Acts, At
  <2>3. PICK row, chain :
           /\ pay' = [pay EXCEPT ![p] = row]
           /\ steps' = [steps EXCEPT ![p] = chain]
           /\ row.band = band
           /\ \/ row.status = "draft" /\ chain = <<>> /\ ~row.auto
              \/ row.status = "submitted" /\ chain = NewSteps(band, "pending") /\ ~row.auto
           /\ how = "submit" => row.status = "submitted"
    <3>1. CASE how = "draft"
      <4> DEFINE row == [status |-> "draft", band |-> band, auto |-> FALSE, linked |-> TRUE]
      <4>1. pay' = [pay EXCEPT ![p] = row] /\ steps' = [steps EXCEPT ![p] = <<>>]
          BY <1>3, <3>1 DEF Insert
      <4>2. row.band = band /\ row.status = "draft" /\ ~row.auto
          OBVIOUS
      <4> HIDE DEF row
      <4>3. QED
          BY <3>1, <4>1, <4>2
    <3>2. CASE how = "submit"
      <4> DEFINE row == [status |-> "submitted", band |-> band, auto |-> FALSE, linked |-> TRUE]
      <4>1. pay' = [pay EXCEPT ![p] = row] /\ steps' = [steps EXCEPT ![p] = NewSteps(band, "pending")]
          BY <1>3, <3>2 DEF Insert
      <4>2. row.band = band /\ row.status = "submitted" /\ ~row.auto
          OBVIOUS
      <4> HIDE DEF row
      <4>3. QED
          BY <4>1, <4>2
    <3>3. QED
        BY <3>1, <3>2
  <2>4. /\ Told(row, chain)
        /\ PhaseFrom(row, chain) \in {"draft", "approving", "approved"}
        /\ row.status = "submitted" => PhaseFrom(row, chain) = "approving"
        /\ row.status \notin Closed
      BY <1>1, <2>3, NewRow
  <2>5. QED
      BY <2>1, <2>2, <2>3, <2>4 DEF Enters, Written
<1>4. QED
    BY <1>2, <1>3 DEF Create

LEMMA WrittenTold ==
    ASSUME SerialInd, NEW p \in Payments, NEW row, NEW chain, Written(p, row, chain)
    PROVE  RowsTold'
<1>1. /\ pay'[p] = row /\ steps'[p] = chain /\ Told(row, chain)
      /\ \A q \in Payments : q # p => pay'[q] = pay[q] /\ steps'[q] = steps[q]
    BY DEF Written, SerialInd, StandInd, SignInd, TypeInd, TypeOK
<1>2. \A q \in Payments : Told(pay[q], steps[q])
    BY DEF SerialInd, RowsTold
<1>3. \A q \in Payments : Told(pay'[q], steps'[q])
    BY <1>1, <1>2
<1>4. QED
    BY <1>3 DEF RowsTold

\* What a step of the system does, requests being served one at a time.
LEMMA NextSerial ==
    ASSUME OneAtATime, SerialInd, [Next]_vars
    PROVE  /\ SerialInd'
           /\ \/ UNCHANGED <<pay, steps, receipt>>
              \/ \E w \in Workers, p \in Payments : \E row, chain : Enters(w, p, row, chain)
              \/ \E p \in Payments : \E row, chain : Changes(p, row, chain)
<1>1. StandInd'
    BY NextStands DEF SerialInd
<1>2. CASE UNCHANGED vars
  <2>1. SerialInd'
      BY <1>1, <1>2 DEF vars, SerialInd, RowsTold, Fresh, SyncSaw, At, Live
  <2>2. QED
      BY <1>2, <2>1 DEF vars
<1>3. ASSUME NEW w \in Workers, NEW p \in Payments, NEW band \in Bands, Create(w, p, band)
      PROVE  SerialInd' /\ \E row, chain : Enters(w, p, row, chain)
  <2>1. PICK row, chain : Enters(w, p, row, chain)
      BY <1>3, CreationEnters
  <2>2. RowsTold'
      BY <2>1, WrittenTold DEF Enters
  <2>3. Reply(w)
      BY <1>3 DEF Create, Record, Insert
  <2>4. SerialInd'
      BY <1>1, <2>2, <2>3, ReplySerial
  <2>5. QED
      BY <2>1, <2>4
<1>4. ASSUME NEW w \in Workers,
             \/ Submit(w) \/ CommitApproval(w) \/ CommitReject(w)
             \/ RejectApproved(w) \/ Hold(w) \/ Schedule(w) \/ Execute(w)
      PROVE  SerialInd' /\ \E p \in Payments : \E row, chain : Changes(p, row, chain)
  <2>1. PICK p, row, chain : p \in Payments /\ Changes(p, row, chain)
      BY <1>4, StatusChanges, ApprovalChanges, RejectionChanges, SubmissionChanges
  <2>2. RowsTold'
      BY <2>1, WrittenTold DEF Changes
  <2>3. Reply(w)
      BY <1>4 DEF Submit, CommitApproval, CommitReject, RejectApproved, Hold, Schedule, Execute
  <2>4. SerialInd'
      BY <1>1, <2>2, <2>3, ReplySerial
  <2>5. QED
      BY <2>1, <2>4
<1>5. QED
    BY <1>1, <1>2, <1>3, <1>4, ProtocolSerial DEF Next, Step

-----------------------------------------------------------------------------
(* Status and chain.                                                       *)

\* While requests are served one at a time, the status of a payment and its
\* approval rows tell the same story, whatever the payments, the endpoints and
\* the bands: submit, approve, reject, hold, schedule and execute leave the status
\* that statusFromApprovals gives, and only a chain approved to the end is paid.
THEOREM StatusFollowsChain ==
    ASSUME OneAtATime
    PROVE  Spec => []StatusInv
<1>1. SerialInd => StatusInv
  <2> SUFFICES ASSUME SerialInd, NEW p \in Payments
               PROVE  CASE pay[p].status \in InApproval ->
                              steps[p] # <<>> /\ pay[p].status = StatusFrom(pay[p].band, steps[p])
                        [] pay[p].status \in {"scheduled", "reconciled"} -> AllApproved(steps[p])
                        [] pay[p].status \in {"absent", "draft"} -> steps[p] = <<>>
                        [] OTHER -> TRUE
      BY DEF StatusInv
  <2>1. Told(pay[p], steps[p])
      BY DEF SerialInd, RowsTold
  <2>2. CASE pay[p].status \in InApproval
      BY <2>1, <2>2 DEF Told, InApproval
  <2>3. CASE pay[p].status \in {"scheduled", "reconciled"}
      BY <2>1, <2>3 DEF Told, InApproval
  <2>4. CASE pay[p].status \in {"absent", "draft"}
      BY <2>1, <2>4 DEF Told, InApproval
  <2>5. CASE pay[p].status \notin InApproval \cup {"scheduled", "reconciled", "absent", "draft"}
      BY <2>5
  <2>6. QED
      BY <2>2, <2>3, <2>4, <2>5
<1>2. Init => SerialInd
    BY InitSerial
<1>3. SerialInd /\ [Next]_vars => SerialInd'
    BY NextSerial
<1>4. QED
    BY <1>1, <1>2, <1>3, PTL DEF Spec

-----------------------------------------------------------------------------
(* One payment of the document.                                            *)

LEMMA EntersSource ==
    ASSUME SourceInd, SyncedOnly, NEW w \in Workers, NEW p \in Payments, NEW row, NEW chain,
           Enters(w, p, row, chain)
    PROVE  /\ SourceInv'
           /\ row.linked => \A q \in Payments : pay[q].linked => pay[q].status = "rejected"
<1>1. /\ pay'[p] = row /\ receipt' = receipt /\ row.status \notin Closed
      /\ \A q \in Payments : q # p => pay'[q] = pay[q]
      /\ pay[p].status = "absent"
    BY DEF Enters, Written, SourceInd, SerialInd, StandInd, SignInd, TypeInd, TypeOK
<1>2. ~pay[p].linked
    BY <1>1 DEF SourceInd, SerialInd, RowsTold, Told
<1>3. row.status \notin {"rejected", "reconciled"}
    BY <1>1 DEF Closed
<1>4. ASSUME row.linked
      PROVE  ~receipt /\ \A q \in Payments : pay[q].linked => pay[q].status = "rejected"
  <2>1. Acts(w, "Sync")
      BY <1>4 DEF Enters
  <2>2. ~receipt /\ \A q \in Payments : ~Live(q)
      BY <2>1 DEF SourceInd, SerialInd, SyncSaw, Acts, At
  <2>3. QED
      BY <2>2 DEF Live, Closed, SourceInd, SourceInv
<1>5. receipt' <=> \E q \in Payments : pay'[q].linked /\ pay'[q].status = "reconciled"
    BY <1>1, <1>2, <1>3 DEF SourceInd, SourceInv
<1>6. ASSUME NEW q \in Payments, NEW r \in Payments,
             pay'[q].linked /\ pay'[q].status # "rejected",
             pay'[r].linked /\ pay'[r].status # "rejected"
      PROVE  q = r
    BY <1>1, <1>4, <1>6 DEF SourceInd, SourceInv
<1>7. QED
    BY <1>4, <1>5, <1>6 DEF SourceInv

LEMMA ChangesSource ==
    ASSUME SourceInd, NEW p \in Payments, NEW row, NEW chain, Changes(p, row, chain)
    PROVE  SourceInv'
<1>1. /\ pay'[p] = row /\ row.linked = pay[p].linked
      /\ pay[p].status # "rejected" /\ pay[p].status # "reconciled"
      /\ receipt' = (receipt \/ (row.linked /\ row.status = "reconciled"))
      /\ \A q \in Payments : q # p => pay'[q] = pay[q]
    BY DEF Changes, Written, Closed, SourceInd, SerialInd, StandInd, SignInd, TypeInd, TypeOK
<1>2. receipt' <=> \E q \in Payments : pay'[q].linked /\ pay'[q].status = "reconciled"
    BY <1>1 DEF SourceInd, SourceInv
<1>3. ASSUME NEW q \in Payments, NEW r \in Payments,
             pay'[q].linked /\ pay'[q].status # "rejected",
             pay'[r].linked /\ pay'[r].status # "rejected"
      PROVE  q = r
    BY <1>1, <1>3 DEF SourceInd, SourceInv
<1>4. QED
    BY <1>2, <1>3 DEF SourceInv

LEMMA NextSource ==
    ASSUME OneAtATime, SyncedOnly, SourceInd, [Next]_vars
    PROVE  SourceInd'
<1>1. SerialInd
    BY DEF SourceInd
<1>2. SerialInd'
    BY <1>1, NextSerial
<1>3. CASE UNCHANGED <<pay, steps, receipt>>
    BY <1>2, <1>3 DEF SourceInd, SourceInv
<1>4. CASE \E w \in Workers, p \in Payments : \E row, chain : Enters(w, p, row, chain)
    BY <1>2, <1>4, EntersSource DEF SourceInd
<1>5. CASE \E p \in Payments : \E row, chain : Changes(p, row, chain)
    BY <1>2, <1>5, ChangesSource DEF SourceInd
<1>6. QED
    BY <1>1, <1>3, <1>4, <1>5, NextSerial

\* While requests are served one at a time and payables of the document come from
\* the sync, the document has at most one payment that is not rejected, and its
\* receipt is there just when that payment has been executed.
THEOREM OnePaymentPerDocument ==
    ASSUME OneAtATime, SyncedOnly
    PROVE  Spec => []SourceInv
<1>1. Init => SourceInd
    BY InitSerial DEF SourceInd
<1>2. SourceInd /\ [Next]_vars => SourceInd'
    BY NextSource
<1>3. SourceInd => SourceInv
    BY DEF SourceInd
<1>4. QED
    BY <1>1, <1>2, <1>3, PTL DEF Spec

-----------------------------------------------------------------------------
(* Refinement of PaymentLifecycle.                                         *)

Phase == [p \in Payments |-> PhaseOf(p)]
Claims == {p \in Payments : pay[p].linked}

LEMMA PhaseTold ==
    ASSUME NEW p \in Payments
    PROVE  PhaseOf(p) = PhaseFrom(pay[p], steps[p])
BY DEF PhaseOf, PhaseFrom

LEMMA PhaseAfter ==
    ASSUME SerialInd, NEW p \in Payments, NEW row, NEW chain, Written(p, row, chain)
    PROVE  Phase' = [Phase EXCEPT ![p] = PhaseFrom(row, chain)]
<1>1. /\ pay'[p] = row /\ steps'[p] = chain
      /\ \A q \in Payments : q # p => pay'[q] = pay[q] /\ steps'[q] = steps[q]
    BY DEF Written, SerialInd, StandInd, SignInd, TypeInd, TypeOK
<1>2. \A q \in Payments : PhaseOf(q)' = PhaseFrom(pay'[q], steps'[q])
    BY DEF PhaseOf, PhaseFrom
<1>3. \A q \in Payments : PhaseOf(q)' = IF q = p THEN PhaseFrom(row, chain) ELSE PhaseOf(q)
    BY <1>1, <1>2, PhaseTold
<1>4. QED
    BY <1>3 DEF Phase

LEMMA EntersLifecycle ==
    ASSUME SourceInd, SyncedOnly, NEW w \in Workers, NEW p \in Payments, NEW row, NEW chain,
           Enters(w, p, row, chain)
    PROVE  Abstract!Record(p) \/ Abstract!Claim(p)
<1>1. /\ Phase' = [Phase EXCEPT ![p] = PhaseFrom(row, chain)]
      /\ PhaseFrom(row, chain) \in {"draft", "approving", "approved"}
    BY PhaseAfter DEF Enters, SourceInd
<1>2. Phase[p] = "none"
    BY DEF Enters, Phase, PhaseOf
<1>3. /\ pay'[p] = row /\ ~pay[p].linked
      /\ \A q \in Payments : q # p => pay'[q] = pay[q]
    BY DEF Enters, Written, Told, SourceInd, SerialInd, RowsTold, StandInd, SignInd, TypeInd, TypeOK
<1>4. CASE ~row.linked
  <2>1. Claims' = Claims
      BY <1>3, <1>4 DEF Claims
  <2>2. QED
      BY <1>1, <1>2, <2>1 DEF Abstract!Record, Abstract!Enter, Phase, Claims
<1>5. CASE row.linked
  <2>1. PhaseFrom(row, chain) = "approving"
      BY <1>5 DEF Enters
  <2>2. \A q \in Payments : pay[q].linked => pay[q].status = "rejected"
      BY <1>5, EntersSource
  <2>3. \A q \in Claims : Phase[q] = "rejected"
      BY <2>2 DEF Claims, Phase, PhaseOf
  <2>4. Claims' = Claims \cup {p}
      BY <1>3, <1>5 DEF Claims
  <2>5. QED
      BY <1>1, <1>2, <2>1, <2>3, <2>4 DEF Abstract!Claim, Abstract!Enter, Phase, Claims
<1>6. QED
    BY <1>4, <1>5

LEMMA ChangesLifecycle ==
    ASSUME SourceInd, NEW p \in Payments, NEW row, NEW chain, Changes(p, row, chain)
    PROVE  \/ Phase' = Phase /\ Claims' = Claims
           \/ Abstract!Submit(p) \/ Abstract!Authorise(p) \/ Abstract!Reject(p)
           \/ Abstract!Hold(p) \/ Abstract!Pay(p)
<1>1. Phase' = [Phase EXCEPT ![p] = PhaseFrom(row, chain)]
    BY PhaseAfter DEF Changes, SourceInd
<1>2. <<Phase[p], PhaseFrom(row, chain)>> \in Moves
    BY PhaseTold DEF Changes, Phase
<1>3. Claims' = Claims
  <2>1. /\ pay'[p] = row /\ row.linked = pay[p].linked
        /\ \A q \in Payments : q # p => pay'[q] = pay[q]
      BY DEF Changes, Written, SourceInd, SerialInd, StandInd, SignInd, TypeInd, TypeOK
  <2>2. QED
      BY <2>1 DEF Claims
<1>4. CASE Phase[p] = PhaseFrom(row, chain)
  <2>1. Phase' = Phase
      BY <1>1, <1>4 DEF Phase
  <2>2. QED
      BY <1>3, <2>1
<1>5. PICK from, to : /\ from = Phase[p] /\ to = PhaseFrom(row, chain)
                      /\ <<from, to>> \in Moves
    BY <1>2
<1>6. CASE from # to
  <2>1. \/ from = "draft" /\ to = "approving"
        \/ from = "approving" /\ to = "approved"
        \/ from \in {"approving", "approved"} /\ to = "rejected"
        \/ from \in {"draft", "approving", "approved"} /\ to = "held"
        \/ from = "approved" /\ to = "paid"
      BY <1>5, <1>6 DEF Moves
  <2>2. Phase' = [Phase EXCEPT ![p] = to] /\ Phase[p] = from
      BY <1>1, <1>5
  <2>3. QED
      BY <1>3, <2>1, <2>2 DEF Abstract!Submit, Abstract!Authorise, Abstract!Reject, Abstract!Hold,
         Abstract!Pay, Abstract!Move, Phase, Claims
<1>7. QED
    BY <1>4, <1>5, <1>6

\* While requests are served one at a time and payables of the document come from
\* the sync, the handlers implement PaymentLifecycle: end states are final, money
\* leaves only for an approved payment, and the document is claimed again only
\* after a rejection.
THEOREM PaymentsLiveAsPromised ==
    ASSUME OneAtATime, SyncedOnly
    PROVE  Spec => Lifecycle
<1>1. Init => SourceInd /\ Abstract!Init
  <2> SUFFICES ASSUME Init PROVE SourceInd /\ Abstract!Init
      OBVIOUS
  <2>1. SourceInd
      BY InitSerial DEF SourceInd
  <2>2. \A p \in Payments : PhaseOf(p) = "none" /\ ~pay[p].linked
      BY DEF Init, NoPay, PhaseOf
  <2>3. QED
      BY <2>1, <2>2 DEF Abstract!Init
<1>2. SourceInd /\ [Next]_vars => SourceInd'
    BY NextSource
<1>3. SourceInd /\ [Next]_vars => [Abstract!Next]_<<Phase, Claims>>
  <2> SUFFICES ASSUME SourceInd, [Next]_vars PROVE [Abstract!Next]_<<Phase, Claims>>
      OBVIOUS
  <2>1. CASE UNCHANGED <<pay, steps, receipt>>
    <3>1. Claims' = Claims
        BY <2>1 DEF Claims
    <3>2. \A p \in Payments : PhaseOf(p)' = PhaseOf(p)
        BY <2>1 DEF PhaseOf
    <3>3. QED
        BY <3>1, <3>2 DEF Phase
  <2>2. CASE \E w \in Workers, p \in Payments : \E row, chain : Enters(w, p, row, chain)
      BY <2>2, EntersLifecycle DEF Abstract!Next
  <2>3. CASE \E p \in Payments : \E row, chain : Changes(p, row, chain)
    <3>1. PICK p, row, chain : p \in Payments /\ Changes(p, row, chain)
        BY <2>3
    <3>2. \/ Phase' = Phase /\ Claims' = Claims
          \/ Abstract!Submit(p) \/ Abstract!Authorise(p) \/ Abstract!Reject(p)
          \/ Abstract!Hold(p) \/ Abstract!Pay(p)
        BY <3>1, ChangesLifecycle
    <3>3. QED
        BY <3>1, <3>2 DEF Abstract!Next
  <2>4. SerialInd
      BY DEF SourceInd
  <2>5. QED
      BY <2>1, <2>2, <2>3, <2>4, NextSerial
<1>4. [Abstract!Next]_<<Phase, Claims>>
        => [Abstract!Next]_<<[p \in Payments |-> PhaseOf(p)], {p \in Payments : pay[p].linked}>>
    BY DEF Phase, Claims
<1>5. QED
    BY <1>1, <1>2, <1>3, <1>4, PTL DEF Spec, Lifecycle, Abstract!Spec

=============================================================================
