------------------------- MODULE OutwardPaymentProofs -------------------------
(***************************************************************************)
(* Proofs about OutwardPayment for every set of workers, payments,         *)
(* endpoints and bands.                                                    *)
(***************************************************************************)
EXTENDS OutwardPayment, SequenceTheorems, TLAPS

-----------------------------------------------------------------------------
(* Chains.                                                                 *)

StepStatus == {"pending", "approved", "rejected"}

LEMMA LevelsOf ==
    ASSUME NEW band \in AllBands
    PROVE  \E n \in 1..3 : Levels(band) = 1..n /\ ChainFor(band) # <<>>
<1>1. CASE band = "small"
  <2>1. ChainFor(band) = <<"treasury_officer">>
      BY <1>1 DEF ChainFor
  <2>2. QED
      BY <2>1 DEF Levels
<1>2. CASE band = "medium"
  <2>1. ChainFor(band) = <<"function_head", "treasury_officer">>
      BY <1>2 DEF ChainFor
  <2>2. QED
      BY <2>1 DEF Levels
<1>3. CASE band = "large"
  <2>1. ChainFor(band) = <<"function_head", "cfo">>
      BY <1>3 DEF ChainFor
  <2>2. QED
      BY <2>1 DEF Levels
<1>4. CASE band = "capex"
  <2>1. ChainFor(band) = <<"function_head", "cfo", "admin">>
      BY <1>4 DEF ChainFor
  <2>2. QED
      BY <2>1 DEF Levels
<1>5. QED
    BY <1>1, <1>2, <1>3, <1>4 DEF AllBands

\* A new chain has one row per level of its band.
LEMMA NewStepsType ==
    ASSUME NEW band \in AllBands, NEW status \in StepStatus
    PROVE  /\ NewSteps(band, status) \in Seq(StepRow)
           /\ DOMAIN NewSteps(band, status) = Levels(band)
           /\ \A i \in Levels(band) : NewSteps(band, status)[i] = [level |-> i, status |-> status]
           /\ 1 \in Levels(band)
<1>1. PICK n \in 1..3 : Levels(band) = 1..n
    BY LevelsOf
<1>2. \A level \in 1..n : [level |-> level, status |-> status] \in StepRow
    BY DEF StepRow, StepStatus
<1>3. NewSteps(band, status) = [level \in 1..n |-> [level |-> level, status |-> status]]
    BY <1>1 DEF NewSteps
<1>4. NewSteps(band, status) \in [1..n -> StepRow]
    BY <1>2, <1>3
<1>5. NewSteps(band, status) \in Seq(StepRow)
    BY <1>4, IsASeq
<1>6. QED
    BY <1>1, <1>3, <1>5

LEMMA NewRows ==
    ASSUME NEW band \in AllBands, NEW status \in StepStatus, NEW i \in Levels(band)
    PROVE  NewSteps(band, status)[i].level = i /\ NewSteps(band, status)[i].status = status
<1>1. PICK n \in 1..3 : Levels(band) = 1..n
    BY LevelsOf
<1>2. NewSteps(band, status) = [level \in 1..n |-> [level |-> level, status |-> status]]
    BY <1>1 DEF NewSteps
<1>3. i \in 1..n
    BY <1>1
<1>4. QED
    BY <1>2, <1>3

\* Marking one row of a chain leaves a chain with the same levels.
LEMMA MarkedChain ==
    ASSUME NEW chain \in Seq(StepRow), NEW i \in DOMAIN chain, NEW status \in StepStatus
    PROVE  /\ [chain EXCEPT ![i].status = status] \in Seq(StepRow)
           /\ DOMAIN [chain EXCEPT ![i].status = status] = DOMAIN chain
           /\ \A j \in DOMAIN chain :
                 [chain EXCEPT ![i].status = status][j]
                    = [level |-> chain[j].level,
                       status |-> IF j = i THEN status ELSE chain[j].status]
<1>1. \A j \in DOMAIN chain : chain[j] \in StepRow
    BY ElementOfSeq
<1>2. [chain[i] EXCEPT !.status = status] \in StepRow
    BY <1>1 DEF StepRow, StepStatus
<1>3. [chain EXCEPT ![i] = [chain[i] EXCEPT !.status = status]] \in Seq(StepRow)
    BY <1>2, ExceptSeq
<1>4. [chain EXCEPT ![i].status = status] = [chain EXCEPT ![i] = [chain[i] EXCEPT !.status = status]]
    OBVIOUS
<1>5. QED
    BY <1>1, <1>3, <1>4 DEF StepRow

\* Appending a chain keeps the rows that are there.
LEMMA GrownChain ==
    ASSUME NEW s \in Seq(StepRow), NEW t \in Seq(StepRow)
    PROVE  /\ s \o t \in Seq(StepRow)
           /\ DOMAIN s \subseteq DOMAIN (s \o t)
           /\ \A j \in DOMAIN s : (s \o t)[j] = s[j]
           /\ \A j \in DOMAIN (s \o t) :
                 j \in DOMAIN s \/ \E k \in DOMAIN t : j = Len(s) + k /\ (s \o t)[j] = t[k]
           /\ \A k \in DOMAIN t : Len(s) + k \in DOMAIN (s \o t) /\ (s \o t)[Len(s) + k] = t[k]
<1>1. /\ s \o t \in Seq(StepRow)
      /\ Len(s \o t) = Len(s) + Len(t)
      /\ \A i \in 1 .. Len(s) + Len(t) :
            (s \o t)[i] = IF i <= Len(s) THEN s[i] ELSE t[i - Len(s)]
    BY ConcatProperties
<1>2. Len(s) \in Nat /\ Len(t) \in Nat /\ DOMAIN s = 1..Len(s) /\ DOMAIN t = 1..Len(t)
      /\ DOMAIN (s \o t) = 1..Len(s \o t)
    BY <1>1, LenProperties
<1>3. ASSUME NEW j \in 1..(Len(s) + Len(t)), j \notin 1..Len(s)
      PROVE  j - Len(s) \in 1..Len(t) /\ j = Len(s) + (j - Len(s))
    BY <1>2, <1>3
<1>4. \A k \in 1..Len(t) :
         Len(s) + k \in 1..(Len(s) + Len(t)) /\ ~(Len(s) + k <= Len(s)) /\ (Len(s) + k) - Len(s) = k
    BY <1>2
<1>5. \A k \in DOMAIN t : Len(s) + k \in DOMAIN (s \o t) /\ (s \o t)[Len(s) + k] = t[k]
    BY <1>1, <1>2, <1>4
<1>6. \A j \in DOMAIN s : j \in DOMAIN (s \o t) /\ (s \o t)[j] = s[j]
    BY <1>1, <1>2
<1>7. ASSUME NEW j \in DOMAIN (s \o t), j \notin DOMAIN s
      PROVE  \E k \in DOMAIN t : j = Len(s) + k /\ (s \o t)[j] = t[k]
  <2>1. j \in 1..(Len(s) + Len(t)) /\ j \notin 1..Len(s)
      BY <1>1, <1>2, <1>7
  <2>2. j - Len(s) \in DOMAIN t /\ j = Len(s) + (j - Len(s))
      BY <1>2, <1>3, <2>1
  <2>3. (s \o t)[Len(s) + (j - Len(s))] = t[j - Len(s)]
      BY <1>5, <2>2
  <2>4. QED
      BY <2>2, <2>3
<1>8. QED
    BY <1>1, <1>5, <1>6, <1>7

-----------------------------------------------------------------------------
(* Type correctness.  A request that writes an approval row by its index    *)
(* relies on chains that only grow, and one that writes a payment on a row  *)
(* that stays there.                                                        *)

Inside == {"stamped", "counted", "marked"}

RequestInv(w) ==
    /\ DOMAIN job[w].steps \subseteq DOMAIN steps[job[w].p]
    /\ job[w].at \in Inside => job[w].i \in DOMAIN steps[job[w].p]
    /\ job[w].at = "counted" => job[w].status \in InApproval
    /\ job[w].at \in Inside \cup {"load"} => job[w].op \in UpdateOps
    /\ job[w].op \in UpdateOps => pay[job[w].p].status # "absent"

AbsentInv == \A p \in Payments : pay[p].status = "absent" => steps[p] = <<>>

TypeInd == TypeOK /\ AbsentInv /\ \A w \in Workers : RequestInv(w)

LEMMA EmptyChain == <<>> \in Seq(StepRow) /\ DOMAIN <<>> = {}
<1>1. <<>> \in Seq(StepRow)
    BY EmptySeq
<1>2. QED
    BY <1>1, SMT

LEMMA IdleIsJob == Idle \in Job
<1>1. (CHOOSE p \in Payments : TRUE) \in Payments
    BY PaymentsAssumption DEF PaymentsAssumption
<1>2. NoPay \in PayRow
    BY DEF NoPay, PayRow, Statuses, AllBands
<1>3. QED
    BY <1>1, <1>2, EmptyChain DEF Idle, Job, Stages, AllOps, CreateOps, Statuses

LEMMA InitType == Init => TypeInd
<1> SUFFICES ASSUME Init PROVE TypeInd
    OBVIOUS
<1>1. NoPay \in PayRow
    BY DEF NoPay, PayRow, Statuses, AllBands
<1>2. TypeOK
    BY <1>1, IdleIsJob, EmptyChain DEF Init, TypeOK
<1>3. \A w \in Workers : RequestInv(w)
    BY IdleIsJob, EmptyChain DEF Init, RequestInv, Idle, Inside, UpdateOps, Job
<1>4. AbsentInv
    BY DEF Init, AbsentInv
<1>5. QED
    BY <1>2, <1>3, <1>4 DEF TypeInd

\* A request that moves on without touching a row.
LEMMA JobMoves ==
    ASSUME TypeInd, NEW w \in Workers, NEW j \in Job,
           job' = [job EXCEPT ![w] = j],
           UNCHANGED <<pay, steps, receipt, signed, sent>>,
           DOMAIN j.steps \subseteq DOMAIN steps[j.p],
           j.at \in Inside => j.i \in DOMAIN steps[j.p],
           j.at = "counted" => j.status \in InApproval,
           j.at \in Inside \cup {"load"} => j.op \in UpdateOps,
           j.op \in UpdateOps => pay[j.p].status # "absent"
    PROVE  TypeInd'
<1>1. TypeOK'
    BY DEF TypeInd, TypeOK
<1>2. ASSUME NEW v \in Workers PROVE RequestInv(v)'
  <2>1. CASE v = w
    <3>1. job'[v] = j
        BY <2>1 DEF TypeInd, TypeOK
    <3>2. QED
        BY <3>1 DEF RequestInv
  <2>2. CASE v # w
    <3>1. job'[v] = job[v]
        BY <2>2 DEF TypeInd, TypeOK
    <3>2. QED
        BY <3>1 DEF RequestInv, TypeInd
  <2>3. QED
      BY <2>1, <2>2
<1>3. AbsentInv'
    BY DEF AbsentInv, TypeInd
<1>4. QED
    BY <1>1, <1>2, <1>3 DEF TypeInd

\* A request that writes one payment with its chain, and replies.
LEMMA RowsMove ==
    ASSUME TypeInd, NEW w \in Workers, Reply(w), NEW p \in Payments,
           NEW r \in PayRow, r.status # "absent", pay' = [pay EXCEPT ![p] = r],
           NEW s \in Seq(StepRow), DOMAIN steps[p] \subseteq DOMAIN s,
           steps' = [steps EXCEPT ![p] = s],
           receipt' \in BOOLEAN, signed' \in [Payments -> SUBSET (1..3)], sent' \subseteq Payments
    PROVE  TypeInd'
<1>1. TypeOK'
    BY IdleIsJob DEF TypeInd, TypeOK, Reply
<1>2. \A q \in Payments : /\ DOMAIN steps[q] \subseteq DOMAIN steps'[q]
                          /\ pay[q].status # "absent" => pay'[q].status # "absent"
    BY DEF TypeInd, TypeOK
<1>3. ASSUME NEW v \in Workers PROVE RequestInv(v)'
  <2>1. job'[v] = job[v] \/ job'[v] = Idle
      BY DEF Reply, TypeInd, TypeOK
  <2>2. job[v].p \in Payments
      BY DEF TypeInd, TypeOK, Job
  <2>3. CASE job'[v] = job[v]
      BY <1>2, <2>2, <2>3 DEF TypeInd, RequestInv
  <2>4. CASE job'[v] = Idle
      BY <2>4, EmptyChain DEF RequestInv, Idle, Inside, UpdateOps
  <2>5. QED
      BY <2>1, <2>3, <2>4
<1>4. AbsentInv'
    BY DEF AbsentInv, TypeInd, TypeOK
<1>5. QED
    BY <1>1, <1>3, <1>4 DEF TypeInd

LEMMA StatusFromType ==
    ASSUME NEW band, NEW chain
    PROVE  StatusFrom(band, chain) \in InApproval
BY DEF StatusFrom, InApproval

LEMMA ProtocolType ==
    ASSUME TypeInd, NEW w \in Workers,
           \/ \E op \in CreateOps : Begin(w, op)
           \/ \E op \in UpdateOps, p \in Payments : Open(w, op, p)
           \/ Load(w) \/ Scan(w) \/ Check(w) \/ Fail(w) \/ Recount(w)
           \/ \E i \in Pending(job[w].steps) : Stamp(w, i) \/ Mark(w, i)
    PROVE  TypeInd'
<1>0. /\ job[w] \in Job /\ job \in [Workers -> Job] /\ RequestInv(w)
      /\ pay[job[w].p] \in PayRow /\ steps[job[w].p] \in Seq(StepRow)
    BY DEF TypeInd, TypeOK, Job
<1>1. ASSUME NEW op \in CreateOps, Begin(w, op) PROVE TypeInd'
  <2> DEFINE j == [Idle EXCEPT !.op = op,
                  !.at = CASE op = "Sync" -> "scan" [] op = "Push" -> "check" [] OTHER -> "act"]
  <2>1. j \in Job /\ j.at \in {"scan", "check", "act"} /\ j.steps = <<>> /\ j.p \in Payments
        /\ j.op \in CreateOps
      BY <1>1, IdleIsJob DEF Job, AllOps, Idle, Stages
  <2>2. DOMAIN j.steps \subseteq DOMAIN steps[j.p]
      BY <2>1, EmptyChain
  <2>3. job' = [job EXCEPT ![w] = j] /\ UNCHANGED <<pay, steps, receipt, signed, sent>>
      BY <1>1 DEF Begin
  <2> HIDE DEF j
  <2>4. QED
      BY <2>1, <2>2, <2>3, JobMoves DEF Inside, CreateOps, UpdateOps
<1>2. ASSUME NEW op \in UpdateOps, NEW p \in Payments, Open(w, op, p) PROVE TypeInd'
  <2> DEFINE j == [Idle EXCEPT !.op = op, !.p = p, !.at = "load"]
  <2>1. j \in Job /\ j.at = "load" /\ j.p = p /\ j.op = op /\ j.steps = <<>>
      BY <1>2, IdleIsJob DEF Job, AllOps, Idle, Stages
  <2>2. job' = [job EXCEPT ![w] = j] /\ UNCHANGED <<pay, steps, receipt, signed, sent>>
        /\ pay[p].status # "absent"
      BY <1>2 DEF Open
  <2>3. DOMAIN j.steps \subseteq DOMAIN steps[j.p]
      BY <2>1, EmptyChain
  <2> HIDE DEF j
  <2>4. QED
      BY <2>1, <2>2, <2>3, JobMoves DEF Inside
<1>3. CASE Load(w)
  <2> DEFINE j == [job[w] EXCEPT !.row = pay[job[w].p], !.steps = steps[job[w].p], !.at = "act"]
  <2>1. j \in Job /\ j.at = "act" /\ j.steps = steps[j.p] /\ j.op = job[w].op /\ j.p = job[w].p
      BY <1>0 DEF Job, Stages
  <2>2. job' = [job EXCEPT ![w] = j] /\ UNCHANGED <<pay, steps, receipt, signed, sent>>
      BY <1>3, <1>0 DEF Load
  <2> HIDE DEF j
  <2>3. QED
      BY <1>0, <2>1, <2>2, JobMoves DEF RequestInv, Inside
<1>4. CASE Scan(w) \/ Check(w)
  <2>1. PICK stage \in {"check", "act"} : /\ job' = [job EXCEPT ![w].at = stage]
                                          /\ UNCHANGED <<pay, steps, receipt, signed, sent>>
      BY <1>4 DEF Scan, Check
  <2> DEFINE j == [job[w] EXCEPT !.at = stage]
  <2>2. j \in Job /\ j.at = stage /\ j.steps = job[w].steps /\ j.op = job[w].op /\ j.p = job[w].p
      BY <1>0 DEF Job, Stages
  <2>3. job' = [job EXCEPT ![w] = j]
      BY <2>1, <1>0
  <2> HIDE DEF j
  <2>4. DOMAIN j.steps \subseteq DOMAIN steps[j.p] /\ (j.op \in UpdateOps => pay[j.p].status # "absent")
      BY <1>0, <2>2 DEF RequestInv
  <2>5. j.at \notin Inside \cup {"load"} /\ j.at # "counted"
      BY <2>2 DEF Inside
  <2>6. QED
      BY <2>1, <2>2, <2>3, <2>4, <2>5, JobMoves
<1>5. CASE Fail(w)
  <2>1. job' = [job EXCEPT ![w] = Idle] /\ UNCHANGED <<pay, steps, receipt, signed, sent>>
      BY <1>5 DEF Fail, Reply
  <2>2. Idle.steps = <<>> /\ Idle.at = "idle" /\ Idle.op = "Record"
      BY DEF Idle
  <2>3. QED
      BY <2>1, <2>2, IdleIsJob, EmptyChain, JobMoves DEF Inside, UpdateOps
<1>6. CASE Recount(w)
  <2> DEFINE status == StatusFrom(pay[job[w].p].band,
                                  [steps[job[w].p] EXCEPT ![job[w].i].status = "approved"])
             j == [job[w] EXCEPT !.at = "counted", !.status = status]
  <2>1. status \in InApproval
      BY StatusFromType
  <2> HIDE DEF status
  <2>2. /\ j \in Job /\ j.at = "counted" /\ j.status = status /\ j.steps = job[w].steps
        /\ j.op = job[w].op /\ j.p = job[w].p /\ j.i = job[w].i
      BY <1>0, <2>1 DEF Job, Stages, Statuses
  <2>3. /\ job' = [job EXCEPT ![w] = j] /\ UNCHANGED <<pay, steps, receipt, signed, sent>>
        /\ job[w].at = "stamped"
      BY <1>6, <1>0 DEF Recount, At, status
  <2> HIDE DEF j
  <2>4. QED
      BY <1>0, <2>1, <2>2, <2>3, JobMoves DEF RequestInv, Inside
<1>7. ASSUME NEW i \in Pending(job[w].steps), Stamp(w, i) \/ Mark(w, i) PROVE TypeInd'
  <2>1. PICK stage \in {"stamped", "marked"} :
            /\ job' = [job EXCEPT ![w].at = stage, ![w].i = i]
            /\ UNCHANGED <<pay, steps, receipt, signed, sent>>
            /\ job[w].op \in UpdateOps
      BY <1>7 DEF Stamp, Mark, Acts, UpdateOps
  <2>2. i \in DOMAIN job[w].steps /\ i \in Nat
    <3>1. i \in DOMAIN job[w].steps /\ job[w].steps \in Seq(StepRow)
        BY <1>0 DEF Pending, Job
    <3>2. QED
        BY <3>1, LenProperties
  <2> DEFINE j == [job[w] EXCEPT !.at = stage, !.i = i]
  <2>3. /\ j \in Job /\ j.at = stage /\ j.steps = job[w].steps
        /\ j.op = job[w].op /\ j.p = job[w].p /\ j.i = i
      BY <1>0, <2>2 DEF Job, Stages
  <2>4. job' = [job EXCEPT ![w] = j]
      BY <2>1, <1>0
  <2> HIDE DEF j
  <2>5. /\ DOMAIN j.steps \subseteq DOMAIN steps[j.p] /\ j.i \in DOMAIN steps[j.p]
        /\ j.op \in UpdateOps /\ pay[j.p].status # "absent"
      BY <1>0, <2>1, <2>2, <2>3 DEF RequestInv
  <2>6. j.at # "counted"
      BY <2>3
  <2>7. QED
      BY <2>1, <2>3, <2>4, <2>5, <2>6, JobMoves
<1>8. QED
    BY <1>1, <1>2, <1>3, <1>4, <1>5, <1>6, <1>7

-----------------------------------------------------------------------------
(* What stands behind SignedInv: in the rows, and in every copy of them a   *)
(* request still decides on, an approved step has been signed, and a chain  *)
(* that exists covers every level of the payment's band.                    *)

Covered(p, chain) ==
    /\ \A j \in DOMAIN chain :
          chain[j].status = "approved" => pay[p].auto \/ chain[j].level \in signed[p]
    /\ chain # <<>> => \A level \in Levels(pay[p].band) :
                          \E j \in DOMAIN chain : chain[j].level = level

CopyCovered(w) ==
    /\ job[w].at = "act" /\ job[w].op \in UpdateOps =>
          /\ job[w].row.band = pay[job[w].p].band
          /\ job[w].row.auto = pay[job[w].p].auto
          /\ Covered(job[w].p, job[w].steps)
    /\ job[w].at \in {"scan", "check"} => job[w].op \notin UpdateOps

SignInd ==
    /\ TypeInd
    /\ \A p \in Payments : Covered(p, steps[p])
    /\ \A w \in Workers : CopyCovered(w)
    /\ \A p \in sent : pay[p].status # "absent"
    /\ SignedInv

LEMMA InitSign == Init => SignInd
<1> SUFFICES ASSUME Init PROVE SignInd
    OBVIOUS
<1>1. TypeInd
    BY InitType
<1>2. \A p \in Payments : Covered(p, steps[p])
    BY EmptyChain DEF Init, Covered
<1>3. \A w \in Workers : CopyCovered(w)
    BY DEF Init, CopyCovered, Idle, UpdateOps
<1>4. QED
    BY <1>1, <1>2, <1>3 DEF Init, SignInd, SignedInv

\* A request that moves on without touching a row.
LEMMA JobSigns ==
    ASSUME SignInd, TypeInd', NEW w \in Workers, NEW j,
           job' = [job EXCEPT ![w] = j],
           UNCHANGED <<pay, steps, receipt, signed, sent>>,
           j.at = "act" /\ j.op \in UpdateOps =>
              /\ j.row.band = pay[j.p].band
              /\ j.row.auto = pay[j.p].auto
              /\ Covered(j.p, j.steps),
           j.at \in {"scan", "check"} => j.op \notin UpdateOps
    PROVE  SignInd'
<1>1. ASSUME NEW v \in Workers PROVE CopyCovered(v)'
  <2>1. CASE v = w
    <3>1. job'[v] = j
        BY <2>1 DEF SignInd, TypeInd, TypeOK
    <3>2. QED
        BY <3>1 DEF CopyCovered, Covered
  <2>2. CASE v # w
    <3>1. job'[v] = job[v]
        BY <2>2 DEF SignInd, TypeInd, TypeOK
    <3>2. QED
        BY <3>1 DEF SignInd, CopyCovered, Covered
  <2>3. QED
      BY <2>1, <2>2
<1>2. QED
    BY <1>1 DEF SignInd, SignedInv, Covered

\* Payment p becomes r with chain s: an existing payment stays what it is, its
\* chain only grows, what is newly approved is signed, what is paid was signed.
Writes(p, r, s) ==
    /\ r.status # "absent"
    /\ pay' = [pay EXCEPT ![p] = r]
    /\ pay[p].status # "absent" => r.band = pay[p].band /\ r.auto = pay[p].auto
    /\ DOMAIN steps[p] \subseteq DOMAIN s
    /\ steps' = [steps EXCEPT ![p] = s]
    /\ \A j \in DOMAIN s : s[j].status = "approved" => r.auto \/ s[j].level \in signed'[p]
    /\ s # <<>> => \A level \in Levels(r.band) : \E j \in DOMAIN s : s[j].level = level
    /\ receipt' \in BOOLEAN
    /\ signed' \in [Payments -> SUBSET (1..3)]
    /\ \A q \in Payments : signed[q] \subseteq signed'[q]
    /\ sent' \subseteq sent \cup {p}
    /\ p \in sent' /\ p \notin sent => r.auto \/ Levels(r.band) \subseteq signed'[p]

\* A request that writes one payment with its chain, and replies.
LEMMA RowsSign ==
    ASSUME SignInd, NEW w \in Workers, Reply(w),
           NEW p \in Payments, NEW r \in PayRow, NEW s \in Seq(StepRow), Writes(p, r, s)
    PROVE  SignInd'
<1> USE DEF SignInd, Writes
<1>1. sent' \subseteq Payments
    BY DEF TypeInd, TypeOK
<1>2. TypeInd'
    BY <1>1, RowsMove
<1>3. \A q \in Payments : q # p => pay'[q] = pay[q] /\ steps'[q] = steps[q]
    BY DEF TypeInd, TypeOK
<1>4. pay'[p] = r /\ steps'[p] = s
    BY DEF TypeInd, TypeOK
<1>5. ASSUME NEW q \in Payments PROVE Covered(q, steps[q])'
    BY <1>3, <1>4 DEF Covered
<1>6. \A q \in Payments : pay[q].status # "absent" =>
          /\ pay'[q].status # "absent"
          /\ pay'[q].band = pay[q].band /\ pay'[q].auto = pay[q].auto
    BY <1>3, <1>4
<1>7. ASSUME NEW v \in Workers PROVE CopyCovered(v)'
  <2>1. job'[v] = job[v] \/ job'[v] = Idle
      BY DEF Reply, TypeInd, TypeOK
  <2>2. job[v].p \in Payments /\ job[v].steps \in Seq(StepRow) /\ RequestInv(v)
      BY DEF TypeInd, TypeOK, Job
  <2>3. CASE job'[v] = job[v]
    <3>1. job[v].op \in UpdateOps => pay[job[v].p].status # "absent"
        BY <2>2 DEF RequestInv
    <3>2. CopyCovered(v)
        OBVIOUS
    <3>3. ASSUME job[v].at = "act", job[v].op \in UpdateOps
          PROVE  /\ job[v].row.band = pay'[job[v].p].band
                 /\ job[v].row.auto = pay'[job[v].p].auto
                 /\ Covered(job[v].p, job[v].steps)
        BY <1>6, <2>2, <3>1, <3>2, <3>3 DEF CopyCovered
    <3>4. ASSUME job[v].at = "act", job[v].op \in UpdateOps
          PROVE  Covered(job[v].p, job[v].steps)'
      <4>1. PICK q \in Payments, chain \in Seq(StepRow) : q = job[v].p /\ chain = job[v].steps
          BY <2>2
      <4>2. Covered(q, chain) /\ pay'[q].band = pay[q].band /\ pay'[q].auto = pay[q].auto
            /\ signed[q] \subseteq signed'[q]
          BY <1>6, <3>1, <3>3, <3>4, <4>1
      <4>3. /\ \A j \in DOMAIN chain :
                  chain[j].status = "approved" => pay'[q].auto \/ chain[j].level \in signed'[q]
            /\ chain # <<>> => \A level \in Levels(pay'[q].band) :
                                  \E j \in DOMAIN chain : chain[j].level = level
          BY <4>2 DEF Covered
      <4>4. QED
          BY <2>3, <4>1, <4>3 DEF Covered
    <3>5. QED
        BY <2>3, <3>2, <3>3, <3>4 DEF CopyCovered
  <2>4. CASE job'[v] = Idle
      BY <2>4 DEF CopyCovered, Idle, UpdateOps
  <2>5. QED
      BY <2>1, <2>3, <2>4
<1>8. \A q \in sent' : pay'[q].status # "absent"
    BY <1>1, <1>4, <1>6
<1>9. ASSUME NEW q \in sent', ~pay'[q].auto PROVE Levels(pay'[q].band) \subseteq signed'[q]
  <2>1. CASE q \in sent
      BY <1>1, <1>6, <1>9, <2>1 DEF SignedInv
  <2>2. CASE q \notin sent
      BY <1>4, <1>9, <2>2
  <2>3. QED
      BY <2>1, <2>2
<1>10. SignedInv'
    BY <1>9 DEF SignedInv
<1>11. QED
    BY <1>2, <1>5, <1>7, <1>8, <1>10

\* An update of the status column alone, which pays nobody.
LEMMA StatusSigns ==
    ASSUME SignInd, NEW w \in Workers, Reply(w), NEW status \in Statuses, status # "absent",
           pay' = [pay EXCEPT ![job[w].p].status = status], pay[job[w].p].status # "absent",
           UNCHANGED <<steps, signed>>, receipt' \in BOOLEAN,
           sent' \subseteq sent \cup {job[w].p},
           job[w].p \in sent' /\ job[w].p \notin sent =>
              pay[job[w].p].auto \/ Levels(pay[job[w].p].band) \subseteq signed[job[w].p]
    PROVE  SignInd'
<1>1. PICK p \in Payments : p = job[w].p
    BY DEF SignInd, TypeInd, TypeOK, Job
<1>2. PICK s \in Seq(StepRow) : s = steps[p]
    BY DEF SignInd, TypeInd, TypeOK
<1>3. PICK r \in PayRow : r = [pay[p] EXCEPT !.status = status]
    BY DEF SignInd, TypeInd, TypeOK, PayRow
<1>4. r.status = status /\ r.band = pay[p].band /\ r.auto = pay[p].auto
    BY <1>3 DEF SignInd, TypeInd, TypeOK, PayRow
<1>5. /\ Covered(p, s)
      /\ signed' \in [Payments -> SUBSET (1..3)]
      /\ \A q \in Payments : signed[q] \subseteq signed'[q]
      /\ steps' = [steps EXCEPT ![p] = s]
    BY <1>2 DEF SignInd, TypeInd, TypeOK
<1>6. pay' = [pay EXCEPT ![p] = r]
    BY <1>1, <1>3
<1>7. /\ \A j \in DOMAIN s : s[j].status = "approved" => r.auto \/ s[j].level \in signed'[p]
      /\ s # <<>> => \A level \in Levels(r.band) : \E j \in DOMAIN s : s[j].level = level
    BY <1>4, <1>5 DEF Covered
<1>8. p \in sent' /\ p \notin sent => r.auto \/ Levels(r.band) \subseteq signed'[p]
    BY <1>1, <1>4
<1>9. DOMAIN steps[p] \subseteq DOMAIN s /\ sent' \subseteq sent \cup {p} /\ r.status # "absent"
    BY <1>1, <1>2, <1>4
<1>10. Writes(p, r, s)
    BY <1>4, <1>5, <1>6, <1>7, <1>8, <1>9 DEF Writes
<1>11. QED
    BY <1>10, RowsSign

LEMMA ProtocolSigns ==
    ASSUME SignInd, NEW w \in Workers,
           \/ \E op \in CreateOps : Begin(w, op)
           \/ \E op \in UpdateOps, p \in Payments : Open(w, op, p)
           \/ Load(w) \/ Scan(w) \/ Check(w) \/ Fail(w) \/ Recount(w)
           \/ \E i \in Pending(job[w].steps) : Stamp(w, i) \/ Mark(w, i)
    PROVE  SignInd'
<1>0. /\ TypeInd' /\ job[w] \in Job /\ CopyCovered(w)
      /\ job[w].p \in Payments /\ \A p \in Payments : Covered(p, steps[p])
    BY ProtocolType DEF SignInd, TypeInd, TypeOK, Job
<1>1. ASSUME NEW op \in CreateOps, Begin(w, op) PROVE SignInd'
  <2> DEFINE j == [Idle EXCEPT !.op = op,
                  !.at = CASE op = "Sync" -> "scan" [] op = "Push" -> "check" [] OTHER -> "act"]
  <2>1. j.op \notin UpdateOps
      BY <1>1 DEF Idle, CreateOps, UpdateOps
  <2>2. job' = [job EXCEPT ![w] = j] /\ UNCHANGED <<pay, steps, receipt, signed, sent>>
      BY <1>1 DEF Begin
  <2> HIDE DEF j
  <2>3. QED
      BY <1>0, <2>1, <2>2, JobSigns
<1>2. ASSUME NEW op \in UpdateOps, NEW p \in Payments, Open(w, op, p) PROVE SignInd'
  <2> DEFINE j == [Idle EXCEPT !.op = op, !.p = p, !.at = "load"]
  <2>1. j.at = "load"
      BY DEF Idle
  <2>2. job' = [job EXCEPT ![w] = j] /\ UNCHANGED <<pay, steps, receipt, signed, sent>>
      BY <1>2 DEF Open
  <2> HIDE DEF j
  <2>3. QED
      BY <1>0, <2>1, <2>2, JobSigns
<1>3. CASE Load(w)
  <2> DEFINE j == [job[w] EXCEPT !.row = pay[job[w].p], !.steps = steps[job[w].p], !.at = "act"]
  <2>1. j.at = "act" /\ j.row = pay[j.p] /\ Covered(j.p, j.steps)
      BY <1>0 DEF Job
  <2>2. job' = [job EXCEPT ![w] = j] /\ UNCHANGED <<pay, steps, receipt, signed, sent>>
      BY <1>3 DEF Load, SignInd, TypeInd, TypeOK
  <2> HIDE DEF j
  <2>3. QED
      BY <1>0, <2>1, <2>2, JobSigns
<1>4. CASE Scan(w) \/ Check(w)
  <2>1. PICK stage \in {"check", "act"} : /\ job' = [job EXCEPT ![w].at = stage]
                                          /\ UNCHANGED <<pay, steps, receipt, signed, sent>>
                                          /\ job[w].op \notin UpdateOps
      BY <1>0, <1>4 DEF Scan, Check, At, CopyCovered
  <2> DEFINE j == [job[w] EXCEPT !.at = stage]
  <2>2. j.op \notin UpdateOps
      BY <1>0, <2>1 DEF Job
  <2>3. job' = [job EXCEPT ![w] = j]
      BY <2>1 DEF SignInd, TypeInd, TypeOK
  <2> HIDE DEF j
  <2>4. QED
      BY <1>0, <2>1, <2>2, <2>3, JobSigns
<1>5. CASE Fail(w)
  <2>1. job' = [job EXCEPT ![w] = Idle] /\ UNCHANGED <<pay, steps, receipt, signed, sent>>
      BY <1>5 DEF Fail, Reply
  <2>2. Idle.at = "idle"
      BY DEF Idle
  <2>3. QED
      BY <1>0, <2>1, <2>2, JobSigns
<1>6. ASSUME Recount(w) \/ \E i \in Pending(job[w].steps) : Stamp(w, i) \/ Mark(w, i)
      PROVE  SignInd'
  <2>1. /\ UNCHANGED <<pay, steps, receipt, signed, sent>>
        /\ job' = [job EXCEPT ![w] = job'[w]]
        /\ job'[w].at \in Inside \cup {"counted"}
      BY <1>0, <1>6 DEF Recount, Stamp, Mark, SignInd, TypeInd, TypeOK, Job, Inside
  <2>2. PICK j : j = job'[w]
      OBVIOUS
  <2>3. QED
      BY <1>0, <2>1, <2>2, JobSigns DEF Inside
<1>7. QED
    BY <1>1, <1>2, <1>3, <1>4, <1>5, <1>6

LEMMA CreateSigns ==
    ASSUME SignInd, NEW w \in Workers, NEW p \in Payments, NEW band \in Bands, Create(w, p, band)
    PROVE  SignInd'
<1>1. /\ band \in AllBands /\ pay \in [Payments -> PayRow] /\ steps[p] = <<>>
      /\ receipt \in BOOLEAN /\ signed \in [Payments -> SUBSET (1..3)] /\ sent \subseteq Payments
      /\ pay[p].status = "absent" /\ Reply(w) /\ UNCHANGED <<receipt, signed, sent>>
    BY BandsAssumption DEF Create, Record, Insert, BandsAssumption,
                           SignInd, TypeInd, TypeOK, AbsentInv
<1> DEFINE Chain(how) == CASE how = "draft"  -> <<>>
                           [] how = "submit" -> NewSteps(band, "pending")
                           [] OTHER          -> NewSteps(band, "approved")
           Creates(how, linked, status) ==
              /\ status # "absent"
              /\ pay' = [pay EXCEPT ![p] =
                           [status |-> status, band |-> band, auto |-> how = "auto", linked |-> linked]]
              /\ steps' = [steps EXCEPT ![p] = Chain(how)]
<1>2. \E how \in {"draft", "submit", "auto"}, linked \in BOOLEAN, status \in Statuses :
         Creates(how, linked, status)
  <2>1. ASSUME NEW how \in {"draft", "submit"}, Insert(w, p, band, how)
        PROVE  \E status \in Statuses : Creates(how, TRUE, status)
    <3>1. CASE how = "draft"
      <4>1. Creates("draft", TRUE, "draft") /\ "draft" \in Statuses
          BY <2>1, <3>1 DEF Insert, Statuses
      <4>2. QED
          BY <3>1, <4>1
    <3>2. CASE how = "submit"
      <4>1. Creates("submit", TRUE, "submitted") /\ "submitted" \in Statuses
          BY <2>1, <3>2 DEF Insert, Statuses, InApproval
      <4>2. QED
          BY <3>2, <4>1
    <3>3. QED
        BY <3>1, <3>2
  <2>2. ASSUME NEW how \in {"draft", "submit", "auto"}, NEW linked \in ManualLinks,
               Record(w, p, band, how, linked)
        PROVE  linked \in BOOLEAN /\ \E status \in Statuses : Creates(how, linked, status)
    <3>1. PICK status \in Statuses :
             status = CASE how = "draft" -> "draft" [] how = "submit" -> "submitted"
                        [] OTHER -> FinalStatus(band)
        BY DEF Statuses, InApproval, FinalStatus
    <3>2. status # "absent" /\ linked \in BOOLEAN
        BY <3>1, LinksAssumption DEF FinalStatus, LinksAssumption
    <3>3. Creates(how, linked, status)
        BY <2>2, <3>1, <3>2 DEF Record
    <3>4. QED
        BY <3>2, <3>3
  <2> HIDE DEF Creates
  <2>3. QED
      BY <2>1, <2>2 DEF Create
<1>3. PICK how \in {"draft", "submit", "auto"}, linked \in BOOLEAN, status \in Statuses :
         Creates(how, linked, status)
    BY <1>2
<1>4. PICK r \in PayRow : r = [status |-> status, band |-> band, auto |-> how = "auto", linked |-> linked]
    BY <1>1 DEF PayRow
<1>5. PICK s \in Seq(StepRow) : s = Chain(how)
    BY <1>1, EmptyChain, NewStepsType DEF StepStatus
<1>6. CASE how = "draft"
  <2>1. s = <<>>
      BY <1>5, <1>6
  <2>2. Writes(p, r, s)
      BY <1>1, <1>3, <1>4, <1>5, <2>1, EmptyChain DEF Writes
  <2>3. QED
      BY <1>1, <2>2, RowsSign
<1>7. CASE how # "draft"
  <2>1. PICK mark \in {"pending", "approved"} : /\ s = NewSteps(band, mark)
                                                /\ mark = "approved" => how = "auto"
      BY <1>5, <1>7
  <2>2. /\ DOMAIN s = Levels(band)
        /\ \A level \in Levels(band) : s[level] = [level |-> level, status |-> mark]
      BY <1>1, <2>1, NewStepsType DEF StepStatus
  <2>3. \A j \in DOMAIN s : s[j].status = "approved" => r.auto
    <3>1. mark = "approved" => r.auto
        BY <1>4, <2>1, Zenon
    <3>2. \A j \in DOMAIN s : s[j].status = mark
        BY <2>2
    <3>3. QED
        BY <3>1, <3>2
  <2>4. \A level \in Levels(r.band) : \E j \in DOMAIN s : s[j].level = level
      BY <1>4, <2>2
  <2>5. Writes(p, r, s)
      BY <1>1, <1>3, <1>4, <1>5, <2>3, <2>4, EmptyChain DEF Writes
  <2>6. QED
      BY <1>1, <2>5, RowsSign
<1>8. QED
    BY <1>6, <1>7

LEMMA ApproveSigns ==
    ASSUME SignInd, NEW w \in Workers, CommitApproval(w)
    PROVE  SignInd'
<1>1. PICK p \in Payments, s0 \in Seq(StepRow), i \in Nat : p = job[w].p /\ s0 = steps[p] /\ i = job[w].i
    BY DEF SignInd, TypeInd, TypeOK, Job
<1>2. /\ i \in DOMAIN s0 /\ job[w].status \in InApproval /\ pay[p].status # "absent"
      /\ Covered(p, s0) /\ pay \in [Payments -> PayRow] /\ steps \in [Payments -> Seq(StepRow)]
      /\ signed \in [Payments -> SUBSET (1..3)] /\ sent \subseteq Payments /\ receipt \in BOOLEAN
    BY <1>1 DEF CommitApproval, At, SignInd, TypeInd, TypeOK, RequestInv, Inside
<1>3. PICK status \in Statuses : /\ status # "absent"
                                 /\ pay' = [pay EXCEPT ![p].status = status]
  <2>1. Put(pay[p].status, job[w].row.status, job[w].status) \in Statuses \ {"absent"}
      BY <1>2 DEF Put, PayRow, Statuses, InApproval
  <2>2. pay' = [pay EXCEPT ![p].status = Put(pay[p].status, job[w].row.status, job[w].status)]
      BY <1>1 DEF CommitApproval, Move
  <2>3. QED
      BY <2>1, <2>2
<1>4. PICK r \in PayRow : r = [pay[p] EXCEPT !.status = status]
    BY <1>2 DEF PayRow
<1>5. r.status = status /\ r.band = pay[p].band /\ r.auto = pay[p].auto
    BY <1>2, <1>4 DEF PayRow
<1>6. PICK s \in Seq(StepRow) : s = [s0 EXCEPT ![i].status = "approved"]
    BY <1>2, MarkedChain DEF StepStatus
<1>7. /\ DOMAIN s = DOMAIN s0
      /\ \A j \in DOMAIN s : s[j] = [level |-> s0[j].level,
                                     status |-> IF j = i THEN "approved" ELSE s0[j].status]
  <2>1. "approved" \in StepStatus
      BY DEF StepStatus
  <2>2. QED
      BY <1>2, <1>6, <2>1, MarkedChain
<1>8. /\ steps' = [steps EXCEPT ![p] = s]
      /\ signed' = [signed EXCEPT ![p] = signed[p] \cup {s0[i].level}]
      /\ Reply(w) /\ UNCHANGED <<receipt, sent>>
    BY <1>1, <1>2, <1>6 DEF CommitApproval
<1>9. s0[i].level \in 1..3
  <2>1. s0[i] \in StepRow
      BY <1>2, ElementOfSeq
  <2>2. QED
      BY <2>1 DEF StepRow
<1>10. /\ signed' \in [Payments -> SUBSET (1..3)]
       /\ \A q \in Payments : signed[q] \subseteq signed'[q]
       /\ signed'[p] = signed[p] \cup {s0[i].level}
    BY <1>2, <1>8, <1>9
<1>11. \A j \in DOMAIN s : s[j].status = "approved" => r.auto \/ s[j].level \in signed'[p]
  <2>1. ASSUME NEW j \in DOMAIN s, s[j].status = "approved" PROVE r.auto \/ s[j].level \in signed'[p]
    <3>1. s[j].level = s0[j].level /\ (j # i => s0[j].status = "approved")
        BY <1>7, <2>1
    <3>2. CASE j = i
        BY <1>10, <3>1, <3>2
    <3>3. CASE j # i
      <4>1. pay[p].auto \/ s0[j].level \in signed[p]
          BY <1>2, <1>7, <3>1, <3>3 DEF Covered
      <4>2. QED
          BY <1>5, <1>10, <3>1, <4>1
    <3>4. QED
        BY <3>2, <3>3
  <2>2. QED
      BY <2>1
<1>12. s # <<>> => \A level \in Levels(r.band) : \E j \in DOMAIN s : s[j].level = level
  <2>1. s0 # <<>>
      BY <1>2, EmptyChain
  <2>2. QED
      BY <1>2, <1>5, <1>7, <2>1 DEF Covered
<1>13. Writes(p, r, s)
    BY <1>1, <1>2, <1>3, <1>4, <1>5, <1>7, <1>8, <1>10, <1>11, <1>12 DEF Writes
<1>14. QED
    BY <1>8, <1>13, RowsSign

LEMMA RejectSigns ==
    ASSUME SignInd, NEW w \in Workers, CommitReject(w)
    PROVE  SignInd'
<1>1. PICK p \in Payments, s0 \in Seq(StepRow), i \in Nat : p = job[w].p /\ s0 = steps[p] /\ i = job[w].i
    BY DEF SignInd, TypeInd, TypeOK, Job
<1>2. /\ i \in DOMAIN s0 /\ pay[p].status # "absent"
      /\ Covered(p, s0) /\ pay \in [Payments -> PayRow] /\ steps \in [Payments -> Seq(StepRow)]
      /\ signed \in [Payments -> SUBSET (1..3)] /\ sent \subseteq Payments /\ receipt \in BOOLEAN
    BY <1>1 DEF CommitReject, At, SignInd, TypeInd, TypeOK, RequestInv, Inside
<1>3. PICK r \in PayRow : r = [pay[p] EXCEPT !.status = "rejected"]
    BY <1>2 DEF PayRow, Statuses, Closed
<1>4. r.status = "rejected" /\ r.band = pay[p].band /\ r.auto = pay[p].auto
    BY <1>2, <1>3 DEF PayRow
<1>5. PICK s \in Seq(StepRow) : s = [s0 EXCEPT ![i].status = "rejected"]
    BY <1>2, MarkedChain DEF StepStatus
<1>6. /\ DOMAIN s = DOMAIN s0
      /\ \A j \in DOMAIN s : s[j] = [level |-> s0[j].level,
                                     status |-> IF j = i THEN "rejected" ELSE s0[j].status]
  <2>1. "rejected" \in StepStatus
      BY DEF StepStatus
  <2>2. QED
      BY <1>2, <1>5, <2>1, MarkedChain
<1>7. /\ steps' = [steps EXCEPT ![p] = s] /\ pay' = [pay EXCEPT ![p] = r]
      /\ Reply(w) /\ UNCHANGED <<receipt, sent, signed>>
    BY <1>1, <1>2, <1>3, <1>5 DEF CommitReject
<1>8. \A j \in DOMAIN s : s[j].status = "approved" => r.auto \/ s[j].level \in signed'[p]
  <2>1. ASSUME NEW j \in DOMAIN s, s[j].status = "approved" PROVE r.auto \/ s[j].level \in signed'[p]
    <3>1. s[j].level = s0[j].level /\ s0[j].status = "approved"
        BY <1>6, <2>1
    <3>2. pay[p].auto \/ s0[j].level \in signed[p]
        BY <1>2, <1>6, <3>1 DEF Covered
    <3>3. QED
        BY <1>4, <1>7, <3>1, <3>2
  <2>2. QED
      BY <2>1
<1>9. s # <<>> => \A level \in Levels(r.band) : \E j \in DOMAIN s : s[j].level = level
  <2>1. s0 # <<>>
      BY <1>2, EmptyChain
  <2>2. QED
      BY <1>2, <1>4, <1>6, <2>1 DEF Covered
<1>10. Writes(p, r, s)
    BY <1>1, <1>2, <1>4, <1>6, <1>7, <1>8, <1>9 DEF Writes
<1>11. QED
    BY <1>7, <1>10, RowsSign

LEMMA SubmitSigns ==
    ASSUME SignInd, NEW w \in Workers, Submit(w)
    PROVE  SignInd'
<1>1. PICK p \in Payments, s0 \in Seq(StepRow) : p = job[w].p /\ s0 = steps[p]
    BY DEF SignInd, TypeInd, TypeOK, Job
<1>2. PICK band \in AllBands : band = pay[p].band
    BY DEF SignInd, TypeInd, TypeOK, PayRow
<1>3. /\ job[w].row.band = band /\ pay[p].status # "absent"
      /\ Covered(p, s0) /\ pay \in [Payments -> PayRow] /\ steps \in [Payments -> Seq(StepRow)]
      /\ signed \in [Payments -> SUBSET (1..3)] /\ sent \subseteq Payments /\ receipt \in BOOLEAN
    BY <1>1, <1>2 DEF Submit, Acts, At, UpdateOps, CopyCovered, RequestInv, SignInd, TypeInd, TypeOK
<1>4. job[w].steps # <<>> => s0 # <<>>
  <2>1. DOMAIN job[w].steps \subseteq DOMAIN s0 /\ job[w].steps \in Seq(StepRow)
      BY <1>1 DEF SignInd, TypeInd, TypeOK, RequestInv, Job
  <2>2. job[w].steps # <<>> => 1 \in DOMAIN job[w].steps
      BY <2>1, EmptySeq, LenProperties
  <2>3. QED
      BY <2>1, <2>2, EmptyChain
<1>5. PICK status \in Statuses : /\ status # "absent"
                                 /\ pay' = [pay EXCEPT ![p].status = status]
  <2>1. Put(pay[p].status, job[w].row.status, "submitted") \in Statuses \ {"absent"}
      BY <1>3 DEF Put, PayRow, Statuses, InApproval
  <2>2. pay' = [pay EXCEPT ![p].status = Put(pay[p].status, job[w].row.status, "submitted")]
      BY <1>1 DEF Submit, Move
  <2>3. QED
      BY <2>1, <2>2
<1>6. PICK r \in PayRow : r = [pay[p] EXCEPT !.status = status]
    BY <1>3 DEF PayRow
<1>7. r.status = status /\ r.band = band /\ r.auto = pay[p].auto
    BY <1>2, <1>3, <1>6 DEF PayRow
<1>8. /\ Reply(w) /\ UNCHANGED <<receipt, signed, sent>>
      /\ pay' = [pay EXCEPT ![p] = r]
    BY <1>5, <1>6 DEF Submit
<1>9. CASE job[w].steps # <<>>
  <2>1. steps' = [steps EXCEPT ![p] = s0]
      BY <1>1, <1>9 DEF Submit
  <2>2. /\ r.status # "absent" /\ r.band = pay[p].band /\ r.auto = pay[p].auto
        /\ receipt' = receipt /\ signed' = signed /\ sent' = sent
      BY <1>2, <1>5, <1>7, <1>8
  <2>3. /\ \A j \in DOMAIN s0 : s0[j].status = "approved" => r.auto \/ s0[j].level \in signed'[p]
        /\ s0 # <<>> => \A level \in Levels(r.band) : \E j \in DOMAIN s0 : s0[j].level = level
      BY <1>3, <2>2 DEF Covered
  <2>4. /\ receipt' \in BOOLEAN /\ signed' \in [Payments -> SUBSET (1..3)]
        /\ \A q \in Payments : signed[q] \subseteq signed'[q]
        /\ sent' \subseteq sent \cup {p} /\ ~(p \in sent' /\ p \notin sent)
      BY <1>3, <2>2
  <2>5. Writes(p, r, s0)
      BY <1>1, <1>8, <2>1, <2>2, <2>3, <2>4 DEF Writes
  <2>6. QED
      BY <1>8, <2>5, RowsSign
<1>10. CASE job[w].steps = <<>>
  <2> DEFINE t == NewSteps(band, "pending")
  <2>1. /\ t \in Seq(StepRow) /\ DOMAIN t = Levels(band)
        /\ \A level \in Levels(band) : t[level] = [level |-> level, status |-> "pending"]
      BY NewStepsType DEF StepStatus
  <2> HIDE DEF t
  <2>2. PICK s \in Seq(StepRow) : s = s0 \o t
      BY <2>1, GrownChain
  <2>3. /\ DOMAIN s0 \subseteq DOMAIN s
        /\ \A j \in DOMAIN s0 : s[j] = s0[j]
        /\ \A j \in DOMAIN s : j \in DOMAIN s0 \/ \E k \in DOMAIN t : s[j] = t[k]
        /\ \A k \in DOMAIN t : Len(s0) + k \in DOMAIN s /\ s[Len(s0) + k] = t[k]
      BY <2>1, <2>2, GrownChain
  <2>4. steps' = [steps EXCEPT ![p] = s]
      BY <1>1, <1>3, <1>10, <2>2 DEF Submit, t
  <2>5. \A j \in DOMAIN s : s[j].status = "approved" => r.auto \/ s[j].level \in signed'[p]
    <3>1. ASSUME NEW j \in DOMAIN s, s[j].status = "approved" PROVE j \in DOMAIN s0
        BY <2>1, <2>3, <3>1
    <3>2. \A j \in DOMAIN s0 : s0[j].status = "approved" => pay[p].auto \/ s0[j].level \in signed[p]
        BY <1>3 DEF Covered
    <3>3. QED
        BY <1>7, <1>8, <2>3, <3>1, <3>2
  <2>6. \A level \in Levels(r.band) : \E j \in DOMAIN s : s[j].level = level
      BY <1>7, <2>1, <2>3
  <2>7. Writes(p, r, s)
      BY <1>1, <1>2, <1>3, <1>5, <1>7, <1>8, <2>3, <2>4, <2>5, <2>6 DEF Writes
  <2>8. QED
      BY <1>8, <2>7, RowsSign
<1>11. QED
    BY <1>9, <1>10

\* What execute has read suffices: every level was signed, and stays so.
LEMMA ReadySigned ==
    ASSUME SignInd, NEW w \in Workers, Acts(w, "Execute"), Ready(w)
    PROVE  pay[job[w].p].auto \/ Levels(pay[job[w].p].band) \subseteq signed[job[w].p]
<1>1. job[w].row.auto = pay[job[w].p].auto /\ Covered(job[w].p, job[w].steps)
    BY DEF SignInd, CopyCovered, Acts, At, UpdateOps
<1>2. CASE AllApproved(job[w].steps)
    BY <1>1, <1>2 DEF AllApproved, Covered
<1>3. CASE job[w].row.auto
    BY <1>1, <1>3
<1>4. QED
    BY <1>2, <1>3 DEF Ready

LEMMA UpdateSigns ==
    ASSUME SignInd, NEW w \in Workers,
           RejectApproved(w) \/ Hold(w) \/ Schedule(w) \/ Execute(w)
    PROVE  SignInd'
<1>1. /\ pay[job[w].p] \in PayRow /\ pay[job[w].p].status # "absent"
      /\ receipt \in BOOLEAN /\ job[w].row.linked \in BOOLEAN
  <2>1. job[w] \in Job /\ RequestInv(w) /\ pay \in [Payments -> PayRow] /\ receipt \in BOOLEAN
      BY DEF SignInd, TypeInd, TypeOK
  <2>2. job[w].op \in UpdateOps
      BY DEF RejectApproved, Hold, Schedule, Execute, Acts, UpdateOps
  <2>3. QED
      BY <2>1, <2>2 DEF Job, RequestInv, PayRow
<1>2. PICK new \in {"rejected", "on_hold", "scheduled", "reconciled"} :
         pay' = [pay EXCEPT ![job[w].p].status = Put(@, job[w].row.status, new)]
    BY DEF RejectApproved, Hold, Schedule, Execute, Move
<1>3. PICK status \in Statuses : status = Put(pay[job[w].p].status, job[w].row.status, new)
    BY <1>1 DEF Put, PayRow, Statuses, InApproval, Closed
<1>4. status # "absent" /\ pay' = [pay EXCEPT ![job[w].p].status = status]
    BY <1>1, <1>2, <1>3 DEF Put
<1>5. Reply(w) /\ UNCHANGED <<steps, signed>>
    BY DEF RejectApproved, Hold, Schedule, Execute
<1>6. CASE Execute(w)
  <2>1. receipt' \in BOOLEAN /\ sent' \subseteq sent \cup {job[w].p}
      BY <1>1, <1>6 DEF Execute, ApplyReceipt
  <2>2. QED
      BY <1>1, <1>4, <1>5, <1>6, <2>1, ReadySigned, StatusSigns DEF Execute
<1>7. CASE ~Execute(w)
    BY <1>1, <1>4, <1>5, <1>7, StatusSigns DEF RejectApproved, Hold, Schedule
<1>8. QED
    BY <1>6, <1>7

LEMMA NextSigns == SignInd /\ [Next]_vars => SignInd'
<1> SUFFICES ASSUME SignInd, [Next]_vars PROVE SignInd'
    OBVIOUS
<1>1. CASE UNCHANGED vars
    BY <1>1 DEF vars, SignInd, SignedInv, CopyCovered, Covered, TypeInd, TypeOK, AbsentInv, RequestInv
<1>2. ASSUME NEW w \in Workers,
             \/ \E op \in CreateOps : Begin(w, op)
             \/ \E op \in UpdateOps, p \in Payments : Open(w, op, p)
             \/ \E p \in Payments, band \in Bands : Create(w, p, band)
             \/ Step(w)
      PROVE  SignInd'
    BY <1>2, ProtocolSigns, CreateSigns, SubmitSigns, ApproveSigns, RejectSigns, UpdateSigns DEF Step
<1>3. QED
    BY <1>1, <1>2 DEF Next

\* Every row, chain and copy has its type, whatever the requests, payments,
\* endpoints and bands are.
THEOREM TypeCorrect == Spec => []TypeOK
<1>1. SignInd => TypeOK
    BY DEF SignInd, TypeInd
<1>2. QED
    BY <1>1, InitSign, NextSigns, PTL DEF Spec

\* No bank transfer without every level signed, for any number of concurrent
\* requests on stale copies: approve, reject, submit and execute may overlap.
THEOREM PaidIsSigned == Spec => []SignedInv
<1>1. SignInd => SignedInv
    BY DEF SignInd
<1>2. QED
    BY <1>1, InitSign, NextSigns, PTL DEF Spec

-----------------------------------------------------------------------------
(* What stands behind NeverStranded.  A payment goes back to "submitted"    *)
(* only with a chain of its own (a late submit); from then on one step of   *)
(* that chain is known only to requests that have loaded the payment as     *)
(* submitted, and each of these moves the status on when it approves.       *)

Deciding(w, p) ==
    /\ job[w].at \in Inside \cup {"act"}
    /\ job[w].op \in UpdateOps
    /\ job[w].p = p

\* Approving step k moves the status of payment p on, whoever does it.
Guards(p, k) ==
    /\ steps[p][k].status # "approved"
    /\ \A w \in Workers : Deciding(w, p) /\ k \in DOMAIN job[w].steps =>
          job[w].row.status = "submitted"

RowStands(p) ==
    /\ pay[p].status = "draft" => steps[p] = <<>>
    /\ \A j \in DOMAIN steps[p] : steps[p][j].level \in Levels(pay[p].band)
    /\ pay[p].status = "submitted" => \E k \in DOMAIN steps[p] : Guards(p, k)

CopyStands(w) ==
    /\ job[w].op \in UpdateOps /\ At(w, "act") /\ job[w].row.status = "draft" => job[w].steps = <<>>
    /\ job[w].at \in Inside => job[w].i \in DOMAIN job[w].steps
    /\ At(w, "counted") => job[w].status # "submitted"

StandInd ==
    /\ SignInd
    /\ \A p \in Payments : RowStands(p)
    /\ \A w \in Workers : CopyStands(w)

\* Every level of a chain has one of the four roles.
LEMMA RoleOf ==
    ASSUME NEW band \in AllBands, NEW level \in Levels(band)
    PROVE  ChainFor(band)[level] \in {"treasury_officer", "function_head", "cfo", "admin"}
<1>1. CASE band = "small"
  <2>1. ChainFor(band) = <<"treasury_officer">>
      BY <1>1 DEF ChainFor
  <2>2. QED
      BY <2>1 DEF Levels
<1>2. CASE band = "medium"
  <2>1. ChainFor(band) = <<"function_head", "treasury_officer">>
      BY <1>2 DEF ChainFor
  <2>2. QED
      BY <2>1 DEF Levels
<1>3. CASE band = "large"
  <2>1. ChainFor(band) = <<"function_head", "cfo">>
      BY <1>3 DEF ChainFor
  <2>2. QED
      BY <2>1 DEF Levels
<1>4. CASE band = "capex"
  <2>1. ChainFor(band) = <<"function_head", "cfo", "admin">>
      BY <1>4 DEF ChainFor
  <2>2. QED
      BY <2>1 DEF Levels
<1>5. QED
    BY <1>1, <1>2, <1>3, <1>4 DEF AllBands

\* A chain with an approved step no longer counts as just submitted.
LEMMA ApprovedMoves ==
    ASSUME NEW band \in AllBands, NEW chain, NEW i \in DOMAIN chain,
           chain[i].status = "approved", chain[i].level \in Levels(band)
    PROVE  StatusFrom(band, chain) # "submitted"
<1> DEFINE done == {ChainFor(band)[chain[k].level] :
                       k \in {j \in DOMAIN chain : chain[j].status = "approved"}}
<1>1. ChainFor(band)[chain[i].level] \in done
    OBVIOUS
<1>2. ChainFor(band)[chain[i].level] \in {"treasury_officer", "function_head", "cfo", "admin"}
    BY RoleOf
<1>3. StatusFrom(band, chain)
         = IF "admin" \in done THEN "admin_approved"
           ELSE IF done \cap {"cfo", "treasury_officer"} # {} THEN "treasury_approved"
           ELSE IF "function_head" \in done THEN "function_approved"
           ELSE "submitted"
    BY DEF StatusFrom
<1> HIDE DEF done
<1>4. "admin" \in done \/ done \cap {"cfo", "treasury_officer"} # {} \/ "function_head" \in done
    BY <1>1, <1>2
<1>5. QED
    BY <1>3, <1>4

\* What approve counts over the row it has just written.
LEMMA RecountMoves ==
    ASSUME NEW band \in AllBands, NEW chain \in Seq(StepRow), NEW i \in DOMAIN chain,
           chain[i].level \in Levels(band)
    PROVE  StatusFrom(band, [chain EXCEPT ![i].status = "approved"]) # "submitted"
<1>1. "approved" \in StepStatus
    BY DEF StepStatus
<1>2. PICK new \in Seq(StepRow) : new = [chain EXCEPT ![i].status = "approved"]
    BY <1>1, MarkedChain
<1>3. /\ DOMAIN new = DOMAIN chain
      /\ new[i] = [level |-> chain[i].level,
                   status |-> IF i = i THEN "approved" ELSE chain[i].status]
    BY <1>1, <1>2, MarkedChain
<1>4. i \in DOMAIN new /\ new[i].status = "approved" /\ new[i].level \in Levels(band)
    BY <1>3
<1>5. StatusFrom(band, new) # "submitted"
    BY <1>4, ApprovedMoves
<1>6. QED
    BY <1>2, <1>5

LEMMA InitStand == Init => StandInd
<1> SUFFICES ASSUME Init PROVE StandInd
    OBVIOUS
<1>1. SignInd
    BY InitSign
<1>2. \A p \in Payments : RowStands(p)
    BY EmptyChain DEF Init, RowStands, NoPay
<1>3. \A w \in Workers : CopyStands(w)
    BY DEF Init, CopyStands, Idle, At, Inside
<1>4. QED
    BY <1>1, <1>2, <1>3 DEF StandInd

\* A request that moves on without touching a row: what it decides on is what it
\* has just loaded, or what it already had.
LEMMA JobStands ==
    ASSUME StandInd, SignInd', NEW w \in Workers, NEW j,
           job' = [job EXCEPT ![w] = j], UNCHANGED <<pay, steps>>,
           j.at \in Inside \cup {"act"} /\ j.op \in UpdateOps =>
              \/ j.row = pay[j.p]
              \/ Deciding(w, j.p) /\ j.row = job[w].row /\ j.steps = job[w].steps,
           j.op \in UpdateOps /\ j.at = "act" /\ j.row.status = "draft" => j.steps = <<>>,
           j.at \in Inside => j.i \in DOMAIN j.steps,
           j.at = "counted" => j.status # "submitted"
    PROVE  StandInd'
<1>1. \A v \in Workers : job'[v] = IF v = w THEN j ELSE job[v]
    BY DEF StandInd, SignInd, TypeInd, TypeOK
<1>2. ASSUME NEW v \in Workers PROVE CopyStands(v)'
  <2>1. CASE v = w
    <3>1. job'[v] = j
        BY <1>1, <2>1
    <3>2. QED
        BY <3>1 DEF CopyStands, At
  <2>2. CASE v # w
    <3>1. job'[v] = job[v] /\ CopyStands(v)
        BY <1>1, <2>2 DEF StandInd
    <3>2. QED
        BY <3>1 DEF CopyStands, At
  <2>3. QED
      BY <2>1, <2>2
<1>3. ASSUME NEW p \in Payments PROVE RowStands(p)'
  <2>1. RowStands(p) /\ UNCHANGED <<pay, steps>>
      BY DEF StandInd
  <2>2. ASSUME pay[p].status = "submitted", NEW k \in DOMAIN steps[p], Guards(p, k)
        PROVE  Guards(p, k)'
    <3>1. ASSUME NEW v \in Workers, Deciding(v, p)', k \in DOMAIN job'[v].steps
          PROVE  job'[v].row.status = "submitted"
      <4>1. CASE v # w
        <5>1. job'[v] = job[v]
            BY <1>1, <4>1
        <5>2. QED
            BY <2>2, <3>1, <5>1 DEF Guards, Deciding
      <4>2. CASE v = w
        <5>1. job'[v] = j
            BY <1>1, <4>2
        <5>2. j.at \in Inside \cup {"act"} /\ j.op \in UpdateOps /\ j.p = p
            BY <3>1, <5>1 DEF Deciding
        <5>3. CASE j.row = pay[j.p]
            BY <2>2, <5>1, <5>2, <5>3
        <5>4. CASE Deciding(w, j.p) /\ j.row = job[w].row /\ j.steps = job[w].steps
            BY <2>2, <3>1, <5>1, <5>2, <5>4 DEF Guards
        <5>5. QED
            BY <5>2, <5>3, <5>4
      <4>3. QED
          BY <4>1, <4>2
    <3>2. steps'[p][k].status # "approved"
        BY <2>1, <2>2 DEF Guards
    <3>3. QED
        BY <3>1, <3>2 DEF Guards
  <2>3. QED
      BY <2>1, <2>2 DEF RowStands
<1>4. QED
    BY <1>2, <1>3 DEF StandInd

\* A request that writes one payment with its chain, and replies.
LEMMA RowsStand ==
    ASSUME StandInd, SignInd', NEW w \in Workers, Reply(w),
           NEW p \in Payments, NEW r, NEW s,
           pay' = [pay EXCEPT ![p] = r], steps' = [steps EXCEPT ![p] = s],
           r.status = "draft" => s = <<>>,
           \A j \in DOMAIN s : s[j].level \in Levels(r.band),
           r.status = "submitted" => \E k \in DOMAIN s :
              /\ s[k].status # "approved"
              /\ \A v \in Workers \ {w} : Deciding(v, p) /\ k \in DOMAIN job[v].steps =>
                    job[v].row.status = "submitted"
    PROVE  StandInd'
<1>1. \A v \in Workers : job'[v] = IF v = w THEN Idle ELSE job[v]
    BY DEF Reply, StandInd, SignInd, TypeInd, TypeOK
<1>2. Idle.at = "idle"
    BY DEF Idle
<1>3. ASSUME NEW v \in Workers PROVE CopyStands(v)'
  <2>1. CASE v = w
    <3>1. job'[v].at = "idle"
        BY <1>1, <1>2, <2>1
    <3>2. QED
        BY <3>1 DEF CopyStands, At, Inside
  <2>2. CASE v # w
    <3>1. job'[v] = job[v] /\ CopyStands(v)
        BY <1>1, <2>2 DEF StandInd
    <3>2. QED
        BY <3>1 DEF CopyStands, At
  <2>3. QED
      BY <2>1, <2>2
<1>4. \A v \in Workers, q \in Payments : Deciding(v, q)' => v # w /\ job'[v] = job[v] /\ Deciding(v, q)
  <2>1. SUFFICES ASSUME NEW v \in Workers, NEW q \in Payments, Deciding(v, q)'
                 PROVE  v # w /\ job'[v] = job[v] /\ Deciding(v, q)
      OBVIOUS
  <2>2. v # w
      BY <1>1, <1>2, <2>1 DEF Deciding, Inside
  <2>3. job'[v] = job[v]
      BY <1>1, <2>2
  <2>4. QED
      BY <2>1, <2>2, <2>3 DEF Deciding
<1>5. /\ pay'[p] = r /\ steps'[p] = s
      /\ \A q \in Payments \ {p} : pay'[q] = pay[q] /\ steps'[q] = steps[q]
    BY DEF StandInd, SignInd, TypeInd, TypeOK
<1>6. RowStands(p)'
    BY <1>4, <1>5 DEF RowStands, Guards
<1>7. ASSUME NEW q \in Payments \ {p} PROVE RowStands(q)'
  <2>1. RowStands(q) /\ pay'[q] = pay[q] /\ steps'[q] = steps[q]
      BY <1>5 DEF StandInd
  <2>2. ASSUME NEW k, Guards(q, k) PROVE Guards(q, k)'
      BY <1>4, <2>1, <2>2 DEF Guards
  <2>3. QED
      BY <2>1, <2>2 DEF RowStands
<1>8. QED
    BY <1>3, <1>6, <1>7 DEF StandInd

LEMMA ProtocolStands ==
    ASSUME StandInd, SignInd', NEW w \in Workers,
           \/ \E op \in CreateOps : Begin(w, op)
           \/ \E op \in UpdateOps, p \in Payments : Open(w, op, p)
           \/ Load(w) \/ Scan(w) \/ Check(w) \/ Fail(w) \/ Recount(w)
           \/ \E i \in Pending(job[w].steps) : Stamp(w, i) \/ Mark(w, i)
    PROVE  StandInd'
<1>0. /\ job[w] \in Job /\ job \in [Workers -> Job] /\ RequestInv(w) /\ CopyCovered(w)
      /\ CopyStands(w) /\ job[w].p \in Payments /\ RowStands(job[w].p)
    BY DEF StandInd, SignInd, TypeInd, TypeOK, Job
<1>1. CASE \/ \E op \in CreateOps : Begin(w, op)
           \/ \E op \in UpdateOps, p \in Payments : Open(w, op, p)
           \/ Fail(w)
  <2>1. PICK j : /\ job' = [job EXCEPT ![w] = j] /\ UNCHANGED <<pay, steps>>
                 /\ j.op \notin UpdateOps \/ j.at \in {"load", "idle"}
                 /\ j.at \notin Inside
    <3>1. ASSUME NEW op \in CreateOps, Begin(w, op)
          PROVE  \E j : /\ job' = [job EXCEPT ![w] = j] /\ UNCHANGED <<pay, steps>>
                        /\ j.op \notin UpdateOps /\ j.at \notin Inside
      <4> DEFINE j == [Idle EXCEPT !.op = op,
                  !.at = CASE op = "Sync" -> "scan" [] op = "Push" -> "check" [] OTHER -> "act"]
      <4>1. j.op \notin UpdateOps /\ j.at \notin Inside
          BY <3>1 DEF Idle, CreateOps, UpdateOps, Inside
      <4>2. job' = [job EXCEPT ![w] = j] /\ UNCHANGED <<pay, steps>>
          BY <3>1 DEF Begin
      <4> HIDE DEF j
      <4>3. QED
          BY <4>1, <4>2
    <3>2. ASSUME NEW op \in UpdateOps, NEW p \in Payments, Open(w, op, p)
          PROVE  \E j : /\ job' = [job EXCEPT ![w] = j] /\ UNCHANGED <<pay, steps>>
                        /\ j.at \in {"load", "idle"} /\ j.at \notin Inside
      <4> DEFINE j == [Idle EXCEPT !.op = op, !.p = p, !.at = "load"]
      <4>1. j.at = "load"
          BY DEF Idle
      <4>2. job' = [job EXCEPT ![w] = j] /\ UNCHANGED <<pay, steps>>
          BY <3>2 DEF Open
      <4> HIDE DEF j
      <4>3. QED
          BY <4>1, <4>2 DEF Inside
    <3>3. CASE Fail(w)
      <4>1. job' = [job EXCEPT ![w] = Idle] /\ UNCHANGED <<pay, steps>> /\ Idle.at = "idle"
          BY <3>3 DEF Fail, Reply, Idle
      <4>2. QED
          BY <4>1 DEF Inside
    <3>4. QED
        BY <1>1, <3>1, <3>2, <3>3
  <2>2. QED
      BY <2>1, JobStands DEF Inside
<1>2. CASE Load(w)
  <2> DEFINE j == [job[w] EXCEPT !.row = pay[job[w].p], !.steps = steps[job[w].p], !.at = "act"]
  <2>1. j.at = "act" /\ j.row = pay[j.p] /\ j.steps = steps[j.p] /\ j.p = job[w].p
      BY <1>0 DEF Job
  <2>2. job' = [job EXCEPT ![w] = j] /\ UNCHANGED <<pay, steps>>
      BY <1>0, <1>2 DEF Load
  <2> HIDE DEF j
  <2>3. j.row.status = "draft" => j.steps = <<>>
      BY <1>0, <2>1 DEF RowStands
  <2>4. QED
      BY <2>1, <2>2, <2>3, JobStands DEF Inside
<1>3. CASE Scan(w) \/ Check(w)
  <2>1. PICK stage \in {"check", "act"} : /\ job' = [job EXCEPT ![w].at = stage]
                                          /\ UNCHANGED <<pay, steps>>
                                          /\ job[w].op \notin UpdateOps
      BY <1>0, <1>3 DEF Scan, Check, At, CopyCovered
  <2> DEFINE j == [job[w] EXCEPT !.at = stage]
  <2>2. j.op \notin UpdateOps /\ j.at \notin Inside
      BY <1>0, <2>1 DEF Job, Inside
  <2>3. job' = [job EXCEPT ![w] = j]
      BY <1>0, <2>1
  <2> HIDE DEF j
  <2>4. QED
      BY <2>1, <2>2, <2>3, JobStands DEF Inside
<1>4. CASE Recount(w)
  <2> DEFINE status == StatusFrom(pay[job[w].p].band,
                                  [steps[job[w].p] EXCEPT ![job[w].i].status = "approved"])
             j == [job[w] EXCEPT !.at = "counted", !.status = status]
  <2>1. job[w].at = "stamped" /\ job[w].i \in DOMAIN steps[job[w].p] /\ job[w].op \in UpdateOps
      BY <1>0, <1>4 DEF Recount, At, RequestInv, Inside
  <2>2. pay[job[w].p].band \in AllBands /\ steps[job[w].p] \in Seq(StepRow)
      BY <1>0 DEF StandInd, SignInd, TypeInd, TypeOK, PayRow
  <2>3. steps[job[w].p][job[w].i].level \in Levels(pay[job[w].p].band)
      BY <1>0, <2>1 DEF RowStands
  <2>4. status # "submitted"
      BY <2>1, <2>2, <2>3, RecountMoves, Zenon
  <2> HIDE DEF status
  <2>5. job' = [job EXCEPT ![w] = j] /\ UNCHANGED <<pay, steps>>
      BY <1>0, <1>4 DEF Recount, status
  <2>6. /\ j.at = "counted" /\ j.status = status /\ j.row = job[w].row /\ j.steps = job[w].steps
        /\ j.p = job[w].p /\ j.i = job[w].i /\ j.op = job[w].op
      BY <1>0 DEF Job
  <2> HIDE DEF j
  <2>7. Deciding(w, j.p) /\ j.i \in DOMAIN j.steps
      BY <1>0, <2>1, <2>6 DEF Deciding, Inside, CopyStands
  <2>8. QED
      BY <2>4, <2>5, <2>6, <2>7, JobStands
<1>5. ASSUME NEW i \in Pending(job[w].steps), Stamp(w, i) \/ Mark(w, i)
      PROVE  StandInd'
  <2>1. PICK stage \in {"stamped", "marked"} :
            /\ job' = [job EXCEPT ![w].at = stage, ![w].i = i]
            /\ UNCHANGED <<pay, steps>>
            /\ job[w].op \in UpdateOps /\ job[w].at = "act"
      BY <1>5 DEF Stamp, Mark, Acts, At, UpdateOps
  <2> DEFINE j == [job[w] EXCEPT !.at = stage, !.i = i]
  <2>2. /\ j.at = stage /\ j.row = job[w].row /\ j.steps = job[w].steps
        /\ j.p = job[w].p /\ j.i = i /\ j.op = job[w].op
      BY <1>0 DEF Job
  <2>3. job' = [job EXCEPT ![w] = j]
      BY <1>0, <2>1
  <2> HIDE DEF j
  <2>4. Deciding(w, j.p)
      BY <2>1, <2>2 DEF Deciding
  <2>5. j.i \in DOMAIN j.steps
      BY <2>2 DEF Pending
  <2>6. QED
      BY <2>1, <2>2, <2>3, <2>4, <2>5, JobStands
<1>6. QED
    BY <1>1, <1>2, <1>3, <1>4, <1>5

LEMMA CreateStands ==
    ASSUME StandInd, SignInd', NEW w \in Workers, NEW p \in Payments, NEW band \in Bands,
           Create(w, p, band)
    PROVE  StandInd'
<1>1. pay[p].status = "absent" /\ Reply(w) /\ band \in AllBands
    BY BandsAssumption DEF Create, Record, Insert, BandsAssumption
<1>2. \A v \in Workers : ~Deciding(v, p)
    BY <1>1 DEF StandInd, SignInd, TypeInd, RequestInv, Deciding
<1>3. \E r, s : /\ pay' = [pay EXCEPT ![p] = r] /\ steps' = [steps EXCEPT ![p] = s]
                /\ r.band = band
                /\ \/ r.status # "submitted" /\ s = <<>>
                   \/ r.status \notin {"draft", "submitted"} /\ s = NewSteps(band, "approved")
                   \/ r.status = "submitted" /\ s = NewSteps(band, "pending")
  <2>1. ASSUME NEW how \in {"draft", "submit"}, Insert(w, p, band, how)
        PROVE  \E r, s :
                  /\ pay' = [pay EXCEPT ![p] = r] /\ steps' = [steps EXCEPT ![p] = s]
                  /\ r.band = band
                  /\ \/ r.status # "submitted" /\ s = <<>>
                     \/ r.status \notin {"draft", "submitted"} /\ s = NewSteps(band, "approved")
                     \/ r.status = "submitted" /\ s = NewSteps(band, "pending")
    <3> DEFINE r == [status |-> IF how = "draft" THEN "draft" ELSE "submitted",
                     band |-> band, auto |-> FALSE, linked |-> TRUE]
               s == IF how = "draft" THEN <<>> ELSE NewSteps(band, "pending")
    <3>1. pay' = [pay EXCEPT ![p] = r] /\ steps' = [steps EXCEPT ![p] = s]
        BY <2>1 DEF Insert
    <3>2. r.band = band /\ (\/ r.status # "submitted" /\ s = <<>>
                            \/ r.status = "submitted" /\ s = NewSteps(band, "pending"))
        OBVIOUS
    <3> HIDE DEF r, s
    <3>3. QED
        BY <3>1, <3>2
  <2>2. ASSUME NEW how \in {"draft", "submit", "auto"}, NEW linked \in ManualLinks,
               Record(w, p, band, how, linked)
        PROVE  \E r, s :
                  /\ pay' = [pay EXCEPT ![p] = r] /\ steps' = [steps EXCEPT ![p] = s]
                  /\ r.band = band
                  /\ \/ r.status # "submitted" /\ s = <<>>
                     \/ r.status \notin {"draft", "submitted"} /\ s = NewSteps(band, "approved")
                     \/ r.status = "submitted" /\ s = NewSteps(band, "pending")
    <3> DEFINE r == [status |-> CASE how = "draft"  -> "draft"
                                  [] how = "submit" -> "submitted"
                                  [] OTHER          -> FinalStatus(band),
                     band |-> band, auto |-> how = "auto", linked |-> linked]
               s == CASE how = "draft"  -> <<>>
                      [] how = "submit" -> NewSteps(band, "pending")
                      [] OTHER          -> NewSteps(band, "approved")
    <3>1. pay' = [pay EXCEPT ![p] = r] /\ steps' = [steps EXCEPT ![p] = s]
        BY <2>2 DEF Record
    <3>2. r.band = band
        OBVIOUS
    <3>3. \/ r.status # "submitted" /\ s = <<>>
          \/ r.status \notin {"draft", "submitted"} /\ s = NewSteps(band, "approved")
          \/ r.status = "submitted" /\ s = NewSteps(band, "pending")
        BY DEF FinalStatus
    <3> HIDE DEF r, s
    <3>4. QED
        BY <3>1, <3>2, <3>3
  <2>3. QED
      BY <2>1, <2>2 DEF Create
<1>4. PICK r, s : /\ pay' = [pay EXCEPT ![p] = r] /\ steps' = [steps EXCEPT ![p] = s]
                  /\ r.band = band
                  /\ \/ r.status # "submitted" /\ s = <<>>
                     \/ r.status \notin {"draft", "submitted"} /\ s = NewSteps(band, "approved")
                     \/ r.status = "submitted" /\ s = NewSteps(band, "pending")
    BY <1>3
<1>5. \A mark \in {"pending", "approved"} :
         /\ DOMAIN NewSteps(band, mark) = Levels(band) /\ 1 \in Levels(band)
         /\ \A i \in Levels(band) : NewSteps(band, mark)[i].level = i
         /\ NewSteps(band, mark)[1].status = mark
    BY <1>1, NewStepsType, NewRows DEF StepStatus
<1>6. \A j \in DOMAIN s : s[j].level \in Levels(r.band)
  <2>1. CASE s = <<>>
      BY <2>1, EmptyChain, Zenon
  <2>2. ASSUME NEW mark \in {"pending", "approved"}, s = NewSteps(band, mark)
        PROVE  \A j \in DOMAIN s : s[j].level \in Levels(r.band)
    <3>1. \A j \in Levels(band) : NewSteps(band, mark)[j].level \in Levels(band)
        BY <1>5
    <3>2. DOMAIN NewSteps(band, mark) = Levels(band) /\ r.band = band
        BY <1>4, <1>5
    <3>3. QED
        BY <2>2, <3>1, <3>2, Zenon
  <2>3. QED
      BY <1>4, <2>1, <2>2
<1>7. r.status = "submitted" => \E k \in DOMAIN s : s[k].status # "approved"
  <2>1. ASSUME s = NewSteps(band, "pending")
        PROVE  1 \in DOMAIN s /\ s[1].status # "approved"
    <3>1. NewSteps(band, "pending")[1].status # "approved"
        BY <1>5
    <3>2. 1 \in DOMAIN NewSteps(band, "pending")
        BY <1>5
    <3>3. QED
        BY <2>1, <3>1, <3>2, Zenon
  <2>2. QED
      BY <1>4, <2>1
<1>8. r.status = "draft" => s = <<>>
    BY <1>4
<1>9. QED
    BY <1>1, <1>2, <1>4, <1>6, <1>7, <1>8, RowsStand

\* An update of the status column that does not submit.
LEMMA StatusStands ==
    ASSUME StandInd, SignInd', NEW w \in Workers,
           RejectApproved(w) \/ Hold(w) \/ Schedule(w) \/ Execute(w)
    PROVE  StandInd'
<1>1. PICK p \in Payments : p = job[w].p
    BY DEF StandInd, SignInd, TypeInd, TypeOK, Job
<1>2. PICK new \in {"rejected", "on_hold", "scheduled", "reconciled"} :
         pay' = [pay EXCEPT ![p].status = Put(@, job[w].row.status, new)]
    BY <1>1 DEF RejectApproved, Hold, Schedule, Execute, Move
<1>3. /\ Reply(w) /\ steps' = steps /\ RowStands(p)
      /\ pay[p] \in PayRow /\ pay \in [Payments -> PayRow] /\ steps \in [Payments -> Seq(StepRow)]
    BY DEF RejectApproved, Hold, Schedule, Execute, StandInd, SignInd, TypeInd, TypeOK
<1>4. PICK r : r = [pay[p] EXCEPT !.status = Put(pay[p].status, job[w].row.status, new)]
    OBVIOUS
<1>5. PICK s \in Seq(StepRow) : s = steps[p]
    BY <1>3
<1>6. pay' = [pay EXCEPT ![p] = r] /\ steps' = [steps EXCEPT ![p] = s]
    BY <1>2, <1>3, <1>4, <1>5
<1>7. r.band = pay[p].band /\ r.status \in {pay[p].status, new}
    BY <1>3, <1>4 DEF PayRow, Put
<1>8. r.status \in {"draft", "submitted"} => r.status = pay[p].status
    BY <1>7
<1>9. /\ r.status = "draft" => s = <<>>
      /\ \A j \in DOMAIN s : s[j].level \in Levels(r.band)
    BY <1>3, <1>5, <1>7, <1>8 DEF RowStands
<1>10. r.status = "submitted" => \E k \in DOMAIN s : Guards(p, k)
    BY <1>3, <1>5, <1>8 DEF RowStands
<1>11. r.status = "submitted" => \E k \in DOMAIN s :
          /\ s[k].status # "approved"
          /\ \A v \in Workers \ {w} : Deciding(v, p) /\ k \in DOMAIN job[v].steps =>
                job[v].row.status = "submitted"
    BY <1>5, <1>10 DEF Guards
<1>12. Reply(w)
    BY <1>3
<1>13. QED
    BY <1>6, <1>9, <1>11, <1>12, RowsStand, Zenon

LEMMA RejectStands ==
    ASSUME StandInd, SignInd', NEW w \in Workers, CommitReject(w)
    PROVE  StandInd'
<1>1. PICK p \in Payments, s0 \in Seq(StepRow), i \in Nat : p = job[w].p /\ s0 = steps[p] /\ i = job[w].i
    BY DEF StandInd, SignInd, TypeInd, TypeOK, Job
<1>2. /\ i \in DOMAIN s0 /\ RowStands(p) /\ pay[p] \in PayRow
      /\ pay \in [Payments -> PayRow] /\ steps \in [Payments -> Seq(StepRow)]
    BY <1>1 DEF CommitReject, At, StandInd, SignInd, TypeInd, TypeOK, RequestInv, Inside
<1>3. PICK r : r = [pay[p] EXCEPT !.status = "rejected"]
    OBVIOUS
<1>4. r.status = "rejected" /\ r.band = pay[p].band
    BY <1>2, <1>3 DEF PayRow
<1>5. PICK s \in Seq(StepRow) : s = [s0 EXCEPT ![i].status = "rejected"]
    BY <1>2, MarkedChain DEF StepStatus
<1>6. /\ DOMAIN s = DOMAIN s0
      /\ \A j \in DOMAIN s : s[j] = [level |-> s0[j].level,
                                     status |-> IF j = i THEN "rejected" ELSE s0[j].status]
  <2>1. "rejected" \in StepStatus
      BY DEF StepStatus
  <2>2. QED
      BY <1>2, <1>5, <2>1, MarkedChain
<1>7. /\ steps' = [steps EXCEPT ![p] = s] /\ pay' = [pay EXCEPT ![p] = r] /\ Reply(w)
    BY <1>1, <1>2, <1>3, <1>5 DEF CommitReject
<1>8. \A j \in DOMAIN s : s[j].level \in Levels(r.band)
  <2>1. \A j \in DOMAIN s0 : s0[j].level \in Levels(pay[p].band)
      BY <1>1, <1>2 DEF RowStands
  <2>2. DOMAIN s = DOMAIN s0 /\ \A j \in DOMAIN s : s[j].level = s0[j].level
      BY <1>6
  <2>3. QED
      BY <1>4, <2>1, <2>2
<1>9. QED
    BY <1>4, <1>7, <1>8, RowsStand

\* An approval that leaves the payment submitted has not touched the step that
\* guards it.
LEMMA ApproveStands ==
    ASSUME StandInd, SignInd', NEW w \in Workers, CommitApproval(w)
    PROVE  StandInd'
<1>1. PICK p \in Payments, s0 \in Seq(StepRow), i \in Nat : p = job[w].p /\ s0 = steps[p] /\ i = job[w].i
    BY DEF StandInd, SignInd, TypeInd, TypeOK, Job
<1>2. /\ i \in DOMAIN s0 /\ RowStands(p) /\ pay[p] \in PayRow
      /\ pay \in [Payments -> PayRow] /\ steps \in [Payments -> Seq(StepRow)]
      /\ Deciding(w, p) /\ i \in DOMAIN job[w].steps
      /\ job[w].status \in InApproval \ {"submitted"}
  <2>1. RequestInv(w) /\ CopyStands(w) /\ job[w].at = "counted"
      BY DEF CommitApproval, At, StandInd, SignInd, TypeInd
  <2>2. /\ RowStands(p) /\ pay[p] \in PayRow
        /\ pay \in [Payments -> PayRow] /\ steps \in [Payments -> Seq(StepRow)]
      BY DEF StandInd, SignInd, TypeInd, TypeOK
  <2>3. QED
      BY <1>1, <2>1, <2>2 DEF RequestInv, CopyStands, Deciding, At, Inside
<1>3. PICK r : r = [pay[p] EXCEPT !.status = Put(pay[p].status, job[w].row.status, job[w].status)]
    OBVIOUS
<1>4. /\ r.band = pay[p].band
      /\ r.status = IF job[w].status = job[w].row.status THEN pay[p].status ELSE job[w].status
    BY <1>2, <1>3 DEF PayRow, Put
<1>5. PICK s \in Seq(StepRow) : s = [s0 EXCEPT ![i].status = "approved"]
    BY <1>2, MarkedChain DEF StepStatus
<1>6. /\ DOMAIN s = DOMAIN s0
      /\ \A j \in DOMAIN s : s[j] = [level |-> s0[j].level,
                                     status |-> IF j = i THEN "approved" ELSE s0[j].status]
  <2>1. "approved" \in StepStatus
      BY DEF StepStatus
  <2>2. QED
      BY <1>2, <1>5, <2>1, MarkedChain
<1>7. /\ steps' = [steps EXCEPT ![p] = s] /\ pay' = [pay EXCEPT ![p] = r] /\ Reply(w)
    BY <1>1, <1>2, <1>3, <1>5 DEF CommitApproval, Move
<1>8. \A j \in DOMAIN s : s[j].level \in Levels(r.band)
  <2>1. \A j \in DOMAIN s0 : s0[j].level \in Levels(pay[p].band)
      BY <1>1, <1>2 DEF RowStands
  <2>2. DOMAIN s = DOMAIN s0 /\ \A j \in DOMAIN s : s[j].level = s0[j].level
      BY <1>6
  <2>3. QED
      BY <1>4, <2>1, <2>2
<1>9. r.status # "draft"
  <2>1. pay[p].status # "draft"
      BY <1>1, <1>2, EmptyChain DEF RowStands
  <2>2. QED
      BY <1>2, <1>4, <2>1 DEF InApproval
<1>10. ASSUME r.status = "submitted"
       PROVE  \E k \in DOMAIN s :
                 /\ s[k].status # "approved"
                 /\ \A v \in Workers \ {w} : Deciding(v, p) /\ k \in DOMAIN job[v].steps =>
                       job[v].row.status = "submitted"
  <2>1. pay[p].status = "submitted" /\ job[w].row.status # "submitted"
      BY <1>2, <1>4, <1>10
  <2>2. PICK k \in DOMAIN s0 : Guards(p, k)
      BY <1>1, <1>2, <2>1 DEF RowStands
  <2>3. k # i
      BY <1>2, <2>1, <2>2 DEF Guards
  <2>4. s0[k].status # "approved"
      BY <1>1, <2>2 DEF Guards
  <2>5. k \in DOMAIN s /\ s[k].status # "approved"
      BY <1>6, <2>3, <2>4
  <2>6. QED
      BY <2>2, <2>5 DEF Guards
<1>11. QED
    BY <1>7, <1>8, <1>9, <1>10, RowsStand

\* A submit brings a chain that no request has loaded.
LEMMA SubmitStands ==
    ASSUME StandInd, SignInd', NEW w \in Workers, Submit(w)
    PROVE  StandInd'
<1>1. PICK p \in Payments, s0 \in Seq(StepRow) : p = job[w].p /\ s0 = steps[p]
    BY DEF StandInd, SignInd, TypeInd, TypeOK, Job
<1>2. PICK band \in AllBands : band = pay[p].band
    BY DEF StandInd, SignInd, TypeInd, TypeOK, PayRow
<1>3. /\ job[w].row.band = band /\ job[w].row.status = "draft" /\ job[w].steps = <<>>
      /\ RowStands(p) /\ pay[p] \in PayRow
      /\ pay \in [Payments -> PayRow] /\ steps \in [Payments -> Seq(StepRow)]
  <2>1. At(w, "act") /\ job[w].op \in UpdateOps /\ job[w].row.status = "draft"
      BY DEF Submit, Acts, UpdateOps
  <2>2. CopyCovered(w) /\ CopyStands(w)
      BY DEF StandInd, SignInd
  <2>3. RowStands(p) /\ pay[p] \in PayRow
        /\ pay \in [Payments -> PayRow] /\ steps \in [Payments -> Seq(StepRow)]
      BY DEF StandInd, SignInd, TypeInd, TypeOK
  <2>4. QED
      BY <1>1, <1>2, <2>1, <2>2, <2>3 DEF CopyCovered, CopyStands, At
<1>4. PICK r : r = [pay[p] EXCEPT !.status = Put(pay[p].status, job[w].row.status, "submitted")]
    OBVIOUS
<1>5. r.band = band /\ r.status # "draft"
    BY <1>2, <1>3, <1>4 DEF PayRow, Put
<1>6. PICK t \in Seq(StepRow) : t = NewSteps(band, "pending")
    BY NewStepsType DEF StepStatus
<1>7. /\ DOMAIN t = Levels(band) /\ 1 \in DOMAIN t
      /\ \A j \in DOMAIN t : t[j] = [level |-> j, status |-> "pending"]
  <2>1. "pending" \in StepStatus
      BY DEF StepStatus
  <2>2. QED
      BY <1>6, <2>1, NewStepsType
<1>8. PICK s \in Seq(StepRow) : s = s0 \o t
    BY GrownChain
<1>9. /\ \A j \in DOMAIN s0 : s[j] = s0[j]
      /\ \A j \in DOMAIN s : j \in DOMAIN s0 \/ \E k \in DOMAIN t : s[j] = t[k]
      /\ Len(s0) + 1 \in DOMAIN s /\ s[Len(s0) + 1] = t[1]
    BY <1>7, <1>8, GrownChain
<1>10. /\ steps' = [steps EXCEPT ![p] = s] /\ pay' = [pay EXCEPT ![p] = r] /\ Reply(w)
    BY <1>1, <1>3, <1>4, <1>6, <1>8 DEF Submit, Move
<1>11. ASSUME NEW j \in DOMAIN s
       PROVE  s[j].level \in Levels(r.band)
  <2>1. CASE j \in DOMAIN s0
      BY <1>1, <1>2, <1>3, <1>5, <1>9, <2>1 DEF RowStands
  <2>2. CASE j \notin DOMAIN s0
      BY <1>5, <1>7, <1>9, <2>2
  <2>3. QED
      BY <2>1, <2>2
<1>12. s[Len(s0) + 1].status # "approved"
    BY <1>7, <1>9
<1>13. ASSUME NEW v \in Workers, Deciding(v, p)
       PROVE  Len(s0) + 1 \notin DOMAIN job[v].steps
  <2>1. DOMAIN job[v].steps \subseteq DOMAIN s0
      BY <1>1, <1>13 DEF Deciding, StandInd, SignInd, TypeInd, RequestInv
  <2>2. Len(s0) + 1 \notin DOMAIN s0
      BY LenProperties
  <2>3. QED
      BY <2>1, <2>2
<1>14. QED
    BY <1>5, <1>9, <1>10, <1>11, <1>12, <1>13, RowsStand

LEMMA NextStands == StandInd /\ [Next]_vars => StandInd'
<1> SUFFICES ASSUME StandInd, [Next]_vars PROVE StandInd'
    OBVIOUS
<1>1. SignInd'
    BY NextSigns DEF StandInd
<1>2. CASE UNCHANGED vars
    BY <1>1, <1>2 DEF vars, StandInd, RowStands, Guards, Deciding, CopyStands, At
<1>3. ASSUME NEW w \in Workers,
             \/ \E op \in CreateOps : Begin(w, op)
             \/ \E op \in UpdateOps, p \in Payments : Open(w, op, p)
             \/ \E p \in Payments, band \in Bands : Create(w, p, band)
             \/ Step(w)
      PROVE  StandInd'
    BY <1>1, <1>3, ProtocolStands, CreateStands, SubmitStands, ApproveStands, RejectStands,
       StatusStands DEF Step
<1>4. QED
    BY <1>2, <1>3 DEF Next

\* A payment all of whose steps are approved never stands at "submitted", where
\* nothing could move it on, in whatever order or at the same time approvals,
\* late submits and rejections come, on whatever copies.
THEOREM ApprovedMovesOn == Spec => []NeverStranded
<1>1. StandInd => NeverStranded
  <2> SUFFICES ASSUME StandInd, NEW p \in Payments, AllApproved(steps[p]), pay[p].status = "submitted"
               PROVE  FALSE
      BY DEF NeverStranded
  <2>1. PICK k \in DOMAIN steps[p] : Guards(p, k)
      BY DEF StandInd, RowStands
  <2>2. QED
      BY <2>1 DEF Guards, AllApproved
<1>2. QED
    BY <1>1, InitStand, NextStands, PTL DEF Spec

=============================================================================
