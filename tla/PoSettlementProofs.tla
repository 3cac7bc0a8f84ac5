------------------------- MODULE PoSettlementProofs -------------------------
(* Proofs about PoSettlement, for any number of requests in flight, any     *)
(* bound on the payments, and whether or not other modules write while a    *)
(* request is in flight and queries fail.                                   *)
EXTENDS PoSettlement, FiniteSetTheorems, TLAPS

\* The payments made out for the order are the first ones, and no other one
\* has left the state "none": what Claim and Latest rely on.
ClaimsInv ==
    /\ \E n \in 0..MaxOutwards : claims = 1..n
    /\ \A p \in Outwards : phase[p] # "none" => p \in claims

TypeInd == TypeOK /\ ClaimsInv

PaidInd == TypeInd /\ PaidInv

-----------------------------------------------------------------------------
(* The payments of the order.                                              *)

\* The number of payments of the order is the id of its latest one.
LEMMA LatestId ==
    ASSUME NEW n \in 0..MaxOutwards
    PROVE  Cardinality(1..n) = n
<1>1. 1 \in Int /\ n \in Int
    BY MaxOutwardsAssumption
<1>2. Cardinality(1..n) = IF 1 > n THEN 0 ELSE n - 1 + 1
    BY <1>1, FS_Interval
<1>3. QED
    BY <1>2, MaxOutwardsAssumption

\* loadTreasuryLink finds a payment in one of the treasury's phases.
LEMMA LatestType ==
    ASSUME TypeInd
    PROVE  Latest \in Treasury!Phases
<1>1. PICK n \in 0..MaxOutwards : claims = 1..n
    BY DEF TypeInd, ClaimsInv
<1>2. Cardinality(claims) = n
    BY <1>1, LatestId
<1>3. CASE n = 0
    BY <1>1, <1>3 DEF Latest, Treasury!Phases
<1>4. CASE n # 0
  <2>1. n \in Outwards
      BY <1>4, MaxOutwardsAssumption DEF Outwards
  <2>2. phase[n] \in Treasury!Phases
      BY <2>1 DEF TypeInd, TypeOK
  <2>3. QED
      BY <1>2, <2>2 DEF Latest, Treasury!Phases
<1>5. QED
    BY <1>3, <1>4

\* createOutwardFromSource: a new payment is the one after the latest, and no
\* payment that is there changes.
LEMMA ClaimGrows ==
    ASSUME TypeInd, Claim
    PROVE  /\ phase' \in [Outwards -> Treasury!Phases]
           /\ claims' \subseteq Outwards
           /\ ClaimsInv'
           /\ TreasuryPaid' <=> TreasuryPaid
<1>1. PICK n \in 0..MaxOutwards : claims = 1..n
    BY DEF TypeInd, ClaimsInv
<1>2. Cardinality(claims) = n
    BY <1>1, LatestId
<1>3. /\ n + 1 \in Outwards
      /\ phase' = [phase EXCEPT ![n + 1] = "approving"]
      /\ claims' = claims \cup {n + 1}
    BY <1>2 DEF Claim
<1>4. n + 1 \notin claims /\ n + 1 \in 0..MaxOutwards /\ claims' = 1..(n + 1)
    BY <1>1, <1>3, MaxOutwardsAssumption DEF Outwards
<1>5. phase \in [Outwards -> Treasury!Phases] /\ claims \subseteq Outwards
    BY DEF TypeInd, TypeOK
<1>6. phase' \in [Outwards -> Treasury!Phases]
    BY <1>3, <1>5 DEF Treasury!Phases
<1>7. claims' \subseteq Outwards
    BY <1>3, <1>5
<1>8. \A p \in Outwards : phase'[p] # "none" => p \in claims'
    BY <1>3, <1>5 DEF TypeInd, ClaimsInv
<1>9. ClaimsInv'
    BY <1>4, <1>8 DEF ClaimsInv
<1>10. \A p \in claims : p # n + 1 /\ phase'[p] = phase[p]
    BY <1>3, <1>4, <1>5
<1>11. phase'[n + 1] # "paid"
    BY <1>3, <1>5
<1>12. TreasuryPaid' <=> TreasuryPaid
    BY <1>3, <1>10, <1>11 DEF TreasuryPaid
<1>13. QED
    BY <1>6, <1>7, <1>9, <1>12

-----------------------------------------------------------------------------
(* Type correctness.                                                       *)

THEOREM InitTypes == Init => TypeInd
<1> SUFFICES ASSUME Init
             PROVE  TypeInd
    OBVIOUS
<1>1. claims = 1..0 /\ 0 \in 0..MaxOutwards
  <2>1. claims = {}
      BY DEF Init, Treasury!Init
  <2>2. 1..0 = {}
      OBVIOUS
  <2>3. 0 \in 0..MaxOutwards
      BY MaxOutwardsAssumption
  <2>4. QED
      BY <2>1, <2>2, <2>3
<1>2. \A p \in Outwards : phase[p] = "none"
    BY DEF Init, Treasury!Init
<1>3. ClaimsInv
    BY <1>1, <1>2 DEF ClaimsInv
<1>4. phase \in [Outwards -> Treasury!Phases] /\ claims \subseteq Outwards
    BY DEF Init, Treasury!Init, Treasury!Phases
<1>5. job \in [Workers -> Job]
    BY DEF Init, Idle, Job, Stages, SentPo, PoRow, SentTrk, TrkRow, NoGrns, Grns, Quantities,
           Treasury!Phases
<1>6. QED
    BY <1>3, <1>4, <1>5 DEF Init, TypeInd, TypeOK, SentPo, PoRow, SentTrk, TrkRow, NoGrns, Grns,
                            Quantities

\* Moving a request on, or ending it, keeps the copies it holds.
LEMMA JobType ==
    ASSUME TypeInd, NEW w \in Workers
    PROVE  /\ Reply(w) => job' \in [Workers -> Job]
           /\ \A stage \in Stages : Go(w, stage) => job' \in [Workers -> Job]
<1>1. job \in [Workers -> Job] /\ job[w] \in Job
    BY DEF TypeInd, TypeOK
<1>2. Idle \in Job
    BY DEF Idle, Job, Stages, SentPo, PoRow, SentTrk, TrkRow, NoGrns, Grns, Quantities,
           Treasury!Phases
<1>3. ASSUME NEW stage \in Stages, Go(w, stage)
      PROVE  job' \in [Workers -> Job]
  <2>1. [job[w] EXCEPT !.at = stage] \in Job
      BY <1>1 DEF Job
  <2>2. job' = [job EXCEPT ![w] = [job[w] EXCEPT !.at = stage]]
      BY <1>3 DEF Go
  <2>3. QED
      BY <1>1, <2>1, <2>2
<1>4. QED
    BY <1>1, <1>2, <1>3 DEF Reply

\* A write of a column of the tracking row or of the order keeps their types.
LEMMA RowTypes ==
    ASSUME TypeInd, NEW w \in Workers
    PROVE  /\ WriteTrk(w, "closed", TRUE) => trk' \in TrkRow
           /\ WriteTrk(w, "match", "overridden") => trk' \in TrkRow
           /\ WritePo(w, "status", "Completed") => po' \in PoRow
           /\ WritePo(w, "short", TRUE) => po' \in PoRow
           /\ \A value \in {"none", "raised"} : WritePo(w, "rtv", value) => po' \in PoRow
           /\ \A value \in {"none", "on_hold"} : WritePo(w, "exception", value) => po' \in PoRow
<1>1. trk \in TrkRow /\ po \in PoRow
    BY DEF TypeInd, TypeOK
<1>2. WriteTrk(w, "closed", TRUE) => trk' \in TrkRow
    BY <1>1 DEF WriteTrk, Put, TrkRow
<1>3. WriteTrk(w, "match", "overridden") => trk' \in TrkRow
    BY <1>1 DEF WriteTrk, Put, TrkRow
<1>4. WritePo(w, "status", "Completed") => po' \in PoRow
    BY <1>1 DEF WritePo, Put, PoRow
<1>5. WritePo(w, "short", TRUE) => po' \in PoRow
    BY <1>1 DEF WritePo, Put, PoRow
<1>6. ASSUME NEW value \in {"none", "raised"}, WritePo(w, "rtv", value)
      PROVE  po' \in PoRow
    BY <1>1, <1>6 DEF WritePo, Put, PoRow
<1>7. ASSUME NEW value \in {"none", "on_hold"}, WritePo(w, "exception", value)
      PROVE  po' \in PoRow
    BY <1>1, <1>7 DEF WritePo, Put, PoRow
<1>8. QED
    BY <1>2, <1>3, <1>4, <1>5, <1>6, <1>7

\* Every step of a request keeps the types.
LEMMA StepTypes ==
    ASSUME TypeInd, NEW w \in Workers, Step(w)
    PROVE  TypeInd'
<1>1. /\ po \in PoRow /\ trk \in TrkRow /\ grn \in Grns
      /\ pr \in {"PO Released", "New", "Completed"}
      /\ phase \in [Outwards -> Treasury!Phases] /\ claims \subseteq Outwards
      /\ hand \in Nat
      /\ accepted \in Quantities /\ wiped \in BOOLEAN /\ lost \in BOOLEAN
      /\ job \in [Workers -> Job] /\ job[w] \in Job
    BY DEF TypeInd, TypeOK
<1>2. UNCHANGED <<phase, claims>> => ClaimsInv'
    BY DEF TypeInd, ClaimsInv
<1>3. Reply(w) => job' \in [Workers -> Job]
    BY JobType
<1>4. \A stage \in {"complete", "accept", "finish", "reopen", "push"} :
         Go(w, stage) => job' \in [Workers -> Job]
    BY JobType DEF Stages
<1>5. ASSUME NEW op \in Endpoints, Begin(w, op)
      PROVE  TypeInd'
  <2>1. [Idle EXCEPT !.op = op, !.at = "load"] \in Job
      BY EndpointsAssumption
         DEF Idle, Job, Stages, SentPo, PoRow, SentTrk, TrkRow, NoGrns, Grns, Quantities,
             Treasury!Phases
  <2>2. job' \in [Workers -> Job]
      BY <1>1, <1>5, <2>1 DEF Begin
  <2>3. QED
      BY <1>1, <1>2, <1>5, <2>2 DEF Begin, TypeInd, TypeOK
<1>6. CASE Load(w)
  <2>1. PICK g \in {grn, NoGrns} : \E l \in {Latest, "none"} :
           job' = [job EXCEPT ![w].at = "act", ![w].po = po, ![w].trk = trk, ![w].grn = g,
                              ![w].latest = l]
      BY <1>6 DEF Load, Found
  <2>2. PICK l \in {Latest, "none"} :
           job' = [job EXCEPT ![w].at = "act", ![w].po = po, ![w].trk = trk, ![w].grn = g,
                              ![w].latest = l]
      BY <2>1
  <2>3. g \in Grns /\ l \in Treasury!Phases
    <3>1. NoGrns \in Grns
        BY DEF NoGrns, Grns, Quantities
    <3>2. Latest \in Treasury!Phases
        BY LatestType
    <3>3. "none" \in Treasury!Phases
        BY DEF Treasury!Phases
    <3>4. QED
        BY <1>1, <3>1, <3>2, <3>3
  <2>4. [job[w] EXCEPT !.at = "act", !.po = po, !.trk = trk, !.grn = g, !.latest = l] \in Job
      BY <1>1, <2>3 DEF Job, Stages
  <2>5. job' = [job EXCEPT ![w] = [job[w] EXCEPT !.at = "act", !.po = po, !.trk = trk,
                                                 !.grn = g, !.latest = l]]
      BY <2>2
  <2>6. job' \in [Workers -> Job]
      BY <1>1, <2>4, <2>5
  <2>7. QED
      BY <1>1, <1>2, <1>6, <2>6 DEF Load, TypeInd, TypeOK
<1>7. CASE Refuse(w)
    BY <1>1, <1>2, <1>3, <1>7 DEF Refuse, TypeInd, TypeOK
<1>8. CASE Abort(w)
    BY <1>1, <1>2, <1>3, <1>4, <1>8 DEF Abort, TypeInd, TypeOK
<1>9. ASSUME NEW invoice \in {"part", "full"}, Invoice(w, invoice)
      PROVE  TypeInd'
  <2>1. Verdict(job[w].grn.received, invoice) \in {"pass", "variance"}
      BY <1>9 DEF Verdict
  <2>2. trk' \in TrkRow
      BY <1>1, <1>9, <2>1 DEF Invoice, Put, TrkRow, Quantities
  <2>3. accepted' \in Quantities
      BY <1>1, <1>9 DEF Invoice, Quantities
  <2>4. QED
      BY <1>1, <1>2, <1>3, <1>9, <2>2, <2>3 DEF Invoice, TypeInd, TypeOK
<1>10. CASE Override(w)
  <2>1. trk' \in TrkRow
      BY <1>10, RowTypes DEF Override
  <2>2. accepted' \in Quantities
      BY <1>1, <1>10 DEF Override, Job, TrkRow
  <2>3. QED
      BY <1>1, <1>2, <1>3, <1>10, <2>1, <2>2 DEF Override, TypeInd, TypeOK
<1>11. ASSUME NEW numbered \in BOOLEAN, Pay(w, numbered)
       PROVE  TypeInd'
  <2>1. trk' \in TrkRow
      BY <1>1, <1>11 DEF Pay, Put, TrkRow
  <2>2. hand' \in Nat
    <3>1. hand' = hand + 1
        BY <1>11, Zenon DEF Pay
    <3>2. hand \in Nat
        BY <1>1
    <3>3. QED
        BY <3>1, <3>2
  <2>3. QED
      BY <1>1, <1>2, <1>3, <1>11, <2>1, <2>2 DEF Pay, TypeInd, TypeOK
<1>12. CASE Close(w)
  <2>1. trk' \in TrkRow
      BY <1>12, RowTypes DEF Close
  <2>2. QED
      BY <1>1, <1>2, <1>4, <1>12, <2>1 DEF Close, TypeInd, TypeOK
<1>13. CASE Complete(w)
  <2>1. po' \in PoRow
      BY <1>13, RowTypes DEF Complete
  <2>2. QED
      BY <1>1, <1>2, <1>4, <1>13, <2>1 DEF Complete, TypeInd, TypeOK
<1>14. CASE SyncRequest(w)
    BY <1>1, <1>2, <1>3, <1>14 DEF SyncRequest, TypeInd, TypeOK
<1>15. CASE Send(w)
    BY <1>1, <1>2, <1>4, <1>15 DEF Send, TypeInd, TypeOK
<1>16. CASE Push(w)
  <2>1. phase' \in [Outwards -> Treasury!Phases] /\ claims' \subseteq Outwards /\ ClaimsInv'
      BY <1>1, <1>2, <1>16, ClaimGrows DEF Push
  <2>2. QED
      BY <1>1, <1>3, <1>16, <2>1 DEF Push, TypeInd, TypeOK
<1>17. CASE ShortClose(w)
  <2>1. po' \in PoRow
      BY <1>17, RowTypes DEF ShortClose
  <2>2. QED
      BY <1>1, <1>2, <1>4, <1>17, <2>1 DEF ShortClose, TypeInd, TypeOK
<1>18. CASE Accept(w)
  <2>1. trk' \in TrkRow
      BY <1>18, RowTypes DEF Accept
  <2>2. accepted' \in Quantities
      BY <1>1, <1>18 DEF Accept, Job, TrkRow
  <2>3. QED
      BY <1>1, <1>2, <1>4, <1>18, <2>1, <2>2 DEF Accept, TypeInd, TypeOK
<1>19. CASE RaiseRtv(w) \/ ResolveRtv(w)
  <2>1. po' \in PoRow
      BY <1>19, RowTypes DEF RaiseRtv, ResolveRtv
  <2>2. QED
      BY <1>1, <1>2, <1>3, <1>19, <2>1 DEF RaiseRtv, ResolveRtv, TypeInd, TypeOK
<1>20. CASE Hold(w) \/ Resume(w)
  <2>1. po' \in PoRow
      BY <1>20, RowTypes DEF Hold, Resume
  <2>2. QED
      BY <1>1, <1>2, <1>3, <1>20, <2>1 DEF Hold, Resume, TypeInd, TypeOK
<1>21. CASE Cancel(w)
  <2>1. po' \in PoRow
      BY <1>1, <1>21 DEF Cancel, Put, PoRow
  <2>2. QED
      BY <1>1, <1>2, <1>4, <1>21, <2>1 DEF Cancel, TypeInd, TypeOK
<1>22. QED
    BY <1>5, <1>6, <1>7, <1>8, <1>9, <1>10, <1>11, <1>12, <1>13, <1>14, <1>15, <1>16, <1>17,
       <1>18, <1>19, <1>20, <1>21 DEF Step

\* Every step of another module keeps the types.
LEMMA OtherTypes ==
    ASSUME TypeInd,
           \/ Receive
           \/ \E column \in {"grnComplete", "transaction"}, present \in BOOLEAN : Track(column, present)
           \/ Sync
           \/ \E p \in Outwards : Decide(p) \/ Execute(p)
    PROVE  TypeInd'
<1>1. /\ po \in PoRow /\ trk \in TrkRow /\ grn \in Grns
      /\ pr \in {"PO Released", "New", "Completed"}
      /\ phase \in [Outwards -> Treasury!Phases] /\ claims \subseteq Outwards
      /\ hand \in Nat
      /\ accepted \in Quantities /\ wiped \in BOOLEAN /\ lost \in BOOLEAN
      /\ job \in [Workers -> Job]
    BY DEF TypeInd, TypeOK
<1>2. UNCHANGED <<phase, claims>> => ClaimsInv'
    BY DEF TypeInd, ClaimsInv
<1>3. CASE Receive
  <2>1. grn' \in Grns
      BY <1>1, <1>3 DEF Receive, Grns, Quantities
  <2>2. QED
      BY <1>1, <1>2, <1>3, <2>1 DEF Receive, TypeInd, TypeOK
<1>4. ASSUME NEW column \in {"grnComplete", "transaction"}, NEW present \in BOOLEAN,
             Track(column, present)
      PROVE  TypeInd'
  <2>1. trk' \in TrkRow
      BY <1>1, <1>4 DEF Track, TrkRow
  <2>2. QED
      BY <1>1, <1>2, <1>4, <2>1 DEF Track, TypeInd, TypeOK
<1>5. CASE Sync
  <2>1. phase' \in [Outwards -> Treasury!Phases] /\ claims' \subseteq Outwards /\ ClaimsInv'
      BY <1>5, ClaimGrows DEF Sync
  <2>2. QED
      BY <1>1, <1>5, <2>1 DEF Sync, TypeInd, TypeOK
<1>6. ASSUME NEW p \in Outwards, Decide(p)
      PROVE  TypeInd'
  <2>1. PICK to \in {"approved", "rejected", "held"} :
           phase[p] # "none" /\ phase' = [phase EXCEPT ![p] = to] /\ claims' = claims
      BY <1>6 DEF Decide, Treasury!Authorise, Treasury!Reject, Treasury!Hold, Treasury!Move
  <2>2. phase' \in [Outwards -> Treasury!Phases] /\ ClaimsInv'
      BY <1>1, <2>1 DEF TypeInd, ClaimsInv, Treasury!Phases
  <2>3. QED
      BY <1>1, <1>6, <2>1, <2>2 DEF Decide, TypeInd, TypeOK
<1>7. ASSUME NEW p \in Outwards, Execute(p)
      PROVE  TypeInd'
  <2>1. phase[p] # "none" /\ phase' = [phase EXCEPT ![p] = "paid"] /\ claims' = claims
      BY <1>7 DEF Execute, Treasury!Pay, Treasury!Move
  <2>2. phase' \in [Outwards -> Treasury!Phases] /\ ClaimsInv'
      BY <1>1, <2>1 DEF TypeInd, ClaimsInv, Treasury!Phases
  <2>3. trk' \in TrkRow
      BY <1>1, <1>7 DEF Execute, ApplyReceipt, TrkRow
  <2>4. QED
      BY <1>1, <1>7, <2>1, <2>2, <2>3 DEF Execute, TypeInd, TypeOK
<1>8. QED
    BY <1>3, <1>4, <1>5, <1>6, <1>7

LEMMA NextTypes ==
    ASSUME TypeInd, [Next]_vars
    PROVE  TypeInd'
<1>1. CASE Next
    BY <1>1, StepTypes, OtherTypes DEF Next
<1>2. CASE UNCHANGED vars
    BY <1>2 DEF vars, TypeInd, TypeOK, ClaimsInv
<1>3. QED
    BY <1>1, <1>2

\* The rows, the copies requests hold and the history variables keep their
\* types (models.js), and the payments of the order are the first ones.
THEOREM TypeCorrect == Spec => []TypeOK
<1>1. TypeInd => TypeOK
    BY DEF TypeInd
<1>2. QED
    BY <1>1, InitTypes, NextTypes, PTL DEF Spec

-----------------------------------------------------------------------------
(* The mark of the final payment.                                          *)

THEOREM InitPaid == Init => PaidInv
<1> SUFFICES ASSUME Init
             PROVE  PaidInv
    OBVIOUS
<1>1. ~trk.finalPaid
    BY DEF Init, SentTrk
<1>2. ~(hand > 0)
  <2>1. hand = 0
      BY Zenon DEF Init
  <2>2. QED
      BY <2>1
<1>3. ~TreasuryPaid
    BY DEF Init, Treasury!Init, TreasuryPaid
<1>4. QED
    BY <1>1, <1>2, <1>3 DEF PaidInv

\* A step that pays nobody leaves the mark alone: every handler writes the
\* columns it means to write, from whatever copy it holds.
LEMMA UnpaidStep ==
    ASSUME PaidInd, trk'.finalPaid = trk.finalPaid, hand' = hand,
           TreasuryPaid' <=> TreasuryPaid
    PROVE  PaidInv'
BY DEF PaidInd, PaidInv

LEMMA StepPaid ==
    ASSUME PaidInd, NEW w \in Workers, Step(w)
    PROVE  PaidInv'
<1>1. trk \in TrkRow /\ hand \in Nat /\ TypeInd
    BY DEF PaidInd, TypeInd, TypeOK
<1>2. UNCHANGED <<phase, claims>> => (TreasuryPaid' <=> TreasuryPaid)
    BY DEF TreasuryPaid
<1>3. \A column \in {"match", "closed"} : \A value :
         WriteTrk(w, column, value) => trk'.finalPaid = trk.finalPaid
    BY <1>1 DEF WriteTrk, TrkRow
<1>4. ASSUME NEW invoice \in {"part", "full"}, Invoice(w, invoice)
      PROVE  PaidInv'
  <2>1. trk'.finalPaid = trk.finalPaid
      BY <1>1, <1>4 DEF Invoice, TrkRow
  <2>2. QED
      BY <1>2, <1>4, <2>1, UnpaidStep DEF Invoice
<1>5. ASSUME NEW numbered \in BOOLEAN, Pay(w, numbered)
      PROVE  PaidInv'
  <2>1. trk'.finalPaid
      BY <1>1, <1>5 DEF Pay, TrkRow
  <2>2. hand' = hand + 1
      BY <1>5, Zenon DEF Pay
  <2>3. hand' > 0
      BY <1>1, <2>2
  <2>4. QED
      BY <2>1, <2>3 DEF PaidInv
<1>6. CASE Override(w) \/ Accept(w) \/ Close(w)
  <2>1. trk'.finalPaid = trk.finalPaid
      BY <1>3, <1>6 DEF Override, Accept, Close
  <2>2. QED
      BY <1>2, <1>6, <2>1, UnpaidStep DEF Override, Accept, Close
<1>7. CASE Push(w)
  <2>1. TreasuryPaid' <=> TreasuryPaid
      BY <1>1, <1>2, <1>7, ClaimGrows DEF Push
  <2>2. QED
      BY <1>7, <2>1, UnpaidStep DEF Push
<1>8. ASSUME UNCHANGED <<trk, hand, phase, claims>>
      PROVE  PaidInv'
    BY <1>2, <1>8, UnpaidStep
<1>9. CASE \/ \E op \in Endpoints : Begin(w, op)
           \/ Load(w) \/ Refuse(w) \/ Abort(w) \/ Complete(w) \/ SyncRequest(w) \/ Send(w)
           \/ ShortClose(w) \/ RaiseRtv(w) \/ ResolveRtv(w) \/ Hold(w) \/ Resume(w) \/ Cancel(w)
  <2>1. UNCHANGED <<trk, hand, phase, claims>>
      BY <1>9 DEF Begin, Load, Refuse, Abort, Complete, SyncRequest, Send, ShortClose, RaiseRtv,
                  ResolveRtv, Hold, Resume, Cancel
  <2>2. QED
      BY <1>8, <2>1
<1>10. QED
    BY <1>4, <1>5, <1>6, <1>7, <1>9 DEF Step

LEMMA OtherPaid ==
    ASSUME PaidInd,
           \/ Receive
           \/ \E column \in {"grnComplete", "transaction"}, present \in BOOLEAN : Track(column, present)
           \/ Sync
           \/ \E p \in Outwards : Decide(p) \/ Execute(p)
    PROVE  PaidInv'
<1>1. trk \in TrkRow /\ hand \in Nat /\ TypeInd /\ phase \in [Outwards -> Treasury!Phases]
      /\ claims \subseteq Outwards
    BY DEF PaidInd, TypeInd, TypeOK
<1>2. UNCHANGED <<phase, claims>> => (TreasuryPaid' <=> TreasuryPaid)
    BY DEF TreasuryPaid
<1>3. CASE Receive
    BY <1>2, <1>3, UnpaidStep DEF Receive
<1>4. ASSUME NEW column \in {"grnComplete", "transaction"}, NEW present \in BOOLEAN,
             Track(column, present)
      PROVE  PaidInv'
  <2>1. trk'.finalPaid = trk.finalPaid
      BY <1>1, <1>4 DEF Track, TrkRow
  <2>2. QED
      BY <1>2, <1>4, <2>1, UnpaidStep DEF Track
<1>5. CASE Sync
  <2>1. TreasuryPaid' <=> TreasuryPaid
      BY <1>1, <1>5, ClaimGrows DEF Sync
  <2>2. QED
      BY <1>5, <2>1, UnpaidStep DEF Sync
<1>6. ASSUME NEW p \in Outwards, Decide(p)
      PROVE  PaidInv'
  <2>1. PICK to \in {"approved", "rejected", "held"} :
           phase[p] # "paid" /\ phase' = [phase EXCEPT ![p] = to] /\ claims' = claims
      BY <1>6 DEF Decide, Treasury!Authorise, Treasury!Reject, Treasury!Hold, Treasury!Move
  <2>2. \A q \in claims : phase'[q] = "paid" <=> phase[q] = "paid"
      BY <1>1, <2>1
  <2>3. TreasuryPaid' <=> TreasuryPaid
      BY <2>1, <2>2 DEF TreasuryPaid
  <2>4. QED
      BY <1>6, <2>3, UnpaidStep DEF Decide
<1>7. ASSUME NEW p \in Outwards, Execute(p)
      PROVE  PaidInv'
  <2>1. phase[p] # "none" /\ phase' = [phase EXCEPT ![p] = "paid"] /\ claims' = claims
      BY <1>7 DEF Execute, Treasury!Pay, Treasury!Move
  <2>2. p \in claims' /\ phase'[p] = "paid"
      BY <1>1, <2>1 DEF TypeInd, ClaimsInv
  <2>3. trk'.finalPaid
      BY <1>1, <1>7 DEF Execute, ApplyReceipt, TrkRow
  <2>4. QED
      BY <2>2, <2>3 DEF PaidInv, TreasuryPaid
<1>8. QED
    BY <1>3, <1>4, <1>5, <1>6, <1>7

\* The order is marked as finally paid just when it has been paid by hand or
\* through the treasury, however requests, the treasury and the warehouse
\* interleave and whichever copies they write from (recordFinalPayment,
\* applyReceiptToSource and every other write of the tracking row).
THEOREM PaidMark == Spec => []PaidInv
<1>1. Init => PaidInd
    BY InitTypes, InitPaid DEF PaidInd
<1>2. ASSUME PaidInd, [Next]_vars
      PROVE  PaidInd'
  <2>1. TypeInd'
      BY <1>2, NextTypes DEF PaidInd
  <2>2. CASE Next
      BY <1>2, <2>1, <2>2, StepPaid, OtherPaid DEF Next, PaidInd
  <2>3. CASE UNCHANGED vars
    <3>1. PaidInv'
        BY <1>2, <2>3 DEF vars, PaidInd, PaidInv, TreasuryPaid
    <3>2. QED
        BY <2>1, <3>1 DEF PaidInd
  <2>4. QED
      BY <1>2, <2>2, <2>3
<1>3. PaidInd => PaidInv
    BY DEF PaidInd
<1>4. QED
    BY <1>1, <1>2, <1>3, PTL DEF Spec

=============================================================================
