---------------------- MODULE PoSettlementSerialProofs ----------------------
(* Proofs about PoSettlement while the purchase-order routes serve one      *)
(* request at a time, for any bound on the payments.                        *)
EXTENDS PoSettlementProofs

OneAtATime == \A v, w \in Workers : v = w

\* Other modules write between two requests.
Undisturbed == ~Overlap

\* Every query for the receipts and the payments is answered.
LookupsHold == ~LookupsFail

\* What a request still writes from is what is there, as far as only the
\* routes of the order write it.
CopyFresh(w) ==
    /\ job[w].at \in {"act", "complete"} => job[w].po = po
    /\ job[w].at \in {"act", "accept"} =>
          /\ job[w].trk.invoice = trk.invoice
          /\ job[w].trk.match = trk.match
          /\ job[w].trk.closed = trk.closed

\* What it decides on stands, too, while the other modules wait.
DecisionFresh(w) ==
    /\ Undisturbed /\ At(w, "act") => job[w].trk.finalPaid = trk.finalPaid
    /\ Undisturbed /\ LookupsHold =>
          /\ Acts(w, "Send") => job[w].latest = Latest
          /\ At(w, "push") => Latest = "none"

\* Which request has come this far, and what it has written on the order.  One
\* that the middleware has admitted finds no exception to the end.
Progress(w) ==
    /\ job[w].at \in {"complete", "finish"} => job[w].op = "Close"
    /\ At(w, "accept") => job[w].op = "ShortClose"
    /\ At(w, "reopen") => job[w].op \in {"ShortClose", "Cancel"}
    /\ ~At(w, "idle") /\ job[w].op \in GuardedOps => po.exception = "none"
    /\ job[w].at \in {"accept", "reopen"} /\ job[w].op = "ShortClose" => po.short
    /\ At(w, "reopen") /\ job[w].op = "Cancel" => po.exception = "cancelled"
    /\ job[w].at \in {"complete", "finish"} => trk.closed
    /\ At(w, "finish") => po.status = "Completed"

\* The rows agree but for the writes a request in flight still owes.
RowsInv ==
    ~lost =>
        /\ trk.closed <=> po.status = "Completed" \/ \E w \in Workers : At(w, "complete")
        /\ po.exception = "cancelled" <=> po.status = "Cancelled"
        /\ po.exception = "cancelled" => ~trk.closed
        /\ (\A w \in Workers : job[w].at \notin {"complete", "finish", "reopen"}) =>
              /\ trk.closed => pr = "Completed" \/ (po.short /\ pr = "New")
              /\ po.exception = "cancelled" => pr = "New"

\* A payment that counts for the order is one the treasury knows, and one it
\* has paid has left its number, unless PUT /po-tracking has cleared it.
PaidNumbered ==
    /\ \A p \in claims : phase[p] # "none"
    /\ TreasuryPaid => trk.transaction \/ wiped

RequestsInv == \A w \in Workers : CopyFresh(w) /\ DecisionFresh(w) /\ Progress(w)

SerialInd == RequestsInv /\ RowsInv /\ WriteOrder /\ OverrideInv /\ PaidNumbered

LEMMA InitSerial == Init => SerialInd
<1> SUFFICES ASSUME Init
             PROVE  SerialInd
    OBVIOUS
<1>1. \A w \in Workers : job[w].at = "idle"
    BY DEF Init, Idle
<1>2. RequestsInv
    BY <1>1 DEF RequestsInv, CopyFresh, DecisionFresh, Progress, Acts, At
<1>3. RowsInv /\ WriteOrder /\ OverrideInv
    BY <1>1 DEF Init, SentPo, SentTrk, RowsInv, WriteOrder, OverrideInv, At
<1>4. PaidNumbered
    BY DEF Init, Treasury!Init, PaidNumbered, TreasuryPaid
<1>5. QED
    BY <1>2, <1>3, <1>4 DEF SerialInd

-----------------------------------------------------------------------------
(* The steps of a request.                                                 *)

\* What the other lemmas take from the types and from serving one request.
LEMMA Alone ==
    ASSUME TypeInd, OneAtATime, NEW w \in Workers
    PROVE  /\ po \in PoRow /\ trk \in TrkRow /\ job[w] \in Job /\ job \in [Workers -> Job]
           /\ Workers = {w}
           /\ Reply(w) => job'[w] = Idle
           /\ \A stage \in Stages : Go(w, stage) =>
                 /\ job'[w].at = stage /\ job'[w].op = job[w].op
                 /\ job'[w].po = job[w].po /\ job'[w].trk = job[w].trk
<1>1. po \in PoRow /\ trk \in TrkRow /\ job[w] \in Job /\ job \in [Workers -> Job]
    BY DEF TypeInd, TypeOK
<1>2. Workers = {w}
    BY DEF OneAtATime
<1>3. ASSUME NEW stage \in Stages, Go(w, stage)
      PROVE  /\ job'[w].at = stage /\ job'[w].op = job[w].op
             /\ job'[w].po = job[w].po /\ job'[w].trk = job[w].trk
    BY <1>1, <1>3 DEF Go, Job
<1>4. QED
    BY <1>1, <1>2, <1>3 DEF Reply

\* The request that has replied owes nothing, and has no copies.
LEMMA RestingRequest ==
    ASSUME NEW w \in Workers, Workers = {w}, job'[w] = Idle
    PROVE  RequestsInv'
BY DEF RequestsInv, CopyFresh, DecisionFresh, Progress, Acts, At, Idle

LEMMA StepRequests ==
    ASSUME TypeInd, OneAtATime, SerialInd, NEW w \in Workers, Step(w)
    PROVE  RequestsInv'
<1>1. /\ po \in PoRow /\ trk \in TrkRow /\ job[w] \in Job /\ job \in [Workers -> Job]
      /\ Workers = {w} /\ CopyFresh(w) /\ DecisionFresh(w) /\ Progress(w)
    BY Alone DEF SerialInd, RequestsInv
<1>2. Reply(w) => RequestsInv'
    BY <1>1, Alone, RestingRequest
<1>3. UNCHANGED <<phase, claims>> => Latest' = Latest
    BY DEF Latest
<1>4. ASSUME NEW op \in Endpoints, Begin(w, op)
      PROVE  RequestsInv'
  <2>1. job'[w].at = "load" /\ job'[w].op = op
      BY <1>1, <1>4 DEF Begin, Idle
  <2>2. po'.exception = po.exception /\ (op \in GuardedOps => po.exception = "none")
      BY <1>4 DEF Begin
  <2>3. QED
      BY <1>1, <2>1, <2>2 DEF RequestsInv, CopyFresh, DecisionFresh, Progress, Acts, At
<1>5. CASE Load(w)
  <2>1. /\ job'[w].at = "act" /\ job'[w].po = po /\ job'[w].trk = trk
        /\ job'[w].op = job[w].op
        /\ LookupsHold /\ job[w].op = "Send" => job'[w].latest = Latest
      BY <1>1, <1>5 DEF Load, Found, Job, LookupsHold
  <2>2. At(w, "load") /\ UNCHANGED <<po, trk, phase, claims>>
      BY <1>5 DEF Load
  <2>3. QED
      BY <1>1, <1>3, <2>1, <2>2 DEF RequestsInv, CopyFresh, DecisionFresh, Progress, Acts, At
<1>6. CASE Close(w)
  <2>1. /\ job'[w].at = "complete" /\ job'[w].op = job[w].op
        /\ job'[w].po = job[w].po /\ job'[w].trk = job[w].trk
      BY <1>6, Alone DEF Close, Stages
  <2>2. trk'.closed
      BY <1>1, <1>6 DEF Close, WriteTrk, Put, TrkRow, CopyFresh, Acts, At
  <2>3. QED
      BY <1>1, <1>6, <2>1, <2>2 DEF Close, RequestsInv, CopyFresh, DecisionFresh, Progress, Acts, At
<1>7. CASE Complete(w)
  <2>1. /\ job'[w].at = "finish" /\ job'[w].op = job[w].op
        /\ job'[w].po = job[w].po /\ job'[w].trk = job[w].trk
      BY <1>7, Alone DEF Complete, Stages
  <2>2. po'.exception = po.exception /\ po'.status = "Completed"
      BY <1>1, <1>7 DEF Complete, WritePo, Put, PoRow, CopyFresh, At
  <2>3. QED
      BY <1>1, <1>7, <2>1, <2>2 DEF Complete, RequestsInv, CopyFresh, DecisionFresh, Progress, Acts, At
<1>8. CASE Send(w)
  <2>1. /\ job'[w].at = "push" /\ job'[w].op = job[w].op
        /\ job'[w].po = job[w].po /\ job'[w].trk = job[w].trk
      BY <1>8, Alone DEF Send, Stages
  <2>2. Undisturbed /\ LookupsHold => Latest' = "none"
      BY <1>1, <1>3, <1>8 DEF Send, DecisionFresh, Acts, At
  <2>3. QED
      BY <1>1, <1>8, <2>1, <2>2 DEF Send, RequestsInv, CopyFresh, DecisionFresh, Progress, Acts, At
<1>9. CASE ShortClose(w)
  <2>1. /\ job'[w].at = "accept" /\ job'[w].op = job[w].op
        /\ job'[w].po = job[w].po /\ job'[w].trk = job[w].trk
      BY <1>9, Alone DEF ShortClose, Stages
  <2>2. po'.exception = po.exception /\ po'.short
      BY <1>1, <1>9 DEF ShortClose, WritePo, Put, PoRow, CopyFresh, Acts, At
  <2>3. QED
      BY <1>1, <1>9, <2>1, <2>2
         DEF ShortClose, RequestsInv, CopyFresh, DecisionFresh, Progress, Acts, At
<1>10. CASE Accept(w)
  <2>1. /\ job'[w].at = "reopen" /\ job'[w].op = job[w].op
        /\ job'[w].po = job[w].po /\ job'[w].trk = job[w].trk
      BY <1>10, Alone DEF Accept, Stages
  <2>2. QED
      BY <1>1, <1>10, <2>1 DEF Accept, RequestsInv, CopyFresh, DecisionFresh, Progress, Acts, At
<1>11. CASE Cancel(w)
  <2>1. /\ job'[w].at = "reopen" /\ job'[w].op = job[w].op
        /\ job'[w].po = job[w].po /\ job'[w].trk = job[w].trk
      BY <1>11, Alone DEF Cancel, Stages
  <2>2. po'.exception = "cancelled"
      BY <1>1, <1>11 DEF Cancel, PoRow
  <2>3. QED
      BY <1>1, <1>11, <2>1, <2>2
         DEF Cancel, RequestsInv, CopyFresh, DecisionFresh, Progress, Acts, At, GuardedOps, MatchOps, GrnOps
<1>12. CASE Abort(w)
  <2>1. CASE Reply(w)
      BY <1>2, <2>1
  <2>2. CASE At(w, "accept") /\ Go(w, "reopen")
    <3>1. /\ job'[w].at = "reopen" /\ job'[w].op = job[w].op
          /\ job'[w].po = job[w].po /\ job'[w].trk = job[w].trk
        BY <2>2, Alone DEF Stages
    <3>2. QED
        BY <1>1, <1>12, <2>2, <3>1
           DEF Abort, RequestsInv, CopyFresh, DecisionFresh, Progress, Acts, At
  <2>3. QED
      BY <1>12, <2>1, <2>2 DEF Abort
<1>13. CASE \/ Refuse(w) \/ \E invoice \in {"part", "full"} : Invoice(w, invoice)
            \/ Override(w) \/ \E numbered \in BOOLEAN : Pay(w, numbered)
            \/ SyncRequest(w) \/ Push(w) \/ RaiseRtv(w) \/ ResolveRtv(w) \/ Hold(w) \/ Resume(w)
  <2>1. Reply(w)
      BY <1>13 DEF Refuse, Invoice, Override, Pay, SyncRequest, Push, RaiseRtv, ResolveRtv,
                   Hold, Resume
  <2>2. QED
      BY <1>2, <2>1
<1>14. QED
    BY <1>4, <1>5, <1>6, <1>7, <1>8, <1>9, <1>10, <1>11, <1>12, <1>13 DEF Step

\* closePo writes the tracking row first and the request last, and no handler
\* takes the mark of the closing or the completed status back.
LEMMA StepOrder ==
    ASSUME TypeInd, OneAtATime, SerialInd, NEW w \in Workers, Step(w)
    PROVE  WriteOrder'
<1>1. /\ po \in PoRow /\ trk \in TrkRow /\ job[w] \in Job
      /\ CopyFresh(w) /\ Progress(w) /\ WriteOrder
    BY Alone DEF SerialInd, RequestsInv
<1>2. ASSUME po'.status = po.status, trk'.closed = trk.closed, pr' = pr
      PROVE  WriteOrder'
    BY <1>1, <1>2 DEF WriteOrder
<1>3. CASE \/ \E invoice \in {"part", "full"} : Invoice(w, invoice)
           \/ Override(w) \/ \E numbered \in BOOLEAN : Pay(w, numbered) \/ Accept(w)
  <2>1. trk'.closed = trk.closed /\ UNCHANGED <<po, pr>>
      BY <1>1, <1>3 DEF Invoice, Override, Pay, Accept, WriteTrk, TrkRow
  <2>2. QED
      BY <1>2, <2>1
<1>4. CASE ShortClose(w) \/ RaiseRtv(w) \/ ResolveRtv(w) \/ Hold(w) \/ Resume(w)
  <2>1. po'.status = po.status /\ UNCHANGED <<trk, pr>>
      BY <1>1, <1>4 DEF ShortClose, RaiseRtv, ResolveRtv, Hold, Resume, WritePo, PoRow
  <2>2. QED
      BY <1>2, <2>1
<1>5. CASE Close(w)
  <2>1. trk'.closed /\ UNCHANGED <<po, pr>>
      BY <1>1, <1>5 DEF Close, WriteTrk, Put, TrkRow, CopyFresh, Acts, At
  <2>2. QED
      BY <1>1, <2>1 DEF WriteOrder
<1>6. CASE Complete(w)
  <2>1. po'.status = "Completed" /\ trk.closed /\ UNCHANGED <<trk, pr>>
      BY <1>1, <1>6 DEF Complete, WritePo, Put, PoRow, CopyFresh, Progress, At
  <2>2. QED
      BY <1>1, <2>1 DEF WriteOrder
<1>7. CASE Cancel(w)
  <2>1. po.status # "Completed" /\ po'.status = "Cancelled" /\ UNCHANGED <<trk, pr>>
      BY <1>1, <1>7 DEF Cancel, Put, PoRow, CopyFresh, Acts, At
  <2>2. QED
      BY <1>1, <2>1 DEF WriteOrder
<1>8. CASE SyncRequest(w)
  <2>1. pr' = "Completed" => po.status = "Completed"
      BY <1>1, <1>8 DEF SyncRequest, Progress, At
  <2>2. QED
      BY <1>1, <1>8, <2>1 DEF SyncRequest, WriteOrder
<1>9. CASE \/ \E op \in Endpoints : Begin(w, op)
           \/ Load(w) \/ Refuse(w) \/ Abort(w) \/ Send(w) \/ Push(w)
  <2>1. UNCHANGED <<po, trk, pr>>
      BY <1>9 DEF Begin, Load, Refuse, Abort, Send, Push
  <2>2. QED
      BY <1>2, <2>1
<1>10. QED
    BY <1>3, <1>4, <1>5, <1>6, <1>7, <1>8, <1>9 DEF Step

\* A step that neither writes the order, its request or the mark of the closing,
\* nor ends or enters a stage that owes a write.
LEMMA RowsKept ==
    ASSUME RowsInv, NEW w \in Workers, Workers = {w},
           po'.status = po.status, po'.short = po.short,
           po'.exception = "cancelled" <=> po.exception = "cancelled",
           trk'.closed = trk.closed, pr' = pr, lost' = lost,
           job[w].at \notin {"complete", "finish", "reopen"}, job'[w].at # "complete"
    PROVE  RowsInv'
BY DEF RowsInv, At

LEMMA StepRows ==
    ASSUME TypeInd, OneAtATime, SerialInd, NEW w \in Workers, Step(w)
    PROVE  RowsInv'
<1>1. /\ po \in PoRow /\ trk \in TrkRow /\ job[w] \in Job /\ job \in [Workers -> Job]
      /\ Workers = {w} /\ CopyFresh(w) /\ Progress(w) /\ RowsInv
    BY Alone DEF SerialInd, RequestsInv
<1>2. Reply(w) => job'[w].at = "idle"
    BY Alone DEF Idle
<1>3. CASE (\E op \in Endpoints : Begin(w, op)) \/ Load(w) \/ Refuse(w) \/ Send(w)
           \/ Push(w)
  <2>1. UNCHANGED <<po, trk, pr, lost>>
      BY <1>3 DEF Begin, Load, Refuse, Send, Push
  <2>2. job[w].at \notin {"complete", "finish", "reopen"}
      BY <1>3 DEF Begin, Load, Refuse, Send, Push, Acts, At
  <2>3. job'[w].at # "complete"
    <3>1. (\E op \in Endpoints : Begin(w, op)) => job'[w].at = "load"
        BY <1>1 DEF Begin, Idle
    <3>2. Load(w) => job'[w].at = "act"
        BY <1>1 DEF Load, Job
    <3>3. Send(w) => job'[w].at = "push"
        BY Alone DEF Send, Stages
    <3>4. Refuse(w) \/ Push(w) => job'[w].at = "idle"
        BY <1>2 DEF Refuse, Push
    <3>5. QED
        BY <1>3, <3>1, <3>2, <3>3, <3>4
  <2>4. QED
      BY <1>1, <2>1, <2>2, <2>3, RowsKept
<1>4. CASE Abort(w)
    BY <1>4 DEF Abort, RowsInv
<1>5. CASE \/ \E invoice \in {"part", "full"} : Invoice(w, invoice)
           \/ Override(w) \/ \E numbered \in BOOLEAN : Pay(w, numbered)
           \/ Accept(w)
  <2>1. trk'.closed = trk.closed /\ UNCHANGED <<po, pr, lost>>
      BY <1>1, <1>5 DEF Invoice, Override, Pay, Accept, WriteTrk, TrkRow
  <2>2. job[w].at \in {"act", "accept"} /\ job'[w].at # "complete"
      BY <1>1, <1>2, <1>5, Alone DEF Invoice, Override, Pay, Accept, Acts, At, Stages
  <2>3. QED
      BY <1>1, <2>1, <2>2, RowsKept
<1>6. CASE ShortClose(w) \/ RaiseRtv(w) \/ ResolveRtv(w)
  <2>1. /\ po'.status = po.status /\ po'.exception = po.exception
        /\ po.short => po'.short
        /\ UNCHANGED <<trk, pr, lost>>
      BY <1>1, <1>6 DEF ShortClose, RaiseRtv, ResolveRtv, WritePo, Put, PoRow
  <2>2. job[w].at = "act" /\ job'[w].at # "complete"
      BY <1>1, <1>2, <1>6, Alone DEF ShortClose, RaiseRtv, ResolveRtv, Acts, At, Stages
  <2>3. QED
      BY <1>1, <2>1, <2>2 DEF RowsInv, At
<1>7. CASE Hold(w) \/ Resume(w)
  <2>1. /\ po'.status = po.status /\ po'.short = po.short
        /\ po'.exception # "cancelled" /\ po.exception # "cancelled"
        /\ UNCHANGED <<trk, pr, lost>>
      BY <1>1, <1>7 DEF Hold, Resume, WritePo, Put, PoRow, CopyFresh, Acts, At
  <2>2. job[w].at = "act" /\ job'[w].at # "complete"
      BY <1>1, <1>2, <1>7, Alone DEF Hold, Resume, Acts, At, Stages
  <2>3. QED
      BY <1>1, <2>1, <2>2, RowsKept
<1>8. CASE Cancel(w)
  <2>1. /\ po.status # "Completed"
        /\ po'.exception = "cancelled" /\ po'.status = "Cancelled"
        /\ UNCHANGED <<trk, pr, lost>>
      BY <1>1, <1>8 DEF Cancel, Put, PoRow, CopyFresh, Acts, At
  <2>2. job[w].at = "act" /\ job'[w].at = "reopen"
      BY <1>1, <1>8, Alone DEF Cancel, Acts, At, Stages
  <2>3. QED
      BY <1>1, <2>1, <2>2 DEF RowsInv, At
<1>9. CASE Close(w)
  <2>1. /\ trk'.closed /\ po.exception = "none"
        /\ UNCHANGED <<po, pr, lost>>
      BY <1>1, <1>9 DEF Close, WriteTrk, Put, TrkRow, CopyFresh, Progress, Acts, At, GuardedOps,
                        MatchOps
  <2>2. job[w].at = "act" /\ job'[w].at = "complete"
      BY <1>1, <1>9, Alone DEF Close, Acts, At, Stages
  <2>3. QED
      BY <1>1, <2>1, <2>2 DEF RowsInv, At
<1>10. CASE Complete(w)
  <2>1. /\ po.exception = "none" /\ po'.exception = "none" /\ po'.status = "Completed"
        /\ UNCHANGED <<trk, pr, lost>>
      BY <1>1, <1>10 DEF Complete, WritePo, Put, PoRow, CopyFresh, Progress, At, GuardedOps, MatchOps
  <2>2. job[w].at = "complete" /\ job'[w].at = "finish"
      BY <1>1, <1>10, Alone DEF Complete, At, Stages
  <2>3. QED
      BY <1>1, <2>1, <2>2 DEF RowsInv, At
<1>11. CASE SyncRequest(w)
  <2>1. job'[w].at = "idle" /\ UNCHANGED <<po, trk, lost>>
      BY <1>2, <1>11 DEF SyncRequest
  <2>2. CASE At(w, "finish")
    <3>1. pr' = "Completed" /\ po.exception = "none" /\ job[w].at = "finish"
        BY <1>1, <1>11, <2>2 DEF SyncRequest, Progress, At, GuardedOps, MatchOps
    <3>2. QED
        BY <1>1, <2>1, <3>1 DEF RowsInv, At
  <2>3. CASE At(w, "reopen") /\ job[w].op = "ShortClose"
    <3>1. pr' = "New" /\ po.short /\ po.exception = "none" /\ job[w].at = "reopen"
        BY <1>1, <1>11, <2>3 DEF SyncRequest, Progress, At, GuardedOps, GrnOps
    <3>2. QED
        BY <1>1, <2>1, <3>1 DEF RowsInv, At
  <2>4. CASE At(w, "reopen") /\ job[w].op = "Cancel"
    <3>1. pr' = "New" /\ po.exception = "cancelled" /\ job[w].at = "reopen"
        BY <1>1, <1>11, <2>4 DEF SyncRequest, Progress, At
    <3>2. QED
        BY <1>1, <2>1, <3>1 DEF RowsInv, At
  <2>5. QED
      BY <1>1, <1>11, <2>2, <2>3, <2>4 DEF SyncRequest, Progress, At
<1>12. QED
    BY <1>3, <1>4, <1>5, <1>6, <1>7, <1>8, <1>9, <1>10, <1>11 DEF Step

LEMMA StepAccepts ==
    ASSUME TypeInd, OneAtATime, SerialInd, NEW w \in Workers, Step(w)
    PROVE  OverrideInv'
<1>1. /\ trk \in TrkRow /\ CopyFresh(w) /\ OverrideInv
    BY Alone DEF SerialInd, RequestsInv
<1>2. ASSUME trk'.match = trk.match, trk'.invoice = trk.invoice, accepted' = accepted
      PROVE  OverrideInv'
    BY <1>1, <1>2 DEF OverrideInv
<1>3. ASSUME NEW invoice \in {"part", "full"}, Invoice(w, invoice)
      PROVE  OverrideInv'
  <2>1. Verdict(job[w].grn.received, invoice) # "overridden"
      BY DEF Verdict
  <2>2. job[w].trk.match = trk.match
      BY <1>1, <1>3 DEF Invoice, CopyFresh, Acts, At
  <2>3. trk'.match = Verdict(job[w].grn.received, invoice)
      BY <1>1, <1>3, <2>2 DEF Invoice, Put, TrkRow
  <2>4. QED
      BY <2>1, <2>3 DEF OverrideInv
<1>4. CASE Override(w) \/ Accept(w)
  <2>1. job[w].trk.invoice = trk.invoice
      BY <1>1, <1>4 DEF Override, Accept, CopyFresh, Acts, At
  <2>2. trk'.invoice = trk.invoice /\ accepted' = job[w].trk.invoice
      BY <1>1, <1>4 DEF Override, Accept, WriteTrk, TrkRow
  <2>3. QED
      BY <2>1, <2>2 DEF OverrideInv
<1>5. CASE Close(w) \/ \E numbered \in BOOLEAN : Pay(w, numbered)
  <2>1. trk'.match = trk.match /\ trk'.invoice = trk.invoice /\ accepted' = accepted
      BY <1>1, <1>5 DEF Close, Pay, WriteTrk, TrkRow
  <2>2. QED
      BY <1>2, <2>1
<1>6. CASE \/ \E op \in Endpoints : Begin(w, op)
           \/ Load(w) \/ Refuse(w) \/ Abort(w) \/ Complete(w) \/ SyncRequest(w) \/ Send(w) \/ Push(w)
           \/ ShortClose(w) \/ RaiseRtv(w) \/ ResolveRtv(w) \/ Hold(w) \/ Resume(w) \/ Cancel(w)
  <2>1. UNCHANGED <<trk, accepted>>
      BY <1>6 DEF Begin, Load, Refuse, Abort, Complete, SyncRequest, Send, Push, ShortClose,
                  RaiseRtv, ResolveRtv, Hold, Resume, Cancel
  <2>2. QED
      BY <1>2, <2>1
<1>7. QED
    BY <1>3, <1>4, <1>5, <1>6 DEF Step

\* A new payment is not paid, and those that are there stay as they are.
LEMMA ClaimNumbered ==
    ASSUME TypeInd, PaidNumbered, Claim, trk'.transaction = trk.transaction, wiped' = wiped
    PROVE  PaidNumbered'
<1>1. \A p \in claims' : phase'[p] # "none"
    BY DEF Claim, TypeInd, TypeOK, PaidNumbered
<1>2. TreasuryPaid' <=> TreasuryPaid
    BY ClaimGrows
<1>3. QED
    BY <1>1, <1>2 DEF PaidNumbered

LEMMA StepNumbered ==
    ASSUME TypeInd, OneAtATime, SerialInd, NEW w \in Workers, Step(w)
    PROVE  PaidNumbered'
<1>1. trk \in TrkRow /\ PaidNumbered /\ job[w] \in Job
    BY Alone DEF SerialInd
<1>2. ASSUME trk.transaction => trk'.transaction, UNCHANGED <<phase, claims, wiped>>
      PROVE  PaidNumbered'
    BY <1>1, <1>2 DEF PaidNumbered, TreasuryPaid
<1>3. CASE Push(w)
    BY <1>1, <1>2, <1>3, ClaimNumbered DEF Push
<1>4. ASSUME NEW numbered \in BOOLEAN, Pay(w, numbered)
      PROVE  PaidNumbered'
  <2>1. ~job[w].trk.transaction
      BY <1>4 DEF Pay, IsPaid
  <2>2. trk'.transaction = Put(trk.transaction, job[w].trk.transaction, numbered)
      BY <1>1, <1>4 DEF Pay, TrkRow
  <2>3. numbered \/ numbered = job[w].trk.transaction
      BY <1>1, <2>1 DEF Job, TrkRow
  <2>4. trk.transaction => trk'.transaction
      BY <2>2, <2>3 DEF Put
  <2>5. QED
      BY <1>2, <1>4, <2>4 DEF Pay
<1>5. CASE \/ Override(w) \/ Close(w) \/ Accept(w)
           \/ \E invoice \in {"part", "full"} : Invoice(w, invoice)
  <2>1. trk'.transaction = trk.transaction
      BY <1>1, <1>5 DEF Override, Close, Accept, Invoice, WriteTrk, TrkRow
  <2>2. QED
      BY <1>2, <1>5, <2>1 DEF Override, Close, Accept, Invoice
<1>6. CASE \/ \E op \in Endpoints : Begin(w, op)
           \/ Load(w) \/ Refuse(w) \/ Abort(w) \/ Complete(w) \/ SyncRequest(w) \/ Send(w)
           \/ ShortClose(w) \/ RaiseRtv(w) \/ ResolveRtv(w) \/ Hold(w) \/ Resume(w) \/ Cancel(w)
  <2>1. UNCHANGED <<trk, phase, claims, wiped>>
      BY <1>6 DEF Begin, Load, Refuse, Abort, Complete, SyncRequest, Send, ShortClose, RaiseRtv,
                  ResolveRtv, Hold, Resume, Cancel
  <2>2. QED
      BY <1>2, <2>1
<1>7. QED
    BY <1>3, <1>4, <1>5, <1>6 DEF Step

-----------------------------------------------------------------------------
(* The steps of other modules.                                             *)

LEMMA OtherSerial ==
    ASSUME TypeInd, OneAtATime, SerialInd,
           \/ Receive
           \/ \E column \in {"grnComplete", "transaction"}, present \in BOOLEAN : Track(column, present)
           \/ Sync
           \/ \E p \in Outwards : Decide(p) \/ Execute(p)
    PROVE  SerialInd'
<1>1. trk \in TrkRow /\ PaidNumbered
    BY DEF TypeInd, TypeOK, SerialInd
<1>2. /\ Undisturbed => \A w \in Workers : At(w, "idle")
      /\ UNCHANGED <<po, pr, accepted, lost, job>>
    BY DEF Undisturbed, Quiet, Receive, Track, Sync, Decide, Execute
<1>3. /\ trk'.closed = trk.closed /\ trk'.match = trk.match /\ trk'.invoice = trk.invoice
      /\ TreasuryPaid /\ (trk.transaction \/ wiped) => trk'.transaction \/ wiped'
  <2>1. ASSUME NEW column \in {"grnComplete", "transaction"}, NEW present \in BOOLEAN,
               Track(column, present)
        PROVE  /\ trk'.closed = trk.closed /\ trk'.match = trk.match /\ trk'.invoice = trk.invoice
               /\ TreasuryPaid /\ (trk.transaction \/ wiped) => trk'.transaction \/ wiped'
    <3>1. /\ trk'.closed = trk.closed /\ trk'.match = trk.match /\ trk'.invoice = trk.invoice
          /\ column = "transaction" => trk'.transaction = present
          /\ column = "grnComplete" => trk'.transaction = trk.transaction
        BY <1>1, <2>1 DEF Track, TrkRow
    <3>2. wiped' <=> wiped \/ (column = "transaction" /\ trk.transaction /\ ~present /\ TreasuryPaid)
        BY <2>1, Zenon DEF Track
    <3>3. QED
        BY <3>1, <3>2
  <2>2. CASE Receive \/ Sync \/ \E p \in Outwards : Decide(p) \/ Execute(p)
    <3>1. wiped' = wiped
        BY <2>2, Zenon DEF Receive, Sync, Decide, Execute
    <3>2. /\ trk'.closed = trk.closed /\ trk'.match = trk.match /\ trk'.invoice = trk.invoice
          /\ trk.transaction => trk'.transaction
        BY <1>1, <2>2 DEF Receive, Sync, Decide, Execute, ApplyReceipt, TrkRow
    <3>3. QED
        BY <3>1, <3>2
  <2>3. QED
      BY <2>1, <2>2
<1>4. RequestsInv'
    BY <1>2, <1>3 DEF SerialInd, RequestsInv, CopyFresh, DecisionFresh, Progress, Acts, At
<1>5. RowsInv' /\ WriteOrder' /\ OverrideInv'
    BY <1>2, <1>3 DEF SerialInd, RowsInv, WriteOrder, OverrideInv, At
<1>6. PaidNumbered'
  <2>1. CASE \/ Receive
             \/ \E column \in {"grnComplete", "transaction"}, present \in BOOLEAN :
                   Track(column, present)
      BY <1>1, <1>3, <2>1 DEF Receive, Track, PaidNumbered, TreasuryPaid
  <2>2. CASE Sync
      BY <1>1, <2>2, ClaimNumbered DEF Sync
  <2>3. ASSUME NEW p \in Outwards, Decide(p)
        PROVE  PaidNumbered'
    <3>1. PICK to \in {"approved", "rejected", "held"} :
             phase' = [phase EXCEPT ![p] = to] /\ claims' = claims
        BY <2>3 DEF Decide, Treasury!Authorise, Treasury!Reject, Treasury!Hold, Treasury!Move
    <3>2. \A q \in claims : phase'[q] = phase[q] \/ phase'[q] = to
        BY <3>1 DEF TypeInd, TypeOK
    <3>3. QED
        BY <1>1, <1>3, <3>1, <3>2 DEF PaidNumbered, TreasuryPaid
  <2>4. ASSUME NEW p \in Outwards, Execute(p)
        PROVE  PaidNumbered'
    <3>1. phase' = [phase EXCEPT ![p] = "paid"] /\ claims' = claims
        BY <2>4 DEF Execute, Treasury!Pay, Treasury!Move
    <3>2. \A q \in claims : phase'[q] = phase[q] \/ phase'[q] = "paid"
        BY <3>1 DEF TypeInd, TypeOK
    <3>3. trk'.transaction
        BY <1>1, <2>4 DEF Execute, ApplyReceipt, TrkRow
    <3>4. QED
        BY <1>1, <3>1, <3>2, <3>3 DEF PaidNumbered
  <2>5. QED
      BY <2>1, <2>2, <2>3, <2>4
<1>7. QED
    BY <1>4, <1>5, <1>6 DEF SerialInd

LEMMA NextSerial ==
    ASSUME TypeInd, OneAtATime, SerialInd, [Next]_vars
    PROVE  SerialInd'
<1>1. ASSUME NEW w \in Workers, Step(w)
      PROVE  SerialInd'
    BY <1>1, StepRequests, StepRows, StepOrder, StepAccepts, StepNumbered DEF SerialInd
<1>2. CASE UNCHANGED vars
  <2>1. RequestsInv'
    <3>1. Latest' = Latest
        BY <1>2 DEF vars, Latest
    <3>2. QED
        BY <1>2, <3>1 DEF vars, SerialInd, RequestsInv, CopyFresh, DecisionFresh, Progress, Acts, At
  <2>2. RowsInv' /\ WriteOrder' /\ OverrideInv' /\ PaidNumbered'
      BY <1>2 DEF vars, SerialInd, RowsInv, WriteOrder, OverrideInv, PaidNumbered, TreasuryPaid, At
  <2>3. QED
      BY <2>1, <2>2 DEF SerialInd
<1>3. QED
    BY <1>1, <1>2, OtherSerial DEF Next

LEMMA SerialAlways ==
    ASSUME OneAtATime
    PROVE  Spec => [](TypeInd /\ SerialInd)
<1>1. Init => TypeInd /\ SerialInd
    BY InitTypes, InitSerial
<1>2. TypeInd /\ SerialInd /\ [Next]_vars => (TypeInd /\ SerialInd)'
    BY NextTypes, NextSerial
<1>3. QED
    BY <1>1, <1>2, PTL DEF Spec

-----------------------------------------------------------------------------
(* The theorems.                                                           *)

\* The tracking row, the order and its request agree on what is closed, and
\* nothing done later to a closed order undoes it (closePo, cancelPo,
\* shortClosePo, holdPo), while the order has one request at a time and none has
\* died between two writes; where one has, a write of closePo still implies those
\* before it.  Other modules may write at any moment.
THEOREM RowsAgreeOnClosing ==
    ASSUME OneAtATime
    PROVE  Spec => []ClosedInv
<1>1. SerialInd => ClosedInv
  <2> SUFFICES ASSUME SerialInd, Resting
               PROVE  /\ trk.closed <=> po.status = "Completed"
                      /\ trk.closed => pr = "Completed" \/ (po.short /\ pr = "New")
                      /\ po.exception = "cancelled" => ~trk.closed /\ pr = "New"
      BY DEF ClosedInv, SerialInd
  <2>1. ~lost /\ \A w \in Workers : job[w].at = "idle"
      BY DEF Resting, At
  <2>2. QED
      BY <2>1 DEF SerialInd, RowsInv, At
<1>2. QED
    BY <1>1, SerialAlways, PTL

\* An accepted variance is that of the invoice that is there: captureInvoice
\* takes an acceptance back, overrideMatch and shortClosePo accept what they
\* have read.  Other modules may write at any moment.
THEOREM AcceptedInvoiceStands ==
    ASSUME OneAtATime
    PROVE  Spec => []OverrideInv
<1>1. SerialInd => OverrideInv
    BY DEF SerialInd
<1>2. QED
    BY <1>1, SerialAlways, PTL

\* recordFinalPayment pays only what nobody has paid, even when the query for
\* the treasury's payment fails: the mark of the final payment suffices.
THEOREM HandPaysOnce ==
    ASSUME OneAtATime, Undisturbed
    PROVE  Spec => PaysUnpaidOnly
<1>1. ASSUME TypeInd, SerialInd, PaidInv, [Next]_vars
      PROVE  [hand' # hand => hand = 0 /\ ~TreasuryPaid]_vars
  <2>1. ASSUME NEW w \in Workers, NEW numbered \in BOOLEAN, Pay(w, numbered)
        PROVE  hand = 0 /\ ~TreasuryPaid
    <3>1. job[w].trk.finalPaid = trk.finalPaid /\ ~job[w].trk.finalPaid
        BY <1>1, <2>1 DEF Pay, IsPaid, SerialInd, RequestsInv, DecisionFresh, Acts, At
    <3>2. ~(hand > 0 \/ TreasuryPaid)
        BY <1>1, <3>1 DEF PaidInv
    <3>3. hand \in Nat
        BY <1>1 DEF TypeInd, TypeOK
    <3>4. QED
        BY <3>2, <3>3
  <2>2. CASE Next /\ ~\E w \in Workers, numbered \in BOOLEAN : Pay(w, numbered)
    <3>1. hand' = hand
        BY <2>2 DEF Next, Step, Begin, Load, Refuse, Abort, Invoice, Override, Close, Complete,
                    SyncRequest, Send, Push, ShortClose, Accept, RaiseRtv, ResolveRtv, Hold,
                    Resume, Cancel, Receive, Track, Sync, Decide, Execute
    <3>2. QED
        BY <3>1
  <2>3. CASE UNCHANGED vars
      BY <2>3 DEF vars
  <2>4. QED
      BY <1>1, <2>1, <2>2, <2>3
<1>2. QED
    BY <1>1, SerialAlways, PaidMark, PTL DEF Spec, PaysUnpaidOnly

\* The request that is about to push a payment has found none, and there is none.
LEMMA PushFindsNone ==
    ASSUME TypeInd, SerialInd, Undisturbed, LookupsHold, NEW w \in Workers, Push(w)
    PROVE  ~TreasuryPaid
<1>1. Latest = "none"
    BY DEF SerialInd, RequestsInv, DecisionFresh, Push, Acts, At
<1>2. PICK n \in 0..MaxOutwards : claims = 1..n
    BY DEF TypeInd, ClaimsInv
<1>3. Cardinality(claims) = n
    BY <1>2, LatestId
<1>4. n \in claims => phase[n] # "none"
    BY DEF SerialInd, PaidNumbered
<1>5. n # 0 => n \in claims
    BY <1>2, MaxOutwardsAssumption
<1>6. claims = {}
    BY <1>1, <1>2, <1>3, <1>4, <1>5 DEF Latest
<1>7. QED
    BY <1>6 DEF TreasuryPaid

\* Only a push and the sync make out a payment.
LEMMA WhoClaims ==
    ASSUME Next, ~Sync, ~\E w \in Workers : Push(w)
    PROVE  claims' = claims
<1>1. CASE \E p \in Outwards : Decide(p) \/ Execute(p)
    BY <1>1 DEF Decide, Execute, Treasury!Authorise, Treasury!Reject, Treasury!Hold, Treasury!Pay,
                Treasury!Move
<1>2. CASE ~\E p \in Outwards : Decide(p) \/ Execute(p)
    BY <1>2 DEF Next, Step, Begin, Load, Refuse, Abort, Invoice, Override, Pay, Close, Complete,
                SyncRequest, Send, ShortClose, Accept, RaiseRtv, ResolveRtv, Hold, Resume, Cancel,
                Receive, Track
<1>3. QED
    BY <1>1, <1>2

\* No payment is made out for an order that the treasury has paid, but where its
\* number has been cleared or a failed query hides it (sendToTreasury,
\* syncProcurementPayables): the number is what carries the fact to the sync.
THEOREM PaidStaysPaid ==
    ASSUME OneAtATime, Undisturbed
    PROVE  Spec => ClaimsUnpaidOnly
<1>1. ASSUME TypeInd, SerialInd, [Next]_vars
      PROVE  [claims' # claims /\ TreasuryPaid => Excused]_vars
  <2>1. CASE Sync
      BY <1>1, <2>1 DEF Sync, SerialInd, PaidNumbered, Excused
  <2>2. ASSUME NEW w \in Workers, Push(w)
        PROVE  TreasuryPaid => Excused
    <3>1. CASE LookupsFail
        BY <2>2, <3>1 DEF Push, Excused
    <3>2. CASE ~LookupsFail
        BY <1>1, <2>2, <3>2, PushFindsNone DEF LookupsHold
    <3>3. QED
        BY <3>1, <3>2
  <2>3. CASE Next /\ ~Sync /\ ~\E w \in Workers : Push(w)
      BY <2>3, WhoClaims
  <2>4. CASE UNCHANGED vars
      BY <2>4 DEF vars
  <2>5. QED
      BY <1>1, <2>1, <2>2, <2>3, <2>4
<1>2. QED
    BY <1>1, SerialAlways, PTL DEF Spec, ClaimsUnpaidOnly

\* While nobody clears the number of an order that has been paid, the treasury pays
\* for it as its life cycle says: with queries that do not fail, sendToTreasury makes out a
\* payment only where there is none, and syncProcurementPayables only after a
\* rejection.
THEOREM PaymentsFollowLifecycle ==
    ASSUME OneAtATime, Undisturbed, LookupsHold
    PROVE  Spec /\ [](~wiped) => Treasury!Spec
<1>1. Init => Treasury!Init
    BY DEF Init
<1>2. ASSUME TypeInd, SerialInd, Claim, ~TreasuryPaid
      PROVE  Treasury!Next
  <2>1. PICK n \in 0..MaxOutwards : claims = 1..n
      BY <1>2 DEF TypeInd, ClaimsInv
  <2>2. Cardinality(claims) = n
      BY <2>1, LatestId
  <2>3. /\ n + 1 \in Outwards
        /\ phase' = [phase EXCEPT ![n + 1] = "approving"]
        /\ claims' = claims \cup {n + 1}
      BY <1>2, <2>2 DEF Claim
  <2>4. phase[n + 1] = "none"
    <3>1. n + 1 \notin claims
        BY <2>1, MaxOutwardsAssumption
    <3>2. QED
        BY <1>2, <2>3, <3>1 DEF TypeInd, ClaimsInv
  <2>5. \A q \in claims : phase[q] = "rejected"
      BY <1>2 DEF Claim, NoneLive, TreasuryPaid
  <2>6. Treasury!Claim(n + 1)
      BY <2>3, <2>4, <2>5 DEF Treasury!Claim, Treasury!Enter
  <2>7. QED
      BY <2>3, <2>6 DEF Treasury!Next
<1>3. ASSUME TypeInd, SerialInd, ~wiped, Next
      PROVE  [Treasury!Next]_<<phase, claims>>
  <2>1. ASSUME NEW w \in Workers, Push(w)
        PROVE  [Treasury!Next]_<<phase, claims>>
      BY <1>2, <1>3, <2>1, PushFindsNone DEF Push
  <2>2. CASE Sync
    <3>1. ~TreasuryPaid /\ Claim
        BY <1>3, <2>2 DEF Sync, SerialInd, PaidNumbered
    <3>2. QED
        BY <1>2, <1>3, <3>1
  <2>3. ASSUME NEW p \in Outwards, Decide(p) \/ Execute(p)
        PROVE  [Treasury!Next]_<<phase, claims>>
      BY <2>3 DEF Decide, Execute, Treasury!Next
  <2>4. CASE ~Sync /\ ~(\E w \in Workers : Push(w)) /\ ~(\E p \in Outwards : Decide(p) \/ Execute(p))
    <3>1. UNCHANGED <<phase, claims>>
        BY <1>3, <2>4 DEF Next, Step, Begin, Load, Refuse, Abort, Invoice, Override, Pay, Close,
                          Complete, SyncRequest, Send, ShortClose, Accept, RaiseRtv, ResolveRtv,
                          Hold, Resume, Cancel, Receive, Track
    <3>2. QED
        BY <3>1
  <2>5. QED
      BY <2>1, <2>2, <2>3, <2>4
<1>4. TypeInd /\ SerialInd /\ ~wiped /\ [Next]_vars => [Treasury!Next]_<<phase, claims>>
    BY <1>3 DEF vars
<1>5. QED
    BY <1>1, <1>4, SerialAlways, PTL DEF Spec, Treasury!Spec

=============================================================================
