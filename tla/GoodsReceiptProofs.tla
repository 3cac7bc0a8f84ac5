------------------------- MODULE GoodsReceiptProofs -------------------------
(* Proofs about GoodsReceipt, for any notes, quantities, forms and bounds.  *)
EXTENDS GoodsReceipt, TLAPS

-----------------------------------------------------------------------------
(* Type correctness.                                                       *)

LEMMA IdleType == New \in Note /\ Idle \in Job /\ Idle.at = "idle"
<1>1. New \in Note
    BY AmountAssumption DEF New, Note, Line, Statuses, Verdicts
<1>2. (CHOOSE n \in Notes : TRUE) \in Notes
    BY NotesAssumption
<1>3. QED
    BY <1>1, <1>2 DEF Idle, Job

LEMMA NewIsOpen == New.status = "Under GRN" /\ "Under GRN" # "GRN Complete"
BY DEF New

LEMMA SentType ==
    ASSUME NEW po \in Ordered
    PROVE  Sent(po) \in Note /\ Sent(po).status = New.status
<1>1. [po |-> po, rcvd |-> 0] \in Line
    BY AmountAssumption DEF Line
<1>2. QED
    BY <1>1, IdleType DEF Sent, Note

LEMMA AmountType ==
    ASSUME NEW row \in Note
    PROVE  Amount(row) \in Nat
BY AmountAssumption DEF Amount, Note, Line

\* What a booking makes of the racks and of the totals: all the stock of the
\* site stays where it is, which is nowhere.
LEMMA StockedParts ==
    ASSUME rack \in RackRows, inv \in InventoryRow, NEW row \in Note
    PROVE  /\ Stocked(row).racks \in RackRows
           /\ Stocked(row).totals \in InventoryRow
           /\ Stocked(row).racks["mu"] = rack["mu"]
           /\ Stocked(row).totals.ml = IF row.placed \/ default THEN rack["mu"] ELSE inv.ml
           /\ Stocked(row).totals.wh = IF row.placed \/ default
                 THEN InWarehouse(rack) + Orphaned(inv, rack) + Amount(row)
                 ELSE inv.wh + Amount(row)
           /\ InWarehouse(Stocked(row).racks) = IF row.placed \/ default
                 THEN InWarehouse(rack) + Orphaned(inv, rack) + Amount(row)
                 ELSE InWarehouse(rack)
           /\ Stocked(row).totals.sih = Stocked(row).totals.wh + inv.ml
<1>1. /\ rack["std"] \in Nat /\ rack["bin"] \in Nat /\ rack["mu"] \in Nat
      /\ inv.wh \in Nat /\ inv.ml \in Nat /\ inv.sih \in Nat /\ inv.reserved \in Nat
    BY DEF RackRows, Racks, InventoryRow
<1> DEFINE more == Orphaned(inv, rack) + Amount(row)
<1>2. Amount(row) \in Nat /\ Orphaned(inv, rack) \in Nat /\ more \in Nat
    BY <1>1, AmountType DEF Orphaned
<1>3. ASSUME NEW r \in {"std", "bin"}
      PROVE  LET k == Onto(r, Amount(row))  t == Received(inv, k)
             IN  /\ k \in RackRows /\ k["mu"] = rack["mu"]
                 /\ InWarehouse(k) = InWarehouse(rack) + Orphaned(inv, rack) + Amount(row)
                 /\ t \in InventoryRow
                 /\ t.ml = rack["mu"] /\ t.wh = InWarehouse(k) /\ t.sih = t.wh + inv.ml
  <2> DEFINE k == Onto(r, Amount(row))
  <2>1. k = [rack EXCEPT ![r] = @ + more] /\ rack[r] + more \in Nat
      BY <1>1, <1>2 DEF Onto, Added
  <2>2. k \in RackRows /\ k["mu"] = rack["mu"]
      BY <2>1 DEF RackRows, Racks
  <2>3. InWarehouse(k) = InWarehouse(rack) + Orphaned(inv, rack) + Amount(row)
    <3>1. CASE r = "std"
        BY <1>1, <1>2, <2>1, <3>1 DEF InWarehouse, RackRows, Racks
    <3>2. CASE r = "bin"
        BY <1>1, <1>2, <2>1, <3>2 DEF InWarehouse, RackRows, Racks
    <3>3. QED
        BY <3>1, <3>2
  <2>4. InWarehouse(k) \in Nat /\ k["mu"] \in Nat
      BY <1>1, <1>2, <2>2, <2>3 DEF InWarehouse
  <2> HIDE DEF k
  <2>5. OnRacks(k) \in Nat /\ InWarehouse(k) + inv.ml \in Nat
      BY <1>1, <2>4 DEF OnRacks
  <2>6. /\ Recounted(inv, k) \in InventoryRow
        /\ Recounted(inv, k).wh = InWarehouse(k) /\ Recounted(inv, k).ml = k["mu"]
      BY <2>4, <2>5 DEF Recounted, InventoryRow
  <2>7. /\ Received(inv, k) \in InventoryRow
        /\ Received(inv, k).wh = InWarehouse(k) /\ Received(inv, k).ml = k["mu"]
        /\ Received(inv, k).sih = InWarehouse(k) + inv.ml
      BY <2>5, <2>6 DEF Received, InventoryRow
  <2>8. QED
      BY <2>2, <2>3, <2>7 DEF k
<1>4. CASE row.placed
    BY <1>3, <1>4 DEF Stocked
<1>5. CASE ~row.placed /\ default
    BY <1>3, <1>5 DEF Stocked
<1>6. CASE ~row.placed /\ ~default
  <2>1. /\ Stocked(row).racks = rack
        /\ Stocked(row).totals = [inv EXCEPT !.wh = inv.wh + Amount(row),
                                             !.sih = inv.wh + Amount(row) + inv.ml]
      BY <1>6 DEF Stocked
  <2>2. inv.wh + Amount(row) \in Nat /\ inv.wh + Amount(row) + inv.ml \in Nat
      BY <1>1, <1>2
  <2>3. /\ Stocked(row).totals \in InventoryRow
        /\ Stocked(row).totals.wh = inv.wh + Amount(row) /\ Stocked(row).totals.ml = inv.ml
        /\ Stocked(row).totals.sih = inv.wh + Amount(row) + inv.ml
      BY <2>1, <2>2 DEF InventoryRow
  <2>4. QED
      BY <1>1, <1>6, <2>1, <2>3
<1>7. QED
    BY <1>4, <1>5, <1>6

\* What a write makes of its note and of the log of it.
RowWritten(n, row, by, books) ==
    /\ note'[n] = row
    /\ books => log'.booked[n] = log.booked[n] + 1
    /\ ~books => log'.booked[n] = log.booked[n]
    /\ Completed(n) /\ row.status # "GRN Complete" =>
         log'.reopened[n] = log.reopened[n] + 1 /\ log'.by[n] = log.by[n]
    /\ row.status = "GRN Complete" => log'.reopened[n] = log.reopened[n]
    /\ Completed(n) => log'.by[n] = log.by[n]
    /\ ~Completed(n) => log'.reopened[n] = log.reopened[n]
    /\ Completed(n) => log'.listed[n] = log.listed[n]
    /\ ~Completed(n) /\ row.status = "GRN Complete" =>
         log'.by[n] = by /\ log'.listed[n] = Amount(row)

\* What a write keeps and what it makes of the log.
LEMMA WrittenTypes ==
    ASSUME TypeOK, NEW n \in Notes, NEW row \in Note, NEW by \in {"create", "put", "stage"},
           NEW books \in BOOLEAN, Written(n, row, by, books)
    PROVE  /\ note' \in [Notes -> Note] /\ rack' \in RackRows /\ inv' \in InventoryRow
           /\ log' \in Log
           /\ RowWritten(n, row, by, books)
<1>1. note' \in [Notes -> Note] /\ rack' \in RackRows /\ inv' \in InventoryRow
    BY StockedParts DEF TypeOK, Written
<1> DEFINE b == [log.booked EXCEPT ![n] = IF books THEN @ + 1 ELSE @]
           o == [log.reopened EXCEPT ![n] =
                    IF Completed(n) /\ row.status # "GRN Complete" THEN @ + 1 ELSE @]
           y == [log.by EXCEPT ![n] =
                    IF row.status = "GRN Complete" /\ ~Completed(n) THEN by ELSE @]
           l == [log.listed EXCEPT ![n] =
                    IF row.status = "GRN Complete" /\ ~Completed(n) THEN Amount(row) ELSE @]
           v == IF books THEN log.received + Amount(row) ELSE log.received
<1>2. log' = [booked |-> b, reopened |-> o, by |-> y, listed |-> l, received |-> v]
    BY DEF Written, TypeOK, Log
<1>3. /\ log.booked \in [Notes -> Nat] /\ log.reopened \in [Notes -> Nat] /\ log.received \in Nat
      /\ log.by \in [Notes -> {"nothing", "create", "put", "stage"}]
      /\ log.listed \in [Notes -> Nat]
    BY DEF TypeOK, Log
<1>4. b \in [Notes -> Nat] /\ o \in [Notes -> Nat] /\ v \in Nat
      /\ y \in [Notes -> {"nothing", "create", "put", "stage"}] /\ l \in [Notes -> Nat]
  <2>1. v \in Nat
      BY <1>3, AmountType
  <2>2. b \in [Notes -> Nat]
      BY <1>3
  <2>3. o \in [Notes -> Nat]
    <3>1. log.reopened[n] \in Nat /\ log.reopened[n] + 1 \in Nat
        BY <1>3
    <3>2. (IF Completed(n) /\ row.status # "GRN Complete"
             THEN log.reopened[n] + 1 ELSE log.reopened[n]) \in Nat
        BY <3>1, Zenon
    <3>3. QED
        BY <1>3, <3>2
  <2>4. y \in [Notes -> {"nothing", "create", "put", "stage"}]
    <3>1. (IF row.status = "GRN Complete" /\ ~Completed(n) THEN by ELSE log.by[n])
             \in {"nothing", "create", "put", "stage"}
        BY <1>3
    <3>2. QED
        BY <1>3, <3>1
  <2>5. l \in [Notes -> Nat]
    <3>1. (IF row.status = "GRN Complete" /\ ~Completed(n) THEN Amount(row) ELSE log.listed[n])
             \in Nat
        BY <1>3, AmountType
    <3>2. QED
        BY <1>3, <3>1
  <2>6. QED
      BY <2>1, <2>2, <2>3, <2>4, <2>5
<1>5. log' \in Log
    BY <1>2, <1>4 DEF Log
<1>6. note'[n] = row
    BY DEF Written, TypeOK
<1>7. /\ b[n] = IF books THEN log.booked[n] + 1 ELSE log.booked[n]
      /\ o[n] = IF Completed(n) /\ row.status # "GRN Complete"
                  THEN log.reopened[n] + 1 ELSE log.reopened[n]
      /\ y[n] = IF row.status = "GRN Complete" /\ ~Completed(n) THEN by ELSE log.by[n]
      /\ l[n] = IF row.status = "GRN Complete" /\ ~Completed(n)
                  THEN Amount(row) ELSE log.listed[n]
    BY <1>3
<1>8. log'.booked = b /\ log'.reopened = o /\ log'.by = y /\ log'.listed = l
    BY <1>2
<1> HIDE DEF b, o, y, l
<1>9. RowWritten(n, row, by, books)
    BY <1>6, <1>7, <1>8 DEF RowWritten
<1>10. QED
    BY <1>1, <1>5, <1>9

LEMMA OthersWritten ==
    ASSUME TypeOK, NEW n \in Notes, NEW row \in Note, NEW by \in {"create", "put", "stage"},
           NEW books \in BOOLEAN, Written(n, row, by, books), NEW m \in Notes, m # n
    PROVE  /\ note'[m] = note[m] /\ log'.booked[m] = log.booked[m]
           /\ log'.reopened[m] = log.reopened[m] /\ log'.by[m] = log.by[m]
           /\ log'.listed[m] = log.listed[m]
BY DEF Written, TypeOK, Log

LEMMA RowTypes ==
    ASSUME NEW now \in Note, NEW old \in Note, NEW new \in Note
    PROVE  Saved(now, old, new) \in Note /\ Staged(now, old, new) \in Note
<1>1. Saved(now, old, new) \in Note
    BY DEF Saved, Kept, Steps, Note
<1>2. /\ Staged(now, old, new) = [now EXCEPT !.status = Kept(now.status, old.status, new.status),
                                            !.labels = Steps(now, old.labels)]
    BY DEF Staged
<1>3. Kept(now.status, old.status, new.status) \in Statuses
      /\ Steps(now, old.labels) \in {"none", "step", "printed"}
    BY DEF Kept, Steps, Note
<1>4. QED
    BY <1>1, <1>2, <1>3 DEF Note

\* The initial state has its types.
THEOREM InitTypes == Init => TypeOK
<1> SUFFICES ASSUME Init PROVE TypeOK
    OBVIOUS
<1>1. note \in [Notes -> Note] /\ job \in [Workers -> Job]
    BY IdleType DEF Init
<1>2. rack \in RackRows /\ inv \in InventoryRow /\ log \in Log
    BY BoundsAssumption DEF Init, RackRows, InventoryRow, Log
<1>3. QED
    BY <1>1, <1>2 DEF Init, TypeOK

LEMMA ReplyType ==
    ASSUME job \in [Workers -> Job], NEW w \in Workers, Reply(w)
    PROVE  job' \in [Workers -> Job]
BY IdleType DEF Reply

\* Every step keeps the types.
THEOREM StepTypes == TypeOK /\ [Next]_vars => TypeOK'
<1> SUFFICES ASSUME TypeOK, [Next]_vars PROVE TypeOK'
    OBVIOUS
<1>a. /\ note \in [Notes -> Note] /\ job \in [Workers -> Job]
      /\ \A w \in Workers : job[w].n \in Notes /\ job[w].old \in Note /\ job[w].new \in Note
    BY DEF TypeOK, Job
<1>1. ASSUME NEW lines \in SUBSET Notes, NEW po \in Ordered, Ship(lines, po) PROVE TypeOK'
  <2>1. note' \in [Notes -> Note]
      BY <1>1, <1>a, SentType DEF Ship
  <2>2. QED
      BY <1>1, <2>1 DEF Ship, TypeOK, stock
<1>2. ASSUME NEW n \in Notes, NEW form \in Forms, Create(n, form) PROVE TypeOK'
  <2>1. form \in Note /\ (form.status = "GRN Complete" /\ Lists(form)) \in BOOLEAN
      BY FormsAssumption
  <2>2. Written(n, form, "create", form.status = "GRN Complete" /\ Lists(form))
      BY <1>2 DEF Create
  <2>3. note' \in [Notes -> Note] /\ rack' \in RackRows /\ inv' \in InventoryRow /\ log' \in Log
      BY <2>1, <2>2, WrittenTypes
  <2>4. QED
      BY <1>2, <2>3 DEF Create, TypeOK
<1>3. ASSUME NEW n \in Notes, NEW placed \in Places, GenerateLabels(n, placed) PROVE TypeOK'
  <2>1. placed \in BOOLEAN
      BY PlacesAssumption
  <2>2. [note[n] EXCEPT !.labels = "printed", !.placed = placed] \in Note
      BY <1>a, <2>1 DEF Note
  <2>3. note' = [note EXCEPT ![n] = [note[n] EXCEPT !.labels = "printed", !.placed = placed]]
      BY <1>3, <1>a DEF GenerateLabels, Note
  <2>4. note' \in [Notes -> Note]
      BY <1>a, <2>2, <2>3
  <2>5. QED
      BY <1>3, <2>4 DEF GenerateLabels, TypeOK, stock
<1>4. ASSUME NEW n \in Notes, Remove(n) PROVE TypeOK'
    BY <1>4 DEF Remove, Live, TypeOK, stock
<1>5. ASSUME NEW w \in Workers, Dispatch(w) PROVE TypeOK'
  <2>1. [job EXCEPT ![w].at = "bridge"] \in [Workers -> Job]
      BY <1>a DEF Job
  <2>2. mrn' \in 0..3
      BY <1>5, BoundsAssumption DEF Dispatch, TypeOK
  <2>3. QED
      BY <1>5, <1>a, <2>1, <2>2 DEF Dispatch, TypeOK, stock
<1>6. ASSUME NEW w \in Workers, NEW n \in Notes, NEW po \in Ordered, NEW placed \in Places,
             Bridge(w, n, po, placed)
      PROVE  TypeOK'
  <2>1. [Sent(po) EXCEPT !.placed = placed] \in Note
      BY SentType, PlacesAssumption DEF Note
  <2>2. note' \in [Notes -> Note] /\ job' \in [Workers -> Job]
      BY <1>6, <1>a, <2>1, ReplyType DEF Bridge
  <2>3. QED
      BY <1>6, <2>2 DEF Bridge, TypeOK, stock
<1>7. ASSUME NEW w \in Workers, NEW n \in Notes, NEW form \in Forms, LoadPut(w, n, form)
      PROVE  TypeOK'
  <2>1. form \in Note /\ note[n] \in Note
      BY <1>a, FormsAssumption
  <2>2. [form EXCEPT !.labels = Steps(note[n], @)] \in Note
      BY <2>1 DEF Note, Steps
  <2>3. job' \in [Workers -> Job]
      BY <1>7, <1>a, <2>1, <2>2 DEF LoadPut, Job
  <2>4. QED
      BY <1>7, <2>3 DEF LoadPut, TypeOK, stock
<1>8. ASSUME NEW w \in Workers, NEW n \in Notes, NEW status \in Statuses, LoadStage(w, n, status)
      PROVE  TypeOK'
  <2>1. note[n] \in Note /\ [note[n] EXCEPT !.status = status] \in Note
      BY <1>a DEF Note
  <2>2. job' \in [Workers -> Job]
      BY <1>8, <1>a, <2>1 DEF LoadStage, Job
  <2>3. QED
      BY <1>8, <2>2 DEF LoadStage, TypeOK, stock
<1>9. ASSUME NEW w \in Workers, Put(w) PROVE TypeOK'
  <2> DEFINE n == job[w].n
             first == FirstCompletion(job[w].old, job[w].new)
             row == Saved(note[n], job[w].old, job[w].new)
             books == first /\ Lists(row)
  <2>1. job' \in [Workers -> Job]
      BY <1>9, <1>a, ReplyType DEF Put
  <2>2. CASE first /\ n \in removed
      BY <1>9, <2>1, <2>2 DEF Put, TypeOK, stock
  <2>3. CASE ~(first /\ n \in removed)
    <3>1. n \in Notes /\ row \in Note /\ books \in BOOLEAN
        BY <1>a, RowTypes DEF FirstCompletion
    <3>2. Written(n, row, "put", books)
        BY <1>9, <2>3 DEF Put
    <3>3. note' \in [Notes -> Note] /\ rack' \in RackRows /\ inv' \in InventoryRow /\ log' \in Log
        BY <3>1, <3>2, WrittenTypes
    <3>4. QED
        BY <1>9, <2>1, <3>3 DEF Put, TypeOK
  <2>4. QED
      BY <2>2, <2>3
<1>10. ASSUME NEW w \in Workers, Stage(w) PROVE TypeOK'
  <2>1. job[w].n \in Notes /\ Staged(note[job[w].n], job[w].old, job[w].new) \in Note
      BY <1>a, RowTypes
  <2>2. note' \in [Notes -> Note] /\ rack' \in RackRows /\ inv' \in InventoryRow /\ log' \in Log
      BY <1>10, <2>1, WrittenTypes DEF Stage
  <2>3. QED
      BY <1>10, <1>a, <2>2, ReplyType DEF Stage, TypeOK
<1>11. ASSUME NEW w \in Workers, Abort(w) PROVE TypeOK'
    BY <1>11, <1>a, ReplyType DEF Abort, TypeOK, stock
<1>12. CASE UNCHANGED vars
    BY <1>12 DEF vars, TypeOK
<1>13. QED
    BY <1>1, <1>2, <1>3, <1>4, <1>5, <1>6, <1>7, <1>8, <1>9, <1>10, <1>11, <1>12 DEF Next

\* Every row is one the code can store; quantities never become negative.
THEOREM TypeCorrect == Spec => []TypeOK
BY InitTypes, StepTypes, PTL DEF Spec
-----------------------------------------------------------------------------
(* What came in is in stock.  The invariant is not inductive alone: a       *)
(* booking rewrites the total from the racks, so all of it must be there or *)
(* none.                                                                   *)

StockInd ==
    /\ inv.ml = 0 /\ rack["mu"] = 0 /\ inv.sih = inv.wh
    /\ InWarehouse(rack) <= inv.wh
    /\ inv.wh <= log.received
    /\ default => inv.wh = log.received /\ InWarehouse(rack) \in {0, inv.wh}

LEMMA StockWritten ==
    ASSUME TypeOK, StockInd, NEW n \in Notes, NEW row \in Note,
           NEW by \in {"create", "put", "stage"}, NEW books \in BOOLEAN,
           Written(n, row, by, books), UNCHANGED default
    PROVE  StockInd'
<1>1. log'.received = IF books THEN log.received + Amount(row) ELSE log.received
    BY DEF Written, TypeOK, Log
<1>2. CASE ~books
    BY <1>1, <1>2 DEF Written, StockInd
<1>3. CASE books
  <2> DEFINE racks == Stocked(row).racks  totals == Stocked(row).totals
  <2>1. rack' = racks /\ inv' = totals
      BY <1>3 DEF Written
  <2>2. /\ racks["mu"] = 0 /\ totals.ml = 0 /\ totals.sih = totals.wh
        /\ totals.wh = IF row.placed \/ default
              THEN InWarehouse(rack) + Orphaned(inv, rack) + Amount(row)
              ELSE inv.wh + Amount(row)
        /\ InWarehouse(racks) = IF row.placed \/ default
              THEN InWarehouse(rack) + Orphaned(inv, rack) + Amount(row)
              ELSE InWarehouse(rack)
    <3>1. totals \in InventoryRow
        BY StockedParts DEF TypeOK
    <3>2. totals.wh \in Nat
        BY <3>1 DEF InventoryRow
    <3>3. totals.sih = totals.wh + 0
        BY StockedParts DEF TypeOK, StockInd
    <3>4. QED
        BY <3>2, <3>3, StockedParts DEF TypeOK, StockInd
  <2>3. Amount(row) \in Nat /\ inv.wh \in Nat /\ log.received \in Nat /\ InWarehouse(rack) \in Nat
      BY AmountType DEF TypeOK, InventoryRow, Log, InWarehouse, RackRows, Racks
  <2>4. Orphaned(inv, rack) = IF InWarehouse(rack) = 0 THEN inv.wh ELSE 0
      BY <2>3 DEF Orphaned, OnRacks, StockInd
  <2> HIDE DEF racks, totals
  <2>5. InWarehouse(racks) <= totals.wh /\ totals.wh <= log.received + Amount(row)
      BY <2>2, <2>3, <2>4 DEF StockInd
  <2>6. default => totals.wh = log.received + Amount(row) /\ InWarehouse(racks) = totals.wh
      BY <2>2, <2>3, <2>4 DEF StockInd
  <2>7. QED
      BY <1>1, <1>3, <2>1, <2>2, <2>5, <2>6 DEF StockInd
<1>4. QED
    BY <1>2, <1>3

THEOREM InitStock == Init => StockInd
BY BoundsAssumption DEF Init, StockInd, InWarehouse, Racks

\* Every step keeps the racks and the total with what came in.
THEOREM StepStock == TypeOK /\ StockInd /\ [Next]_vars => StockInd'
<1> SUFFICES ASSUME TypeOK, StockInd, [Next]_vars PROVE StockInd'
    OBVIOUS
<1>1. CASE UNCHANGED <<rack, inv, default, log>>
    BY <1>1 DEF StockInd
<1>2. ASSUME NEW n \in Notes, NEW form \in Forms, Create(n, form) PROVE StockInd'
  <2>1. form \in Note /\ (form.status = "GRN Complete" /\ Lists(form)) \in BOOLEAN
      BY FormsAssumption
  <2>2. Written(n, form, "create", form.status = "GRN Complete" /\ Lists(form)) /\ UNCHANGED default
      BY <1>2 DEF Create
  <2>3. QED
      BY <2>1, <2>2, StockWritten
<1>3. ASSUME NEW w \in Workers, Put(w), ~UNCHANGED <<rack, inv, default, log>> PROVE StockInd'
  <2> DEFINE n == job[w].n
             row == Saved(note[n], job[w].old, job[w].new)
             books == FirstCompletion(job[w].old, job[w].new) /\ Lists(row)
  <2>1. n \in Notes /\ row \in Note /\ books \in BOOLEAN
      BY RowTypes DEF TypeOK, Job, FirstCompletion
  <2>2. Written(n, row, "put", books) /\ UNCHANGED default
      BY <1>3 DEF Put, stock
  <2>3. QED
      BY <2>1, <2>2, StockWritten
<1>4. ASSUME NEW w \in Workers, Stage(w) PROVE StockInd'
  <2>1. job[w].n \in Notes /\ Staged(note[job[w].n], job[w].old, job[w].new) \in Note
      BY RowTypes DEF TypeOK, Job
  <2>2. QED
      BY <1>4, <2>1, StockWritten DEF Stage
<1>5. QED
    BY <1>1, <1>2, <1>3, <1>4 DEF Next, Ship, GenerateLabels, Remove, Dispatch, Bridge, LoadPut,
                                 LoadStage, Abort, vars, stock

\* Receipts of any number of requests at a time keep the stock they book: none
\* is lost where a default rack is configured, and none is made up anywhere.
THEOREM StockReceived == Spec => []StockIsReceived
<1>1. StockInd /\ TypeOK => StockIsReceived
    BY DEF StockInd, StockIsReceived
<1>2. QED
    BY <1>1, InitTypes, StepTypes, InitStock, StepStock, PTL DEF Spec

-----------------------------------------------------------------------------
(* What the handlers guarantee when requests do not overlap.  Creating and  *)
(* deleting notes and printing labels still fall between a load and a write.*)

OneAtATime == \A v, w \in Workers : v = w

\* What of its copy a lone request can rely on.
CopyFresh(w) ==
    LET n == job[w].n  old == job[w].old
    IN  /\ job[w].at \in {"put", "stage"} =>
              /\ n \in made
              /\ note[n].status = old.status /\ note[n].qc = old.qc
              /\ note[n].staffed = old.staffed /\ note[n].labels \in {old.labels, "printed"}
        /\ job[w].at = "put" => Fit(old, job[w].new)

\* A note that is open was booked at most as often as it was reopened.
NoteInd(n) ==
    /\ n \notin made => note[n] = New /\ log.booked[n] = 0 /\ log.reopened[n] = 0
    /\ log.booked[n] <= IF Completed(n) THEN log.reopened[n] + 1 ELSE log.reopened[n]
    /\ Completed(n) /\ log.reopened[n] = 0 =>
          (log.booked[n] > 0 <=> log.by[n] # "stage" /\ log.listed[n] > 0)
    /\ Completed(n) /\ log.by[n] = "put" =>
          note[n].qc = "Passed" /\ note[n].staffed /\ note[n].labels # "none"

SerialInd == (\A n \in Notes : NoteInd(n)) /\ \A w \in Workers : CopyFresh(w)

\* A write leaves the other notes alone.
LEMMA OthersKept ==
    ASSUME TypeOK, NEW n \in Notes, NEW row \in Note, NEW by \in {"create", "put", "stage"},
           NEW books \in BOOLEAN, Written(n, row, by, books),
           NEW m \in Notes, m # n, NoteInd(m), m \in made' <=> m \in made
    PROVE  NoteInd(m)'
<1>1. /\ note'[m] = note[m] /\ log'.booked[m] = log.booked[m]
      /\ log'.reopened[m] = log.reopened[m] /\ log'.by[m] = log.by[m]
      /\ log'.listed[m] = log.listed[m]
    BY OthersWritten
<1>2. QED
    BY <1>1 DEF NoteInd, Completed

LEMMA OneMore ==
    ASSUME NEW a \in Nat, NEW b \in Nat, a <= b
    PROVE  a + 1 <= b + 1 /\ a + 1 > 0
OBVIOUS

LEMMA NoMore ==
    ASSUME NEW a \in Nat, NEW b \in Nat, a <= b
    PROVE  a <= b + 1 /\ (b = 0 => ~(a > 0))
OBVIOUS

LEMMA Positive ==
    ASSUME NEW a \in Nat
    PROVE  a # 0 <=> a > 0
OBVIOUS

\* A write that books when, and only when, it completes a note that lists goods,
\* unless a stage does.
LEMMA SelfKept ==
    ASSUME TypeOK, NEW n \in Notes, NEW row \in Note, NEW by \in {"create", "put", "stage"},
           NEW books \in BOOLEAN, Written(n, row, by, books), NoteInd(n), n \in made',
           books <=> row.status = "GRN Complete" /\ ~Completed(n) /\ by # "stage" /\ Lists(row),
           row.status = "GRN Complete" /\ by = "put" =>
               row.qc = "Passed" /\ row.staffed /\ row.labels # "none",
           Completed(n) /\ by # "put" =>
               /\ row.qc = note[n].qc /\ row.staffed = note[n].staffed
               /\ row.labels \in {note[n].labels, "printed"}
    PROVE  NoteInd(n)'
<1>1. RowWritten(n, row, by, books)
    BY WrittenTypes
<1>2. log.booked[n] \in Nat /\ log.reopened[n] \in Nat
    BY DEF TypeOK, Log
<1>3. Completed(n)' <=> row.status = "GRN Complete"
    BY <1>1 DEF RowWritten, Completed
<1>4. CASE row.status # "GRN Complete"
  <2>1. log'.booked[n] = log.booked[n] /\ ~Completed(n)'
      BY <1>1, <1>3, <1>4 DEF RowWritten
  <2>2. log'.booked[n] <= log'.reopened[n]
    <3>1. CASE Completed(n)
      <4>1. log'.reopened[n] = log.reopened[n] + 1 /\ log.booked[n] <= log.reopened[n] + 1
          BY <1>1, <1>4, <3>1 DEF RowWritten, NoteInd
      <4>2. QED
          BY <1>2, <2>1, <4>1
    <3>2. CASE ~Completed(n)
      <4>1. log'.reopened[n] = log.reopened[n] /\ log.booked[n] <= log.reopened[n]
          BY <1>1, <3>2 DEF RowWritten, NoteInd
      <4>2. QED
          BY <1>2, <2>1, <4>1
    <3>3. QED
        BY <3>1, <3>2
  <2>3. QED
      BY <2>1, <2>2 DEF NoteInd
<1>5. CASE row.status = "GRN Complete" /\ ~Completed(n)
  <2>1. /\ Completed(n)' /\ log'.by[n] = by /\ log'.reopened[n] = log.reopened[n]
        /\ log'.listed[n] = Amount(row)
      BY <1>1, <1>3, <1>5 DEF RowWritten
  <2>2. log.booked[n] <= log.reopened[n]
      BY <1>5 DEF NoteInd
  <2>a. Amount(row) \in Nat /\ (Lists(row) <=> Amount(row) > 0)
    <3>1. Amount(row) \in Nat
        BY AmountType
    <3>2. Amount(row) # 0 <=> Amount(row) > 0
        BY <3>1, Positive, Zenon
    <3>3. QED
        BY <3>1, <3>2 DEF Lists
  <2>3. /\ log'.booked[n] <= log'.reopened[n] + 1
        /\ log'.reopened[n] = 0 =>
              (log'.booked[n] > 0 <=> by # "stage" /\ log'.listed[n] > 0)
    <3>1. CASE by = "stage" \/ ~Lists(row)
      <4>1. log'.booked[n] = log.booked[n]
          BY <1>1, <3>1 DEF RowWritten
      <4>2. ~(by # "stage" /\ log'.listed[n] > 0)
          BY <2>1, <2>a, <3>1
      <4>3. log'.reopened[n] = log.reopened[n]
          BY <2>1
      <4>4. log'.booked[n] <= log'.reopened[n] + 1
          BY <1>2, <2>2, <4>1, <4>3, NoMore, Zenon
      <4>5. log'.reopened[n] = 0 => ~(log'.booked[n] > 0)
          BY <1>2, <2>2, <4>1, <4>3, NoMore, Zenon
      <4>6. QED
          BY <4>2, <4>4, <4>5, Zenon
    <3>2. CASE by # "stage" /\ Lists(row)
      <4>1. log'.booked[n] = log.booked[n] + 1
          BY <1>1, <1>5, <3>2 DEF RowWritten
      <4>2. log'.reopened[n] = log.reopened[n]
          BY <2>1
      <4>3. log'.booked[n] <= log'.reopened[n] + 1 /\ log'.booked[n] > 0
          BY <1>2, <2>2, <4>1, <4>2, OneMore, Zenon
      <4>4. log'.listed[n] > 0
          BY <2>1, <2>a, <3>2
      <4>5. QED
          BY <3>2, <4>3, <4>4
    <3>3. QED
        BY <3>1, <3>2
  <2>4. QED
      BY <1>1, <1>5, <2>1, <2>3 DEF RowWritten, NoteInd
<1>6. CASE row.status = "GRN Complete" /\ Completed(n)
  <2>1. log'.booked[n] = log.booked[n] /\ log'.reopened[n] = log.reopened[n]
        /\ log'.by[n] = log.by[n] /\ log'.listed[n] = log.listed[n]
      BY <1>1, <1>6 DEF RowWritten
  <2>2. log.by[n] = "put" => row.qc = "Passed" /\ row.staffed /\ row.labels # "none"
      BY <1>6 DEF NoteInd
  <2>3. QED
      BY <1>1, <1>3, <1>6, <2>1, <2>2 DEF RowWritten, NoteInd
<1>7. QED
    BY <1>4, <1>5, <1>6

\* A request that replies holds no copy.
LEMMA DoneIsFresh ==
    ASSUME TypeOK, OneAtATime, NEW w \in Workers, Reply(w)
    PROVE  \A v \in Workers : CopyFresh(v)'
<1>1. job'[w].at = "idle"
    BY IdleType DEF Reply, TypeOK
<1>2. QED
    BY <1>1 DEF OneAtATime, CopyFresh

\* Initially no note exists.
THEOREM InitSerial == Init => SerialInd
<1> SUFFICES ASSUME Init PROVE SerialInd
    OBVIOUS
<1>1. ASSUME NEW n \in Notes PROVE NoteInd(n)
  <2>1. note[n] = New /\ log.booked[n] = 0 /\ log.reopened[n] = 0
      BY DEF Init
  <2>2. ~Completed(n)
      BY <2>1, NewIsOpen DEF Completed
  <2>3. QED
      BY <2>1, <2>2 DEF NoteInd
<1>2. ASSUME NEW w \in Workers PROVE CopyFresh(w)
    BY IdleType DEF Init, CopyFresh
<1>3. QED
    BY <1>1, <1>2 DEF SerialInd

\* Steps that create a note, and those that change none.
LEMMA SerialCreate ==
    ASSUME TypeOK, OneAtATime, SerialInd,
           \/ \E n \in Notes, form \in Forms : Create(n, form)
           \/ \E lines \in SUBSET Notes, po \in Ordered : Ship(lines, po)
           \/ \E w \in Workers, n \in Notes, po \in Ordered, placed \in Places :
                 Bridge(w, n, po, placed)
    PROVE  SerialInd'
<1>1. ASSUME NEW n \in Notes, NEW form \in Forms, Create(n, form) PROVE SerialInd'
  <2>1. form \in Note /\ (form.status = "GRN Complete" /\ Lists(form)) \in BOOLEAN
      BY FormsAssumption
  <2>2. /\ n \notin made /\ made' = made \cup {n} /\ UNCHANGED job
        /\ Written(n, form, "create", form.status = "GRN Complete" /\ Lists(form))
      BY <1>1 DEF Create
  <2>3. note[n] = New
      BY <2>2 DEF SerialInd, NoteInd
  <2>a. ~Completed(n)
      BY <2>3, NewIsOpen DEF Completed
  <2>4. NoteInd(n)'
      BY <2>1, <2>2, <2>a, SelfKept DEF SerialInd
  <2>5. \A m \in Notes \ {n} : NoteInd(m)'
      BY <2>1, <2>2, OthersKept DEF SerialInd
  <2>b. \A m \in Notes \ {n} : note'[m] = note[m]
      BY <2>2 DEF Written, TypeOK
  <2>6. ASSUME NEW w \in Workers PROVE CopyFresh(w)'
      BY <2>2, <2>b DEF SerialInd, CopyFresh, Fit, TypeOK, Job
  <2>7. QED
      BY <2>4, <2>5, <2>6 DEF SerialInd
<1>2. ASSUME NEW lines \in SUBSET Notes, NEW po \in Ordered, Ship(lines, po) PROVE SerialInd'
  <2>1. /\ lines \cap made = {} /\ made' = made \cup lines /\ UNCHANGED <<log, job>>
        /\ note' = [n \in Notes |-> IF n \in lines THEN Sent(po) ELSE note[n]]
      BY <1>2 DEF Ship
  <2>2. ASSUME NEW m \in Notes, m \in lines PROVE NoteInd(m)'
    <3>1. note[m] = New /\ note'[m].status = New.status /\ m \in made'
        BY <2>1, <2>2, SentType DEF SerialInd, NoteInd
    <3>2. ~Completed(m)' /\ ~Completed(m)
        BY <3>1, NewIsOpen DEF Completed
    <3>3. QED
        BY <2>1, <3>1, <3>2 DEF SerialInd, NoteInd
  <2>3. ASSUME NEW m \in Notes, m \notin lines PROVE NoteInd(m)'
      BY <2>1, <2>3 DEF SerialInd, NoteInd, Completed
  <2>4. ASSUME NEW w \in Workers PROVE CopyFresh(w)'
      BY <2>1 DEF SerialInd, CopyFresh, Fit, TypeOK, Job
  <2>5. QED
      BY <2>2, <2>3, <2>4 DEF SerialInd
<1>3. ASSUME NEW w \in Workers, NEW n \in Notes, NEW po \in Ordered, NEW placed \in Places,
             Bridge(w, n, po, placed)
      PROVE  SerialInd'
  <2>1. /\ n \notin made /\ made' = made \cup {n} /\ UNCHANGED log /\ Reply(w)
        /\ note' = [note EXCEPT ![n] = [Sent(po) EXCEPT !.placed = placed]]
      BY <1>3 DEF Bridge
  <2>a. note[n] = New /\ note'[n].status = New.status
      BY <2>1, SentType DEF SerialInd, NoteInd, TypeOK, Note
  <2>2. ~Completed(n)' /\ ~Completed(n)
      BY <2>a, NewIsOpen DEF Completed
  <2>3. NoteInd(n)'
      BY <2>1, <2>2 DEF SerialInd, NoteInd, TypeOK, Log
  <2>4. ASSUME NEW m \in Notes, m # n PROVE NoteInd(m)'
      BY <2>1, <2>4 DEF SerialInd, NoteInd, Completed, TypeOK
  <2>5. QED
      BY <2>1, <2>3, <2>4, DoneIsFresh DEF SerialInd
<1>4. QED
    BY <1>1, <1>2, <1>3

LEMMA SerialLoad ==
    ASSUME TypeOK, OneAtATime, SerialInd, NEW w \in Workers,
           \/ \E n \in Notes, form \in Forms : LoadPut(w, n, form)
           \/ \E n \in Notes, status \in Statuses : LoadStage(w, n, status)
           \/ Dispatch(w) \/ Abort(w)
    PROVE  SerialInd'
<1>1. UNCHANGED <<note, made, log>>
    BY DEF LoadPut, LoadStage, Dispatch, Abort
<1>2. \A n \in Notes : NoteInd(n)'
    BY <1>1 DEF SerialInd, NoteInd, Completed
<1>3. ASSUME NEW n \in Notes, NEW form \in Forms, LoadPut(w, n, form) PROVE CopyFresh(w)'
  <2> DEFINE new == [form EXCEPT !.labels = Steps(note[n], @)]
  <2>1. job'[w] = [at |-> "put", n |-> n, old |-> note[n], new |-> new]
        /\ n \in made /\ Fit(note[n], new)
      BY <1>3 DEF LoadPut, Live, TypeOK
  <2>2. Fit(note[n], new)'
      BY <1>1, <2>1 DEF Fit
  <2>3. QED
      BY <1>1, <2>1, <2>2 DEF CopyFresh
<1>4. ASSUME NEW n \in Notes, NEW status \in Statuses, LoadStage(w, n, status)
      PROVE  CopyFresh(w)'
  <2>1. job'[w].at = "stage" /\ job'[w].n = n /\ job'[w].old = note[n] /\ n \in made
      BY <1>4 DEF LoadStage, Live, TypeOK
  <2>2. QED
      BY <1>1, <2>1 DEF CopyFresh
<1>5. ASSUME Dispatch(w) PROVE CopyFresh(w)'
  <2>1. job'[w].at \in {"idle", "bridge"}
      BY <1>5 DEF Dispatch, At, TypeOK, Job
  <2>2. QED
      BY <2>1 DEF CopyFresh
<1>6. ASSUME Abort(w) PROVE CopyFresh(w)'
    BY <1>6, DoneIsFresh DEF Abort
<1>7. QED
    BY <1>2, <1>3, <1>4, <1>5, <1>6 DEF SerialInd, OneAtATime

LEMMA SerialWrite ==
    ASSUME TypeOK, OneAtATime, SerialInd, NEW w \in Workers, Put(w) \/ Stage(w)
    PROVE  SerialInd'
<1>1. PICK n \in Notes, old \in Note, new \in Note :
         n = job[w].n /\ old = job[w].old /\ new = job[w].new
    BY DEF TypeOK, Job
<1>2. /\ n \in made /\ made' = made /\ Reply(w) /\ NoteInd(n) /\ note[n] \in Note
      /\ note[n].status = old.status /\ note[n].qc = old.qc
      /\ note[n].staffed = old.staffed /\ note[n].labels \in {old.labels, "printed"}
    BY <1>1 DEF Put, Stage, At, SerialInd, CopyFresh, TypeOK
<1>3. Completed(n) <=> old.status = "GRN Complete"
    BY <1>2 DEF Completed
<1>4. CASE Put(w)
  <2>1. CASE UNCHANGED <<note, log>>
      BY <1>2, <2>1, DoneIsFresh DEF SerialInd, NoteInd, Completed
  <2>2. CASE ~UNCHANGED <<note, log>>
    <3>1. PICK row \in Note : row = Saved(note[n], old, new)
        BY <1>2, RowTypes
    <3>2. PICK books \in BOOLEAN : books <=> FirstCompletion(old, new) /\ Lists(row)
        OBVIOUS
    <3>3. Written(n, row, "put", books)
        BY <1>1, <1>4, <2>2, <3>1, <3>2 DEF Put, stock, Written
    <3>4. row.status = new.status /\ row.qc = new.qc /\ row.staffed = new.staffed
        BY <1>2, <3>1 DEF Saved, Kept
    <3>5. new.labels # "none" => row.labels # "none"
      <4>1. row.labels = Steps(note[n], Kept(note[n].labels, old.labels, new.labels))
          BY <3>1 DEF Saved
      <4>2. QED
          BY <1>2, <4>1 DEF Steps, Kept
    <3>6. Fit(old, new)
        BY <1>1, <1>4 DEF Put, At, SerialInd, CopyFresh
    <3>7. books <=> row.status = "GRN Complete" /\ ~Completed(n) /\ "put" # "stage" /\ Lists(row)
        BY <1>3, <3>2, <3>4 DEF FirstCompletion
    <3>8. row.status = "GRN Complete" => row.qc = "Passed" /\ row.staffed /\ row.labels # "none"
        BY <3>4, <3>5, <3>6 DEF Fit
    <3>9. NoteInd(n)'
        BY <1>2, <3>3, <3>7, <3>8, SelfKept
    <3>10. \A m \in Notes : m # n => NoteInd(m)'
        BY <1>2, <3>3, OthersKept DEF SerialInd
    <3>11. QED
        BY <1>2, <3>9, <3>10, DoneIsFresh DEF SerialInd
  <2>3. QED
      BY <2>1, <2>2
<1>5. CASE Stage(w)
  <2>1. PICK row \in Note : row = Staged(note[n], old, new)
      BY <1>2, RowTypes
  <2>2. Written(n, row, "stage", FALSE)
      BY <1>1, <1>5, <2>1 DEF Stage
  <2>3. row.qc = note[n].qc /\ row.staffed = note[n].staffed
        /\ row.labels = Steps(note[n], old.labels)
      BY <1>2, <2>1 DEF Staged, Note
  <2>4. row.labels \in {note[n].labels, "printed"}
      BY <1>2, <2>3 DEF Steps
  <2>5. NoteInd(n)'
      BY <1>2, <2>2, <2>3, <2>4, SelfKept
  <2>6. \A m \in Notes : m # n => NoteInd(m)'
      BY <1>2, <2>2, OthersKept DEF SerialInd
  <2>7. QED
      BY <1>2, <2>5, <2>6, DoneIsFresh DEF SerialInd
<1>6. QED
    BY <1>4, <1>5

LEMMA SerialLabels ==
    ASSUME TypeOK, SerialInd, NEW n \in Notes, NEW placed \in Places, GenerateLabels(n, placed)
    PROVE  SerialInd'
<1>1. /\ n \in made /\ UNCHANGED <<made, log, job>>
      /\ note' = [note EXCEPT ![n].labels = "printed", ![n].placed = placed]
    BY DEF GenerateLabels, Live
<1>2. \A m \in Notes :
         /\ note'[m].status = note[m].status /\ note'[m].qc = note[m].qc
         /\ note'[m].staffed = note[m].staffed
         /\ note'[m].labels = IF m = n THEN "printed" ELSE note[m].labels
    BY <1>1 DEF TypeOK, Note
<1>3. ASSUME NEW m \in Notes, m # n PROVE note'[m] = note[m]
    BY <1>1, <1>3 DEF TypeOK
<1>4. NoteInd(n)'
  <2>1. NoteInd(n) /\ (Completed(n)' <=> Completed(n))
      BY <1>2 DEF SerialInd, Completed
  <2>2. log'.booked[n] = log.booked[n] /\ log'.reopened[n] = log.reopened[n]
        /\ log'.by[n] = log.by[n] /\ log'.listed[n] = log.listed[n]
      BY <1>1
  <2>3. log'.booked[n] <= IF Completed(n)' THEN log'.reopened[n] + 1 ELSE log'.reopened[n]
      BY <2>1, <2>2 DEF NoteInd
  <2>4. Completed(n)' /\ log'.reopened[n] = 0 =>
           (log'.booked[n] > 0 <=> log'.by[n] # "stage" /\ log'.listed[n] > 0)
      BY <2>1, <2>2 DEF NoteInd
  <2>5. Completed(n)' /\ log'.by[n] = "put" =>
           note'[n].qc = "Passed" /\ note'[n].staffed /\ note'[n].labels # "none"
      BY <1>2, <2>1, <2>2 DEF NoteInd
  <2>6. QED
      BY <1>1, <2>3, <2>4, <2>5 DEF NoteInd
<1>5. ASSUME NEW m \in Notes, m # n PROVE NoteInd(m)'
    BY <1>1, <1>3, <1>5 DEF SerialInd, NoteInd, Completed
<1>6. ASSUME NEW w \in Workers PROVE CopyFresh(w)'
  <2>1. job[w].n \in Notes
      BY DEF TypeOK, Job
  <2>2. Fit(job[w].old, job[w].new)' <=> Fit(job[w].old, job[w].new)
      BY <1>1 DEF Fit
  <2>3. note'[job[w].n].labels \in {note[job[w].n].labels, "printed"}
      BY <1>2, <2>1
  <2>4. job' = job /\ made' = made
      BY <1>1
  <2>5. QED
      BY <1>2, <2>1, <2>2, <2>3, <2>4 DEF SerialInd, CopyFresh
<1>7. QED
    BY <1>4, <1>5, <1>6 DEF SerialInd

\* Every step of a lone request keeps the notes as the log says.
THEOREM StepSerial == OneAtATime /\ TypeOK /\ SerialInd /\ [Next]_vars => SerialInd'
<1> SUFFICES ASSUME OneAtATime, TypeOK, SerialInd, [Next]_vars PROVE SerialInd'
    OBVIOUS
<1>1. ASSUME NEW n \in Notes, Remove(n) PROVE SerialInd'
    BY <1>1 DEF Remove, SerialInd, NoteInd, CopyFresh, Completed, Fit
<1>2. CASE UNCHANGED vars
    BY <1>2 DEF vars, SerialInd, NoteInd, CopyFresh, Completed, Fit
<1>3. QED
    BY <1>1, <1>2, SerialCreate, SerialLoad, SerialWrite, SerialLabels DEF Next

\* One request at a time books a note at most once per completion.
THEOREM BookedOnce == ASSUME OneAtATime PROVE Spec => []BookedPerCompletion
<1>1. TypeOK /\ SerialInd => BookedPerCompletion
    BY DEF SerialInd, NoteInd, BookedPerCompletion, TypeOK, Log
<1>2. QED
    BY <1>1, InitTypes, StepTypes, InitSerial, StepSerial, PTL DEF Spec

\* One request at a time books a completed note that lists goods, unless a stage
\* completed it.
THEOREM CompletionBooks == ASSUME OneAtATime PROVE Spec => []CompleteIsBooked
<1>1. TypeOK /\ SerialInd => CompleteIsBooked
  <2> SUFFICES ASSUME TypeOK, SerialInd, NEW n \in made, log.reopened[n] = 0
               PROVE  log.booked[n] > 0 <=>
                          Completed(n) /\ log.by[n] # "stage" /\ log.listed[n] > 0
      BY DEF CompleteIsBooked
  <2>1. NoteInd(n) /\ log.booked[n] \in Nat
      BY DEF SerialInd, TypeOK, Log
  <2>2. CASE Completed(n)
      BY <2>1, <2>2 DEF NoteInd
  <2>3. CASE ~Completed(n)
    <3>1. log.booked[n] = 0
        BY <2>1, <2>3 DEF NoteInd
    <3>2. QED
        BY <2>3, <3>1
  <2>4. QED
      BY <2>2, <2>3
<1>2. QED
    BY <1>1, InitTypes, StepTypes, InitSerial, StepSerial, PTL DEF Spec

\* What a PUT completed stays inspected, staffed and labelled.
THEOREM CompletionFit == ASSUME OneAtATime PROVE Spec => []CompleteIsFit
<1>1. SerialInd => CompleteIsFit
    BY DEF SerialInd, NoteInd, CompleteIsFit
<1>2. QED
    BY <1>1, InitTypes, StepTypes, InitSerial, StepSerial, PTL DEF Spec
=============================================================================
