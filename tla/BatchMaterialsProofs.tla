------------------------ MODULE BatchMaterialsProofs ------------------------
(* Proofs about BatchMaterials, for any finite sets of transfer orders and  *)
(* lines, any requirement, and any bounds.                                  *)
EXTENDS BatchMaterials, FiniteSetTheorems, TLAPS

\* What is about to be consumed was found in stock when the row was stored.
TypeInd == TypeOK /\ (At("consume") => job.delta <= inv.ml)

-----------------------------------------------------------------------------
(* Type correctness.                                                       *)

\* Moving a request on keeps its type.
LEMMA GoType ==
    ASSUME NEW stage \in Stages, job \in Job, Go(stage)
    PROVE  job' \in Job /\ job'.at = stage
<1>1. Idle \in Job /\ Idle.at = "idle"
    BY DEF Idle, Job, Stages, LineSets
<1>2. CASE stage = "idle"
    BY <1>1, <1>2 DEF Go
<1>3. CASE stage # "idle"
    BY <1>3 DEF Go, Job
<1>4. QED
    BY <1>2, <1>3

\* A reservation of what the batch requires.
LEMMA FullReservation == [row |-> TRUE, quantity |-> Required] \in Reservation
<1>1. TRUE \in BOOLEAN /\ Required \in Nat
    BY RequiredAssumption
<1>2. QED
    BY <1>1 DEF Reservation

\* Movements of the racks and the totals made from them keep their types.
LEMMA StockTypes ==
    ASSUME NEW k \in RackRows, NEW i \in InventoryRow, NEW r \in Racks, NEW n \in Nat
    PROVE  /\ Added(k, r, n) \in RackRows
           /\ Taken(k, r, n) \in RackRows
           /\ Recounted(i, k) \in InventoryRow
           /\ Received(i, k) \in InventoryRow
           /\ Orphaned(i, k) \in Nat
<1>1. \A q \in Racks : k[q] \in Nat
    BY DEF RackRows
<1>2. InWarehouse(k) \in Nat /\ OnRacks(k) \in Nat
    BY <1>1 DEF InWarehouse, OnRacks, Racks
<1>3. i.wh \in Nat /\ i.ml \in Nat /\ i.sih \in Nat /\ i.reserved \in Nat
    BY DEF InventoryRow
<1>4. k[r] + n \in Nat /\ Less(k[r], n) \in Nat
    BY <1>1 DEF Less
<1>5. Added(k, r, n) \in RackRows /\ Taken(k, r, n) \in RackRows
    BY <1>4 DEF Added, Taken, RackRows
<1>6. Recounted(i, k) \in InventoryRow
    BY <1>1, <1>2 DEF Recounted, InventoryRow, Racks
<1>7. InWarehouse(k) + i.ml \in Nat
    BY <1>2, <1>3
<1>8. Received(i, k) \in InventoryRow
    BY <1>6, <1>7 DEF Received, InventoryRow
<1>9. QED
    BY <1>3, <1>5, <1>6, <1>8 DEF Orphaned

\* The header computed from the lines is a status an order can have.
LEMMA SteppedType ==
    ASSUME mtr \in [Transfers -> Transfer],
           NEW m \in Transfers, NEW items \in SUBSET Lines, NEW p \in Phases
    PROVE  [mtr EXCEPT ![m] = Stepped(m, items, p)] \in [Transfers -> Transfer]
<1> DEFINE phase == [l \in Lines |-> IF l \in items THEN p ELSE mtr[m].phase[l]]
<1>1. phase \in [Lines -> Phases]
    BY DEF Transfer
<1>2. ASSUME NEW h PROVE Aggregate(phase, h) \in Headers
  <2> HIDE DEF phase
  <2>1. QED
    BY DEF Aggregate, Headers
<1>3. Stepped(m, items, p) \in Transfer
    BY <1>1, <1>2 DEF Stepped, Transfer
<1>4. QED
    BY <1>3

THEOREM InitTypes == Init => TypeInd
<1> SUFFICES ASSUME Init
             PROVE  TypeInd
    OBVIOUS
<1>1. rack \in RackRows /\ inv \in InventoryRow
    BY DEF Init, RackRows, InventoryRow
<1>2. rbi \in Reservation /\ others \in Nat
    BY DEF Init, Reservation
<1>3. batch \in Batch
  <2>1. FALSE \in BOOLEAN /\ 0 \in 0..Required
      BY RequiredAssumption
  <2>2. AskedFor \subseteq 0..Required
      BY SentAssumption
  <2>3. QED
      BY <2>1, <2>2 DEF Init, Batch, Statuses
<1>4. mtr \in [Transfers -> Transfer]
    BY DEF Init, Transfer, Phases
<1>5. log \in Log
    BY DEF Init, Log, LineSets
<1>6. job \in Job /\ job.at = "idle"
    BY DEF Init, Idle, Job, Stages, LineSets
<1>7. QED
    BY <1>1, <1>2, <1>3, <1>4, <1>5, <1>6 DEF TypeInd, TypeOK, At

THEOREM StepTypes == TypeInd /\ [Next]_vars => TypeInd'
<1> SUFFICES ASSUME TypeInd, [Next]_vars
             PROVE  TypeInd'
    OBVIOUS
<1> USE DEF TypeInd, TypeOK
<1>a. /\ log \in Log /\ job \in Job
    OBVIOUS
<1>1. ASSUME NEW r \in {"std", "bin"}, Receive(r) PROVE TypeInd'
  <2>1. r \in Racks /\ 1 + Orphaned(inv, rack) \in Nat
      BY StockTypes DEF Racks
  <2>2. rack' \in RackRows
      BY <1>1, <2>1, StockTypes DEF Receive
  <2>3. inv' \in InventoryRow
      BY <1>1, <2>1, <2>2, StockTypes DEF Receive
  <2>4. log' \in Log
    <3>1. Orphaned(inv, rack) \in Nat
        BY <2>1, StockTypes
    <3>2. log.received + 1 \in Nat /\ log.phantom + Orphaned(inv, rack) \in Nat
        BY <3>1 DEF Log
    <3>3. log' = [log EXCEPT !.received = @ + 1, !.phantom = @ + Orphaned(inv, rack),
                             !.stale = @ \ {"stock"}]
        BY <1>1 DEF Receive
    <3>4. QED
        BY <3>2, <3>3 DEF Log
  <2>5. ~At("consume")'
      BY <1>1 DEF Receive, Resting, At
  <2>6. QED
      BY <1>1, <2>2, <2>3, <2>4, <2>5 DEF Receive
<1>2. CASE OtherBatch
  <2>1. others' \in Nat
      BY <1>2 DEF OtherBatch
  <2>2. inv' \in InventoryRow
      BY <1>2, <2>1 DEF OtherBatch, InventoryRow, Reservation
  <2>3. log' \in Log
      BY <1>2 DEF OtherBatch, Log
  <2>4. ~At("consume")'
      BY <1>2 DEF OtherBatch, Resting, At
  <2>5. QED
      BY <1>2, <2>1, <2>2, <2>3, <2>4 DEF OtherBatch
<1>3. CASE Sync
  <2>1. SyncThen[job.at] \in Stages /\ SyncThen[job.at] # "consume"
      BY <1>3 DEF Sync, SyncThen, Stages
  <2>2. job' \in Job /\ ~At("consume")'
      BY <1>3, <2>1, GoType DEF Sync, At
  <2>3. inv' \in InventoryRow
      BY <1>3 DEF Sync, InventoryRow, Reservation, Promised
  <2>4. log' \in Log
      BY <1>3 DEF Sync, Log
  <2>5. QED
      BY <1>3, <2>2, <2>3, <2>4 DEF Sync
<1>4. CASE Reserve
  <2>1. rbi' = rbi \/ rbi' = [row |-> TRUE, quantity |-> Required]
      BY <1>4 DEF Reserve
  <2>4. rbi' \in Reservation
      BY <2>1, FullReservation
  <2>2. job' \in Job /\ ~At("consume")'
      BY <1>4, GoType DEF Reserve, At, Stages
  <2>3. QED
      BY <1>4, <2>4, <2>2 DEF Reserve
<1>5. CASE Unreserve
  <2>1. rbi' \in Reservation
      BY <1>5 DEF Unreserve, Reservation
  <2>2. job' \in Job /\ ~At("consume")'
      BY <1>5, GoType DEF Unreserve, At, Stages
  <2>3. QED
      BY <1>5, <2>1, <2>2 DEF Unreserve
<1>6. CASE Flags
  <2>1. FullyReserved \in BOOLEAN
      BY DEF FullyReserved
  <2>2. batch' \in Batch
      BY <1>6, <2>1 DEF Flags, Batch, Statuses
  <2>3. job' \in Job /\ ~At("consume")'
      BY <1>6, GoType DEF Flags, At, Stages
  <2>4. QED
      BY <1>6, <2>2, <2>3 DEF Flags
<1>c. ASSUME NEW b \in BOOLEAN, CreateReservation(b)
      PROVE  rbi' \in Reservation /\ job' \in Job /\ ~At("consume")'
  <2>1. rbi' \in Reservation
      BY <1>c, FullReservation DEF CreateReservation
  <2>2. job' \in Job /\ ~At("consume")'
      BY <1>c, GoType DEF CreateReservation, At, Stages
  <2>3. QED
      BY <2>1, <2>2
<1>7. CASE ShowReserved
  <2>1. rbi' \in Reservation /\ job' \in Job /\ ~At("consume")'
      BY <1>7, <1>c, GoType DEF ShowReserved, At, Stages
  <2>2. QED
      BY <1>7, <2>1 DEF ShowReserved
<1>8. ASSUME NEW s \in SentStatuses \cup {batch.status}, NEW f \in BOOLEAN,
             NEW c \in SentConnected \cup {batch.connected}, NEW a \in AskedFor,
             NEW d \in 0..Required, Save(s, f, c, a, d)
      PROVE  TypeInd'
  <2>1. s \in Statuses /\ c \in BOOLEAN /\ a \in 0..Required
      BY SentAssumption DEF Batch
  <2>2. batch' \in Batch
      BY <1>8, <2>1 DEF Save, Batch
  <2>3. ChangeSeen(d) \in Int /\ ChangeSeen(d) <= inv'.ml
      BY <1>8, RequiredAssumption DEF Save, ChangeSeen, Batch
  <2>5. (batch.status # "rm_reserved" /\ s = "rm_reserved") \in BOOLEAN
      OBVIOUS
  <2>6. job' \in Job /\ job'.delta = ChangeSeen(d)
      BY <1>8, <2>3, <2>5 DEF Save, Job, Idle, Stages, LineSets
  <2>4. QED
      BY <1>8, <2>2, <2>3, <2>6 DEF Save
<1>9. CASE Refuse
  <2>1. job' \in Job /\ ~At("consume")'
      BY <1>9, GoType DEF Refuse, At, Stages
  <2>2. log' \in Log
      BY <1>9 DEF Refuse, Log, Job
  <2>3. QED
      BY <1>9, <2>1, <2>2 DEF Refuse
<1>10. CASE Consume
  <2>1. job' \in Job /\ ~At("consume")'
      BY <1>10, GoType DEF Consume, At, Stages
  <2>2. log' \in Log
      BY <1>10 DEF Consume, Log, Job
  <2>3. /\ inv.wh \in Nat /\ inv.ml \in Nat
        /\ job.delta \in Int /\ job.delta <= inv.ml
      BY <1>10 DEF Consume, InventoryRow, Job
  <2>5. ASSUME job.delta > 0 PROVE inv' \in InventoryRow
    <3>1. inv.ml - job.delta \in Nat /\ inv.wh + inv.ml - job.delta \in Nat
        BY <2>3, <2>5
    <3>2. Dispensed(inv, job.delta) \in InventoryRow
        BY <3>1 DEF Dispensed, InventoryRow
    <3>3. inv' = Dispensed(inv, job.delta)
        BY <1>10, <2>5 DEF Consume
    <3>4. QED
        BY <3>2, <3>3
  <2>6. ASSUME ~(job.delta > 0) PROVE inv' \in InventoryRow
    <3>1. inv.ml + (-job.delta) \in Nat /\ inv.wh + inv.ml + (-job.delta) \in Nat
        BY <2>3, <2>6
    <3>2. Returned(inv, -job.delta) \in InventoryRow
        BY <3>1 DEF Returned, InventoryRow
    <3>3. inv' = Returned(inv, -job.delta)
        BY <1>10, <2>6 DEF Consume
    <3>4. QED
        BY <3>2, <3>3
  <2>7. inv' \in InventoryRow
      BY <2>5, <2>6
  <2>4. QED
      BY <1>10, <2>1, <2>2, <2>7 DEF Consume
<1>11. CASE Adjust
  <2>1. job' \in Job /\ ~At("consume")'
      BY <1>11, GoType DEF Adjust, At, Stages
  <2>2. AfterDispensing \in Nat
      BY DEF AfterDispensing, Less, Reservation, Job
  <2>3. rbi' \in Reservation
      BY <1>11, <2>2 DEF Adjust, Reservation
  <2>4. QED
      BY <1>11, <2>1, <2>3 DEF Adjust
<1>12. CASE Trigger
  <2>1. rbi' \in Reservation /\ job' \in Job /\ ~At("consume")'
      BY <1>12, <1>c, GoType DEF Trigger, At, Stages
  <2>2. QED
      BY <1>12, <2>1 DEF Trigger
<1>13. ASSUME NEW m \in Transfers, NEW items \in SUBSET Lines, NEW s \in BornHeaders,
              Order(m, items, s)
       PROVE  TypeInd'
  <2>3. s \in Headers
      BY BornAssumption
  <2>1. mtr' \in [Transfers -> Transfer]
      BY <1>13, <2>3 DEF Order, Transfer, Phases
  <2>2. QED
      BY <1>13, <2>1 DEF Order, At
<1>14. ASSUME NEW m \in Transfers, NEW s \in Headers, SetHeader(m, s)
       PROVE  TypeInd'
  <2>1. mtr' \in [Transfers -> Transfer]
      BY <1>14 DEF SetHeader, Transfer
  <2>2. QED
      BY <1>14, <2>1 DEF SetHeader, At
<1>15. ASSUME NEW m \in Transfers, NEW items \in SUBSET Lines,
              Send(m, items) \/ Accept(m, items)
       PROVE  TypeInd'
  <2>1. mtr' \in [Transfers -> Transfer]
      BY <1>15, SteppedType DEF Send, Accept, Forward, Phases
  <2>2. QED
      BY <1>15, <2>1 DEF Send, Accept, Forward, At
<1>16. ASSUME NEW m \in Transfers, NEW items \in SUBSET Lines, Complete(m, items)
       PROVE  TypeInd'
  <2>1. mtr' \in [Transfers -> Transfer]
      BY <1>16, SteppedType DEF Complete, Phases
  <2>2. {m} \X items \subseteq Transfers \X Lines
      OBVIOUS
  <2>3. job' \in Job /\ ~At("consume")'
    <3>1. job' = [Idle EXCEPT !.at = "take", !.todo = {m} \X items]
        BY <1>16 DEF Complete
    <3>2. job' = [at |-> "take", todo |-> {m} \X items, delta |-> 0, fresh |-> FALSE]
        BY <3>1 DEF Idle
    <3>3. 0 \in Int /\ FALSE \in BOOLEAN
        OBVIOUS
    <3>4. job' \in Job
        BY <2>2, <3>2, <3>3, Zenon DEF Job, Stages, LineSets
    <3>5. QED
        BY <3>2, <3>4 DEF At
  <2>4. QED
      BY <1>16, <2>1, <2>3 DEF Complete
<1>17. CASE Take
  <2>1. rack' \in RackRows
      BY <1>17, StockTypes DEF Take, Racks
  <2>5. 1 - Least(rack["std"], 1) \in Nat
      BY DEF Least, RackRows, Racks
  <2>2. log' \in Log
      BY <1>17, <2>5 DEF Take, Log
  <2>3. job' \in Job /\ ~At("consume")'
      BY <1>17, GoType DEF Take, At, Stages
  <2>4. QED
      BY <1>17, <2>1, <2>2, <2>3 DEF Take
<1>18. CASE Lay
  <2>1. rack' \in RackRows
      BY <1>18, StockTypes DEF Lay, Racks
  <2>2. job' \in Job /\ ~At("consume")'
      BY <1>18, GoType DEF Lay, At, Stages
  <2>3. QED
      BY <1>18, <2>1, <2>2 DEF Lay
<1>19. CASE Recount
  <2>1. inv' \in InventoryRow
      BY <1>19, StockTypes DEF Recount, Racks
  <2>2. log' \in Log
      BY <1>19 DEF Recount, Log
  <2>3. job' \in Job /\ ~At("consume")'
      BY <1>19, GoType DEF Recount, At, Stages
  <2>4. QED
      BY <1>19, <2>1, <2>2, <2>3 DEF Recount
<1>20. CASE Release
  <2>1. rbi' \in Reservation
      BY <1>20 DEF Release, Reservation, Less
  <2>2. PICK x \in job.todo :
          /\ log' = IF At("release") THEN [log EXCEPT !.moved = @ \cup {x}]
                                     ELSE [log EXCEPT !.unmoved = @ \cup {x}]
          /\ job' = [job EXCEPT !.todo = @ \ {x},
                                !.at = IF job.todo = {x} THEN "level" ELSE "take"]
      BY <1>20 DEF Release
  <2>3. log' \in Log
      BY <2>2 DEF Log, Job, LineSets
  <2>4. job' \in Job /\ ~At("consume")'
      BY <2>2 DEF Job, At, Stages, LineSets
  <2>5. QED
      BY <1>20, <2>1, <2>3, <2>4 DEF Release
<1>21. CASE Connect
  <2>1. batch' \in Batch
      BY <1>21 DEF Connect, Batch, Statuses
  <2>2. job' \in Job /\ ~At("consume")'
      BY <1>21, GoType DEF Connect, At, Stages
  <2>3. QED
      BY <1>21, <2>1, <2>2 DEF Connect
<1>22. ASSUME NEW m \in Transfers, Remove(m) PROVE TypeInd'
  <2>1. mtr' \in [Transfers -> Transfer]
      BY <1>22 DEF Remove, Transfer
  <2>2. QED
      BY <1>22, <2>1 DEF Remove, At
<1>23. CASE Abort
  <2>1. job' \in Job /\ ~At("consume")'
      BY <1>23 DEF Abort, Idle, Job, Stages, LineSets, At
  <2>2. /\ log.stops + 1 \in Nat /\ log.astray + job.delta \in Int /\ log.dropped + 1 \in Nat
        /\ \A laid \in SUBSET job.todo :
              log.moved \cup laid \in LineSets /\ log.skipped \cup (job.todo \ laid) \in LineSets
      BY DEF Log, Job, LineSets
  <2>5. PICK laid \in SUBSET job.todo :
          log' = [log EXCEPT
                    !.stops   = @ + 1,
                    !.astray  = IF At("consume") THEN @ + job.delta ELSE @,
                    !.dropped = IF job.at \in {"taken", "lay"} THEN @ + 1 ELSE @,
                    !.moved   = @ \cup laid,
                    !.skipped = @ \cup (job.todo \ laid),
                    !.stale   = @ \cup (IF job.at \in {"taken", "laid"} THEN {"stock"} ELSE {})
                                  \cup (IF job.at \in DOMAIN SyncThen \/ job.todo # {}
                                           THEN {"reserved"} ELSE {})]
      BY <1>23 DEF Abort
  <2>3. log' \in Log
      BY <2>2, <2>5 DEF Log
  <2>4. QED
      BY <1>23, <2>1, <2>3 DEF Abort
<1>24. CASE UNCHANGED vars
    BY <1>24 DEF vars, At
<1>25. QED
    BY <1>1, <1>2, <1>3, <1>4, <1>5, <1>6, <1>7, <1>8, <1>9, <1>10, <1>11, <1>12, <1>13,
       <1>14, <1>15, <1>16, <1>17, <1>18, <1>19, <1>20, <1>21, <1>22, <1>23, <1>24
    DEF Next, Warehouse, Reserving, Updating, Put, Transferring

-----------------------------------------------------------------------------
(* Where the stock is.                                                     *)

\* Stock a transfer has taken off one rack and not yet put on the other.
InAir == IF job.at \in {"taken", "lay"} THEN 1 ELSE 0

\* A step that leaves the racks, their history and the transfer alone.
LEMMA StockFrame ==
    ASSUME Conserved, rack' = rack, InAir' = InAir,
           log'.received = log.received, log'.phantom = log.phantom, log'.dropped = log.dropped
    PROVE  Conserved'
BY DEF Conserved, InAir, OnRacks, InWarehouse

THEOREM InitConserved == Init => Conserved
BY DEF Init, Conserved, OnRacks, InWarehouse, Racks, Idle

THEOREM StepConserved == TypeInd /\ Conserved /\ [Next]_vars => Conserved'
<1> SUFFICES ASSUME TypeInd, Conserved, [Next]_vars
             PROVE  Conserved'
    OBVIOUS
<1>a. /\ log \in Log /\ job \in Job /\ rack \in RackRows
      /\ log.received \in Nat /\ log.phantom \in Nat /\ log.dropped \in Nat
      /\ rack["std"] \in Nat /\ rack["bin"] \in Nat /\ rack["mu"] \in Nat
    BY DEF TypeInd, TypeOK, Log, RackRows, Racks
<1>b. rack["std"] + rack["bin"] + rack["mu"] + log.dropped + InAir = log.received + log.phantom
    BY DEF Conserved, InAir, OnRacks, InWarehouse
<1>c. ASSUME rack'["std"] + rack'["bin"] + rack'["mu"] + log'.dropped + InAir'
                = log'.received + log'.phantom
      PROVE  Conserved'
    BY <1>c DEF Conserved, InAir, OnRacks, InWarehouse
<1>d. Idle.at = "idle" /\ (\A stage : job' = [job EXCEPT !.at = stage] => job'.at = stage)
    BY <1>a DEF Idle, Job
<1>1. ASSUME NEW r \in {"std", "bin"}, Receive(r) PROVE Conserved'
  <2>1. Orphaned(inv, rack) \in Nat
      BY StockTypes DEF TypeInd, TypeOK, Racks
  <2>2. \A q \in Racks : rack'[q] = IF q = r THEN rack[q] + 1 + Orphaned(inv, rack) ELSE rack[q]
      BY <1>1, <1>a, <2>1 DEF Receive, Added, RackRows
  <2>3. /\ log'.received = log.received + 1 /\ log'.dropped = log.dropped
        /\ log'.phantom = log.phantom + Orphaned(inv, rack)
      BY <1>1, <1>a DEF Receive, Log
  <2>4. InAir' = InAir
      BY <1>1 DEF Receive, InAir
  <2>5. InAir \in Nat
      BY DEF InAir
  <2>6. rack'["std"] + rack'["bin"] + rack'["mu"]
           = rack["std"] + rack["bin"] + rack["mu"] + 1 + Orphaned(inv, rack)
      BY <1>a, <2>1, <2>2 DEF Racks
  <2>7. QED
      BY <1>a, <1>b, <1>c, <2>1, <2>3, <2>4, <2>5, <2>6
<1>2. CASE OtherBatch
    BY <1>2, <1>a, StockFrame DEF OtherBatch, InAir, Log
<1>3. CASE Sync
  <2>1. job.at \notin {"taken", "lay"} /\ job'.at \notin {"taken", "lay"}
      BY <1>3, <1>d DEF Sync, SyncThen, Go
  <2>2. QED
      BY <1>3, <1>a, <2>1, StockFrame DEF Sync, InAir, Log
<1>4. CASE Reserve \/ Unreserve \/ Flags
    BY <1>4, <1>d, StockFrame DEF Reserve, Unreserve, Flags, Resting, At, Go, InAir
<1>5. CASE ShowReserved \/ Trigger
    BY <1>5, <1>d, StockFrame DEF ShowReserved, Trigger, CreateReservation, Resting, At, Go, InAir
<1>6. ASSUME NEW s, NEW f, NEW c, NEW a, NEW d, Save(s, f, c, a, d) PROVE Conserved'
    BY <1>6, StockFrame DEF Save, Resting, At, Idle, InAir
<1>7. CASE Refuse \/ Consume
    BY <1>7, <1>a, <1>d, StockFrame DEF Refuse, Consume, At, Go, InAir, Log
<1>8. CASE Adjust \/ Connect
    BY <1>8, <1>d, StockFrame DEF Adjust, Connect, At, Go, InAir
<1>9. ASSUME NEW m, NEW items,
             (\E s \in BornHeaders : Order(m, items, s)) \/ Send(m, items) \/ Accept(m, items)
      PROVE  Conserved'
    BY <1>9, StockFrame DEF Order, Send, Accept, Forward, InAir
<1>10. ASSUME NEW m, NEW s, SetHeader(m, s) \/ Remove(m) PROVE Conserved'
    BY <1>10, StockFrame DEF SetHeader, Remove, InAir
<1>11. ASSUME NEW m, NEW items, Complete(m, items) PROVE Conserved'
    BY <1>11, StockFrame DEF Complete, Resting, At, Idle, InAir
<1>12. CASE Take /\ job'.at = "taken"
  <2>6. Take /\ job'.at # "spare"
      BY <1>12
  <2>7. /\ rack' = Taken(rack, "std", 1)
        /\ log' = [log EXCEPT !.phantom = @ + 1 - Least(rack["std"], 1)]
      BY <1>d, <2>6 DEF Take, Go
  <2>1. /\ rack'["std"] = Less(rack["std"], 1)
        /\ rack'["bin"] = rack["bin"] /\ rack'["mu"] = rack["mu"]
      BY <2>7, <1>a DEF Taken, RackRows, Racks
  <2>2. /\ log'.received = log.received /\ log'.dropped = log.dropped
        /\ log'.phantom = log.phantom + 1 - Least(rack["std"], 1)
      BY <2>7, <1>a DEF Log
  <2>3. InAir = 0 /\ InAir' = 1
      BY <1>12 DEF Take, At, InAir
  <2>4. Less(rack["std"], 1) + Least(rack["std"], 1) = rack["std"] /\ Least(rack["std"], 1) \in Nat
        /\ Less(rack["std"], 1) \in Nat
      BY <1>a DEF Less, Least
  <2>5. QED
      BY <1>a, <1>b, <1>c, <2>1, <2>2, <2>3, <2>4
<1>19. CASE Take /\ job'.at # "taken"
    BY <1>19, <1>d, StockFrame DEF Take, At, Go, InAir
<1>13. CASE Lay
  <2>1. /\ rack'["std"] = rack["std"]
        /\ rack'["bin"] = rack["bin"] /\ rack'["mu"] = rack["mu"] + 1
      BY <1>13, <1>a DEF Lay, Added, RackRows, Racks
  <2>2. InAir = 1 /\ InAir' = 0
      BY <1>13, <1>d DEF Lay, At, Go, InAir
  <2>3. QED
      BY <1>13, <1>a, <1>b, <1>c, <2>1, <2>2 DEF Lay
<1>14. CASE Recount
    BY <1>14, <1>a, <1>d, StockFrame DEF Recount, At, Go, InAir, Log
<1>15. CASE Release
  <2>1. PICK x \in job.todo :
          /\ log' = IF At("release") THEN [log EXCEPT !.moved = @ \cup {x}]
                                     ELSE [log EXCEPT !.unmoved = @ \cup {x}]
          /\ job' = [job EXCEPT !.todo = @ \ {x},
                                !.at = IF job.todo = {x} THEN "level" ELSE "take"]
      BY <1>15 DEF Release
  <2>2. InAir' = InAir
      BY <1>15, <1>a, <2>1 DEF Release, At, InAir, Job
  <2>3. QED
      BY <1>15, <1>a, <2>1, <2>2, StockFrame DEF Release, Log
<1>16. CASE Abort
  <2>1. /\ log'.received = log.received /\ log'.phantom = log.phantom
        /\ log'.dropped = log.dropped + InAir
      BY <1>16, <1>a DEF Abort, Log, InAir
  <2>2. rack' = rack /\ InAir' = 0 /\ InAir \in Nat
      BY <1>16 DEF Abort, Idle, InAir
  <2>3. QED
      BY <1>a, <1>b, <1>c, <2>1, <2>2
<1>17. CASE UNCHANGED vars
    BY <1>17, StockFrame DEF vars, InAir
<1>18. QED
    BY <1>1, <1>2, <1>3, <1>4, <1>5, <1>6, <1>7, <1>8, <1>9, <1>10, <1>11, <1>12, <1>13,
       <1>14, <1>15, <1>16, <1>17, <1>19
    DEF Next, Warehouse, Reserving, Updating, Put, Transferring

-----------------------------------------------------------------------------
(* What was dispensed.                                                     *)

\* Stored as dispensed, and not yet taken from stock.
Unbooked == IF At("consume") THEN job.delta ELSE 0

\* A step that leaves the three quantities and what is not booked alone.
LEMMA DispensedFrame ==
    ASSUME DispensedIsConsumed, batch'.dispensed = batch.dispensed, Unbooked' = Unbooked,
           log'.consumed = log.consumed, log'.astray = log.astray
    PROVE  DispensedIsConsumed'
BY DEF DispensedIsConsumed, Unbooked, At

THEOREM InitDispensed == Init => DispensedIsConsumed
BY DEF Init, DispensedIsConsumed, At, Idle

THEOREM StepDispensed ==
    TypeInd /\ DispensedIsConsumed /\ [Next]_vars => DispensedIsConsumed'
<1> SUFFICES ASSUME TypeInd, DispensedIsConsumed, [Next]_vars
             PROVE  DispensedIsConsumed'
    OBVIOUS
<1>a. /\ log \in Log /\ job \in Job /\ batch \in Batch
      /\ log.consumed \in Int /\ log.astray \in Int /\ job.delta \in Int
    BY DEF TypeInd, TypeOK, Log, Job
<1>b. batch.dispensed = log.consumed + log.astray + Unbooked
    BY DEF DispensedIsConsumed, Unbooked
<1>c. ASSUME batch'.dispensed = log'.consumed + log'.astray + Unbooked'
      PROVE  DispensedIsConsumed'
    BY <1>c DEF DispensedIsConsumed, Unbooked, At
<1>d. Idle.at = "idle" /\ (\A stage : job' = [job EXCEPT !.at = stage] => job'.at = stage)
    BY <1>a DEF Idle, Job
<1>1. ASSUME NEW r, Receive(r) PROVE DispensedIsConsumed'
    BY <1>1, <1>a, DispensedFrame DEF Receive, Unbooked, At, Log
<1>2. CASE OtherBatch
    BY <1>2, <1>a, DispensedFrame DEF OtherBatch, Unbooked, At, Log
<1>3. CASE Sync
  <2>1. ~At("consume") /\ ~At("consume")'
      BY <1>3, <1>d DEF Sync, SyncThen, Go, At
  <2>2. QED
      BY <1>3, <1>a, <2>1, DispensedFrame DEF Sync, Unbooked, Log
<1>4. CASE Reserve \/ Unreserve
    BY <1>4, <1>d, DispensedFrame DEF Reserve, Unreserve, Resting, At, Go, Unbooked
<1>5. CASE ShowReserved \/ Trigger
    BY <1>5, <1>d, DispensedFrame
    DEF ShowReserved, Trigger, CreateReservation, Resting, At, Go, Unbooked
<1>6. CASE Flags
  <2>1. batch'.dispensed = batch.dispensed
      BY <1>6, <1>a DEF Flags, Batch
  <2>2. QED
      BY <1>6, <1>d, <2>1, DispensedFrame DEF Flags, At, Go, Unbooked
<1>7. ASSUME NEW s, NEW f, NEW c, NEW a, NEW d \in 0..Required, Save(s, f, c, a, d)
      PROVE  DispensedIsConsumed'
  <2>1. batch'.dispensed = d
      BY <1>7, <1>a DEF Save, Batch
  <2>2. Unbooked = 0 /\ Unbooked' = d - batch.dispensed
      BY <1>7 DEF Save, Unbooked, Resting, At, Idle, ChangeSeen
  <2>3. d \in Int /\ batch.dispensed \in Int
      BY <1>a, RequiredAssumption DEF Batch
  <2>4. log' = log
      BY <1>7 DEF Save
  <2>5. QED
      BY <1>a, <1>b, <1>c, <2>1, <2>2, <2>3, <2>4
<1>8. CASE Refuse
  <2>1. log'.consumed = log.consumed /\ log'.astray = log.astray + job.delta
      BY <1>8, <1>a DEF Refuse, Log
  <2>2. Unbooked = job.delta /\ Unbooked' = 0 /\ batch' = batch
      BY <1>8, <1>d DEF Refuse, Unbooked, At, Go
  <2>3. QED
      BY <1>a, <1>b, <1>c, <2>1, <2>2
<1>9. CASE Consume
  <2>1. log'.astray = log.astray /\ log'.consumed = log.consumed + job.delta
      BY <1>9, <1>a DEF Consume, Log
  <2>2. Unbooked = job.delta /\ Unbooked' = 0 /\ batch' = batch
      BY <1>9, <1>d DEF Consume, Unbooked, At, Go
  <2>3. QED
      BY <1>a, <1>b, <1>c, <2>1, <2>2
<1>10. CASE Adjust
    BY <1>10, <1>d, DispensedFrame DEF Adjust, At, Go, Unbooked
<1>11. ASSUME NEW m, NEW items,
              (\E s \in BornHeaders : Order(m, items, s)) \/ Send(m, items) \/ Accept(m, items)
       PROVE  DispensedIsConsumed'
    BY <1>11, DispensedFrame DEF Order, Send, Accept, Forward, Unbooked, At
<1>12. ASSUME NEW m, NEW s, SetHeader(m, s) \/ Remove(m) PROVE DispensedIsConsumed'
    BY <1>12, DispensedFrame DEF SetHeader, Remove, Unbooked, At
<1>13. ASSUME NEW m, NEW items, Complete(m, items) PROVE DispensedIsConsumed'
    BY <1>13, DispensedFrame DEF Complete, Resting, At, Idle, Unbooked
<1>14. CASE Take \/ Lay \/ Recount
    BY <1>14, <1>a, <1>d, DispensedFrame DEF Take, Lay, Recount, At, Go, Unbooked, Log
<1>15. CASE Release
  <2>1. PICK x \in job.todo :
          /\ log' = IF At("release") THEN [log EXCEPT !.moved = @ \cup {x}]
                                     ELSE [log EXCEPT !.unmoved = @ \cup {x}]
          /\ job' = [job EXCEPT !.todo = @ \ {x},
                                !.at = IF job.todo = {x} THEN "level" ELSE "take"]
      BY <1>15 DEF Release
  <2>2. Unbooked' = Unbooked
      BY <1>15, <1>a, <2>1 DEF Release, At, Unbooked, Job
  <2>3. QED
      BY <1>15, <1>a, <2>1, <2>2, DispensedFrame DEF Release, Log
<1>16. CASE Connect
  <2>1. batch'.dispensed = batch.dispensed
      BY <1>16, <1>a DEF Connect, Batch
  <2>2. QED
      BY <1>16, <1>d, <2>1, DispensedFrame DEF Connect, At, Go, Unbooked
<1>17. CASE Abort
  <2>1. log'.consumed = log.consumed /\ log'.astray = log.astray + Unbooked
      BY <1>17, <1>a DEF Abort, Log, Unbooked
  <2>2. Unbooked' = 0 /\ Unbooked \in Int /\ batch' = batch
      BY <1>17, <1>a DEF Abort, Idle, Unbooked, At
  <2>3. QED
      BY <1>a, <1>b, <1>c, <2>1, <2>2
<1>18. CASE UNCHANGED vars
    BY <1>18, DispensedFrame DEF vars, Unbooked, At
<1>19. QED
    BY <1>1, <1>2, <1>3, <1>4, <1>5, <1>6, <1>7, <1>8, <1>9, <1>10, <1>11, <1>12, <1>13,
       <1>14, <1>15, <1>16, <1>17, <1>18
    DEF Next, Warehouse, Reserving, Updating, Put, Transferring

-----------------------------------------------------------------------------
(* Headers and lines of transfer orders.                                   *)

Has(phase, p) == \E l \in Lines : phase[l] = p

\* What HeaderAgrees says of one order.
Agrees(order) ==
    order.status \notin {"none", "deleted"}
      /\ (\E l \in Lines : order.phase[l] \notin {"absent", "not_initiated"}) =>
       /\ order.status = "Completed" <=>
             /\ ~Has(order.phase, "not_initiated")
             /\ ~Has(order.phase, "in_transit") /\ ~Has(order.phase, "received_at_mu")
       /\ order.status = "Received at MU" <=> Has(order.phase, "received_at_mu")
       /\ order.status = "In Transit" <=>
             Has(order.phase, "in_transit") /\ ~Has(order.phase, "received_at_mu")

LEMMA AllAgree == HeaderAgrees <=> \A m \in Transfers : Agrees(mtr[m])
BY DEF HeaderAgrees, Agrees, Has, Visible

\* A header that is computed from the lines agrees with them.
LEMMA AggregateAgrees ==
    ASSUME NEW phase, NEW h
    PROVE  Agrees([status |-> Aggregate(phase, h), phase |-> phase])
BY DEF Agrees, Aggregate, Has

THEOREM InitHeaders == Init => HeaderAgrees
<1> SUFFICES ASSUME Init
             PROVE  HeaderAgrees
    OBVIOUS
<1>1. \A m \in Transfers : ~Visible(m)
    BY DEF Init, Visible
<1>2. QED
    BY <1>1 DEF HeaderAgrees

THEOREM StepHeaders == TypeInd /\ HeaderAgrees /\ [Next]_vars => HeaderAgrees'
<1> SUFFICES ASSUME TypeInd, HeaderAgrees, [Next]_vars
             PROVE  HeaderAgrees'
    OBVIOUS
<1>a. mtr \in [Transfers -> Transfer] /\ \A m \in Transfers : Agrees(mtr[m])
    BY AllAgree DEF TypeInd, TypeOK
<1>b. ASSUME mtr' = mtr PROVE HeaderAgrees'
    BY <1>b DEF HeaderAgrees, Visible
<1>c. ASSUME NEW m \in Transfers, NEW order, mtr' = [mtr EXCEPT ![m] = order], Agrees(order)
      PROVE  HeaderAgrees'
  <2>1. \A n \in Transfers : Agrees(mtr'[n])
      BY <1>a, <1>c
  <2>2. QED
      BY <2>1 DEF HeaderAgrees, Agrees, Has, Visible
<1>1. ASSUME NEW m \in Transfers, NEW items \in SUBSET Lines, NEW s \in BornHeaders,
             Order(m, items, s)
      PROVE  HeaderAgrees'
  <2> DEFINE phase == [l \in Lines |-> IF l \in items THEN "not_initiated" ELSE "absent"]
             order == [status |-> s, phase |-> phase]
  <2>1. Agrees(order)
      BY DEF Agrees
  <2>2. mtr' = [mtr EXCEPT ![m] = order]
      BY <1>1 DEF Order
  <2>3. QED
      BY <1>c, <2>1, <2>2
<1>2. ASSUME NEW m \in Transfers, NEW s \in Headers, SetHeader(m, s)
      PROVE  HeaderAgrees'
  <2> DEFINE order == [mtr[m] EXCEPT !.status = s]
  <2>1. /\ Visible(m) /\ s # "Completed"
        /\ s = "In Transit" => ~Has(mtr[m].phase, "not_initiated")
        /\ s = "Received at MU" => ~Has(mtr[m].phase, "in_transit")
      BY <1>2 DEF SetHeader, Moves, Has
  <2>2. order.status = s /\ order.phase = mtr[m].phase
      BY <1>a DEF Transfer
  <2>3. Agrees(mtr[m])
      BY <1>a
  <2>7. \/ mtr[m].status = s
        \/ mtr[m].status = "In Transit" /\ s = "Received at MU"
        \/ /\ mtr[m].status \in {"Pending", "Picked", "In Transfer"}
           /\ s \in {"Picked", "In Transfer", "In Transit"}
      BY <1>2, <2>1 DEF SetHeader, Allowed, AllowedMoves
  <2>4. Agrees(order)
      BY <2>1, <2>2, <2>3, <2>7 DEF Agrees, Has, Visible
  <2>5. mtr' = [mtr EXCEPT ![m] = order]
      BY <1>2 DEF SetHeader
  <2>6. QED
      BY <1>c, <2>4, <2>5
<1>3. ASSUME NEW m \in Transfers, NEW items \in SUBSET Lines,
             Send(m, items) \/ Accept(m, items) \/ Complete(m, items)
      PROVE  HeaderAgrees'
  <2>1. PICK p : mtr' = [mtr EXCEPT ![m] = Stepped(m, items, p)]
      BY <1>3 DEF Send, Accept, Forward, Complete
  <2>2. Agrees(Stepped(m, items, p))
      BY AggregateAgrees DEF Stepped
  <2>3. QED
      BY <1>c, <2>1, <2>2
<1>4. ASSUME NEW m \in Transfers, Remove(m) PROVE HeaderAgrees'
  <2> DEFINE order == [mtr[m] EXCEPT !.status = "deleted"]
  <2>1. Agrees(order)
      BY <1>a DEF Agrees, Transfer
  <2>2. mtr' = [mtr EXCEPT ![m] = order]
      BY <1>4 DEF Remove
  <2>3. QED
      BY <1>c, <2>1, <2>2
<1>5. CASE Warehouse \/ Reserving \/ Abort
    BY <1>5, <1>b DEF Warehouse, Receive, OtherBatch, Reserving, Reserve, Unreserve, Flags,
                      ShowReserved, Sync, Abort
<1>6. CASE Updating
    BY <1>6, <1>b DEF Updating, Put, Save, Refuse, Consume, Adjust, Trigger
<1>7. CASE Take \/ Lay \/ Recount \/ Release \/ Connect \/ UNCHANGED vars
    BY <1>7, <1>b DEF Take, Lay, Recount, Release, Connect, vars
<1>8. QED
    BY <1>1, <1>2, <1>3, <1>4, <1>5, <1>6, <1>7 DEF Next, Transferring

-----------------------------------------------------------------------------
(* The lines of transfer orders.                                           *)

\* The stages at which a request still has lines to move.
Moving == {"take", "taken", "lay", "laid", "release", "spare"}

\* A request has lines to move just while it is moving one; an order that has
\* not been made has no lines.
TodoInv ==
    /\ job.at \in Moving <=> job.todo # {}
    /\ \A m \in Transfers, l \in Lines : mtr[m].status = "none" => mtr[m].phase[l] = "absent"

LineInd == TypeInd /\ TodoInv /\ LineMovesOnce

\* An order that takes a step is not one that has not been made.
LEMMA SteppedStatus ==
    ASSUME NEW m, NEW items, NEW p
    PROVE  Stepped(m, items, p).status # "none"
<1>1. ASSUME NEW phase, NEW h PROVE Aggregate(phase, h) # "none"
    BY DEF Aggregate
<1>2. QED
    BY <1>1 DEF Stepped

\* The stock of the line being moved is at the site already.
AtSite == job.at \in {"laid", "release"}

\* A step that leaves the orders and what is to be moved or has been alone.
LEMMA LineFrame ==
    ASSUME LineInd, mtr' = mtr, job'.todo = job.todo,
           job'.at \in Moving <=> job.at \in Moving, AtSite' <=> AtSite,
           log'.moved = log.moved, log'.unmoved = log.unmoved, log'.skipped = log.skipped,
           rack'["mu"] = rack["mu"]
    PROVE  TodoInv' /\ LineMovesOnce'
BY DEF LineInd, TodoInv, LineMovesOnce, CompletedLines, Handled, AtSite

\* A step that changes an order, but completes no line and reopens none.
LEMMA OrderFrame ==
    ASSUME LineInd, job' = job, log' = log, rack' = rack,
           NEW m \in Transfers, NEW order, mtr' = [mtr EXCEPT ![m] = order],
           order.status # "none",
           \A l \in Lines : order.phase[l] = "completed" <=> mtr[m].phase[l] = "completed"
    PROVE  TodoInv' /\ LineMovesOnce'
<1>1. mtr \in [Transfers -> Transfer]
    BY DEF LineInd, TypeInd, TypeOK
<1>2. \A n \in Transfers : n # m => mtr'[n] = mtr[n]
    BY <1>1
<1>3. mtr'[m] = order
    BY <1>1
<1>4. TodoInv'
    BY <1>2, <1>3 DEF LineInd, TodoInv
<1>5. \A n \in Transfers, l \in Lines : l \in CompletedLines(n)' <=> l \in CompletedLines(n)
    BY <1>2, <1>3 DEF CompletedLines
<1>6. QED
    BY <1>4, <1>5 DEF LineInd, LineMovesOnce, Handled

\* Every set of lines is finite.
LEMMA FiniteLines ==
    ASSUME NEW S \in LineSets
    PROVE  IsFiniteSet(S) /\ Cardinality(S) \in Nat
<1>1. IsFiniteSet(Transfers \X Lines)
    BY LinesAssumption, FS_Product
<1>2. IsFiniteSet(S)
    BY <1>1, FS_Subset DEF LineSets
<1>3. QED
    BY <1>2, FS_CardinalityType

\* The stock of one more line has reached the site.
LEMMA OneMore ==
    ASSUME NEW S \in LineSets, NEW x, x \notin S
    PROVE  Cardinality(S \cup {x}) = Cardinality(S) + 1
BY FiniteLines, FS_AddElement

THEOREM InitLines == Init => TodoInv /\ LineMovesOnce
<1> SUFFICES ASSUME Init
             PROVE  TodoInv /\ LineMovesOnce
    OBVIOUS
<1>1. Cardinality(log.moved) = 0 /\ rack["mu"] = 0
    BY FS_EmptySet DEF Init, Racks
<1>2. QED
    BY <1>1 DEF Init, TodoInv, LineMovesOnce, CompletedLines, Handled, Idle, Moving

THEOREM StepLines == LineInd /\ [Next]_vars => TodoInv' /\ LineMovesOnce'
<1> SUFFICES ASSUME LineInd, [Next]_vars
             PROVE  TodoInv' /\ LineMovesOnce'
    OBVIOUS
<1>a. /\ log \in Log /\ job \in Job /\ mtr \in [Transfers -> Transfer] /\ rack \in RackRows
    BY DEF LineInd, TypeInd, TypeOK
<1>b. job.at \in Moving <=> job.todo # {}
    BY DEF LineInd, TodoInv
<1>c. /\ Idle.at = "idle" /\ Idle.todo = {}
      /\ \A stage : job' = [job EXCEPT !.at = stage] => job'.at = stage /\ job'.todo = job.todo
    BY <1>a DEF Idle, Job
<1>1. ASSUME NEW r \in {"std", "bin"}, Receive(r) PROVE TodoInv' /\ LineMovesOnce'
  <2>1. rack'["mu"] = rack["mu"]
      BY <1>1, <1>a DEF Receive, Added, RackRows, Racks
  <2>2. QED
      BY <1>1, <1>a, <2>1, LineFrame DEF AtSite, Moving, Receive, Log, AtSite
<1>2. CASE OtherBatch
    BY <1>2, <1>a, LineFrame DEF OtherBatch, Log, AtSite
<1>3. CASE Sync
  <2>1. job.at \notin Moving /\ job'.at \notin Moving /\ job'.todo = {} /\ job.todo = {}
      BY <1>3, <1>b, <1>c DEF Sync, SyncThen, Go, Moving
  <2>2. QED
      BY <1>3, <1>a, <2>1, LineFrame DEF AtSite, Moving, Sync, Log
<1>4. CASE Reserve \/ Unreserve \/ Flags
  <2>1. job.at \notin Moving /\ job'.at \notin Moving /\ job'.todo = {} /\ job.todo = {}
      BY <1>4, <1>b, <1>c DEF Reserve, Unreserve, Flags, Resting, At, Go, Moving
  <2>2. QED
      BY <1>4, <2>1, LineFrame DEF AtSite, Moving, Reserve, Unreserve, Flags
<1>5. CASE ShowReserved \/ Trigger
  <2>1. job.at \notin Moving /\ job'.at \notin Moving /\ job'.todo = {} /\ job.todo = {}
      BY <1>5, <1>b, <1>c
      DEF ShowReserved, Trigger, CreateReservation, Resting, At, Go, Moving
  <2>2. QED
      BY <1>5, <2>1, LineFrame DEF AtSite, Moving, ShowReserved, Trigger
<1>6. ASSUME NEW s, NEW f, NEW c, NEW a, NEW d, Save(s, f, c, a, d)
      PROVE  TodoInv' /\ LineMovesOnce'
  <2>1. job.at \notin Moving /\ job'.at \notin Moving /\ job'.todo = {} /\ job.todo = {}
      BY <1>6, <1>b DEF Save, Resting, At, Idle, Moving
  <2>2. QED
      BY <1>6, <2>1, LineFrame DEF AtSite, Moving, Save
<1>7. CASE Refuse \/ Consume \/ Adjust \/ Connect
  <2>1. job.at \notin Moving /\ job'.at \notin Moving /\ job'.todo = {} /\ job.todo = {}
      BY <1>7, <1>b, <1>c DEF Refuse, Consume, Adjust, Connect, At, Go, Moving
  <2>2. log'.moved = log.moved /\ log'.unmoved = log.unmoved /\ log'.skipped = log.skipped
      BY <1>7, <1>a DEF Refuse, Consume, Adjust, Connect, Log
  <2>3. QED
      BY <1>7, <2>1, <2>2, LineFrame DEF AtSite, Moving, Refuse, Consume, Adjust, Connect
<1>8. ASSUME NEW m \in Transfers, NEW items \in SUBSET Lines, NEW s \in BornHeaders,
             Order(m, items, s)
      PROVE  TodoInv' /\ LineMovesOnce'
  <2> DEFINE phase == [l \in Lines |-> IF l \in items THEN "not_initiated" ELSE "absent"]
             order == [status |-> s, phase |-> phase]
  <2>1. /\ mtr' = [mtr EXCEPT ![m] = order] /\ mtr[m].status = "none"
        /\ job' = job /\ log' = log /\ rack' = rack
      BY <1>8 DEF Order
  <2>5. s # "none"
      BY BornAssumption DEF Headers
  <2>2. \A l \in Lines : mtr[m].phase[l] = "absent"
      BY <2>1 DEF LineInd, TodoInv
  <2>3. /\ order.status # "none"
        /\ \A l \in Lines : order.phase[l] = "completed" <=> mtr[m].phase[l] = "completed"
      BY <2>2, <2>5
  <2> HIDE DEF order
  <2>4. QED
      BY <2>1, <2>3, OrderFrame
<1>9. ASSUME NEW m \in Transfers, NEW s \in Headers, SetHeader(m, s)
      PROVE  TodoInv' /\ LineMovesOnce'
  <2> DEFINE order == [mtr[m] EXCEPT !.status = s]
  <2>1. mtr' = [mtr EXCEPT ![m] = order] /\ job' = job /\ log' = log /\ rack' = rack
      BY <1>9 DEF SetHeader
  <2>2. order.status = s /\ order.phase = mtr[m].phase /\ s # "none"
      BY <1>a, <1>9 DEF Headers, Transfer
  <2> HIDE DEF order
  <2>3. \A l \in Lines : order.phase[l] = "completed" <=> mtr[m].phase[l] = "completed"
      BY <2>2
  <2>4. order.status # "none"
      BY <2>2
  <2>5. QED
      BY <2>1, <2>3, <2>4, OrderFrame
<1>10. ASSUME NEW m \in Transfers, NEW items \in SUBSET Lines,
              Send(m, items) \/ Accept(m, items)
       PROVE  TodoInv' /\ LineMovesOnce'
  <2>1. PICK p \in {"in_transit", "received_at_mu"} :
           /\ mtr' = [mtr EXCEPT ![m] = Stepped(m, items, p)]
           /\ \A l \in items : mtr[m].phase[l] # "completed"
      BY <1>10 DEF Send, Accept, Forward, Are
  <2>2. Stepped(m, items, p).status # "none"
      BY SteppedStatus
  <2>3. \A l \in Lines : Stepped(m, items, p).phase[l] = "completed"
                            <=> mtr[m].phase[l] = "completed"
      BY <2>1 DEF Stepped
  <2>4. job' = job /\ log' = log /\ rack' = rack
      BY <1>10 DEF Send, Accept, Forward
  <2>5. QED
      BY <2>1, <2>2, <2>3, <2>4, OrderFrame
<1>11. ASSUME NEW m \in Transfers, NEW items \in SUBSET Lines, Complete(m, items)
       PROVE  TodoInv' /\ LineMovesOnce'
  <2>1. /\ items # {} /\ log' = log /\ job.todo = {}
        /\ \A l \in items : mtr[m].phase[l] = "received_at_mu"
        /\ job'.at = "take" /\ job'.todo = {m} \X items
      BY <1>11, <1>b DEF Complete, Are, Resting, At, Idle, Moving
  <2>2. /\ \A n \in Transfers : n # m => mtr'[n] = mtr[n]
        /\ mtr'[m] = Stepped(m, items, "completed")
      BY <1>11, <1>a DEF Complete
  <2>12. mtr'[m].status # "none"
      BY <2>2, SteppedStatus
  <2>3. \A l \in Lines : mtr'[m].phase[l] = IF l \in items THEN "completed"
                                                            ELSE mtr[m].phase[l]
      BY <2>2 DEF Stepped
  <2>13. PICK k \in items : <<m, k>> \in job'.todo
      BY <2>1
  <2>4. job'.at \in Moving /\ job'.todo # {}
      BY <2>1, <2>13 DEF Moving
  <2>5. \A n \in Transfers, l \in Lines : mtr'[n].status = "none" => mtr'[n].phase[l] = "absent"
      BY <2>2, <2>12 DEF LineInd, TodoInv
  <2>6. TodoInv'
      BY <2>4, <2>5 DEF TodoInv
  <2>7. \A n \in Transfers, l \in Lines :
           l \in CompletedLines(n) <=> <<n, l>> \in Handled
      BY <2>1 DEF LineInd, LineMovesOnce
  <2>8. \A l \in items : <<m, l>> \notin Handled
      BY <2>1, <2>7 DEF CompletedLines
  <2>14. Handled' = Handled
      BY <2>1 DEF Handled
  <2>9. job'.todo \cap Handled' = {}
      BY <2>1, <2>8, <2>14
  <2>10. \A n \in Transfers, l \in Lines :
            l \in CompletedLines(n)' <=> <<n, l>> \in job'.todo \/ l \in CompletedLines(n)
      BY <2>1, <2>2, <2>3 DEF CompletedLines
  <2>15. rack' = rack /\ ~AtSite /\ ~AtSite'
      BY <1>11, <2>1 DEF Complete, Resting, At, AtSite
  <2>16. /\ log'.moved \cap (log'.unmoved \cup log'.skipped) = {}
         /\ rack'["mu"] = Cardinality(log'.moved) + (IF AtSite' THEN 1 ELSE 0)
      BY <2>1, <2>15 DEF LineInd, LineMovesOnce, AtSite
  <2>17. \A n \in Transfers, l \in Lines :
            l \in CompletedLines(n)' <=> <<n, l>> \in job'.todo \cup Handled'
      BY <2>7, <2>10, <2>14
  <2>11. QED
      BY <2>6, <2>9, <2>16, <2>17 DEF LineMovesOnce, AtSite
<1>18. CASE Lay
  <2>1. rack'["mu"] = rack["mu"] + 1 /\ rack["mu"] \in Nat
      BY <1>18, <1>a DEF Lay, Added, RackRows, Racks
  <2>2. job'.todo = job.todo /\ ~AtSite /\ AtSite' /\ job.at \in Moving /\ job'.at \in Moving
      BY <1>18, <1>c DEF Lay, At, Go, AtSite, Moving
  <2>7. log' = log /\ Cardinality(log.moved) \in Nat
      BY <1>18, <1>a, FiniteLines DEF Lay, Log
  <2>8. rack["mu"] = Cardinality(log.moved)
      BY <2>2, <2>7 DEF LineInd, LineMovesOnce, AtSite
  <2>3. rack'["mu"] = Cardinality(log'.moved) + 1
      BY <2>1, <2>7, <2>8
  <2>4. TodoInv'
      BY <1>18, <2>2 DEF Lay, LineInd, TodoInv
  <2>5. LineMovesOnce'
      BY <1>18, <2>2, <2>3 DEF Lay, LineInd, LineMovesOnce, CompletedLines, Handled, AtSite
  <2>6. QED
      BY <2>4, <2>5
<1>12. CASE Take \/ Recount
  <2>1. /\ job.at \in Moving /\ job'.at \in Moving /\ job'.todo = job.todo
        /\ AtSite' <=> AtSite
      BY <1>12, <1>c DEF Take, Recount, At, Go, Moving, AtSite
  <2>2. log'.moved = log.moved /\ log'.unmoved = log.unmoved /\ log'.skipped = log.skipped
      BY <1>12, <1>a DEF Take, Recount, Log
  <2>3. rack'["mu"] = rack["mu"] /\ mtr' = mtr
      BY <1>12, <1>a DEF Take, Recount, Taken, RackRows, Racks
  <2>4. QED
      BY <2>1, <2>2, <2>3, LineFrame
<1>13. CASE Release
  <2>1. PICK x \in job.todo :
          /\ log' = IF At("release") THEN [log EXCEPT !.moved = @ \cup {x}]
                                     ELSE [log EXCEPT !.unmoved = @ \cup {x}]
          /\ job' = [job EXCEPT !.todo = @ \ {x},
                                !.at = IF job.todo = {x} THEN "level" ELSE "take"]
      BY <1>13 DEF Release
  <2>2. /\ job'.todo = job.todo \ {x} /\ ~AtSite'
        /\ job'.at = IF job.todo = {x} THEN "level" ELSE "take"
      BY <1>a, <2>1 DEF Job, AtSite
  <2>3. mtr' = mtr /\ rack' = rack
      BY <1>13 DEF Release
  <2>4. TodoInv'
      BY <2>1, <2>2, <2>3 DEF LineInd, TodoInv, Moving
  <2>5. Handled' = Handled \cup {x} /\ log'.skipped = log.skipped
      BY <1>a, <2>1 DEF Handled, Log
  <2>6. x \notin Handled
      BY DEF LineInd, LineMovesOnce
  <2>7. CASE At("release")
    <3>1. log'.moved = log.moved \cup {x} /\ log'.unmoved = log.unmoved
        BY <1>a, <2>1, <2>7 DEF Log
    <3>2. Cardinality(log'.moved) = Cardinality(log.moved) + 1
        BY <1>a, <2>6, <3>1, OneMore DEF Log, Handled
    <3>3. AtSite
        BY <2>7 DEF At, AtSite
    <3>4. rack'["mu"] = Cardinality(log'.moved) + (IF AtSite' THEN 1 ELSE 0)
        BY <1>a, <2>2, <2>3, <3>2, <3>3, FiniteLines DEF LineInd, LineMovesOnce, AtSite, Log
    <3>5. log'.moved \cap (log'.unmoved \cup log'.skipped) = {}
        BY <2>5, <2>6, <3>1 DEF LineInd, LineMovesOnce, Handled
    <3>6. LineMovesOnce'
        BY <2>2, <2>3, <2>5, <3>4, <3>5
        DEF LineInd, LineMovesOnce, CompletedLines, AtSite
    <3>7. QED
        BY <2>4, <3>6
  <2>8. CASE ~At("release")
    <3>1. log'.unmoved = log.unmoved \cup {x} /\ log'.moved = log.moved
        BY <1>a, <2>1, <2>8 DEF Log
    <3>2. ~AtSite
        BY <1>13, <2>8 DEF Release, At, AtSite
    <3>3. rack'["mu"] = Cardinality(log'.moved) + (IF AtSite' THEN 1 ELSE 0)
        BY <2>2, <2>3, <3>1, <3>2 DEF LineInd, LineMovesOnce, AtSite
    <3>4. log'.moved \cap (log'.unmoved \cup log'.skipped) = {}
        BY <2>5, <2>6, <3>1 DEF LineInd, LineMovesOnce, Handled
    <3>5. LineMovesOnce'
        BY <2>2, <2>3, <2>5, <3>3, <3>4
        DEF LineInd, LineMovesOnce, CompletedLines, AtSite
    <3>6. QED
        BY <2>4, <3>5
  <2>9. QED
      BY <2>7, <2>8
<1>14. ASSUME NEW m \in Transfers, Remove(m) PROVE TodoInv' /\ LineMovesOnce'
  <2> DEFINE order == [mtr[m] EXCEPT !.status = "deleted"]
  <2>1. mtr' = [mtr EXCEPT ![m] = order] /\ job' = job /\ log' = log /\ rack' = rack
      BY <1>14 DEF Remove
  <2>2. order.status = "deleted" /\ order.phase = mtr[m].phase
      BY <1>a DEF Transfer
  <2> HIDE DEF order
  <2>3. \A l \in Lines : order.phase[l] = "completed" <=> mtr[m].phase[l] = "completed"
      BY <2>2
  <2>4. order.status # "none"
      BY <2>2
  <2>5. QED
      BY <2>1, <2>3, <2>4, OrderFrame
<1>15. CASE Abort
  <2>1. PICK laid \in SUBSET job.todo :
          /\ Cardinality(laid) = IF AtSite THEN 1 ELSE 0
          /\ log'.moved = log.moved \cup laid /\ log'.unmoved = log.unmoved
          /\ log'.skipped = log.skipped \cup (job.todo \ laid)
      BY <1>15, <1>a DEF Abort, Log, AtSite
  <2>2. mtr' = mtr /\ rack' = rack /\ job'.at = "idle" /\ job'.todo = {} /\ ~AtSite'
      BY <1>15, <1>c DEF Abort, AtSite
  <2>3. TodoInv'
      BY <2>2 DEF LineInd, TodoInv, Moving
  <2>4. log.moved \in LineSets /\ laid \in LineSets /\ log.moved \cap laid = {}
      BY <1>a DEF LineInd, LineMovesOnce, Handled, Log, Job, LineSets
  <2>5. Cardinality(log'.moved) = Cardinality(log.moved) + Cardinality(laid)
    <3>1. IsFiniteSet(log.moved) /\ IsFiniteSet(laid)
        BY <2>4, FiniteLines
    <3>2. Cardinality({}) = 0 /\ Cardinality(log.moved) \in Nat /\ Cardinality(laid) \in Nat
        BY <2>4, FiniteLines, FS_EmptySet
    <3>3. Cardinality(log.moved \cup laid)
             = Cardinality(log.moved) + Cardinality(laid) - Cardinality(log.moved \cap laid)
        BY <3>1, FS_Union
    <3>4. Cardinality(log.moved \cap laid) = 0
        BY <2>4, <3>2
    <3>5. log'.moved = log.moved \cup laid
        BY <2>1
    <3>6. QED
        BY <3>2, <3>3, <3>4, <3>5
  <2>6. rack'["mu"] = Cardinality(log'.moved)
      BY <2>1, <2>2, <2>5 DEF LineInd, LineMovesOnce, AtSite
  <2>7. Handled' = Handled \cup job.todo
      BY <2>1 DEF Handled
  <2>8. log'.moved \cap (log'.unmoved \cup log'.skipped) = {}
      BY <2>1 DEF LineInd, LineMovesOnce, Handled
  <2>9. Cardinality(log'.moved) \in Nat
      BY <1>a, <2>4, <2>5, FiniteLines DEF Log
  <2>10. LineMovesOnce'
      BY <2>2, <2>6, <2>7, <2>8, <2>9 DEF LineInd, LineMovesOnce, CompletedLines, AtSite
  <2>11. QED
      BY <2>3, <2>10
<1>16. CASE UNCHANGED vars
    BY <1>16, LineFrame DEF vars, AtSite
<1>17. QED
    BY <1>1, <1>2, <1>3, <1>4, <1>5, <1>6, <1>7, <1>8, <1>9, <1>10, <1>11, <1>12, <1>13,
       <1>14, <1>15, <1>16, <1>18
    DEF Next, Warehouse, Reserving, Updating, Put, Transferring

-----------------------------------------------------------------------------
(* The totals of the inventory row.                                        *)

Unsynced == {"resync", "settle", "mirror", "level"}

LEMMA SyncDomain == DOMAIN SyncThen = Unsynced
BY DEF SyncThen, Unsynced

\* The reserved quantity lags behind only before a sync or amid a transfer,
\* the stock of the warehouse only between a rack and its recount.
ReservedInv ==
    "reserved" \notin log.stale /\ job.at \notin Unsynced \cup Moving => inv.reserved = Promised
StockInv ==
    "stock" \notin log.stale /\ job.at \notin {"taken", "laid"} => inv.wh = InWarehouse(rack)

TotalsInd == TypeInd /\ TodoInv /\ ReservedInv /\ StockInv

\* A step that leaves the quantities and what is stale alone.
LEMMA TotalsFrame ==
    ASSUME TotalsInd, rack' = rack, inv'.wh = inv.wh, inv'.reserved = inv.reserved,
           rbi'.quantity = rbi.quantity, others' = others, log'.stale = log.stale,
           job.at \notin Unsynced \cup Moving
    PROVE  ReservedInv' /\ StockInv'
BY DEF TotalsInd, ReservedInv, StockInv, Promised, InWarehouse, Moving

\* A step of the reservations that a sync is to follow.
LEMMA SyncFollows ==
    ASSUME TotalsInd, rack' = rack, inv' = inv, log' = log,
           job.at \notin {"taken", "laid"}, job'.at \in Unsynced
    PROVE  ReservedInv' /\ StockInv'
BY DEF TotalsInd, ReservedInv, StockInv, InWarehouse

THEOREM InitTotals == Init => ReservedInv /\ StockInv
BY DEF Init, ReservedInv, StockInv, Promised, InWarehouse, Racks

THEOREM StepTotals == TotalsInd /\ [Next]_vars => ReservedInv' /\ StockInv'
<1> SUFFICES ASSUME TotalsInd, [Next]_vars
             PROVE  ReservedInv' /\ StockInv'
    OBVIOUS
<1>a. /\ log \in Log /\ job \in Job /\ inv \in InventoryRow /\ rbi \in Reservation
      /\ rack \in RackRows
    BY DEF TotalsInd, TypeInd, TypeOK
<1>b. /\ ReservedInv /\ StockInv
      /\ job.at \in Moving <=> job.todo # {}
    BY DEF TotalsInd, TodoInv
<1>c. Idle.at = "idle" /\ \A stage : job' = [job EXCEPT !.at = stage] => job'.at = stage
    BY <1>a DEF Idle, Job
<1>d. ASSUME NEW b, CreateReservation(b), inv' = inv, rack' = rack, log' = log, others' = others,
             job.at \in {"idle", "trigger"}
      PROVE  ReservedInv' /\ StockInv'
  <2>1. CASE rbi' = rbi
      BY <1>d, <2>1, TotalsFrame DEF Unsynced, Moving
  <2>2. CASE job'.at = "settle"
      BY <1>d, <2>2, SyncFollows DEF Unsynced
  <2>3. QED
      BY <1>c, <1>d, <2>1, <2>2 DEF CreateReservation, Go
<1>1. ASSUME NEW r \in {"std", "bin"}, Receive(r) PROVE ReservedInv' /\ StockInv'
  <2>1. inv'.wh = InWarehouse(rack') /\ inv'.reserved = inv.reserved
      BY <1>1, <1>a DEF Receive, Received, Recounted, InventoryRow
  <2>2. ("reserved" \in log'.stale <=> "reserved" \in log.stale) /\ job' = job
        /\ rbi' = rbi /\ others' = others
      BY <1>1, <1>a DEF Receive, Log
  <2>3. ReservedInv'
      BY <1>b, <2>1, <2>2 DEF ReservedInv, Promised
  <2>4. StockInv'
      BY <2>1 DEF StockInv, InWarehouse
  <2>5. QED
      BY <2>3, <2>4
<1>2. CASE OtherBatch
  <2>1. inv'.wh = inv.wh /\ inv'.reserved = rbi.quantity + others'
      BY <1>2, <1>a DEF OtherBatch, InventoryRow
  <2>2. "stock" \in log'.stale <=> "stock" \in log.stale
      BY <1>2, <1>a DEF OtherBatch, Log
  <2>3. ReservedInv'
      BY <1>2, <2>1 DEF OtherBatch, ReservedInv, Promised
  <2>4. StockInv'
      BY <1>2, <1>b, <2>1, <2>2 DEF OtherBatch, StockInv, InWarehouse
  <2>5. QED
      BY <2>3, <2>4
<1>3. CASE Sync
  <2>1. inv'.wh = inv.wh /\ inv'.reserved = Promised
      BY <1>3, <1>a DEF Sync, InventoryRow
  <2>2. "stock" \in log'.stale <=> "stock" \in log.stale
      BY <1>3, <1>a DEF Sync, Log
  <2>3. job.at \in Unsynced
      BY <1>3, SyncDomain DEF Sync
  <2>4. ReservedInv'
      BY <1>3, <2>1 DEF Sync, ReservedInv, Promised
  <2>5. StockInv'
      BY <1>3, <1>b, <2>1, <2>2, <2>3 DEF Sync, StockInv, InWarehouse, Unsynced
  <2>6. QED
      BY <2>4, <2>5
<1>4. CASE Reserve
  <2>1. CASE rbi' = rbi
      BY <1>4, <2>1, TotalsFrame DEF Reserve, Resting, At, Unsynced, Moving
  <2>2. CASE job'.at = "mirror"
      BY <1>4, <2>2, SyncFollows DEF Reserve, Resting, At, Unsynced
  <2>3. QED
      BY <1>4, <1>c, <2>1, <2>2 DEF Reserve, Go
<1>5. CASE Unreserve
  <2>1. CASE rbi.quantity = 0
      BY <1>5, <2>1, TotalsFrame DEF Unreserve, Resting, At, Unsynced, Moving
  <2>2. CASE rbi.quantity # 0
    <3>1. job'.at = "mirror"
        BY <1>5, <1>c, <2>2 DEF Unreserve, Go
    <3>2. QED
        BY <1>5, <3>1, SyncFollows DEF Unreserve, Resting, At, Unsynced
  <2>3. QED
      BY <2>1, <2>2
<1>6. CASE Flags
    BY <1>6, TotalsFrame DEF Flags, At, Unsynced, Moving
<1>7. CASE ShowReserved
  <2>1. CASE NeedsRepair
      BY <1>7, <1>d, <2>1 DEF ShowReserved, Resting, At
  <2>2. CASE ~NeedsRepair
      BY <1>7, <2>2, TotalsFrame DEF ShowReserved, Resting, At, Unsynced, Moving
  <2>3. QED
      BY <2>1, <2>2
<1>8. CASE Trigger
  <2>1. CASE rbi' = rbi
      BY <1>8, <2>1, TotalsFrame DEF Trigger, At, Unsynced, Moving
  <2>2. CASE CreateReservation(TRUE)
      BY <1>8, <1>d, <2>2 DEF Trigger, At
  <2>3. QED
      BY <1>8, <2>1, <2>2 DEF Trigger
<1>9. ASSUME NEW s, NEW f, NEW c, NEW a, NEW d, Save(s, f, c, a, d)
      PROVE  ReservedInv' /\ StockInv'
    BY <1>9, TotalsFrame DEF Save, Resting, At, Unsynced, Moving
<1>10. CASE Refuse
  <2>1. log'.stale = log.stale
      BY <1>10, <1>a DEF Refuse, Log
  <2>2. QED
      BY <1>10, <2>1, TotalsFrame DEF Refuse, At, Unsynced, Moving
<1>11. CASE Consume
  <2>1. log'.stale = log.stale
      BY <1>11, <1>a DEF Consume, Log
  <2>2. inv'.wh = inv.wh /\ inv'.reserved = inv.reserved
      BY <1>11, <1>a DEF Consume, Dispensed, Returned, InventoryRow
  <2>3. QED
      BY <1>11, <2>1, <2>2, TotalsFrame DEF Consume, At, Unsynced, Moving
<1>12. CASE Adjust
  <2>1. CASE rbi' = rbi
      BY <1>12, <2>1, TotalsFrame DEF Adjust, At, Unsynced, Moving
  <2>2. CASE job'.at = "resync"
      BY <1>12, <2>2, SyncFollows DEF Adjust, At, Unsynced
  <2>3. QED
      BY <1>12, <1>c, <2>1, <2>2 DEF Adjust, Go
<1>13. ASSUME NEW m, NEW items,
              (\E s \in BornHeaders : Order(m, items, s)) \/ Send(m, items) \/ Accept(m, items)
       PROVE  ReservedInv' /\ StockInv'
    BY <1>13, TotalsFrame DEF Order, Send, Accept, Forward, Resting, At, Unsynced, Moving
<1>14. ASSUME NEW m, NEW s, SetHeader(m, s) \/ Remove(m) PROVE ReservedInv' /\ StockInv'
    BY <1>14, TotalsFrame DEF SetHeader, Remove, Resting, At, Unsynced, Moving
<1>15. ASSUME NEW m, NEW items, Complete(m, items) PROVE ReservedInv' /\ StockInv'
    BY <1>15, TotalsFrame DEF Complete, Resting, At, Unsynced, Moving
<1>16. CASE Take \/ Lay
  <2>1. job'.at \in {"taken", "laid"} \/ (Take /\ job'.at = "spare" /\ rack' = rack /\ log' = log)
      BY <1>16, <1>c DEF Take, Lay, Go
  <2>2. ASSUME Take, job'.at = "spare", rack' = rack, log' = log PROVE ReservedInv' /\ StockInv'
      BY <1>b, <2>2 DEF Take, At, ReservedInv, StockInv, Moving, InWarehouse
  <2>3. QED
      BY <2>1, <2>2 DEF ReservedInv, StockInv, Moving
<1>17. CASE Recount
  <2>1. inv'.wh = InWarehouse(rack)
      BY <1>17, <1>a DEF Recount, Recounted, InventoryRow
  <2>2. job'.at \in Moving
      BY <1>17, <1>c DEF Recount, Go, Moving
  <2>3. QED
      BY <1>17, <2>1, <2>2 DEF Recount, ReservedInv, StockInv, InWarehouse
<1>18. CASE Release
  <2>1. PICK x \in job.todo :
          /\ log' = IF At("release") THEN [log EXCEPT !.moved = @ \cup {x}]
                                     ELSE [log EXCEPT !.unmoved = @ \cup {x}]
          /\ job' = [job EXCEPT !.todo = @ \ {x},
                                !.at = IF job.todo = {x} THEN "level" ELSE "take"]
      BY <1>18 DEF Release
  <2>2. log'.stale = log.stale /\ job'.at \in Unsynced \cup Moving
      BY <2>1, <1>a DEF Log, Job, Unsynced, Moving
  <2>3. QED
      BY <1>18, <1>b, <2>2 DEF Release, At, ReservedInv, StockInv, InWarehouse
<1>19. CASE Connect
    BY <1>19, TotalsFrame DEF Connect, At, Unsynced, Moving
<1>20. CASE Abort
  <2>1. log'.stale = log.stale \cup (IF job.at \in {"taken", "laid"} THEN {"stock"} ELSE {})
                       \cup (IF job.at \in DOMAIN SyncThen \/ job.todo # {}
                                THEN {"reserved"} ELSE {})
      BY <1>20, <1>a DEF Abort, Log
  <2>2. "reserved" \notin log'.stale => "reserved" \notin log.stale
                                          /\ job.at \notin Unsynced \cup Moving
      BY <1>b, <2>1, SyncDomain
  <2>3. "stock" \notin log'.stale => "stock" \notin log.stale /\ job.at \notin {"taken", "laid"}
      BY <2>1
  <2>4. QED
      BY <1>20, <1>b, <2>2, <2>3 DEF Abort, ReservedInv, StockInv, Promised, InWarehouse
<1>21. CASE UNCHANGED vars
    BY <1>21, <1>b DEF vars, ReservedInv, StockInv, Promised, InWarehouse
<1>22. QED
    BY <1>1, <1>2, <1>3, <1>4, <1>5, <1>6, <1>7, <1>8, <1>9, <1>10, <1>11, <1>12, <1>13,
       <1>14, <1>15, <1>16, <1>17, <1>18, <1>19, <1>20, <1>21
    DEF Next, Warehouse, Reserving, Updating, Put, Transferring

-----------------------------------------------------------------------------
(* What reservations and connections rest on.                              *)

\* A reservation that is made is covered by stock no other batch has.
LEMMA StepExclusive ==
    ASSUME TypeInd, [Next]_vars, ~At("adjust"), Promised' > Promised
    PROVE  Promised' <= inv.sih
<1>a. /\ inv \in InventoryRow /\ rbi \in Reservation /\ inv.sih \in Nat /\ rbi.quantity \in Nat
      /\ others \in Nat /\ Required \in Nat /\ Required > 0
    BY RequiredAssumption DEF TypeInd, TypeOK, InventoryRow, Reservation
<1>b. ASSUME rbi'.quantity = rbi.quantity, others' = others PROVE FALSE
    BY <1>a, <1>b DEF Promised
<1>c. ASSUME rbi' = [row |-> TRUE, quantity |-> Required], FreeForBatch, others' = others
      PROVE  Promised' <= inv.sih
  <2>1. rbi'.quantity = Required
      BY <1>c
  <2>2. Required <= IF inv.sih > others THEN inv.sih - others ELSE 0
      BY <1>c DEF FreeForBatch, Less
  <2>3. QED
      BY <1>a, <1>c, <2>1, <2>2 DEF Promised
<1>1. CASE OtherBatch
    BY <1>1, <1>a DEF OtherBatch, Promised
<1>2. CASE Reserve
    BY <1>2, <1>b, <1>c DEF Reserve
<1>3. CASE ShowReserved \/ Trigger
    BY <1>3, <1>b, <1>c DEF ShowReserved, Trigger, CreateReservation
<1>4. CASE Unreserve
  <2>1. rbi'.quantity = 0 /\ others' = others
      BY <1>4 DEF Unreserve
  <2>2. QED
      BY <1>a, <2>1 DEF Promised
<1>5. CASE Release
  <2>1. rbi'.quantity = Less(rbi.quantity, 1) /\ others' = others
      BY <1>5, <1>a DEF Release, Reservation
  <2>2. QED
      BY <1>a, <2>1 DEF Promised, Less
<1>6. CASE Adjust
    BY <1>6 DEF Adjust
<1>7. CASE Put
    BY <1>7, <1>b DEF Put, Save
<1>8. CASE (\E r \in {"std", "bin"} : Receive(r)) \/ Flags \/ Sync \/ Refuse \/ Consume
    BY <1>8, <1>b DEF Receive, Flags, Sync, Refuse, Consume
<1>9. CASE Take \/ Lay \/ Recount \/ Connect \/ Abort \/ UNCHANGED vars
    BY <1>9, <1>b DEF Take, Lay, Recount, Connect, Abort, vars
<1>10. ASSUME NEW m, NEW items,
              \/ \E s \in BornHeaders : Order(m, items, s)
              \/ Send(m, items) \/ Accept(m, items) \/ Complete(m, items)
       PROVE  FALSE
    BY <1>10, <1>b DEF Order, Send, Accept, Forward, Complete
<1>11. ASSUME NEW m, NEW s, SetHeader(m, s) \/ Remove(m) PROVE FALSE
    BY <1>11, <1>b DEF SetHeader, Remove
<1>12. QED
    BY <1>1, <1>2, <1>3, <1>4, <1>5, <1>6, <1>7, <1>8, <1>9, <1>10, <1>11
    DEF Next, Warehouse, Reserving, Updating, Transferring

\* The lines that are counted have all been completed, unless their order was
\* created as completed.
LEMMA StepConnected ==
    ASSUME LineInd, [Next]_vars, At("connect"), batch' # batch
    PROVE  Cardinality(Handled \cup Unearned) >= batch.asked
<1> DEFINE counted == {x \in Transfers \X Lines : Visible(x[1]) /\ x[2] \in Counted(x[1])}
<1>1. Connect
    BY DEF Next, Warehouse, Receive, OtherBatch, Reserving, Reserve, Unreserve, Flags, ShowReserved,
           Sync, SyncThen, Updating, Put, Save, Refuse, Consume, Adjust, Trigger, Transferring,
           Order, Send, Accept, Forward, Complete, SetHeader, Remove, Take, Lay, Recount, Release,
           Abort, vars, Resting, At
<1>2. log \in Log /\ batch.asked \in Nat
    BY RequiredAssumption DEF LineInd, TypeInd, TypeOK, Batch
<1>3. counted \in LineSets /\ Handled \cup Unearned \in LineSets
    BY <1>2 DEF LineSets, Handled, Unearned, Log
<1>4. counted \subseteq Handled \cup Unearned
  <2>1. job.todo = {}
      BY DEF LineInd, TodoInv, At, Moving
  <2>2. ASSUME NEW x \in counted PROVE x \in Handled \cup Unearned
    <3>1. /\ x = <<x[1], x[2]>> /\ x[1] \in Transfers /\ x[2] \in Lines
          /\ \/ x[2] \in CompletedLines(x[1])
             \/ mtr[x[1]].status = "Completed" /\ x[2] \in OpenLines(x[1])
        BY <2>2 DEF Counted
    <3>2. CASE x[2] \in CompletedLines(x[1])
        BY <2>1, <3>1, <3>2 DEF LineInd, LineMovesOnce
    <3>3. CASE mtr[x[1]].status = "Completed" /\ x[2] \in OpenLines(x[1])
        BY <2>2, <3>3 DEF Unearned
    <3>4. QED
        BY <3>1, <3>2, <3>3
  <2>3. QED
      BY <2>2
<1>5. Cardinality(counted) <= Cardinality(Handled \cup Unearned)
    BY <1>3, <1>4, FiniteLines, FS_Subset
<1>6. Cardinality(counted) \in Nat /\ Cardinality(Handled \cup Unearned) \in Nat
    BY <1>3, FiniteLines
<1>7. ~(Cardinality(counted) < batch.asked)
    BY <1>1 DEF Connect, MovedInAll
<1> HIDE DEF counted
<1>8. QED
    BY <1>2, <1>5, <1>6, <1>7

-----------------------------------------------------------------------------
(* Theorems of the specification.                                          *)

\* Rows and request keep their types; no quantity becomes negative, whatever
\* is received, reserved, transferred, dispensed and corrected.
THEOREM TypeCorrect == Spec => []TypeOK
<1>1. TypeInd => TypeOK
    BY DEF TypeInd
<1>2. QED
    BY <1>1, InitTypes, StepTypes, PTL DEF Spec

\* Transfers, dispensing and reservations neither make stock nor lose it.
THEOREM StockConserved == Spec => []Conserved
BY InitTypes, StepTypes, InitConserved, StepConserved, PTL DEF Spec

\* What is stored as dispensed has been taken from stock, once.
THEOREM DispensedTaken == Spec => []DispensedIsConsumed
BY InitTypes, StepTypes, InitDispensed, StepDispensed, PTL DEF Spec

\* The header of a transfer order agrees with its lines, once one was sent.
THEOREM HeadersAgree == Spec => []HeaderAgrees
BY InitTypes, StepTypes, InitHeaders, StepHeaders, PTL DEF Spec

LEMMA LineCorrect == Spec => []LineInd
<1>1. Init => LineInd
    BY InitTypes, InitLines DEF LineInd
<1>2. LineInd /\ [Next]_vars => LineInd'
    BY StepTypes, StepLines DEF LineInd
<1>3. QED
    BY <1>1, <1>2, PTL DEF Spec

\* The stock of a completed line is moved once, or is known not to have been.
THEOREM LinesMoveOnce == Spec => []LineMovesOnce
<1>1. LineInd => LineMovesOnce
    BY DEF LineInd
<1>2. QED
    BY <1>1, LineCorrect, PTL

\* When no request is under way, the totals agree with what they are made from.
THEOREM TotalsCorrect == Spec => []TotalsAgree
<1>1. LineInd => TypeInd /\ TodoInv
    BY DEF LineInd
<1>2. Init => ReservedInv /\ StockInv
    BY InitTotals
<1>3. LineInd /\ ReservedInv /\ StockInv /\ [Next]_vars => ReservedInv' /\ StockInv'
    BY <1>1, StepTotals DEF TotalsInd
<1>4. ReservedInv /\ StockInv => TotalsAgree
    BY DEF ReservedInv, StockInv, TotalsAgree, Resting, At, Unsynced, Moving
<1>5. QED
    BY <1>2, <1>3, <1>4, LineCorrect, PTL DEF Spec

\* Whichever way a reservation is made, stock no other batch has covers it.
THEOREM ReservesExclusively == Spec => ExclusiveReserve
<1>1. TypeInd /\ [Next]_vars => [~At("adjust") /\ Promised' > Promised => Promised' <= inv.sih]_vars
    BY StepExclusive
<1>2. QED
    BY <1>1, InitTypes, StepTypes, PTL DEF Spec, ExclusiveReserve

\* Transfers unlock dispensing only when lines worth all that the list asks for
\* were completed, or stand on orders created as completed.
THEOREM ConnectionEarned == Spec => ConnectedIsEarned
<1>1. LineInd /\ [Next]_vars
        => [At("connect") /\ batch' # batch
              => Cardinality(Handled \cup Unearned) >= batch.asked]_vars
    BY StepConnected
<1>2. QED
    BY <1>1, LineCorrect, PTL DEF Spec, ConnectedIsEarned
=============================================================================
