--------------------------- MODULE BatchMaterials ---------------------------
(***************************************************************************)
(* One material of one production batch, from the goods receipt to the     *)
(* dispensing at the manufacturing site: reservation (batchLineReserve.js, *)
(* production/controller.js), transfer orders from the warehouse to the    *)
(* site (MTR, mrn/controller.js), and PUT /batches/:id with its            *)
(* consumption, its reservation trigger and its repair.                    *)
(*                                                                         *)
(* No handler uses a transaction: each stores its own row first and then   *)
(* books stock and reservations one write after the other.  The model      *)
(* serves one request at a time; the process may stop between two writes.  *)
(*                                                                         *)
(* updateBatch keeps "the row as it was" as row.get({ plain: true }),      *)
(* which in Sequelize is the row itself: after applyBatchBody it holds the *)
(* new values.  Of the comparisons with it only those count that use       *)
(* copies made before: the BMR status and the dispensed quantities.        *)
(***************************************************************************)
EXTENDS RackStock, Integers, FiniteSets

CONSTANTS
    Transfers,    \* transfer orders the batch may ever have
    Lines,        \* line items of a transfer order, one unit of the material each
    SentStatuses,  \* the statuses PUT /batches/:id is sent with
    SentConnected, \* the values of rm_connected it is sent with
    AskedFor,     \* the quantities dispensing_rm, the batch's own list, is written with
    BornHeaders,  \* the statuses POST /mrn creates a transfer order with
    Required,     \* quantity of the material in the bill of materials
    MaxOrdered,   \* bound on the number of lines of all transfer orders
    MaxStock,     \* bound on the quantity received
    MaxAstray,    \* bound on the quantity stored as dispensed but never taken
    MaxTrouble    \* bound on the requests cut off, the quantity reserved for other
                  \* batches and the quantity on other racks, together

Statuses == {"batch_confirmed", "rm_reserved", "scheduled", "rm_connected", "dispensing"}

Headers  == {"Pending", "Picked", "In Transfer", "In Transit", "Received at MU", "Completed"}

ASSUME LinesAssumption    == IsFiniteSet(Transfers) /\ IsFiniteSet(Lines)
ASSUME RequiredAssumption == Required \in Nat \ {0}
ASSUME SentAssumption     == /\ SentStatuses \subseteq Statuses /\ SentConnected \subseteq BOOLEAN
                             /\ AskedFor \subseteq 0..Required
ASSUME BornAssumption     == BornHeaders \subseteq Headers
ASSUME BoundsAssumption   == {MaxOrdered, MaxStock, MaxAstray, MaxTrouble} \subseteq Nat

-----------------------------------------------------------------------------
VARIABLES
    rack,      \* warehouse_rack_items of the material
    inv,       \* its warehouse_inventory row
    rbi,       \* its reserved_batch_items row of this batch
    others,    \* sum of its reserved_batch_items rows of other batches
    batch,     \* the production_batches row
    mtr,       \* the transfer orders of the batch
    log,       \* history: what has been received, moved and dispensed
    job        \* the request being served

vars == <<rack, inv, rbi, others, batch, mtr, log, job>>

Phases   == {"absent", "not_initiated", "in_transit", "received_at_mu", "completed"}

Reservation == [row: BOOLEAN, quantity: Nat]
Batch       == [status: Statuses, reserved: BOOLEAN, connected: BOOLEAN,
                asked: 0..Required, dispensed: 0..Required]
Transfer    == [status: Headers \cup {"none", "deleted"}, phase: [Lines -> Phases]]

\* received: booked by goods receipts; phantom: put on a rack although it came
\* neither from a receipt nor off another rack; dropped: taken off a rack by a
\* transfer and never put on the other; moved, unmoved, skipped: completed lines
\* whose stock is at the site, was left where it was as no rack was found, or
\* was not moved (or half moved) when the process stopped; consumed, astray: of
\* what is stored as dispensed, what was taken from stock and what was not;
\* stale: the totals that a stop has left behind; stops: requests cut off.
LineSets == SUBSET (Transfers \X Lines)
Log == [received: Nat, phantom: Nat, dropped: Nat,
        moved: LineSets, unmoved: LineSets, skipped: LineSets,
        consumed: Int, astray: Int, stale: SUBSET {"stock", "reserved"}, stops: Nat]

\* PUT: consume, adjust, resync, trigger, settle.  Reservation: mirror, flags.
\* Completing lines: take, taken, lay, laid, release (or spare, for a line that
\* was not moved), level, connect.
Stages == {"idle", "consume", "adjust", "resync", "trigger", "settle", "mirror", "flags",
           "take", "taken", "lay", "laid", "release", "spare", "level", "connect"}
Job    == [at: Stages, todo: LineSets, delta: Int, fresh: BOOLEAN]
Idle   == [at |-> "idle", todo |-> {}, delta |-> 0, fresh |-> FALSE]

Init ==
    /\ rack = [r \in Racks |-> 0]
    /\ inv = [wh |-> 0, ml |-> 0, sih |-> 0, reserved |-> 0]
    /\ rbi = [row |-> FALSE, quantity |-> 0]
    /\ others = 0
    /\ \E a \in AskedFor :
          batch = [status |-> "batch_confirmed", reserved |-> FALSE, connected |-> FALSE,
                   asked |-> a, dispensed |-> 0]
    /\ mtr = [m \in Transfers |-> [status |-> "none", phase |-> [l \in Lines |-> "absent"]]]
    /\ log = [received |-> 0, phantom |-> 0, dropped |-> 0, moved |-> {}, unmoved |-> {},
              skipped |-> {}, consumed |-> 0, astray |-> 0, stale |-> {}, stops |-> 0]
    /\ job = Idle

At(stage) == job.at = stage
Resting   == At("idle")
Go(stage) == job' = IF stage = "idle" THEN Idle ELSE [job EXCEPT !.at = stage]

Promised == rbi.quantity + others
Calm     == log.stops + others + rack["bin"] < MaxTrouble

-----------------------------------------------------------------------------
(* Goods receipts and other batches.                                       *)

\* A goods receipt is completed: its quantity goes to the rack it names.
\* The whole booking is one transaction.
Receive(r) ==
    /\ Resting /\ log.received < MaxStock
    /\ r = "bin" => Calm
    /\ rack' = Added(rack, r, 1 + Orphaned(inv, rack))
    /\ inv' = Received(inv, rack')
    /\ log' = [log EXCEPT !.received = @ + 1, !.phantom = @ + Orphaned(inv, rack),
                          !.stale = @ \ {"stock"}]
    /\ UNCHANGED <<rbi, others, batch, mtr, job>>

\* Another batch reserves what is free, or gives a reservation back.
OtherBatch ==
    /\ Resting
    /\ \/ Calm /\ Promised < inv.sih /\ others' = others + 1
       \/ others > 0 /\ others' = others - 1
    /\ inv' = [inv EXCEPT !.reserved = rbi.quantity + others']
    /\ log' = [log EXCEPT !.stale = @ \ {"reserved"}]
    /\ UNCHANGED <<rack, rbi, batch, mtr, job>>

-----------------------------------------------------------------------------
(* Reservations of the batch.                                              *)

\* Mutated: the reservations of other batches are not subtracted.
FreeInStock == Required <= inv.sih

\* assertExclusiveBatchReserveAvailability.
FreeForBatch == Required <= Less(inv.sih, others)

FullyReserved == rbi.quantity >= Required
MarkedReserved(b) == b.reserved \/ b.status = "rm_reserved"

\* syncWarehouseReserved, called at one stage of a request and leading to another.
SyncThen == [resync |-> "trigger", settle |-> "idle", mirror |-> "flags", level |-> "connect"]

\* Mutated: the reservations of other batches are forgotten.
SyncOwn ==
    /\ job.at \in DOMAIN SyncThen
    /\ inv' = [inv EXCEPT !.reserved = rbi.quantity]
    /\ Go(SyncThen[job.at])
    /\ UNCHANGED <<rack, rbi, others, batch, mtr, log>>

Sync ==
    /\ job.at \in DOMAIN SyncThen
    /\ inv' = [inv EXCEPT !.reserved = Promised]
    /\ log' = [log EXCEPT !.stale = @ \ {"reserved"}]
    /\ Go(SyncThen[job.at])
    /\ UNCHANGED <<rack, rbi, others, batch, mtr>>

Reserve ==
    /\ Resting /\ FreeForBatch
    /\ IF rbi.row /\ FullyReserved
          THEN Go("flags") /\ UNCHANGED rbi
          ELSE Go("mirror") /\ rbi' = [row |-> TRUE, quantity |-> Required]
    /\ UNCHANGED <<rack, inv, others, batch, mtr, log>>

Visible(m)  == mtr[m].status \notin {"none", "deleted"}
OnTransfer  == \E m \in Transfers : Visible(m)

Unreserve ==
    /\ Resting /\ rbi.row
    /\ ~batch.connected /\ batch.dispensed = 0 /\ ~OnTransfer
    /\ rbi' = [row |-> FALSE, quantity |-> 0]
    /\ Go(IF rbi.quantity = 0 THEN "flags" ELSE "mirror")
    /\ UNCHANGED <<rack, inv, others, batch, mtr, log>>

\* syncBatchReserveFlags.
Flags ==
    /\ At("flags")
    /\ batch' = IF batch.status \in {"rm_connected", "dispensing"} THEN batch ELSE
          [batch EXCEPT !.reserved = FullyReserved,
                        !.status = CASE FullyReserved /\ @ = "batch_confirmed" -> "rm_reserved"
                                     [] ~FullyReserved /\ @ = "rm_reserved" /\ ~batch.connected
                                           -> "batch_confirmed"
                                     [] OTHER -> @]
    /\ Go("idle")
    /\ UNCHANGED <<rack, inv, rbi, others, mtr, log>>

NeedsRepair == MarkedReserved(batch) /\ ~batch.connected /\ ~rbi.row

\* applyRmReservedToInventory for a batch without a reservation, or its refusal.
CreateReservation(refused) ==
    \/ FreeForBatch /\ rbi' = [row |-> TRUE, quantity |-> Required] /\ Go("settle")
    \/ ~FreeForBatch /\ refused /\ Go("idle") /\ UNCHANGED rbi

\* GET /batches/:id/mtr-reserved repairs a missing reservation, or syncs.
ShowReserved ==
    /\ Resting
    /\ IF NeedsRepair THEN CreateReservation(FALSE)
                      ELSE rbi.quantity > 0 /\ Go("settle") /\ UNCHANGED rbi
    /\ UNCHANGED <<rack, inv, others, batch, mtr, log>>

-----------------------------------------------------------------------------
(* PUT /batches/:id: updateBatch.                                          *)

CompletedLines(m) == {l \in Lines : mtr[m].phase[l] = "completed"}
OpenLines(m)      == {l \in Lines : mtr[m].phase[l] \notin {"absent", "completed"}}

\* Lines of orders whose header is Completed, however far the lines are.
OnCompletedTransfers ==
    Cardinality({x \in Transfers \X Lines :
                    mtr[x[1]].status = "Completed" /\ mtr[x[1]].phase[x[2]] # "absent"})

\* Mutated: the quantities before are read from the row that has been changed.
ChangeSeenByRow(d) == 0

\* The dispensed quantities are compared with a copy made before the change.
ChangeSeen(d) == d - batch.dispensed

\* The request may carry a status, the two flags, and the list with what it
\* asks for and the dispensed quantity.
\* reconcileBmrStatusPreventRewind compares the row with itself.
Save(s, f, c, a, d) ==
    /\ Resting
    /\ ChangeSeen(d) <= inv.ml
    /\ batch' = [batch EXCEPT !.status = s, !.reserved = f, !.connected = c,
                        !.asked = a, !.dispensed = d]
    /\ job' = [Idle EXCEPT !.at = "consume", !.delta = ChangeSeen(d),
                             !.fresh = batch.status # "rm_reserved" /\ s = "rm_reserved"]
    /\ UNCHANGED <<rack, inv, rbi, others, mtr, log>>

\* Once something has been transferred, no more than that may be dispensed.
\* The dispensed quantity is already stored when this is found out.
OverTransferred ==
    job.delta > 0 /\ OnCompletedTransfers > 0 /\ batch.dispensed > OnCompletedTransfers

Astray(n) == log.astray + n \in -MaxAstray .. MaxAstray

Refuse ==
    /\ At("consume") /\ OverTransferred /\ Astray(job.delta)
    /\ log' = [log EXCEPT !.astray = @ + job.delta]
    /\ Go("idle")
    /\ UNCHANGED <<rack, inv, rbi, others, batch, mtr>>

Consume ==
    /\ At("consume") /\ ~OverTransferred
    /\ inv' = IF job.delta > 0 THEN Dispensed(inv, job.delta) ELSE Returned(inv, -job.delta)
    /\ log' = [log EXCEPT !.consumed = @ + job.delta]
    /\ Go(IF job.delta = 0 THEN "trigger" ELSE "adjust")
    /\ UNCHANGED <<rack, rbi, others, batch, mtr>>

\* Mutated: the reservation may be overdrawn.
AfterOverdraft == rbi.quantity - job.delta

\* adjustProductionReservedAfterDispenseDelta.
AfterDispensing ==
    IF job.delta > 0 THEN Less(rbi.quantity, job.delta) ELSE rbi.quantity - job.delta

Adjust ==
    /\ At("adjust")
    /\ IF rbi.row /\ AfterDispensing # rbi.quantity
          THEN rbi' = [rbi EXCEPT !.quantity = AfterDispensing] /\ Go("resync")
          ELSE Go("trigger") /\ UNCHANGED rbi
    /\ UNCHANGED <<rack, inv, others, batch, mtr, log>>

\* The status has become rm_reserved, or the batch looks reserved and is not.
Trigger ==
    /\ At("trigger")
    /\ CASE job.fresh /\ rbi.row                  -> Go("settle") /\ UNCHANGED rbi
         [] ~rbi.row /\ (job.fresh \/ NeedsRepair) -> CreateReservation(TRUE)
         [] OTHER                                       -> Go("idle") /\ UNCHANGED rbi
    /\ UNCHANGED <<rack, inv, others, batch, mtr, log>>

-----------------------------------------------------------------------------
(* Transfer orders.                                                        *)

\* Mutated: the line that is furthest decides.
AggregateFurthest(phase, header) ==
    LET Some(p) == \E l \in Lines : phase[l] = p
    IN  CASE Some("completed") -> "Completed"
          [] ~Some("completed") /\ Some("received_at_mu") -> "Received at MU"
          [] ~Some("completed") /\ ~Some("received_at_mu") /\ Some("in_transit") -> "In Transit"
          [] OTHER -> header

\* recomputeOutboundMtrAggregateStatus: the lines not completed decide.
Aggregate(phase, header) ==
    LET Some(p) == \E l \in Lines : phase[l] = p
    IN  CASE Some("received_at_mu")  -> "Received at MU"
          [] ~Some("received_at_mu") /\ Some("in_transit") -> "In Transit"
          [] ~Some("received_at_mu") /\ ~Some("in_transit") /\ Some("not_initiated")
                -> IF header = "Picked" THEN "Picked" ELSE "Pending"
          [] OTHER -> "Completed"

\* outboundMtrStatusTransitionError.
AllowedMoves ==
    {<<"Pending", "Picked">>, <<"Pending", "In Transit">>, <<"Pending", "In Transfer">>,
     <<"Picked", "In Transit">>, <<"Picked", "In Transfer">>, <<"In Transfer", "In Transit">>,
     <<"In Transit", "Received at MU">>, <<"Received at MU", "Completed">>}

Allowed(from, to) == from = to \/ <<from, to>> \in AllowedMoves

\* What the order may take: what is reserved for the batch or, if nothing is,
\* whatever is reserved at all.
TransferPool == Least(IF rbi.quantity > 0 THEN rbi.quantity ELSE inv.reserved, inv.wh)

Ordered == Cardinality({x \in Transfers \X Lines : mtr[x[1]].phase[x[2]] # "absent"})

\* The header is stored as the request names it, over lines not initiated.
Order(m, items, s) ==
    /\ Resting /\ mtr[m].status = "none"
    /\ Ordered + Cardinality(items) <= MaxOrdered
    /\ \A n \in Transfers : Visible(n) => mtr[n].status = "Completed"
    /\ items # {} /\ Cardinality(items) <= TransferPool
    /\ mtr' = [mtr EXCEPT ![m] = [status |-> s,
                                  phase |-> [l \in Lines |-> IF l \in items THEN "not_initiated"
                                                                            ELSE "absent"]]]
    /\ UNCHANGED <<rack, inv, rbi, others, batch, log, job>>

\* A line of the order that a status in the request would move on.
Moves(m, s) == \E l \in Lines :
    <<s, mtr[m].phase[l]>> \in {<<"In Transit", "not_initiated">>,
                                <<"Received at MU", "in_transit">>}

\* PUT /mrn/:id with a status that moves no line: picking, handing over to
\* transport, and the later ones where the header is ahead of the lines.
SetHeader(m, s) ==
    /\ Resting /\ Visible(m)
    /\ s # "Completed" /\ ~Moves(m, s) /\ Allowed(mtr[m].status, s)
    /\ mtr' = [mtr EXCEPT ![m].status = s]
    /\ UNCHANGED <<rack, inv, rbi, others, batch, log, job>>

\* The lines after a step, and the header that follows from them.
Stepped(m, items, p) ==
    LET phase == [l \in Lines |-> IF l \in items THEN p ELSE mtr[m].phase[l]]
    IN  [status |-> Aggregate(phase, mtr[m].status), phase |-> phase]

\* Mutated: any line of the order will do.
AreOrdered(m, items, p) == items # {} /\ \A l \in items : mtr[m].phase[l] # "absent"

Are(m, items, p) == items # {} /\ \A l \in items : mtr[m].phase[l] = p

\* Lines are sent, or accepted at the site.
Forward(m, items, from, to) ==
    /\ Resting /\ Visible(m)
    /\ Are(m, items, from)
    /\ Allowed(mtr[m].status, Stepped(m, items, to).status)
    /\ mtr' = [mtr EXCEPT ![m] = Stepped(m, items, to)]
    /\ UNCHANGED <<rack, inv, rbi, others, batch, log, job>>

Send(m, items)   == Forward(m, items, "not_initiated", "in_transit")
Accept(m, items) == Forward(m, items, "in_transit", "received_at_mu")

\* Received lines are completed: the order is stored, then their stock is moved.
Complete(m, items) ==
    /\ Resting /\ Visible(m)
    /\ Are(m, items, "received_at_mu")
    /\ mtr' = [mtr EXCEPT ![m] = Stepped(m, items, "completed")]
    /\ job' = [Idle EXCEPT !.at = "take", !.todo = {m} \X items]
    /\ UNCHANGED <<rack, inv, rbi, others, batch, log>>

\* applyMrnCompletionToInventory: off the default rack of the warehouse ...
\* Without a default warehouse rack, or a zone at the site, the stock stays
\* where it is, and only the reservation is lowered.
Take ==
    /\ At("take")
    /\ \/ /\ rack' = Taken(rack, "std", 1)
          /\ log' = [log EXCEPT !.phantom = @ + 1 - Least(rack["std"], 1)]
          /\ Go("taken")
       \/ Go("spare") /\ UNCHANGED <<rack, log>>
    /\ UNCHANGED <<inv, rbi, others, batch, mtr>>

\* ... and onto the rack of the site; the totals follow each of the two.
Lay ==
    /\ At("lay")
    /\ rack' = Added(rack, "mu", 1)
    /\ Go("laid")
    /\ UNCHANGED <<inv, rbi, others, batch, mtr, log>>

Recount ==
    /\ \/ At("taken") /\ Go("lay")
       \/ At("laid") /\ Go("release")
    /\ inv' = Recounted(inv, rack)
    /\ log' = [log EXCEPT !.stale = @ \ {"stock"}]
    /\ UNCHANGED <<rack, rbi, others, batch, mtr>>

\* reduceReservedBatchAfterOutboundMtr, and on to the next line.
Release ==
    /\ At("release") \/ At("spare")
    /\ rbi' = [rbi EXCEPT !.quantity = Less(@, 1)]
    /\ \E x \in job.todo :
          /\ log' = IF At("release") THEN [log EXCEPT !.moved = @ \cup {x}]
                                     ELSE [log EXCEPT !.unmoved = @ \cup {x}]
          /\ job' = [job EXCEPT !.todo = @ \ {x},
                                !.at = IF job.todo = {x} THEN "level" ELSE "take"]
    /\ UNCHANGED <<rack, inv, others, batch, mtr>>

\* applyMtrCompletionToProductionBatch counts the completed lines, and every
\* line of an order whose header is Completed.
Counted(m) == CompletedLines(m)
                \cup (IF mtr[m].status = "Completed" THEN OpenLines(m) ELSE {})
MovedInAll ==
    Cardinality({x \in Transfers \X Lines : Visible(x[1]) /\ x[2] \in Counted(x[1])})
AllCompleted ==
    \A m \in Transfers : Visible(m) /\ OpenLines(m) # {} => mtr[m].status = "Completed"

\* Mutated: an order of the batch is completed, that is enough.
ConnectOnCompleted ==
    /\ At("connect")
    /\ batch' = IF AllCompleted THEN [batch EXCEPT !.connected = TRUE] ELSE batch
    /\ Go("idle")
    /\ UNCHANGED <<rack, inv, rbi, others, mtr, log>>

Connect ==
    /\ At("connect")
    /\ batch' = IF ~AllCompleted \/ MovedInAll < batch.asked THEN batch ELSE
          [batch EXCEPT !.connected = TRUE,
                        !.status = IF @ \in {"rm_reserved", "scheduled", "rm_connected"}
                                     THEN "dispensing" ELSE @]
    /\ Go("idle")
    /\ UNCHANGED <<rack, inv, rbi, others, mtr, log>>

Remove(m) ==
    /\ Resting /\ Visible(m)
    /\ mtr' = [mtr EXCEPT ![m].status = "deleted"]
    /\ UNCHANGED <<rack, inv, rbi, others, batch, log, job>>

-----------------------------------------------------------------------------
\* The process stops, or a query fails, between two writes of a request.  The
\* stock of the line being moved may already be at the site.
Abort ==
    /\ ~Resting /\ Calm
    /\ At("consume") => Astray(job.delta)
    /\ \E laid \in SUBSET job.todo :
         /\ Cardinality(laid) = IF job.at \in {"laid", "release"} THEN 1 ELSE 0
         /\ log' = [log EXCEPT
                 !.stops   = @ + 1,
                 !.astray  = IF At("consume") THEN @ + job.delta ELSE @,
                 !.dropped = IF job.at \in {"taken", "lay"} THEN @ + 1 ELSE @,
                 !.moved   = @ \cup laid,
                 !.skipped = @ \cup (job.todo \ laid),
                 !.stale   = @ \cup (IF job.at \in {"taken", "laid"} THEN {"stock"} ELSE {})
                               \cup (IF job.at \in DOMAIN SyncThen \/ job.todo # {}
                                        THEN {"reserved"} ELSE {})]
    /\ job' = Idle
    /\ UNCHANGED <<rack, inv, rbi, others, batch, mtr>>

Put ==
    \E s \in SentStatuses \cup {batch.status}, c \in SentConnected \cup {batch.connected},
       f \in BOOLEAN, a \in AskedFor, d \in 0..Required : Save(s, f, c, a, d)

Warehouse == \/ \E r \in {"std", "bin"} : Receive(r)
             \/ OtherBatch
Reserving == Reserve \/ Unreserve \/ Flags \/ ShowReserved \/ Sync
Updating  == Put \/ Refuse \/ Consume \/ Adjust \/ Trigger
Transferring ==
    \/ \E m \in Transfers :
          \/ \E items \in SUBSET Lines :
                \/ \E s \in BornHeaders : Order(m, items, s)
                \/ Send(m, items) \/ Accept(m, items) \/ Complete(m, items)
          \/ \E s \in Headers : SetHeader(m, s)
          \/ Remove(m)
    \/ Take \/ Lay \/ Recount \/ Release \/ Connect

Next == Warehouse \/ Reserving \/ Updating \/ Transferring \/ Abort

Spec == Init /\ [][Next]_vars

-----------------------------------------------------------------------------
(* Properties.                                                             *)

\* Every row is one the code can store; quantities never become negative.
TypeOK ==
    /\ rack \in RackRows /\ inv \in InventoryRow
    /\ rbi \in Reservation /\ others \in Nat
    /\ batch \in Batch
    /\ mtr \in [Transfers -> Transfer]
    /\ log \in Log
    /\ job \in Job

\* When no request is under way, the totals of the inventory row agree with
\* the rows they are made from: reserved with the reservations of all batches,
\* the stock of the warehouse with its racks.  A total that a stop between two
\* writes has left behind agrees again after the next sync or recount.
TotalsAgree ==
    Resting => /\ "reserved" \notin log.stale => inv.reserved = Promised
               /\ "stock" \notin log.stale => inv.wh = InWarehouse(rack)

\* The racks hold what was received: transfers, dispensing, and reservations
\* neither make stock nor lose it, except for what the default rack did not
\* hold when an order was completed and what a stop left between two racks.
Conserved ==
    OnRacks(rack) + log.dropped + (IF job.at \in {"taken", "lay"} THEN 1 ELSE 0)
        = log.received + log.phantom

\* Completed lines that have been dealt with.
Handled == log.moved \cup log.unmoved \cup log.skipped

\* The stock of a completed line is moved once, whatever is completed again,
\* removed or interrupted: a line about to be dealt with has not been before, a
\* line is completed only if it is or was dealt with, and the site holds one
\* unit for each line that is said to be there.  The lines that were completed
\* without a move, as no rack was found or the process stopped, are known.
LineMovesOnce ==
    /\ job.todo \cap Handled = {}
    /\ log.moved \cap (log.unmoved \cup log.skipped) = {}
    /\ \A m \in Transfers, l \in Lines :
          l \in CompletedLines(m) <=> <<m, l>> \in job.todo \cup Handled
    /\ rack["mu"] = Cardinality(log.moved)
                      + (IF job.at \in {"laid", "release"} THEN 1 ELSE 0)

\* Once a line of an order has been sent, its header says how far the open
\* lines are, so that the guards on the header and the guards on the lines do
\* not disagree.  Before that the header is what the order was created with.
HeaderAgrees ==
    \A m \in Transfers :
        LET Some(p) == \E l \in Lines : mtr[m].phase[l] = p
            Begun   == \E l \in Lines : mtr[m].phase[l] \notin {"absent", "not_initiated"}
        IN  Visible(m) /\ Begun =>
              /\ mtr[m].status = "Completed" <=>
                    ~Some("not_initiated") /\ ~Some("in_transit") /\ ~Some("received_at_mu")
              /\ mtr[m].status = "Received at MU" <=> Some("received_at_mu")
              /\ mtr[m].status = "In Transit" <=> Some("in_transit") /\ ~Some("received_at_mu")

\* Lines not completed of orders that were created as Completed.
Unearned == {x \in Transfers \X Lines :
                mtr[x[1]].status = "Completed" /\ x[2] \in OpenLines(x[1])}

\* Transfers unlock dispensing (rm_connected, and the status with it) only when
\* lines worth all that the batch's list asks for have been completed, over
\* however many orders they were split, or stand on an order that was created
\* as Completed, which the code counts as moved.  A list that does not name the
\* material asks for nothing.
ConnectedIsEarned ==
    [][At("connect") /\ batch' # batch
         => Cardinality(Handled \cup Unearned) >= batch.asked]_vars

\* What the batch says was dispensed was taken from stock, once, also after
\* corrections, except where a request ended between the two.
DispensedIsConsumed ==
    batch.dispensed = log.consumed + log.astray + (IF At("consume") THEN job.delta ELSE 0)

\* Reserved stock is exclusive: whichever way a reservation comes about (reserved
\* by line, by status, or repaired), it is covered by what is in stock beside
\* the reservations of the other batches.  A correction of what was dispensed
\* gives back what it took.
ExclusiveReserve ==
    [][~At("adjust") /\ Promised' > Promised => Promised' <= inv.sih]_vars

\* BMR_STATUS_RANK, of the statuses modelled.
Rank == [batch_confirmed |-> 1, rm_reserved |-> 2, scheduled |-> 3, rm_connected |-> 4,
         dispensing |-> 5]

\* "Never persist an earlier lifecycle stage" (production/controller.js:2371):
\* a PUT does not store a status that comes before the one stored.
NeverRewinds ==
    [][Resting /\ job'.at = "consume" => Rank[batch'.status] >= Rank[batch.status]]_vars
=============================================================================
