---------------------------- MODULE GoodsReceipt ----------------------------
(***************************************************************************)
(* Goods received notes of one material (src/src/grn) and the stock they   *)
(* book: the note of a purchase order, of a shipment, or of a warehouse    *)
(* transfer; its way to 'GRN Complete'; the racks that receive the goods.  *)
(*                                                                         *)
(* PUT /grn/:id and PUT /grn/:id/stage load the row and write the fields   *)
(* that differ from that copy.  The write of the former, with the stock it *)
(* books, is one PostgreSQL transaction and one step here: of two on one   *)
(* note the second waits for the first, but decides on its copy all the    *)
(* same.  A note leaves 'GRN Complete' as freely as it gets there.         *)
(***************************************************************************)
EXTENDS RackStock, FiniteSets, Integers

CONSTANTS
    Workers,     \* requests that can be in flight at the same time
    Notes,       \* rows of goods_received_notes
    Ordered,     \* quantities ordered on the line of a note (poQty)
    Counts,      \* quantities counted on arrival (rcvdQty)
    Forms,       \* the notes as clients fill them in
    Places,      \* may generateLabels, a transfer, give a place (TRUE), none?
    Opening,     \* opening stock, in the total but on no rack
    MaxMoved,    \* bound on the changes of the transfer's status, three at most
    MaxReopened  \* bound on the times a note leaves 'GRN Complete'; one note does

ASSUME NotesAssumption  == Notes # {} /\ IsFiniteSet(Notes)
ASSUME AmountAssumption ==
    /\ Ordered \subseteq Nat /\ Counts \subseteq Nat
    /\ 0 \in Ordered /\ 0 \in Counts
ASSUME PlacesAssumption == Places \subseteq BOOLEAN
ASSUME BoundsAssumption == Opening \in Nat /\ MaxMoved \in 0..3 /\ MaxReopened \in Nat

\* Nothing here depends on which of 'Pending', 'In Transit', 'Under GRN',
\* 'Delayed' and 'On Hold' an open note is in.
Statuses == {"Under GRN", "GRN Complete"}

\* "other" is 'Pending', 'Under test', 'Quality checked' or 'Rejected'.
Verdicts == {"none", "other", "Passed"}

\* line_items, one column: what the lines that the masters resolve to this
\* material say.  A note without line items, with zero quantities or with an
\* unknown code says 0 and 0.
Line == [po: Ordered, rcvd: Counts]

\* The quality verdict; whether inspector and assignee are named; whether zone
\* and rack are given; labels printed, or a workflow step that says so.
Note == [status: Statuses, qc: Verdicts, staffed: BOOLEAN, placed: BOOLEAN,
         labels: {"none", "step", "printed"}, line: Line]

New == [status |-> "Under GRN", qc |-> "none", staffed |-> FALSE, placed |-> FALSE,
        labels |-> "none", line |-> [po |-> 0, rcvd |-> 0]]

ASSUME FormsAssumption == Forms \subseteq Note

-----------------------------------------------------------------------------
VARIABLES
    note,      \* the rows
    made,      \* the notes that were created
    removed,   \* those of them that were deleted
    bridged,   \* those of them created for the transfer order (mrn_id)
    mrn,       \* how far that transfer is: 0 not sent .. 3 completed
    rack,      \* the racks of the material
    inv,       \* its warehouse_inventory row
    default,   \* is a default warehouse rack configured?
    job,       \* the request each worker is serving
    log        \* what happened, for the properties

vars  == <<note, made, removed, bridged, mrn, rack, inv, default, job, log>>
stock == <<rack, inv>>

\* Of each note: the times its goods were booked, the times it left 'GRN
\* Complete', the request that brought it there last and the quantity it listed
\* then; and the quantity that was booked, the opening stock included.  (It
\* counts bookings: of goods of a transfer that are in stock already, and of a
\* note that is completed again, too.)
Log == [booked: [Notes -> Nat], reopened: [Notes -> Nat],
        by: [Notes -> {"nothing", "create", "put", "stage"}], listed: [Notes -> Nat],
        received: Nat]

\* A PUT, or the advance of a stage, after its load; the dispatch of the
\* transfer after its look for a note.
Job  == [at: {"idle", "put", "stage", "bridge"}, n: Notes, old: Note, new: Note]
Idle == [at |-> "idle", n |-> CHOOSE n \in Notes : TRUE, old |-> New, new |-> New]

Init ==
    /\ note = [n \in Notes |-> New] /\ made = {} /\ removed = {} /\ bridged = {} /\ mrn = 0
    /\ rack = [r \in Racks |-> 0]
    /\ inv = [wh |-> Opening, ml |-> 0, sih |-> Opening, reserved |-> 0]
    /\ log = [booked |-> [n \in Notes |-> 0], reopened |-> [n \in Notes |-> 0],
              by |-> [n \in Notes |-> "nothing"], listed |-> [n \in Notes |-> 0],
              received |-> Opening]
    /\ default \in BOOLEAN
    /\ job = [w \in Workers |-> Idle]

At(w, stage) == job[w].at = stage
Reply(w)     == job' = [job EXCEPT ![w] = Idle]
Live         == made \ removed
Completed(n) == note[n].status = "GRN Complete"

-----------------------------------------------------------------------------
(* Mutated forms: what a plausible slip in the code of the same name does. *)

\* update: the status before is not looked at.
AnyCompletion(old, new) == new.status = "GRN Complete"

\* update: a note is booked when it is completed with a count.
CountedCompletion(old, new) ==
    new.status = "GRN Complete" /\ old.status # "GRN Complete" /\ new.line.rcvd > 0

\* update: the conditions hold for the move to 'GRN Complete', not for edits after it.
FitToComplete(old, new) ==
    new.status = "GRN Complete" /\ old.status # "GRN Complete" =>
        new.qc = "Passed" /\ new.staffed /\ new.placed /\ new.labels # "none"

\* applyGrnCompletionToInventory: the difference to the order (the line's diff).
AmountBeyond(row) == row.line.rcvd - row.line.po

\* applyWhInboundStock: the stock without a rack stays where it is.
OntoBeside(r, amount) == Added(rack, r, amount)

-----------------------------------------------------------------------------
(* applyGrnCompletionToInventory.                                          *)

\* What was counted, or what was ordered where nothing was counted.
Amount(row) == IF row.line.rcvd = 0 THEN row.line.po ELSE row.line.rcvd

\* Else the completion stands and nothing is booked, with a warning at most.
Lists(row) == Amount(row) # 0

\* Stock that lies on no rack is put there first.
Onto(r, amount) == Added(rack, r, Orphaned(inv, rack) + amount)

\* resolveGrnWarehousePutawayDest, applyWhInboundStock: the rack of the note,
\* else the default one, else no rack: then only the total grows.
Stocked(row) ==
    LET On(r) == LET racks == Onto(r, Amount(row))
                 IN  [racks |-> racks, totals |-> Received(inv, racks)]
        total == inv.wh + Amount(row)
    IN  CASE row.placed -> On("bin")
          [] ~row.placed /\ default -> On("std")
          [] OTHER -> [racks |-> rack, totals |-> [inv EXCEPT !.wh = total, !.sih = total + inv.ml]]

\* The row n is written; its goods are booked or not.
Written(n, row, by, books) ==
    /\ note' = [note EXCEPT ![n] = row]
    /\ rack' = IF books THEN Stocked(row).racks ELSE rack
    /\ inv'  = IF books THEN Stocked(row).totals ELSE inv
    /\ log'  = [log EXCEPT
          !.booked[n]   = IF books THEN @ + 1 ELSE @,
          !.received    = IF books THEN @ + Amount(row) ELSE @,
          !.reopened[n] = IF Completed(n) /\ row.status # "GRN Complete" THEN @ + 1 ELSE @,
          !.by[n]       = IF row.status = "GRN Complete" /\ ~Completed(n) THEN by ELSE @,
          !.listed[n]   = IF row.status = "GRN Complete" /\ ~Completed(n) THEN Amount(row) ELSE @]

-----------------------------------------------------------------------------
(* Notes are created.                                                      *)

\* POST /grn: any status; one that is 'GRN Complete' from the start is booked.
Create(n, row) ==
    /\ n \notin made
    /\ row.labels # "printed"
    /\ Written(n, row, "create", row.status = "GRN Complete" /\ Lists(row))
    /\ made' = made \cup {n}
    /\ UNCHANGED <<removed, bridged, mrn, default, job>>

\* What is on its way: ordered, or sent, and not yet counted.
Sent(po) == [New EXCEPT !.line = [po |-> po, rcvd |-> 0]]

\* initiateTransit, consolidatedShipment: a note for each line of the truck.
Ship(lines, po) ==
    /\ lines # {} /\ lines \cap made = {}
    /\ note' = [n \in Notes |-> IF n \in lines THEN Sent(po) ELSE note[n]]
    /\ made' = made \cup lines
    /\ UNCHANGED <<removed, bridged, mrn, stock, default, job, log>>

Bridged == bridged \cap Live

\* PUT /mrn/:id of a transfer moves it on; createTransferGrnFromMrn then looks
\* for its note.
Dispatch(w) ==
    /\ At(w, "idle")
    /\ mrn < MaxMoved /\ mrn' = mrn + 1
    /\ job' = IF Bridged # {} THEN job ELSE [job EXCEPT ![w].at = "bridge"]
    /\ UNCHANGED <<note, made, removed, bridged, stock, default, log>>

Bridge(w, n, po, placed) ==
    /\ At(w, "bridge")
    /\ n \notin made
    /\ note' = [note EXCEPT ![n] = [Sent(po) EXCEPT !.placed = placed]]
    /\ made' = made \cup {n} /\ bridged' = bridged \cup {n}
    /\ Reply(w)
    /\ UNCHANGED <<removed, mrn, stock, default, log>>

-----------------------------------------------------------------------------
(* Notes are edited.                                                       *)

\* The conditions on a note that is, or becomes, 'GRN Complete'.
Fit(old, new) ==
    new.status = "GRN Complete" =>
        new.qc = "Passed" /\ new.staffed /\ new.placed /\ new.labels # "none"

\* The bound on reopening: one note, MaxReopened times.
MayReopen(n, status) ==
    Completed(n) /\ status # "GRN Complete" =>
        log.reopened[n] < MaxReopened /\ \A m \in Notes \ {n} : log.reopened[m] = 0

\* Labels once printed stay, whatever the workflow steps become.
Steps(now, steps) == IF now.labels = "printed" THEN "printed" ELSE steps

\* PUT /grn/:id, up to its transaction.  A field the client does not send is
\* one that stays as it was loaded.
LoadPut(w, n, form) ==
    LET new == [form EXCEPT !.labels = Steps(note[n], @)]
    IN  /\ At(w, "idle")
        /\ n \in Live
        /\ form.labels # "printed"
        /\ Fit(note[n], new)
        /\ MayReopen(n, new.status)
        /\ job' = [job EXCEPT ![w] = [at |-> "put", n |-> n, old |-> note[n], new |-> new]]
        /\ UNCHANGED <<note, made, removed, bridged, mrn, stock, default, log>>

\* PUT /grn/:id/stage: any stage after any other.
LoadStage(w, n, status) ==
    /\ At(w, "idle")
    /\ n \in Live
    /\ MayReopen(n, status)
    /\ job' = [job EXCEPT ![w] = [at |-> "stage", n |-> n, old |-> note[n],
                                 new |-> [note[n] EXCEPT !.status = status]]]
    /\ UNCHANGED <<note, made, removed, bridged, mrn, stock, default, log>>

\* Sequelize writes what differs from the copy.
Kept(now, old, new) == IF new = old THEN now ELSE new

FirstCompletion(old, new) == new.status = "GRN Complete" /\ old.status # "GRN Complete"

Saved(now, old, new) ==
    [status  |-> Kept(now.status, old.status, new.status),
     qc      |-> Kept(now.qc, old.qc, new.qc),
     staffed |-> Kept(now.staffed, old.staffed, new.staffed),
     placed  |-> Kept(now.placed, old.placed, new.placed),
     labels  |-> Steps(now, Kept(now.labels, old.labels, new.labels)),
     line    |-> Kept(now.line, old.line, new.line)]

\* The transaction.  It reads the note again before booking, and fails where
\* the note was deleted meanwhile.
Put(w) ==
    LET n == job[w].n  first == FirstCompletion(job[w].old, job[w].new)
        row == Saved(note[n], job[w].old, job[w].new)
    IN  /\ At(w, "put")
        /\ IF first /\ n \in removed
             THEN UNCHANGED <<note, stock, log>>
             ELSE Written(n, row, "put", first /\ Lists(row))
        /\ Reply(w)
        /\ UNCHANGED <<made, removed, bridged, mrn, default>>

\* advanceGrnStage: the steps are always written, the copy's and one more.
Staged(now, old, new) ==
    [now EXCEPT !.status = Kept(@, old.status, new.status), !.labels = Steps(now, old.labels)]

Stage(w) ==
    /\ At(w, "stage")
    /\ Written(job[w].n, Staged(note[job[w].n], job[w].old, job[w].new), "stage", FALSE)
    /\ Reply(w)
    /\ UNCHANGED <<made, removed, bridged, mrn, default>>

\* generateLabels writes the place it is given, also an empty one.
GenerateLabels(n, placed) ==
    /\ n \in Live
    /\ note[n].qc \in {"none", "Passed"}
    /\ note' = [note EXCEPT ![n].labels = "printed", ![n].placed = placed]
    /\ UNCHANGED <<made, removed, bridged, mrn, stock, default, job, log>>

\* The stock that was booked stays.
Remove(n) ==
    /\ n \in Live
    /\ removed' = removed \cup {n}
    /\ UNCHANGED <<note, made, bridged, mrn, stock, default, job, log>>

\* The process stops, or a query fails: transactions are rolled back.
Abort(w) ==
    /\ ~At(w, "idle")
    /\ Reply(w)
    /\ UNCHANGED <<note, made, removed, bridged, mrn, stock, default, log>>

-----------------------------------------------------------------------------
Next ==
    \/ \E lines \in SUBSET Notes, po \in Ordered : Ship(lines, po)
    \/ \E n \in Notes : \/ \E form \in Forms : Create(n, form)
                        \/ \E placed \in Places : GenerateLabels(n, placed)
                        \/ Remove(n)
    \/ \E w \in Workers :
          \/ Dispatch(w)
          \/ \E n \in Notes : \/ \E po \in Ordered, placed \in Places : Bridge(w, n, po, placed)
                              \/ \E form \in Forms : LoadPut(w, n, form)
                              \/ \E status \in Statuses : LoadStage(w, n, status)
          \/ Put(w) \/ Stage(w) \/ Abort(w)

Spec == Init /\ [][Next]_vars

-----------------------------------------------------------------------------
(* Properties.                                                             *)

TypeOK ==
    /\ note \in [Notes -> Note]
    /\ made \subseteq Notes /\ removed \subseteq made /\ bridged \subseteq made
    /\ mrn \in 0..3
    /\ rack \in RackRows /\ inv \in InventoryRow
    /\ default \in BOOLEAN
    /\ job \in [Workers -> Job]
    /\ log \in Log

\* What was booked is in stock, nothing is lost between the racks and the total
\* and nothing made up: the goods of all notes and the opening stock, whichever
\* of them found a rack first.  Without a default rack goods can lie in the
\* total alone and be dropped by the next recount, so the total may fall short.
StockIsReceived ==
    /\ inv.sih <= log.received
    /\ default => inv.sih = log.received

\* A note's goods are booked again only after it has left 'GRN Complete'.
BookedPerCompletion == \A n \in Notes : log.booked[n] <= 1 + log.reopened[n]

\* A note that never left 'GRN Complete' is booked exactly when it is there,
\* unless the stage endpoint brought it there, or it listed no goods then that
\* could be booked: no line, no quantity, no known material.
CompleteIsBooked ==
    \A n \in made :
        log.reopened[n] = 0 =>
            (log.booked[n] > 0 <=> Completed(n) /\ log.by[n] # "stage" /\ log.listed[n] > 0)

\* "When GRN status transitions to 'GRN Complete', add each line item's received
\* qty to warehouse_inventory" (grn/controller.js:988-989): the goods that a
\* note listed when it came there are booked, whichever request moved it.
\* advanceGrnStage moves it and books nothing.
TransitionsBook ==
    \A n \in made : Completed(n) /\ log.listed[n] > 0 => log.booked[n] > 0

\* A note that a PUT completed stays inspected, staffed and labelled as long as it
\* is 'GRN Complete', whatever is edited later.  (Its place may be wiped by
\* generateLabels.)
CompleteIsFit ==
    \A n \in Notes :
        Completed(n) /\ log.by[n] = "put" =>
            note[n].qc = "Passed" /\ note[n].staffed /\ note[n].labels # "none"
=============================================================================
