# Verification of the EI back end: purchase to pay, and the stock it brings in

The repository is the Node/Express/Sequelize/PostgreSQL back end of an ERP: some
sixty directories under `src/src/`, one Express app (`src/src/app.js`), one database. This
directory holds TLA+ models of the parts in which several people and several requests change the
same rows under rules about who may do what and in which order: a purchase order (PO) from its
approval to its payment; and the material it brings, from the goods received note (GRN) over the
reservation for a production batch and its transfer orders (MTR) to dispensing. TLC checks the models on small instances; TLAPS proves what the
passing runs check, all but the liveness property, for every value of the constants.

## 1. Inventory

What every model takes from the platform:

* **Processes.** `src/ecosystem.config.cjs:8-15` runs the server under PM2, several processes
  on one database; inside a process every `await` lets other requests run. So two requests may
  interleave between any two queries, and a process may die between any two writes.
* **Database.** PostgreSQL at READ COMMITTED. About twenty source files use `db.transaction`; the
  PO, transfer and production controllers do not, and nothing modelled here takes a row lock with SELECT. An UPDATE holds
  its row until its transaction ends.
* **Sequelize.** `row.update(values)` writes only the columns whose new value differs from the
  copy the handler loaded. A stale copy therefore does not overwrite a column it does not mean to
  change, and fails to write one it believes to be right already. All models call this `Put`.

| component | state it keeps | operations | correct when | status |
|---|---|---|---|---|
| PO approval, vendor and exception workflow (`purchaseOrders/`) | approval and exception status, status, vendor dates | submit, forward, approve, reject, send, acknowledge, reject by vendor, resend, reopen, hold, resume, cancel, amend | nothing is sent unapproved; holds pause, cancellations last; the PO, tracking and request rows agree; one vendor answer | `PoWorkflow` |
| PO records, PO tracking | the same rows | PUT PO, PUT/GET tracking | direct edits leave the guarantees that do not depend on them | `PoWorkflow` (partly) |
| Goods receipt to closing (`matchController`, `grnExceptionController`, `threeWayMatch`) | invoice, match status, final payment, closing; short close, RTV | invoice, override, pay, send to treasury, close, short close, RTV | paid once, marked paid just when paid, closed rows agree, an override fits its invoice | `PoSettlement` |
| Treasury outward payments | payment row, approval rows, source link, receipt | create, push, sync, submit, approve, bulk approve, reject, hold, schedule, execute | no money without signatures; one live payment per document; status and approval rows agree | `OutwardPayment`, `PaymentLifecycle` |
| Warehouse stock (`inventoryMath`, `applyWhInboundStock`) | rack rows, totals of a material | delta to a rack, recount, inbound booking | totals follow the racks, nothing is lost or made up | `RackStock` (partly) |
| Goods received notes (`grn/`) | status, verdict, labels, place, counts; `mrn_id` | create, ship, PUT, stage, labels, delete, note of a transfer | goods booked once per completion; a completed note stays fit | `GoodsReceipt` |
| Requisitions and transfers (`mrn/`) | header status, phase of each line | create, pick, send, accept, complete, delete | a line moves its stock once; header and lines agree | `BatchMaterials` |
| Production batches (`production/`, raw-material side) | status, flags, dispensed quantity, reservation rows | reserve, release, repair, PUT, dispense, correct, connect | reserved stock is exclusive; dispensed means consumed; dispensing only after the transfers | `BatchMaterials` |
| Treasury cashflow gate, inward, recurring; response cache; master approvals | ledgers, due dates, Redis entries, status of masters | project, reflect, generate; get-or-set, invalidate; approve | | not modelled, see 5 |
| Planning, fulfilment, sales orders, quotations, products, masters, imports, contacts, Zoho, users, facilities, enquiries, lead times | see `PROJECT.json` | | | not modelled, reason per component in `PROJECT.json` |

How they interact: the PO handlers write `purchase_orders`, then `po_tracking`, then the status of the
procurement request, with no transaction around the three. Every PO route except the exception paths
first passes `poExceptionGuard.js`, which reads `exception_status` and is not read again
afterwards. `sendToTreasury` and the treasury's own sync create outward payments through
`createOutwardFromSource`; executing one stamps `po_tracking` through `applyReceiptToSource`. The
warehouse writes the goods receipts that the match reads. Completing a receipt books its goods onto a
rack (`applyGrnCompletionToInventory`); a batch reserves them (`reserved_batch_items`, mirrored in
`warehouse_inventory.reserved`); completing a line of a transfer order moves them to a rack of the
site, lowers the reservation and may unlock dispensing; PUT `/batches/:id` consumes them. A transfer
that is sent also creates a receipt note of its own.

Hard behaviours, in order of weight: decisions on copies that have gone stale; a handler that dies
between its rows; idempotency checks outside the transaction they protect; guards that look at one
of several marks for the same fact, and marks that another route can clear; totals that are copies of
sums; "the row as it was" that is the row itself; errors that are swallowed and read as "nothing found";
paths that complete a row and skip the stock that belongs to it. Each is
listed with its line and the properties aimed at it under `hazards` in `PROJECT.json`.

## 2. Modules

| module | models | about |
|---|---|---|
| `PoWorkflow` | `approvalController`, `vendorController`, `exceptionController`, `poExceptionGuard`, PUT PO, PO tracking | one order before goods are received |
| `PoSettlement` | `matchController`, `grnExceptionController`, hold/resume/cancel, the treasury seen from the order | one sent order up to its closing |
| `PaymentLifecycle` | - | what the treasury promises of payments, the abstract specification |
| `OutwardPayment` | `outwardController`, `sourceLink` | the payments of one source document, step by step |
| `RackStock` | `inventoryMath`, `applyWhInboundStock`, the totals of dispensing | operators on the racks and the totals of one material |
| `GoodsReceipt` | `grn/controller`, `shipmentBatchController`, `transferGrnFromMrn` | the notes of one material and what they book |
| `BatchMaterials` | `mrn/controller`, `lineTransferStatus`, `mtrWarehouseStock`, `batchLineReserve`, `production/controller` | one material of one batch, from receipt to dispensing |
| `PoWorkflowProofs`, `PoSettlementProofs`, `OutwardPaymentProofs` | - | theorems for any number of requests in flight |
| `PoWorkflowSerialProofs`, `PoSettlementSerialProofs`, `OutwardPaymentSerialProofs` | - | theorems for one request at a time, on top of those |
| `GoodsReceiptProofs`, `BatchMaterialsProofs` | - | theorems of both kinds |
| `MC...` | - | the constants of the TLC instances |

`OutwardPayment` implements `PaymentLifecycle` (refinement mapping `PhaseOf`, property `Lifecycle`),
and `PoSettlement` composes the order with `PaymentLifecycle`: its treasury actions are the abstract
ones, so what the order relies on is what the detailed treasury model is shown to do. Each states
its own creation guard (`Claim`), translated from `createOutwardFromSource`, which is weaker than the
abstract one, since it looks for live payments and not for paid ones. `ClaimsUnpaidOnly` and `Lifecycle`
say when that does not matter: `Lifecycle` in `OutwardPayment`, where nothing clears the number that a
payment has left on the tracking row; `ClaimsUnpaidOnly` in `PoSettlement`, where PUT `/po-tracking` may
clear it (`wiped`) and an order that the treasury has paid is claimed again only then, or behind a failed
query.

**A request** is a record in `job`: the operation, where it stands, and the copies it has
loaded. `Begin`/`Enter` is the middleware, `Load...` the queries, then one action per decision with
its first write, and one action for each further write (`ResetVendorLoop`, `SyncRequest`, `Complete`,
`Accept`, `Recount`, ...). `Refuse`/`Fail` is a 4xx answer or an error before the first write and is
always possible, because validation of the body is not modelled; `Abort` is a death after it.
In the stock models it is the same with fewer stages: `job.at` names
the write that comes next (`BatchMaterials`), or a PUT between its load and its transaction
(`GoodsReceipt`). `log`, `lost`, `approvedBy`, `signed`, `sent`, `hand`, `accepted`, `edited` and `wiped` are history variables:
no guard reads them, but for the counts in `log` that the bounds of section 3 read.

### What is abstracted

* PO: amounts and types are three classes (`small`, `special`, `large`), the classes that
  `poApprovalMatrix.js` distinguishes; users are one per kind of usertype. Notes, reasons, the log
  rows and dates are left out (a date is a Boolean: set or not).
* Outward payments: a payment's amount is its band (the approval chain it leads to); the verdict of
  the cashflow gate is a free choice; codes and audit rows are left out. A push without a source
  document is a `Record`. PUT `/po-tracking`, which can clear the number a payment has left, is in `PoSettlement` and
  not here. Manual creation with a source reference is a constant (`ManualLinks`), off
  in the runs, arbitrary in the proofs unless they assume `SyncedOnly`. `Push` is left out of the serial run,
  because a push reads no receipt and may claim a paid document again.
* Settlement: quantities are none, part or full of what was ordered, what was received is part or full,
  and an invoice is the value of a quantity; an RTV is raised or there is none (a resolved one is as none); the three-way match is its verdict. The tracking row exists (the order was
  sent). PUT `/po-tracking` sets and clears the receipt date and the transaction number; goods receipts only
  grow. `shortClosePo` goes on to the tracking row and the request when accepting the match fails, as the
  code does. Direct edits of the PO row and the
  vendor's answers are in `PoWorkflow`. One step loads everything a handler loads.
* Stock (both models): one material; a rack without a row and a rack with nothing are the same; the
  warehouse's default rack, any other rack of it, and the site (ML1 and ML2 as one). `in_transit` is left
  out: no modelled guard reads it.
* `GoodsReceipt`: what a note's lines say of the material is one quantity ordered and one counted, both zero where
  the note has no line items, no quantity, or a code that the masters do not know: such a note is completed and
  books nothing. `log.received` counts what was booked; the goods of a transfer, which are in stock already, and
  those of a note that is completed a second time count each time they are booked. The open statuses are one, since nothing modelled depends on which
  it is. QC specifications only refuse more. The transaction of a PUT, and the creation of labels, are one step, so
  two notes that read and write one rack row at once are not modelled (`applyDeltaToRack`, listed as a
  hazard). Whether a default rack exists is chosen once. Clients fill notes in as `Forms` says;
  one note leaves 'GRN Complete' again, at most `MaxReopened` times.
* `BatchMaterials`: requests come one at a time, each may be cut off after any of its writes. The packing side
  is not modelled: its code is similar and not the same (it dispenses items of a pack list and caps what it
  consumes at the stock of the site, `capPmDispenseConsumption`, `materialQtyCompare.js:171`). A line is one
  unit. An order may be created with any of the statuses in `BornHeaders`, whatever its lines say; the batch's own
  list (`dispensing_rm`) asks for one of the quantities in `AskedFor`, zero where it does not name the
  material. Completing a line may find no rack: then the line is completed, the reservation lowered, and nothing
  moves (`log.unmoved`). Edits of `line_items` and the reset of the material master are not modelled. Other batches are the sum of
  their reservations and only reserve and release. A PUT in the run leaves `rm_connected` alone
  (`SentConnected`; arbitrary in the proofs). The gates of updateBatch that are not modelled (quality,
  equipment, quantities marked done) only refuse. Quantities taken from a default rack that holds too
  little are counted as `phantom`, what a stop leaves between two racks as `dropped`, what is stored as dispensed and
  never consumed as `astray`; the properties say exactly how far each may go.
* A query whose error is swallowed and read as "nothing found" (`loadContext`,
  `loadTreasuryLink`) is the constant `LookupsFail`: TRUE in `settle_serial`, FALSE in
  `settle_rtv`, where the counterexample needs none, arbitrary in the proofs. `Found` is what a query may show. A failed lookup lets `sendToTreasury` claim a paid order
  again, which `ClaimsUnpaidOnly` excepts by name.

## 3. Runs

| run | instance | checks | states |
|---|---|---|---|
| `po_serial` | one request at a time, every endpoint, PUT PO included, all classes, two amendments, crashes between writes | `VendorAnswerInv`, `ReleasedInv`, `CancelInv`, `AuthorisedInv`, `RequestInv`, `HoldPauses`, `CancelIsFinal` | 2,231,122 |
| `po_overlap` | two requests in flight, one class, one amendment, fairness | `AuthorisedInv` on stale copies; `HoldComesToRest` | 424,354 |
| `po_answers` | two vendor answers in flight | finding: acknowledged and rejected | violated |
| `settle_serial` | one request at a time, every route, two treasury payments, crashes, lookups that fail, numbers set and cleared, other writers between requests | `PaidInv`, `ClosedInv`, `OverrideInv`, `PaysUnpaidOnly`, `ClaimsUnpaidOnly` | 3,674,416 |
| `settle_rtv` | every route, one treasury payment | finding: the treasury pays during an RTV | violated |
| `outward_serial` | two payments, four bands, sync | `StatusInv`, `SourceInv`, refinement of `PaymentLifecycle` | 637,925 |
| `outward_overlap` | two requests on one payment, every endpoint, row locks | `SignedInv`, `NeverStranded` | 1,924,786 |
| `outward_sync` | two syncs in flight | finding: two payments for one order | violated |
| `grn_serial` | two notes, with and without goods to book, counted or not, opening stock, one reopening, with and without a default rack | `StockIsReceived`, `BookedPerCompletion`, `CompleteIsBooked`, `CompleteIsFit` | 2,622,383 |
| `grn_stage` | the same | finding: the stage endpoint completes a note and books nothing | violated |
| `stock_serial` | two orders, two lines, created in three statuses, requirement 2, stock 2, one disturbance (a stop, a reservation of another batch, or goods on another rack) | `TotalsAgree`, `Conserved`, `LineMovesOnce`, `HeaderAgrees`, `DispensedIsConsumed`, `ExclusiveReserve`, `ConnectedIsEarned` | 1,851,550 |
| `batch_rewind` | the same without disturbance | finding: a PUT sets a batch back to an earlier stage | violated |

**Bounds.** One order suffices: no handler of the modelled part reads another order's rows. Two
requests suffice for the races looked for (a check and the write that invalidates it); the
theorems remove this bound where they apply. `MaxAmendments` only numbers amendments, and two give every
order of amend and send; `MaxOutwards = 2` and two payments (treasury) allow a
rejection followed by a second payment, a payment followed by a second claim, and a duplicate. Two transfer orders with two lines in all are a
requirement that is split in either way, with one order removed or completed in part; a requirement of
two distinguishes none, part and all; `MaxStock` and `MaxAstray` keep quantities where they are
compared with it. `MaxTrouble = 1` allows one disturbance in a behaviour: the properties are about
recovering from one. The list asks for all that the bill of materials does (`AskedFor = {2}`): a list that asks
for less or nothing is modelled, and `ConnectionEarned` is proved for it, but where nothing is asked for, the
property has nothing to say. A note that was counted, one that was not, a place given and a place missing
and lines that list nothing to book cover the cases of booking, and one unit ordered or counted does, as no
property compares the two; opening stock of one is the stock without a rack. A transfer's status changes twice
(`MaxMoved = 2`), so its note is looked for before and after it exists. In the overlapping runs one band or class is taken, since
classes differ in who approves, which the serial runs cover.

**Serial and overlapping.** Several invariants about rows that agree are false when requests
overlap, since nothing in the PO code locks: `po_answers` and `outward_sync` show such cases. They are
therefore checked where requests come one at a time (with crashes between writes), which is what one
user working on one order does, and what holds under overlap is checked apart. With two workers TLC also
finds, each against a comment of the code and each from a copy that has gone stale: an approval that passed the middleware and
commits after the hold (`HoldPauses`); a cancellation whose exception status a hold or a resume overwrites (`CancelInv`);
two PUTs that loaded the same open note and both book it (`BookedPerCompletion`, of which no comment
speaks); two requests that move a transfer on, both look for its note and both create one
(`transferGrnFromMrn.js:68` and `79`). They are the race of `po_answers` once more, and are listed under the hazards
with their lines.

**Direct edits.** PUT `/purchase-orders/:id` writes any status and any items. What a property says of these
columns it says until the first such edit (`edited`); the rest of it, and `VendorAnswerInv` and `CancelIsFinal` in whole,
are checked and proved across edits.

**Fairness** is weak fairness of each request's `Step`, used by `HoldComesToRest` only. It is
justified by the code: every await is a query that resolves or rejects, and every handler is
enclosed in `try`/`catch` that answers. Beginning a request is not fair: clients may stay silent.
Deadlock is checked in the PO and treasury runs; in the stock runs clients may have nothing left
to do within the bounds.

**Findings** are quoted in `PROJECT.json`, each a sentence of the code's own comments against what the handlers
do. Under overlap: `vendorController.js` (one answer) and `sourceLink.js` (an idempotent sync). With one request at a time:

* `grnExceptionController.js`: an RTV blocks the PO's own routes only; the sync makes out a payment for an order with
  an open RTV, and the treasury executes one that was made out before. The same header puts the adjustment of payables out of its scope.
* `production/controller.js`, `reconcileBmrStatusPreventRewind`: `updateBatch` keeps `row.get({ plain: true })` as the row
  before the change, but Sequelize returns the row's own values, so that the comparison sees no rewind. The
  triggers that compare `rm_reserved` before and after never fire for the same reason; `Trigger` models what is left of them.
* `grn/controller.js`: the comment on `applyGrnCompletionToInventory` has the goods booked when a note's status
  becomes 'GRN Complete'; PUT `/grn/:id/stage` makes it so and books nothing.

Two more divergences are part of what the models say and are excepted by name: lines of an order that was created as Completed
count as transferred (`ConnectedIsEarned`, hazard at `mrn/controller.js:533`), and the sync takes an order that was
paid by hand without a number for an unpaid one (`ClaimsUnpaidOnly` speaks of orders the treasury has paid, hazard at
`sourceLink.js:150`).

Every property of a passing run has a mutant: a plausible slip in one mapped definition, standing
in the module just before that definition, that makes TLC report the property violated.

## 4. Theorems

All are proved for arbitrary sets of requests, endpoints, classes, bands, payments and bounds. What a
theorem needs beyond that is a named assumption in its statement:

| assumption | says | why |
|---|---|---|
| `OneAtATime` | any two requests in flight are the same one | nothing locks: two requests break these properties, see "Serial and overlapping" |
| `ShipmentOnly` | PUT tracking sends only the warehouse's columns, as the issued-orders screen does | sent with the vendor's dates it would overwrite the vendor loop |
| `Undisturbed` | no other module writes while a request runs (`~Overlap`) | `recordFinalPayment` and `sendToTreasury` decide on what they have loaded |
| `LookupsHold` | a failed query does not look like an empty one (`~LookupsFail`) | a failed lookup lets `sendToTreasury` claim a paid order again |
| `SyncedOnly` | payables of the document come from the sync: no `Push`, no manual payment naming it | a push reads no receipt, a manual payment is not checked at all |

**Purchase order.**

* `PoWorkflowProofs!TypeCorrect`: no assumption.
* `NoDispatchWithoutAuthority` (`ShipmentOnly`). Up to the first direct edit, the invariant is `AuthorisedInv`
  strengthened by `CopyInv`: a request that may still decide holds the present class of the order, and a copy that
  says approved is backed by an approver who may act for that class now; without it an `Amend` or
  a `Send` on a stale copy could not be followed.
* `PoWorkflowSerialProofs!ReleasedIsApproved`, `CancellationAgrees`, `HoldStandsStill`, `RequestFollows`, `VendorAnswersOnce`,
  `CancelledForGood` (`OneAtATime`, `ShipmentOnly`). The copies of
  the one request in flight equal the rows until its own
  writes (`CopyFresh`), and the rows agree at every point of those writes (`RowsAgree`): the order
  of the writes in `sendPoToVendor` and `amendPo` matters here. So the guard that a request has passed still
  holds when it writes, which gives the two action properties. `RequestFollows` adds, for each stage of a request,
  what the writes that are still to come will make of the rows. Crashes are allowed anywhere; only
  `RequestInv` speaks of states that none has left half done.

**Settlement.**

* `PoSettlementProofs!TypeCorrect`, `PaidMark`. `PaidInd` adds to `PaidInv` that the payments of the order are
  the first ones and that no other has left `none`. No assumption on overlap or failing lookups:
  no write of a stale copy touches the mark.
* `PoSettlementSerialProofs!RowsAgreeOnClosing`, `AcceptedInvoiceStands` (`OneAtATime`; other modules may write inside
  a request, lookups may fail), `HandPaysOnce`, `PaidStaysPaid` (and `Undisturbed`), `PaymentsFollowLifecycle` (and `LookupsHold`).
  `SerialInd` says of the request in flight what of its copy is still true (`CopyFresh`: the columns that
  other modules do not write), what it decided on and still stands (`DecisionFresh`), and how far it has come
  (`Progress`); `RowsInv` says that the rows agree but for the writes it still owes, and `PaidNumbered` that what the
  treasury has paid has left its number, unless PUT `/po-tracking` has cleared it (`wiped`): the number is all that the sync looks at. `HandPaysOnce` rests on the final-payment mark
  alone (`PaidMark`), so a failing lookup does not matter to it.
  `PaidStaysPaid` is `ClaimsUnpaidOnly`, with its two exceptions. `PaymentsFollowLifecycle` is the refinement of
  `PaymentLifecycle` by the behaviours in which the number of a paid order is not cleared, `Spec /\ [](~wiped) => Treasury!Spec`:
  with `ClaimsUnpaidOnly` each of their steps maps to a step of the life cycle or to a stutter.
  Of `ClosedInv` the part that survives a crash is `WriteOrder`: what is written later implies what was written first.

**Treasury.**

* `OutwardPaymentProofs!TypeCorrect`, `PaidIsSigned`: no assumption. Chains only grow and rows never vanish, so
  an index or a level found in a stale copy stays valid (`RequestInv`); every approved row was signed
  (`Covered`), in the table as in every copy (`CopyCovered`); so `Ready`, decided on a copy, is true
  of the rows.
* `ApprovedMovesOn`: no assumption. A payment goes back to `submitted` only by a late submit, which brings a chain of its own;
  one step of it is known only to requests that have loaded the payment as submitted, and approving on
  such a copy writes the new status (`RowStands`, `Guards`). The other copies may leave the status alone, but
  cannot approve that step.
* `OutwardPaymentSerialProofs!StatusFollowsChain` (`OneAtATime`; every endpoint, manual links included),
  `OnePaymentPerDocument`, `PaymentsLiveAsPromised` (and `SyncedOnly`). With fresh copies (`Fresh`) a
  step of the system leaves the rows alone, enters a payment (`Enters`) or changes one (`Changes`);
  this one lemma, `NextSerial`, carries all three. `Told` relates a row to its chain, `SyncSaw` says what a sync knows when it
  inserts. The refinement maps `Enters` to `Record` or `Claim` and `Changes` to one of the other moves
  of `PaymentLifecycle` or to a stutter.

**Goods and stock.**

* `GoodsReceiptProofs!TypeCorrect`, `StockReceived`: for any number of requests in flight. `StockInd` says
  that nothing is at the site yet, that the racks never exceed the total nor the total what was booked, and that
  with a default rack the racks hold nothing or all of the total: what lay on no rack is put there with the
  first goods and counted once.
* `GoodsReceiptProofs!BookedOnce`, `CompletionBooks`, `CompletionFit`: for one request at a time
  (`OneAtATime`). The copy of the request in flight agrees with the row but for labels printed
  meanwhile (`CopyFresh`), so "previous status" is the status; `NoteInd` ties bookings, reopenings, the request that completed a note and
  what the note listed then together.
* `BatchMaterialsProofs`: all eight properties of `stock_serial`, for any orders, statuses they are created with, lists, lines, requirement and
  bounds. `TypeInd` adds to the types that what is about to be consumed is at the site; `LineInd` adds
  that a request has lines left to move exactly at the stages that move them (`TodoInv`); `TotalsInd` adds at
  which stages a total may be behind its rows (`ReservedInv`, `StockInv`), so that a path that forgets a sync would fail at the next rest.

Only model-checked: `HoldComesToRest`, since liveness under fairness is out of the prover's reach. Out of
reach for another reason are counterexamples: the findings stay runs. TLC checked the strengthened
invariants on instances like those of section 3 before they were proved.

## 5. Not modelled

`PROJECT.json` gives the reason for every component; in short:

* **Spreadsheet imports, masters, pricing, seeds and data** (`data.js`, `seed.js`, the Excel importers,
  products, quotations): most of the repository's lines. The data dominates, a handler writes one row or
  upserts a table, and no second actor or order matters.
* **Manual stock edits, finished goods, quality stages, scheduling** in the warehouse and production
  controllers: the same rows as in `BatchMaterials`, set to what a form says.
* **The recurring generator** beyond the payment it creates, the **cashflow gate** and the three-way match's
  **line arithmetic**: sums of real amounts over dated lists. What is shown of payments and closing does
  not depend on them, since the verdict is a free choice.
* **Response cache, master approvals, planning's edit lock, fulfilment, sales orders, Zoho**: single keys
  or rows, or an external service; their hazards that matter are listed, with the line.
* **Two stock requests in flight.** `inventoryMath` reads, adds and writes without a lock or a check, so every
  property of the totals fails at once with two writers on one rack. The models state what the code
  keeps one request at a time.

## 6. How to run

    tlc -workers 2 -config PoSettlementSerial.cfg MCPoSettlement
    tlapm PoSettlementProofs.tla

Each configuration names its instance in its first line; `PROJECT.json` lists runs, mutants, the
source lines of every definition, hazards, findings and theorems.
