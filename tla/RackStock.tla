----------------------------- MODULE RackStock ------------------------------
(***************************************************************************)
(* The stock of one material (warehouseInventory/inventoryMath.js,         *)
(* grn/applyWhInboundStock.js).  The quantities lie on racks: the default  *)
(* rack of the warehouse, other warehouse racks, and the racks of the      *)
(* manufacturing site.  The warehouse_inventory row holds their totals,    *)
(* and is rewritten from them after every movement of a rack.              *)
(*                                                                         *)
(* A rack row is deleted when nothing is left on it, so a rack without a   *)
(* row and one that holds nothing are the same.  ML1 and ML2 are one site. *)
(***************************************************************************)
EXTENDS Naturals

Racks == {"std", "bin", "mu"}   \* default, any other of the warehouse, site

RackRows     == [Racks -> Nat]
InventoryRow == [wh: Nat, ml: Nat, sih: Nat, reserved: Nat]

InWarehouse(rack) == rack["std"] + rack["bin"]
OnRacks(rack)     == InWarehouse(rack) + rack["mu"]

Less(a, b) == IF a > b THEN a - b ELSE 0
Least(a, b) == IF a < b THEN a ELSE b

\* Mutated: a row is not taken from when nothing would be left.
TakenKeepingLast(rack, r, n) == IF rack[r] > n THEN [rack EXCEPT ![r] = @ - n] ELSE rack

\* applyDeltaToRack, the rack row: nothing is taken from a rack without one.
Added(rack, r, n) == [rack EXCEPT ![r] = @ + n]
Taken(rack, r, n) == [rack EXCEPT ![r] = Less(@, n)]

\* recalculateInventoryForItem.
Recounted(inv, rack) ==
    [inv EXCEPT !.wh = InWarehouse(rack), !.ml = rack["mu"], !.sih = OnRacks(rack)]

\* applyWhInboundStock: a total without racks is put on a rack first.
Orphaned(inv, rack) == IF OnRacks(rack) = 0 THEN inv.wh ELSE 0

\* applyWhInboundStock: the total is written again, with the site's stock as
\* it was read before the racks were counted.
Received(inv, rack) ==
    [Recounted(inv, rack) EXCEPT !.sih = InWarehouse(rack) + inv.ml]

\* Dispensing changes the totals and leaves the racks alone.
Dispensed(inv, n) == [inv EXCEPT !.ml = @ - n, !.sih = inv.wh + inv.ml - n]
Returned(inv, n)  == [inv EXCEPT !.ml = @ + n, !.sih = inv.wh + inv.ml + n]
=============================================================================
