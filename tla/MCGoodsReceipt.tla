-------------------------- MODULE MCGoodsReceipt ---------------------------
(* Instances of GoodsReceipt for TLC. *)
EXTENDS GoodsReceipt, TLC

CONSTANTS n1, n2

Form(status, qc, labels, rcvd) ==
    [status |-> status, qc |-> qc, staffed |-> TRUE, placed |-> TRUE, labels |-> labels,
     line |-> [po |-> 1, rcvd |-> rcvd]]

\* Receipts as they are filled in: passed and still open; completed; completed
\* without a line that can be booked; and one that was counted and that a PUT may
\* not complete.
FilledIn ==
    {Form("Under GRN", "Passed", "step", 0),
     Form("GRN Complete", "Passed", "step", 0),
     [Form("GRN Complete", "Passed", "step", 0) EXCEPT !.line.po = 0],
     [Form("GRN Complete", "other", "step", 1) EXCEPT !.placed = FALSE]}

AnyNote == Permutations({n1, n2})
=============================================================================
