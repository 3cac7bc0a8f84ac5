-------------------------- MODULE MCBatchMaterials --------------------------
(* Instances of BatchMaterials for TLC. *)
EXTENDS BatchMaterials, TLC

CONSTANTS m1, m2, l1, l2

AnyName == Permutations({m1, m2}) \cup Permutations({l1, l2})
=============================================================================
