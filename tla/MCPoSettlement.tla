--------------------------- MODULE MCPoSettlement ---------------------------
(* Instances of PoSettlement for TLC.                                      *)
EXTENDS PoSettlement

AllRoutes == GuardedOps \cup ExceptionOps

=============================================================================
