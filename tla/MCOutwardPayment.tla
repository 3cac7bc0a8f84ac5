-------------------------- MODULE MCOutwardPayment --------------------------
(* Instances of OutwardPayment for TLC.                                    *)
EXTENDS OutwardPayment

\* Payables reach the treasury through the sync, or are recorded by hand.
SyncedOps == AllOps \ {"Push"}
SyncOnly  == {"Sync"}
NoLinks   == {FALSE}

\* A chain of two levels.
OneBand  == {"medium"}

=============================================================================
