---------------------------- MODULE MCPoWorkflow ----------------------------
(* Instances of PoWorkflow for TLC.                                        *)
EXTENDS PoWorkflow

\* The columns the issued-orders screen sends to PUT /po-tracking.
ShipmentColumns == {"shipped", "grnComplete"}

\* The endpoints that race with each other around a hold.
OverlapOps == {"Submit", "Approve", "Send", "Hold", "Resume", "Amend"}
OneClass   == {"small"}

\* The endpoints of the vendor's answer.
AnswerOps == {"Submit", "Approve", "Send", "Acknowledge", "VendorReject"}

=============================================================================
