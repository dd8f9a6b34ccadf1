---------------------------- MODULE MCTicketRefund ----------------------------
(* TicketRefund on small instances: see the .cfg files.                       *)
EXTENDS TicketRefund, TLC

=============================================================================
