---------------------------- MODULE MCTicketOrder ----------------------------
(* TicketOrder on small instances: see the .cfg files.                       *)
EXTENDS TicketOrder, TLC

\* Slots, amounts, sessions and tickets are interchangeable.
Symmetry ==
  Permutations(Requests) \cup Permutations(Amounts) \cup Permutations(Sessions)
    \cup Permutations(Tickets)

AllButGuard == AllFaults \ {"guard"}
=============================================================================
