----------------------------- MODULE MCTicketing -----------------------------
(* From the journey to the ticket: the searches, and one order from its draft. *)
(* They share no row, so a behaviour moves one of the two.                     *)
EXTENDS MCTicketOrder, TicketSearch

VARIABLE part    \* which of the two moves

\* Every connection is as close to the journey: two of them are ambiguous.
MCFit == [j \in Journeys |-> [n \in Numbers |-> [departs |-> 2, arrives |-> 0, unmatched |-> 1]]]

MCInit ==
  /\ part \in {"order", "pages", "intents"} /\ Init /\ SearchInit
  /\ part # "order" => row.amount = None

\* Requests meet when no journey is annotated; with journeys they come one by one.
MCNext ==
  \/ part = "order" /\ Next /\ UNCHANGED <<part, searchVars>>
  \/ /\ part # "order" /\ SearchNext /\ UNCHANGED <<part, vars>>
     /\ part = "pages" => unsaved' = {}
     /\ part = "intents" => Cardinality({q \in Slots : ask[q].at # "idle"}') < 2

MCSpec == MCInit /\ [][MCNext]_<<part, vars, searchVars>>

\* A slot is a slot of both.
MCSymmetry == Symmetry \cup Permutations(Connections)
=============================================================================
