----------------------------- MODULE Retention -----------------------------
(***************************************************************************)
(* What is left of a sequence when part of it is deleted: the runs of an   *)
(* import that are kept (services/data-pipeline/src/main.rs), in the order *)
(* they had.                                                               *)
(***************************************************************************)
EXTENDS Naturals, Sequences, FiniteSets

\* The last of some places in a sequence, 0 without one.
NewestIn(S) == IF S = {} THEN 0 ELSE CHOOSE n \in S : \A m \in S : m <= n

\* The place that n gets when only those in kept are left ...
Place(n, kept) == Cardinality({m \in kept : m <= n})

\* ... and what is left.
Kept(s, kept) ==
    [i \in 1 .. Cardinality(kept) |-> s[CHOOSE n \in kept : Place(n, kept) = i]]

=============================================================================
