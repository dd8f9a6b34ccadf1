---------------------------- MODULE MCIdempotency ----------------------------
(* Idempotency on small instances: see the .cfg files.                       *)
EXTENDS Idempotency, TLC

Symmetry ==
  Permutations(Replicas) \cup Permutations(Requests) \cup Permutations(Bodies)
    \cup Permutations(Targets) \cup Permutations(Runs)
=============================================================================
