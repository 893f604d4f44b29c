-------------------------- MODULE MCCallLifecycle --------------------------
(* CallLifecycle on small sets of objects and goroutines. *)
EXTENDS CallLifecycle, TLC

\* Objects and application goroutines are interchangeable in safety runs.
Symmetry == Permutations(Entries) \cup Permutations(Handles) \cup Permutations(Apps)
=============================================================================
