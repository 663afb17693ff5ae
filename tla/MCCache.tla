------------------------------ MODULE MCCache ------------------------------
(* Model values of Cache for TLC: durations -1 (refused), 0 and 1 second. *)
EXTENDS Cache, TLC

AskedDurations == -1..1
Symmetry == Permutations(Keys) \cup Permutations(Data)
=============================================================================
