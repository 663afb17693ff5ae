----------------------------- MODULE MCBilling -----------------------------
(* Model values of Billing for TLC. *)
EXTENDS Billing, TLC

Symmetry == Permutations(Events) \cup Permutations(Keys) \cup Permutations(Caches)
            \cup Permutations(Callers)
=============================================================================
