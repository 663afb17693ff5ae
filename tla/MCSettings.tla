----------------------------- MODULE MCSettings -----------------------------
(* Values of Settings for TLC: the three parts that are required are alike.    *)
EXTENDS Settings, TLC

Parts == Permutations(Required)
=============================================================================
