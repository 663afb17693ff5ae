---------------------------- MODULE MCDecryption ----------------------------
(* Values of Decryption for TLC: a message of three bytes, and shorter ones    *)
(* of which all but the first have its data key.                              *)
EXTENDS Decryption

CONSTANTS m1, m2, m3, m4, m5

Lengths == [m \in Messages |-> IF m = m2 THEN 3 ELSE IF m = m5 THEN 1 ELSE 0]
Keys == [m \in Messages |-> IF m = m1 THEN "k1" ELSE "k2"]
=============================================================================
