----------------------------- MODULE MCFpeText -----------------------------
(* Values of FpeText for TLC: three characters in, seven out, and texts with a *)
(* character that is passed through and one that is in no set.                 *)
EXTENDS FpeText

In == <<"0", "1", "2">>
Out == <<"0", "1", "2", "a", "b", "c", "d">>
Dash == {"-"}
Short == UNION {[1..len -> ToSet(Out) \cup {"-", "?"}] : len \in 0..3}
         \cup [1..4 -> ToSet(In) \cup {"-", "a", "d"}]
=============================================================================
