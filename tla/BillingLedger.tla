--------------------------- MODULE BillingLedger ---------------------------
(***************************************************************************)
(* What the billing component promises its callers, with no cache, thread  *)
(* or lock in it: every billable event is recorded, and a recorded event   *)
(* is reported to the server in exactly one batch or it is lost.  Neither  *)
(* of these is ever undone, so that a customer is never billed twice for   *)
(* one call.                                                               *)
(***************************************************************************)
CONSTANT Events

VARIABLE fate

Fates == {"new", "recorded", "reported", "lost"}

TypeOK == fate \in [Events -> Fates]

Init == fate = [e \in Events |-> "new"]

Settle(S, f) == fate' = [e \in Events |-> IF e \in S THEN f ELSE fate[e]]

\* An event is accepted from the caller.
Record(e) ==
  /\ fate[e] = "new"
  /\ Settle({e}, "recorded")

\* One batch of recorded events reaches the server.
Report(S) ==
  /\ \A e \in S : fate[e] = "recorded"
  /\ Settle(S, "reported")

\* Events that are given up: before they were recorded, or as a batch.
Lose(S) ==
  /\ \A e \in S : fate[e] \in {"new", "recorded"}
  /\ Settle(S, "lost")

Next ==
  \/ \E e \in Events : Record(e)
  \/ \E S \in SUBSET Events : Report(S) \/ Lose(S)

Spec == Init /\ [][Next]_fate
=============================================================================
