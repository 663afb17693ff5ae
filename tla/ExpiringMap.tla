---------------------------- MODULE ExpiringMap ----------------------------
(***************************************************************************)
(* What ubiq_platform_cache promises: a map whose bindings last until they *)
(* expire.  The first binding of a key stands while it lasts; data that is *)
(* taken from a caller is given back to the heap once, and never while a   *)
(* lookup can still return it.  An add that fails binds nothing; whether   *)
(* its datum is then still the caller's is not promised.                   *)
(***************************************************************************)
CONSTANTS Keys, Data, NoData

VARIABLES
  visible,   \* the bindings that have not expired
  owner,     \* who has to free each datum
  answer,    \* the result of the last lookup
  failed     \* has the last add failed?

vars == <<visible, owner, answer, failed>>

Init ==
  /\ visible = [k \in Keys |-> NoData]
  /\ owner = [d \in Data |-> "caller"]
  /\ answer = NoData
  /\ failed = FALSE

\* The data the cache owns and no lookup can return any more.
Reclaimable == {d \in Data : owner[d] = "cache" /\ \A k \in Keys : visible[k] # d}

Own(S, who, R) ==
  owner' = [d \in Data |-> IF d \in S THEN who ELSE IF d \in R THEN "freed" ELSE owner[d]]

Lookup(k, R) ==
  /\ R \subseteq Reclaimable
  /\ answer' = visible[k]
  /\ Own({}, "cache", R)
  /\ UNCHANGED <<visible, failed>>

\* A binding may last no time at all.
Bind(k, d, R) ==
  /\ owner[d] = "caller" /\ visible[k] = NoData /\ R \subseteq Reclaimable
  /\ visible' \in {[visible EXCEPT ![k] = d], visible}
  /\ Own({d}, "cache", R)
  /\ failed' = FALSE
  /\ UNCHANGED answer

\* The key is bound already: the newcomer is taken and thrown away.
Discard(k, d) ==
  /\ owner[d] = "caller" /\ visible[k] # NoData
  /\ Own({d}, "freed", {})
  /\ failed' = FALSE
  /\ UNCHANGED <<visible, answer>>

Fail(d) ==
  /\ owner[d] = "caller"
  /\ UNCHANGED owner \/ Own({d}, "freed", {})
  /\ failed' = TRUE
  /\ UNCHANGED <<visible, answer>>

Expire(K) ==
  /\ visible' = [k \in Keys |-> IF k \in K THEN NoData ELSE visible[k]]
  /\ UNCHANGED <<owner, answer, failed>>

\* The end of the cache.
Destroy ==
  /\ visible' = [k \in Keys |-> NoData]
  /\ owner' = [d \in Data |-> IF owner[d] = "cache" THEN "freed" ELSE owner[d]]
  /\ UNCHANGED <<answer, failed>>

Next ==
  \/ \E k \in Keys, R \in SUBSET Data : Lookup(k, R)
  \/ \E k \in Keys, d \in Data, R \in SUBSET Data : Bind(k, d, R)
  \/ \E k \in Keys, d \in Data : Discard(k, d)
  \/ \E d \in Data : Fail(d)
  \/ \E K \in SUBSET Keys : Expire(K)
  \/ Destroy

Spec == Init /\ [][Next]_vars
=============================================================================
