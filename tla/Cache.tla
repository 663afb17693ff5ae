------------------------------- MODULE Cache -------------------------------
(***************************************************************************)
(* ubiq_platform_cache (lib/cache.c): a search tree of expiring elements   *)
(* over tsearch, tfind, tdelete and tdestroy.  It has no lock; its users   *)
(* serialize their calls or live with what Billing shows.                  *)
(*                                                                         *)
(* The tree is a function from its keys; the destructor passed with the    *)
(* data is the same for every element of one cache and is left out.        *)
(***************************************************************************)
EXTENDS Integers, FiniteSets

CONSTANTS
  Keys, Data, NoData, NoRecord,
  Durations,     \* the durations callers ask for, a negative one included
  MaxTime,       \* bound on the clock
  CallTime,      \* the seconds an add may take from its first look at the clock
  FailingAllocs  \* of the "key" and the "node" of an element, those that may fail

ASSUME DataAssumption == NoData \notin Data
ASSUME RecordAssumption == NoRecord \notin [data: Data, expires_after: Nat]
ASSUME DurationsAssumption == Durations \subseteq Int /\ MaxTime \in Nat /\ CallTime \in Nat
ASSUME AllocsAssumption == FailingAllocs \subseteq {"key", "node"}

VARIABLES
  open,      \* the cache exists
  tree,      \* root: an element, or NoRecord, for each key
  count,
  now,       \* CLOCK_MONOTONIC, in seconds
  freed,     \* history: how often each datum has been freed
  given,     \* history: the data the cache has taken over
  found,     \* the result of the last find
  result     \* the result of the last add, with its datum

vars == <<open, tree, count, now, freed, given, found, result>>

Element(d, until) == [data |-> d, expires_after |-> until]

Expired(e) == e.expires_after < now

\* No element of the tree can be found under k.
Vacant(k) == tree[k] # NoRecord => Expired(tree[k])

\* destroy_element
Release(d) == freed' = [freed EXCEPT ![d] = @ + 1]

Init ==
  /\ open = TRUE
  /\ tree = [k \in Keys |-> NoRecord]
  /\ count = 0
  /\ now = 0
  /\ freed = [d \in Data |-> 0]
  /\ given = {}
  /\ found = NoData
  /\ result = [data |-> NoData, res |-> "OK"]

Tick ==
  /\ now < MaxTime
  /\ now' = now + 1
  /\ UNCHANGED <<open, tree, count, freed, given, found, result>>
-----------------------------------------------------------------------------
(* ubiq_platform_cache_find_element *)

FindNothing(k) ==
  /\ open /\ tree[k] = NoRecord
  /\ found' = NoData
  /\ UNCHANGED <<open, tree, count, now, freed, given, result>>

\* Mutant: the time is not looked at.
FindLiveStale(k) ==
  /\ open /\ tree[k] # NoRecord
  /\ found' = tree[k].data
  /\ UNCHANGED <<open, tree, count, now, freed, given, result>>

FindLive(k) ==
  /\ open /\ ~Vacant(k)
  /\ found' = tree[k].data
  /\ UNCHANGED <<open, tree, count, now, freed, given, result>>

\* Mutant: the element leaves the tree and is not destroyed.
FindExpiredKeeping(k) ==
  /\ open /\ tree[k] # NoRecord /\ Vacant(k)
  /\ tree' = [tree EXCEPT ![k] = NoRecord]
  /\ found' = NoData
  /\ UNCHANGED <<open, freed, count, now, given, result>>

\* The expired element leaves the tree; count is not brought down.
FindExpired(k) ==
  /\ open /\ tree[k] # NoRecord /\ Vacant(k)
  /\ tree' = [tree EXCEPT ![k] = NoRecord]
  /\ Release(tree[k].data)
  /\ found' = NoData
  /\ UNCHANGED <<open, count, now, given, result>>
-----------------------------------------------------------------------------
(* ubiq_platform_cache_add_element *)

\* A datum its caller has neither given away nor freed.
Mine(d) == open /\ d \notin given /\ freed[d] = 0

Answer(d, res) == result' = [data |-> d, res |-> res]

\* create_element has read the clock before add_element looks for an expired
\* element: the new one may be late when it is bound.
Starts == {t \in 0..now : now <= t + CallTime}

Bind(k, d, duration) ==
  \E start \in Starts : tree' = [tree EXCEPT ![k] = Element(d, start + duration)]

\* create_element refuses the duration, or tsearch has no room for a new node
\* and leaves the new element to no one.
AddRefused(k, d, duration) ==
  /\ Mine(d)
  /\ \/ duration < 0 /\ Answer(d, "EINVAL")
     \/ duration >= 0 /\ "node" \in FailingAllocs /\ tree[k] = NoRecord /\ Answer(d, "ENOMEM")
  /\ UNCHANGED <<open, tree, count, now, freed, given, found>>

\* strdup fails: create_element destroys the element with the data in it.
AddWithoutKey(d, duration) ==
  /\ Mine(d) /\ duration >= 0 /\ "key" \in FailingAllocs
  /\ Release(d)
  /\ Answer(d, "ENOMEM")
  /\ UNCHANGED <<open, tree, count, now, given, found>>

\* Mutants: any duration is taken; the element destroyed is the one that stays;
\* a new element is not counted.
AddBindsAny(k, d, duration) ==
  /\ Mine(d)
  /\ Vacant(k)
  /\ Bind(k, d, duration)
  /\ IF tree[k] = NoRecord THEN UNCHANGED freed ELSE Release(tree[k].data)
  /\ given' = given \cup {d}
  /\ count' = count + 1
  /\ Answer(d, "OK")
  /\ UNCHANGED <<open, now, found>>

AddBindsWithoutExchange(k, d, duration) ==
  /\ Mine(d) /\ duration >= 0
  /\ Vacant(k)
  /\ Bind(k, d, duration)
  /\ IF tree[k] = NoRecord THEN UNCHANGED freed ELSE Release(d)
  /\ given' = given \cup {d}
  /\ count' = count + 1
  /\ Answer(d, "OK")
  /\ UNCHANGED <<open, now, found>>

AddBindsUncounted(k, d, duration) ==
  /\ Mine(d) /\ duration >= 0
  /\ Vacant(k)
  /\ Bind(k, d, duration)
  /\ IF tree[k] = NoRecord THEN UNCHANGED freed ELSE Release(tree[k].data)
  /\ given' = given \cup {d}
  /\ Answer(d, "OK")
  /\ UNCHANGED <<open, now, found, count>>

\* A new node, or an expired element whose contents are exchanged with those
\* of the new one before that is destroyed.
AddBinds(k, d, duration) ==
  /\ Mine(d) /\ duration >= 0
  /\ Vacant(k)
  /\ Bind(k, d, duration)
  /\ IF tree[k] = NoRecord THEN UNCHANGED freed ELSE Release(tree[k].data)
  /\ given' = given \cup {d}
  /\ count' = count + 1
  /\ Answer(d, "OK")
  /\ UNCHANGED <<open, now, found>>

\* The key has an element that has not expired: the new one is destroyed, but
\* it has been counted.
AddLoses(k, d, duration) ==
  /\ Mine(d) /\ duration >= 0
  /\ ~Vacant(k)
  /\ Release(d)
  /\ given' = given \cup {d}
  /\ count' = count + 1
  /\ Answer(d, "OK")
  /\ UNCHANGED <<open, tree, now, found>>
-----------------------------------------------------------------------------
Bound == {k \in Keys : tree[k] # NoRecord}

\* ubiq_platform_cache_destroy
Destroy ==
  /\ open /\ open' = FALSE
  /\ freed' = [d \in Data |->
                 freed[d] + Cardinality({k \in Bound : tree[k].data = d})]
  /\ tree' = [k \in Keys |-> NoRecord]
  /\ UNCHANGED <<count, now, given, found, result>>

Find(k) == FindNothing(k) \/ FindLive(k) \/ FindExpired(k)

Add(k, d, duration) ==
  \/ AddRefused(k, d, duration) \/ AddWithoutKey(d, duration)
  \/ AddBinds(k, d, duration) \/ AddLoses(k, d, duration)

Done == ~open /\ now = MaxTime /\ UNCHANGED vars

Next ==
  \/ \E k \in Keys : Find(k)
  \/ \E k \in Keys, d \in Data, duration \in Durations : Add(k, d, duration)
  \/ Tick \/ Destroy \/ Done

Spec == Init /\ [][Next]_vars
-----------------------------------------------------------------------------
(* Properties *)

TypeOK ==
  /\ open \in BOOLEAN
  /\ \A k \in Keys : tree[k] = NoRecord
       \/ tree[k] \in [data: Data, expires_after: Nat]
  /\ DOMAIN tree = Keys
  /\ count \in Nat /\ now \in 0..MaxTime
  /\ freed \in [Data -> Nat] /\ given \subseteq Data
  /\ found \in Data \cup {NoData}
  /\ result \in [data: Data \cup {NoData}, res: {"OK", "EINVAL", "ENOMEM"}]

\* No datum is freed twice, and what the tree holds is not freed: whichever of
\* the old and the new element add_element destroys, the other one stays whole.
FreedOnce ==
  /\ \A d \in Data : freed[d] <= 1
  /\ \A k \in Bound : freed[tree[k].data] = 0

\* No datum is lost: what the cache has taken over is in the tree or freed, and
\* no datum is in the tree twice.
NoLeak ==
  /\ \A d \in given : freed[d] = 0 => \E k \in Bound : tree[k].data = d
  /\ \A k, l \in Bound : tree[k].data = tree[l].data => k = l

\* get_element_count is never less than the number of elements, so that a
\* cache that says it is empty, which process_billing_btree does not report,
\* is empty.
CountCovers == Cardinality(Bound) <= count

\* The cache implements an expiring map.
Visible(k) == IF Vacant(k) THEN NoData ELSE tree[k].data

OwnerOf(d) == IF freed[d] > 0 THEN "freed" ELSE IF d \in given THEN "cache" ELSE "caller"

Map == INSTANCE ExpiringMap WITH
  visible <- [k \in Keys |-> Visible(k)],
  owner <- [d \in Data |-> OwnerOf(d)],
  answer <- found,
  failed <- result.res # "OK"

ImplementsMap == Map!Spec
=============================================================================
