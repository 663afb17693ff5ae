---------------------------- MODULE CacheProofs ----------------------------
(* Proofs about Cache: the data are freed once and none is lost, the count    *)
(* covers the elements, and the cache implements the expiring map, for any    *)
(* keys, data, durations and failing allocations.                             *)
EXTENDS Cache, FiniteSetTheorems, TLAPS

\* The tree grows by one element at a time.
FinitelyBound == IsFiniteSet(Bound)

\* What the tree holds has been taken over from a caller.
HeldIsGiven == \A k \in Bound : tree[k].data \in given

\* The inductive invariant.
IInv == /\ TypeOK /\ FreedOnce /\ NoLeak /\ CountCovers
        /\ FinitelyBound /\ HeldIsGiven
-----------------------------------------------------------------------------
\* An element is none of the empty places of the tree.
LEMMA ElementIsRecord ==
  ASSUME NEW d \in Data, NEW until \in Nat
  PROVE  /\ Element(d, until) \in [data: Data, expires_after: Nat]
         /\ Element(d, until) # NoRecord
         /\ Element(d, until).data = d /\ Element(d, until).expires_after = until
  BY RecordAssumption DEF Element

\* The types of what the tree holds.
LEMMA BoundTypes ==
  ASSUME TypeOK, NEW k \in Bound
  PROVE  k \in Keys /\ tree[k] \in [data: Data, expires_after: Nat] /\ tree[k].data \in Data
  BY DEF TypeOK, Bound

LEMMA InitInvariant == Init => IInv
<1> SUFFICES ASSUME Init PROVE IInv
  OBVIOUS
<1>1. Bound = {}
  BY DEF Init, Bound
<1>2. TypeOK
  BY DurationsAssumption DEF Init, TypeOK
<1>3. FreedOnce /\ NoLeak /\ HeldIsGiven
  BY <1>1 DEF Init, FreedOnce, NoLeak, HeldIsGiven
<1>4. CountCovers /\ FinitelyBound
  BY <1>1, FS_EmptySet DEF Init, CountCovers, FinitelyBound
<1> QED
  BY <1>2, <1>3, <1>4 DEF IInv

\* The steps that leave the tree and the data alone.
LEMMA QuietSteps ==
  ASSUME IInv, UNCHANGED <<tree, count, freed, given>>, TypeOK'
  PROVE  IInv'
<1>1. Bound' = Bound
  BY DEF Bound
<1> QED
  BY <1>1 DEF IInv, FreedOnce, NoLeak, CountCovers, FinitelyBound, HeldIsGiven

\* An expired element leaves the tree and is freed.
LEMMA FindExpiredStep ==
  ASSUME IInv, NEW k \in Keys, FindExpired(k)
  PROVE  IInv'
<1> USE DEF IInv
<1> DEFINE old == tree[k].data
<1>1. /\ k \in Bound /\ old \in Data
      /\ tree' = [tree EXCEPT ![k] = NoRecord]
      /\ freed' = [freed EXCEPT ![old] = @ + 1]
      /\ UNCHANGED <<open, count, now, given, result>> /\ found' = NoData
  BY BoundTypes DEF FindExpired, Release, Bound
<1>2. Bound' = Bound \ {k} /\ \A l \in Bound' : tree'[l] = tree[l] /\ l \in Bound
  BY <1>1 DEF Bound, TypeOK
<1>3. TypeOK'
  BY <1>1 DEF TypeOK
<1>4. \A l \in Bound' : tree[l].data # old
  BY <1>1, <1>2 DEF NoLeak
<1>5. FreedOnce'
  BY <1>1, <1>2, <1>4 DEF FreedOnce, TypeOK
<1>6. NoLeak'
  <2>1. \A d \in given : freed'[d] = 0 => freed[d] = 0 /\ d # old
    BY <1>1 DEF TypeOK
  <2>2. \A d \in given : freed'[d] = 0 => \E l \in Bound' : tree'[l].data = d
    BY <2>1, <1>1, <1>2 DEF NoLeak
  <2> QED
    BY <2>2, <1>1, <1>2 DEF NoLeak
<1>7. HeldIsGiven'
  BY <1>1, <1>2 DEF HeldIsGiven
<1>8. CountCovers' /\ FinitelyBound'
  <2>1. IsFiniteSet(Bound') /\ Cardinality(Bound') = Cardinality(Bound) - 1
    BY <1>1, <1>2, FS_RemoveElement DEF FinitelyBound
  <2>2. Cardinality(Bound) \in Nat
    BY FS_CardinalityType DEF FinitelyBound
  <2> QED
    BY <1>1, <2>1, <2>2 DEF CountCovers, FinitelyBound, TypeOK
<1> QED
  BY <1>3, <1>5, <1>6, <1>7, <1>8

\* A datum whose key could not be copied is freed, and was never taken over.
LEMMA WithoutKeyStep ==
  ASSUME IInv, NEW d \in Data, NEW duration \in Durations, AddWithoutKey(d, duration)
  PROVE  IInv'
<1> USE DEF IInv
<1>1. /\ d \notin given /\ freed[d] = 0
      /\ freed' = [freed EXCEPT ![d] = @ + 1]
      /\ UNCHANGED <<open, tree, count, now, given, found>>
      /\ result' = [data |-> d, res |-> "ENOMEM"]
  BY DEF AddWithoutKey, Release, Mine, Answer
<1>2. Bound' = Bound
  BY <1>1 DEF Bound
<1>3. TypeOK'
  BY <1>1 DEF TypeOK
<1>4. FreedOnce'
  BY <1>1, <1>2 DEF FreedOnce, HeldIsGiven, TypeOK
<1>5. NoLeak'
  BY <1>1, <1>2 DEF NoLeak, TypeOK
<1>6. CountCovers' /\ FinitelyBound' /\ HeldIsGiven'
  BY <1>1, <1>2 DEF CountCovers, FinitelyBound, HeldIsGiven
<1> QED
  BY <1>3, <1>4, <1>5, <1>6

\* A new element is bound, in place of an expired one or of none.
LEMMA AddBindsStep ==
  ASSUME IInv, NEW k \in Keys, NEW d \in Data, NEW duration \in Durations,
         AddBinds(k, d, duration)
  PROVE  IInv'
<1> USE DEF IInv
<1>0. PICK start \in Starts : tree' = [tree EXCEPT ![k] = Element(d, start + duration)]
  BY DEF AddBinds, Bind
<1> DEFINE new == Element(d, start + duration)
<1>1. /\ d \notin given /\ freed[d] = 0
      /\ tree' = [tree EXCEPT ![k] = new]
      /\ given' = given \cup {d} /\ count' = count + 1
      /\ result' = [data |-> d, res |-> "OK"]
      /\ UNCHANGED <<open, now, found>>
      /\ start + duration \in Nat
  BY <1>0, DurationsAssumption DEF AddBinds, Mine, Answer, TypeOK, Starts
<1>2. new \in [data: Data, expires_after: Nat] /\ new # NoRecord /\ new.data = d
  BY <1>1, ElementIsRecord
<1> HIDE DEF new
<1>3. /\ tree'[k] = new /\ \A l \in Keys \ {k} : tree'[l] = tree[l]
      /\ DOMAIN tree' = Keys
  BY <1>1 DEF TypeOK
<1>4. Bound' = Bound \cup {k}
  BY <1>2, <1>3 DEF Bound
<1>5. \/ tree[k] = NoRecord /\ k \notin Bound /\ freed' = freed
      \/ /\ k \in Bound /\ tree[k].data \in Data
         /\ freed' = [freed EXCEPT ![tree[k].data] = @ + 1]
  BY BoundTypes DEF AddBinds, Release, Bound
<1>6. freed' \in [Data -> Nat]
  BY <1>5 DEF TypeOK
<1>7. TypeOK'
  BY <1>1, <1>2, <1>3, <1>6 DEF TypeOK
<1>8. k \in Bound => tree[k].data # d /\ \A l \in Bound \ {k} : tree[l].data # tree[k].data
  BY <1>1 DEF NoLeak, HeldIsGiven
<1>9. \A l \in Bound \ {k} : tree[l].data # d
  BY <1>1 DEF HeldIsGiven
<1>10. FreedOnce'
  <2>1. \A e \in Data : freed'[e] <= 1
    BY <1>5 DEF FreedOnce, TypeOK
  <2>2. \A l \in Bound \ {k} : freed'[tree[l].data] = 0
    BY <1>5, <1>8, BoundTypes DEF FreedOnce, TypeOK
  <2>3. freed'[d] = 0
    BY <1>1, <1>5, <1>8 DEF TypeOK
  <2> QED
    BY <1>2, <1>3, <1>4, <2>1, <2>2, <2>3 DEF FreedOnce, Bound
<1>11. NoLeak'
  <2>1. ASSUME NEW e \in given, freed'[e] = 0
        PROVE  \E l \in Bound' : tree'[l].data = e
    <3>1. freed[e] = 0 /\ (k \in Bound => e # tree[k].data)
      BY <1>5, <2>1 DEF TypeOK
    <3>2. PICK l \in Bound : tree[l].data = e
      BY <3>1 DEF NoLeak
    <3> QED
      BY <3>1, <3>2, <1>3, <1>4 DEF Bound
  <2>2. \E l \in Bound' : tree'[l].data = d
    BY <1>2, <1>3, <1>4
  <2>3. \A l, j \in Bound' : tree'[l].data = tree'[j].data => l = j
    BY <1>2, <1>3, <1>4, <1>9 DEF NoLeak, Bound
  <2> QED
    BY <1>1, <2>1, <2>2, <2>3 DEF NoLeak
<1>12. HeldIsGiven'
  BY <1>1, <1>2, <1>3, <1>4 DEF HeldIsGiven, Bound
<1>13. CountCovers' /\ FinitelyBound'
  <2>1. /\ IsFiniteSet(Bound')
        /\ Cardinality(Bound') = IF k \in Bound THEN Cardinality(Bound) ELSE Cardinality(Bound) + 1
    BY <1>4, FS_AddElement DEF FinitelyBound
  <2>2. Cardinality(Bound) \in Nat
    BY FS_CardinalityType DEF FinitelyBound
  <2> QED
    BY <1>1, <2>1, <2>2 DEF CountCovers, FinitelyBound, TypeOK
<1> QED
  BY <1>7, <1>10, <1>11, <1>12, <1>13

\* The newcomer is thrown away, and counted.
LEMMA AddLosesStep ==
  ASSUME IInv, NEW k \in Keys, NEW d \in Data, NEW duration \in Durations,
         AddLoses(k, d, duration)
  PROVE  IInv'
<1> USE DEF IInv
<1>1. /\ d \notin given /\ freed[d] = 0
      /\ freed' = [freed EXCEPT ![d] = @ + 1]
      /\ given' = given \cup {d} /\ count' = count + 1
      /\ result' = [data |-> d, res |-> "OK"]
      /\ UNCHANGED <<open, tree, now, found>>
  BY DEF AddLoses, Mine, Release, Answer
<1>2. Bound' = Bound
  BY <1>1 DEF Bound
<1>3. TypeOK'
  BY <1>1 DEF TypeOK
<1>4. FreedOnce'
  BY <1>1, <1>2 DEF FreedOnce, HeldIsGiven, TypeOK
<1>5. NoLeak'
  BY <1>1, <1>2 DEF NoLeak, TypeOK
<1>6. HeldIsGiven' /\ FinitelyBound'
  BY <1>1, <1>2 DEF HeldIsGiven, FinitelyBound
<1>7. CountCovers'
  BY <1>1, <1>2, FS_CardinalityType DEF CountCovers, FinitelyBound, TypeOK
<1> QED
  BY <1>3, <1>4, <1>5, <1>6, <1>7

\* What the end of the cache frees: each datum of the tree once.
LEMMA DestroyFrees ==
  ASSUME IInv, NEW d \in Data
  PROVE  Cardinality({k \in Bound : tree[k].data = d})
           = IF \E k \in Bound : tree[k].data = d THEN 1 ELSE 0
<1> USE DEF IInv
<1>1. CASE \E k \in Bound : tree[k].data = d
  <2>1. PICK k \in Bound : tree[k].data = d
    BY <1>1
  <2>2. {l \in Bound : tree[l].data = d} = {k}
    BY <2>1 DEF NoLeak
  <2> QED
    BY <1>1, <2>2, FS_Singleton
<1>2. CASE ~\E k \in Bound : tree[k].data = d
  <2>1. {l \in Bound : tree[l].data = d} = {}
    BY <1>2
  <2> QED
    BY <1>2, <2>1, FS_EmptySet
<1> QED
  BY <1>1, <1>2

LEMMA DestroyStep ==
  ASSUME IInv, Destroy
  PROVE  IInv'
<1> USE DEF IInv
<1>1. /\ open' = FALSE /\ tree' = [k \in Keys |-> NoRecord]
      /\ UNCHANGED <<count, now, given, found, result>>
      /\ freed' = [d \in Data |-> freed[d] + Cardinality({k \in Bound : tree[k].data = d})]
  BY DEF Destroy
<1>2. Bound' = {}
  BY <1>1 DEF Bound
<1>3. \A d \in Data : freed'[d] = IF \E k \in Bound : tree[k].data = d THEN 1 ELSE freed[d]
  <2> TAKE d \in Data
  <2>1. freed'[d] = freed[d] + Cardinality({k \in Bound : tree[k].data = d}) /\ freed[d] \in Nat
    BY <1>1 DEF TypeOK
  <2>2. (\E k \in Bound : tree[k].data = d) => freed[d] = 0
    BY DEF FreedOnce
  <2> QED
    BY <2>1, <2>2, DestroyFrees
<1>4. freed' \in [Data -> Nat]
  BY <1>1, <1>3 DEF TypeOK
<1>5. TypeOK'
  BY <1>1, <1>4 DEF TypeOK
<1>6. FreedOnce'
  BY <1>2, <1>3 DEF FreedOnce
<1>7. NoLeak'
  BY <1>1, <1>2, <1>3 DEF NoLeak, TypeOK
<1>8. HeldIsGiven'
  BY <1>2 DEF HeldIsGiven
<1>9. CountCovers' /\ FinitelyBound'
  BY <1>1, <1>2, FS_EmptySet DEF CountCovers, FinitelyBound, TypeOK
<1> QED
  BY <1>5, <1>6, <1>7, <1>8, <1>9

LEMMA NextInvariant == IInv /\ [Next]_vars => IInv'
<1> SUFFICES ASSUME IInv, [Next]_vars PROVE IInv'
  OBVIOUS
<1>1. ASSUME NEW k \in Keys, Find(k) PROVE IInv'
  <2>1. CASE FindNothing(k) \/ FindLive(k)
    <3>1. UNCHANGED <<open, tree, count, now, freed, given, result>>
      BY <2>1 DEF FindNothing, FindLive
    <3>2. found' = NoData \/ (k \in Bound /\ found' = tree[k].data)
      BY <2>1 DEF FindNothing, FindLive, Vacant, Bound
    <3>3. TypeOK'
      BY <3>1, <3>2, BoundTypes DEF IInv, TypeOK
    <3> QED
      BY <3>1, <3>3, QuietSteps
  <2>2. CASE FindExpired(k)
    BY <2>2, FindExpiredStep
  <2> QED
    BY <1>1, <2>1, <2>2 DEF Find
<1>2. ASSUME NEW k \in Keys, NEW d \in Data, NEW duration \in Durations, Add(k, d, duration)
      PROVE  IInv'
  <2>1. CASE AddRefused(k, d, duration)
    <3>1. /\ UNCHANGED <<open, tree, count, now, freed, given, found>>
          /\ \E res \in {"EINVAL", "ENOMEM"} : result' = [data |-> d, res |-> res]
      BY <2>1 DEF AddRefused, Answer
    <3>2. TypeOK'
      BY <3>1 DEF IInv, TypeOK
    <3> QED
      BY <3>1, <3>2, QuietSteps
  <2> QED
    BY <1>2, <2>1, WithoutKeyStep, AddBindsStep, AddLosesStep DEF Add
<1>3. CASE Tick
  <2>1. TypeOK'
    BY <1>3, DurationsAssumption DEF Tick, IInv, TypeOK
  <2> QED
    BY <1>3, <2>1, QuietSteps DEF Tick
<1>4. CASE Destroy
  BY <1>4, DestroyStep
<1>5. CASE Done \/ UNCHANGED vars
  <2>1. TypeOK' /\ UNCHANGED <<tree, count, freed, given>>
    BY <1>5 DEF Done, vars, IInv, TypeOK
  <2> QED
    BY <2>1, QuietSteps
<1> QED
  BY <1>1, <1>2, <1>3, <1>4, <1>5 DEF Next

\* The invariant holds in every state of every execution.
THEOREM Invariance == Spec => []IInv
  BY InitInvariant, NextInvariant, PTL DEF Spec

\* The variables of lib/cache.c keep their types.
THEOREM TypeCorrect == Spec => []TypeOK
<1>1. IInv => TypeOK
  BY DEF IInv
<1> QED
  BY <1>1, Invariance, PTL

\* No datum is freed twice, and none that a lookup can return has been freed.
THEOREM DataFreedOnce == Spec => []FreedOnce
<1>1. IInv => FreedOnce
  BY DEF IInv
<1> QED
  BY <1>1, Invariance, PTL

\* What the cache has taken over is in its tree, once, or has been freed.
THEOREM DataNotLost == Spec => []NoLeak
<1>1. IInv => NoLeak
  BY DEF IInv
<1> QED
  BY <1>1, Invariance, PTL

\* A cache whose count is zero is empty.
THEOREM CountIsEnough == Spec => []CountCovers
<1>1. IInv => CountCovers
  BY DEF IInv
<1> QED
  BY <1>1, Invariance, PTL
-----------------------------------------------------------------------------
(* The refinement *)

\* How the cache shows as a map: a step gives these four their next values.
view == <<[k \in Keys |-> Visible(k)], [d \in Data |-> OwnerOf(d)], found, result.res # "OK">>

LEMMA MapInit == Init => Map!Init
<1> SUFFICES ASSUME Init PROVE Map!Init
  OBVIOUS
<1>1. \A k \in Keys : Visible(k) = NoData
  BY DEF Init, Visible, Vacant
<1>2. \A d \in Data : OwnerOf(d) = "caller"
  BY DEF Init, OwnerOf
<1> QED
  BY <1>1, <1>2 DEF Init, Map!Init

\* A datum that an expired element holds can be reclaimed.
LEMMA ExpiredIsReclaimable ==
  ASSUME IInv, NEW k \in Bound, Vacant(k)
  PROVE  tree[k].data \in Map!Reclaimable
<1> USE DEF IInv
<1>1. tree[k].data \in Data /\ tree[k].data # NoData /\ k \in Keys
  BY BoundTypes, DataAssumption
<1>2. OwnerOf(tree[k].data) = "cache"
  BY <1>1 DEF OwnerOf, FreedOnce, HeldIsGiven, TypeOK
<1>3. \A l \in Keys : Visible(l) # tree[k].data
  BY <1>1 DEF Visible, Vacant, NoLeak, Bound
<1> QED
  BY <1>1, <1>2, <1>3 DEF Map!Reclaimable

\* A find is a lookup, with an expired element or nothing reclaimed.
LEMMA FindMaps ==
  ASSUME IInv, NEW k \in Keys, Find(k)
  PROVE  Map!Next
<1> USE DEF IInv
<1>1. UNCHANGED <<now, given, result>> /\ found' = Visible(k)
  BY DEF Find, FindNothing, FindLive, FindExpired, Visible, Vacant
<1>2. CASE FindNothing(k) \/ FindLive(k)
  <2>1. UNCHANGED <<tree, freed>>
    BY <1>2 DEF FindNothing, FindLive
  <2>2. /\ \A l \in Keys : Visible(l)' = Visible(l)
        /\ \A d \in Data : OwnerOf(d)' = OwnerOf(d)
    BY <1>1, <2>1 DEF Visible, Vacant, Expired, OwnerOf
  <2>3. Map!Lookup(k, {})
    BY <1>1, <2>2 DEF Map!Lookup, Map!Own
  <2> QED
    BY <2>3 DEF Map!Next
<1>3. CASE FindExpired(k)
  <2> DEFINE old == tree[k].data
  <2>1. /\ k \in Bound /\ Vacant(k) /\ old \in Data
        /\ tree' = [tree EXCEPT ![k] = NoRecord]
        /\ freed' = [freed EXCEPT ![old] = @ + 1]
    BY <1>3, BoundTypes DEF FindExpired, Release, Bound
  <2>2. \A l \in Keys : Visible(l)' = Visible(l)
    BY <1>1, <2>1 DEF Visible, Vacant, Expired, TypeOK
  <2>3. \A d \in Data : OwnerOf(d)' = IF d = old THEN "freed" ELSE OwnerOf(d)
    BY <1>1, <2>1 DEF OwnerOf, TypeOK
  <2>4. old \in Map!Reclaimable
    BY <2>1, ExpiredIsReclaimable
  <2>5. Map!Lookup(k, {old})
    BY <1>1, <2>2, <2>3, <2>4 DEF Map!Lookup, Map!Own
  <2> QED
    BY <2>1, <2>5 DEF Map!Next
<1> QED
  BY <1>2, <1>3 DEF Find

\* An add binds, discards or fails.
LEMMA AddMaps ==
  ASSUME IInv, NEW k \in Keys, NEW d \in Data, NEW duration \in Durations, Add(k, d, duration)
  PROVE  Map!Next
<1> USE DEF IInv
<1>1. OwnerOf(d) = "caller" /\ d \notin given /\ freed[d] = 0 /\ UNCHANGED <<now, found>>
  BY DEF Add, AddRefused, AddWithoutKey, AddBinds, AddLoses, Mine, OwnerOf
<1>2. CASE AddRefused(k, d, duration) \/ AddWithoutKey(d, duration)
  <2>1. /\ UNCHANGED <<tree, given>> /\ result'.res # "OK"
        /\ freed' = freed \/ freed' = [freed EXCEPT ![d] = @ + 1]
    BY <1>2 DEF AddRefused, AddWithoutKey, Release, Answer
  <2>2. \A l \in Keys : Visible(l)' = Visible(l)
    BY <1>1, <2>1 DEF Visible, Vacant, Expired
  <2>3. \/ \A e \in Data : OwnerOf(e)' = OwnerOf(e)
        \/ \A e \in Data : OwnerOf(e)' = IF e = d THEN "freed" ELSE OwnerOf(e)
    BY <2>1 DEF OwnerOf, TypeOK
  <2>4. Map!Fail(d)
    BY <1>1, <2>1, <2>2, <2>3 DEF Map!Fail, Map!Own
  <2> QED
    BY <2>4 DEF Map!Next
<1>3. CASE AddLoses(k, d, duration)
  <2>1. /\ UNCHANGED tree /\ given' = given \cup {d} /\ result'.res = "OK"
        /\ freed' = [freed EXCEPT ![d] = @ + 1] /\ ~Vacant(k)
    BY <1>3 DEF AddLoses, Release, Answer
  <2>2. \A l \in Keys : Visible(l)' = Visible(l)
    BY <1>1, <2>1 DEF Visible, Vacant, Expired
  <2>3. \A e \in Data : OwnerOf(e)' = IF e = d THEN "freed" ELSE OwnerOf(e)
    BY <2>1 DEF OwnerOf, TypeOK
  <2>4. Visible(k) # NoData
    BY <2>1, BoundTypes, DataAssumption DEF Visible, Vacant, Bound
  <2>5. Map!Discard(k, d)
    BY <1>1, <2>1, <2>2, <2>3, <2>4 DEF Map!Discard, Map!Own
  <2> QED
    BY <2>5 DEF Map!Next
<1>4. CASE AddBinds(k, d, duration)
  <2>0. PICK start \in Starts : tree' = [tree EXCEPT ![k] = Element(d, start + duration)]
    BY <1>4 DEF AddBinds, Bind
  <2> DEFINE new == Element(d, start + duration)
             R == IF tree[k] = NoRecord THEN {} ELSE {tree[k].data}
  <2>1. /\ tree' = [tree EXCEPT ![k] = new] /\ given' = given \cup {d}
        /\ result'.res = "OK" /\ Vacant(k) /\ start + duration \in Nat
        /\ tree[k] = NoRecord => freed' = freed
        /\ tree[k] # NoRecord => freed' = [freed EXCEPT ![tree[k].data] = @ + 1]
    BY <1>4, <2>0, DurationsAssumption DEF AddBinds, Release, Answer, TypeOK, Starts
  <2>2. new # NoRecord /\ new.data = d
    BY <2>1, ElementIsRecord
  <2>3. R \subseteq Map!Reclaimable /\ R \subseteq Data /\ d \notin R
    BY <2>1, ExpiredIsReclaimable, BoundTypes, <1>1 DEF Bound, HeldIsGiven
  <2>4. tree'[k] = new /\ \A l \in Keys \ {k} : tree'[l] = tree[l]
    BY <2>1 DEF TypeOK
  <2>5. Visible(k) = NoData /\ Visible(k)' \in {d, NoData}
    BY <2>1, <2>2, <2>4 DEF Visible
  <2>6. \A l \in Keys \ {k} : Visible(l)' = Visible(l)
    BY <1>1, <2>4 DEF Visible, Vacant, Expired
  <2>7. \A e \in Data : OwnerOf(e)' = IF e = d THEN "cache"
                                      ELSE IF e \in R THEN "freed" ELSE OwnerOf(e)
    BY <1>1, <2>1, <2>3 DEF OwnerOf, TypeOK
  <2>8. \/ \A l \in Keys : Visible(l)' = IF l = k THEN d ELSE Visible(l)
        \/ \A l \in Keys : Visible(l)' = Visible(l)
    BY <2>5, <2>6
  <2>9. Map!Bind(k, d, R)
    BY <1>1, <2>1, <2>3, <2>5, <2>7, <2>8 DEF Map!Bind, Map!Own
  <2> QED
    BY <2>3, <2>9 DEF Map!Next
<1> QED
  BY <1>2, <1>3, <1>4 DEF Add

\* Time passes: what expires is no longer bound.
LEMMA TickMaps ==
  ASSUME IInv, Tick
  PROVE  Map!Next
<1> DEFINE K == {k \in Keys : Vacant(k)'}
<1>1. UNCHANGED <<tree, freed, given, found, result>> /\ now' = now + 1 /\ now \in Nat
  BY DEF Tick, IInv, TypeOK
<1>2. \A k \in Keys : Vacant(k) => Vacant(k)'
  BY <1>1, BoundTypes DEF Vacant, Expired, Bound, IInv
<1>3. \A k \in Keys : Visible(k)' = IF k \in K THEN NoData ELSE Visible(k)
  BY <1>1, <1>2 DEF Visible
<1>4. \A d \in Data : OwnerOf(d)' = OwnerOf(d)
  BY <1>1 DEF OwnerOf
<1>5. Map!Expire(K)
  BY <1>1, <1>3, <1>4 DEF Map!Expire
<1> QED
  BY <1>5 DEF Map!Next

\* The end of the cache frees what the cache owns.
LEMMA DestroyMaps ==
  ASSUME IInv, Destroy
  PROVE  Map!Next
<1> USE DEF IInv
<1>1. /\ tree' = [k \in Keys |-> NoRecord] /\ UNCHANGED <<given, found, result>>
      /\ freed' = [d \in Data |-> freed[d] + Cardinality({k \in Bound : tree[k].data = d})]
  BY DEF Destroy
<1>2. \A k \in Keys : Visible(k)' = NoData
  BY <1>1 DEF Visible, Vacant
<1>3. \A d \in Data : OwnerOf(d)' = IF OwnerOf(d) = "cache" THEN "freed" ELSE OwnerOf(d)
  <2> TAKE d \in Data
  <2>1. freed[d] \in Nat
        /\ freed'[d] = freed[d] + IF \E k \in Bound : tree[k].data = d THEN 1 ELSE 0
    BY <1>1, DestroyFrees DEF TypeOK
  <2>2. d \in given /\ freed[d] = 0 => \E k \in Bound : tree[k].data = d
    BY DEF NoLeak
  <2>3. (\E k \in Bound : tree[k].data = d) => d \in given
    BY DEF HeldIsGiven
  <2> QED
    BY <1>1, <2>1, <2>2, <2>3 DEF OwnerOf
<1>4. Map!Destroy
  BY <1>1, <1>2, <1>3 DEF Map!Destroy
<1> QED
  BY <1>4 DEF Map!Next

LEMMA StepsMap == IInv /\ [Next]_vars => Map!Next \/ UNCHANGED view
<1> SUFFICES ASSUME IInv, [Next]_vars PROVE Map!Next \/ UNCHANGED view
  OBVIOUS
<1>1. CASE Done \/ UNCHANGED vars
  <2>1. UNCHANGED <<tree, now, freed, given, found, result>>
    BY <1>1 DEF Done, vars
  <2> QED
    BY <2>1 DEF view, Visible, Vacant, Expired, OwnerOf
<1> QED
  BY <1>1, FindMaps, AddMaps, TickMaps, DestroyMaps DEF Next

\* lib/cache.c implements the expiring map: a binding lasts until it expires,
\* and what a caller gave is freed once, when no lookup can return it.
THEOREM CacheImplementsMap == Spec => ImplementsMap
<1>1. IInv /\ [Next]_vars => [Map!Next]_view
  BY StepsMap
<1> QED
  BY <1>1, MapInit, Invariance, PTL DEF Spec, ImplementsMap, Map!Spec, Map!vars, view
=============================================================================
