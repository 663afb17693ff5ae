--------------------------- MODULE BillingProofs ---------------------------
(***************************************************************************)
(* Proofs about Billing, for any number of callers, keys, events and       *)
(* caches, with and without the two kinds of failure.                      *)
(***************************************************************************)
EXTENDS Billing, TLAPS

\* The assumptions on the constants, under one name.
LEMMA Constants ==
  /\ Worker \notin Callers /\ Closer \notin Callers /\ Worker # Closer
  /\ NoCache \notin Caches /\ NoElement \notin Events
  /\ NoEvent \notin Events /\ NoKey \notin Keys
  /\ FlushInterval \in Int /\ MinimumCount \in Int
  /\ {SwapMayFail, SendMayFail, WorkerMayFail} \subseteq BOOLEAN
BY ActorsAssumption, NullsAssumption, IntervalAssumption, FaultAssumption

USE DEF Actors, Flushers

LEMMA TypeInit == Init => TypeOK
  BY Constants DEF Init, TypeOK, EmptyTree, NoCall, CallType, CallerStates,
     WorkerStates, CloserStates, FlushStates, Living

LEMMA TypeStep == TypeOK /\ [Next]_vars => TypeOK'
<1> SUFFICES ASSUME TypeOK, [Next]_vars PROVE TypeOK'
  OBVIOUS
<1> USE Constants DEF TypeOK, CallerStates, WorkerStates, CloserStates, FlushStates, Living
<1>1. ASSUME NEW t \in Callers, NEW k \in Keys, NEW e \in Events, Begin(t, k, e)
      PROVE  TypeOK'
  BY <1>1 DEF Begin, cacheVars, flushVars, timeVars, historyVars, CallType
<1>2. ASSUME NEW t \in Callers, FindMiss(t)
      PROVE  TypeOK'
  BY <1>2 DEF FindMiss, cacheVars, flushVars, timeVars, historyVars
<1>3. ASSUME NEW t \in Callers, FindHit(t)
      PROVE  TypeOK'
  BY <1>3 DEF FindHit, cacheVars, flushVars, timeVars, historyVars, CallType
<1>4. ASSUME NEW t \in Callers, Update(t)
      PROVE  TypeOK'
  BY <1>4 DEF Update, Return, flushVars, timeVars, NoCall, CallType
<1>5. ASSUME NEW t \in Callers, Insert(t)
      PROVE  TypeOK'
  BY <1>5 DEF Insert, Return, flushVars, timeVars, NoCall, CallType
<1>6. ASSUME NEW a \in Flushers, Serialize(a)
      PROVE  TypeOK'
  BY <1>6 DEF Serialize, Held, cacheVars, timeVars, historyVars
<1>7. ASSUME NEW a \in Flushers, NEW d \in BOOLEAN, Send(a, d)
      PROVE  TypeOK'
  BY <1>7 DEF Send, Told, cacheVars, timeVars
<1>8. ASSUME NEW a \in Flushers, Free(a)
      PROVE  TypeOK'
  BY <1>8 DEF Free, timeVars, historyVars
<1>9. CASE Start
  BY <1>9 DEF Start, cacheVars, flushVars, historyVars
<1>10. CASE Wait
  BY <1>10 DEF Wait, cacheVars, flushVars, timeVars, historyVars
<1>11. CASE Wake
  BY <1>11 DEF Wake, timeVars, historyVars
<1>12. ASSUME NEW c \in Caches, Replace(c)
       PROVE  TypeOK'
  BY <1>12 DEF Replace, LeaveSwap, EmptyTree, flushVars, historyVars
<1>13. CASE FailToReplace
  BY <1>13 DEF FailToReplace, LeaveSwap, cacheVars, flushVars, historyVars
<1>14. CASE Creation
  BY <1>14 DEF Creation, Launch, FailToLaunch, ConfigureFlush, ConfigureCount,
     cacheVars, flushVars, timeVars, historyVars
<1>15. CASE Tick
  BY <1>15 DEF Tick, cacheVars, flushVars, historyVars
<1>16. CASE Close
  BY <1>16 DEF Close, timeVars, historyVars
<1>17. CASE Join
  BY <1>17 DEF Join, cacheVars, flushVars, timeVars, historyVars
<1>18. CASE WaitFails
  BY <1>18 DEF WaitFails, cacheVars, flushVars, timeVars, historyVars
<1>19. CASE UNCHANGED vars
  BY <1>19 DEF vars, cacheVars, flushVars, timeVars, historyVars
<1>20. QED
  BY <1>1, <1>2, <1>3, <1>4, <1>5, <1>6, <1>7, <1>8, <1>9, <1>10, <1>11, <1>12,
     <1>13, <1>14, <1>15, <1>16, <1>17, <1>18, <1>19
     DEF Next, Add, Flush, Deliver, FailToSend, Task, Closed

\* Every variable keeps its type: the threads of lib/billing.c stay within
\* their own code and never follow a null element.
THEOREM TypeCorrect == Spec => []TypeOK
  BY TypeInit, TypeStep, PTL DEF Spec
-----------------------------------------------------------------------------
(* Where the events are.  Most steps leave every tree, every count and the   *)
(* set of the caches still to be serialized as they are.                     *)

Data ==
  /\ CountedIfFilled /\ ElementsApart /\ EventsAccounted
  /\ ElementsOld /\ ElementsKept /\ BilledOnce

\* The server knows of the same events as before, or of a batch more.
LEMMA SentKept == billed' = billed => sent' = sent
  BY DEF sent

LEMMA SentStep ==
  ASSUME TypeOK, NEW a \in Flushers, NEW d \in BOOLEAN, Send(a, d)
  PROVE  sent' = IF d THEN sent \cup batch[a] ELSE sent
<1>1. CASE d
  <2>1. \A e \in Events : billed'[e] = billed[e] + (IF e \in batch[a] THEN 1 ELSE 0)
    BY <1>1 DEF Send, Told
  <2>2. batch[a] \subseteq Events
    BY DEF TypeOK
  <2>3. \A e \in Events : billed'[e] > 0 <=> billed[e] > 0 \/ e \in batch[a]
    BY <2>1 DEF TypeOK
  <2>4. QED
    BY <1>1, <2>2, <2>3 DEF sent
<1>2. CASE ~d
  BY <1>2, SentKept DEF Send
<1>3. QED
  BY <1>1, <1>2

\* What is counted is in a cache that is not freed, and so among the elements.
LEMMA CountableKept ==
  ASSUME IInv
  PROVE  /\ Unread \subseteq allocated /\ allocated \subseteq Caches
         /\ Countable \subseteq UNION {Held(c) : c \in allocated}
         /\ Countable \subseteq elements
<1>1. Unread \subseteq allocated /\ allocated \subseteq Caches
  BY DEF IInv, TypeOK, Ownership, Owned, Unread
<1>2. QED
  BY <1>1 DEF Countable, IInv, ElementsKept

LEMMA QuietStep ==
  ASSUME Data, Unread' = Unread,
         UNCHANGED <<tree, count, allocated, elements, tally, batch, historyVars>>
  PROVE  Data'
<1>1. \A c : Held(c)' = Held(c)
  BY DEF Held
<1>2. Countable' = Countable
  BY <1>1 DEF Countable
<1>3. Pending' = Pending
  BY <1>2 DEF Pending
<1>4. QED
  BY <1>1, <1>2, <1>3, SentKept DEF Data, CountedIfFilled, ElementsApart, EventsAccounted,
     TalliesApart, PlacesApart, NothingVanishes, ElementsOld, ElementsKept, BilledOnce,
     historyVars

\* A call that finds its element adds its event to one tally, or to the lost.
LEMMA UpdateData ==
  ASSUME IInv, NEW t \in Callers, Update(t)
  PROVE  Data'
<1> DEFINE e == call[t].element
           ev == call[t].event
<1>1. Unread' = Unread /\ tree' = tree /\ count' = count
  BY Constants DEF IInv, TypeOK, Update, Return, flushVars, Unread
<1>2. /\ \A c : Held(c)' = Held(c)
      /\ Countable' = Countable
  BY <1>1 DEF Held, Countable
<1>3. e \in Events /\ ev \in Events /\ ev \notin returned
  BY DEF IInv, TypeOK, CallsFresh, Update, CallType
<1>4. \A x \in Countable : tally[x] \subseteq returned
  BY DEF IInv, EventsAccounted, NothingVanishes, Pending
<1>5. Countable \subseteq Events
  BY DEF IInv, TypeOK, Countable, Held, Unread
<1>6. /\ tally' = [tally EXCEPT ![e] = @ \cup {ev}]
      /\ returned' = returned \cup {ev}
      /\ lost' = IF e \in Countable THEN lost ELSE lost \cup {ev}
      /\ batch' = batch /\ sent' = sent
      /\ UNCHANGED <<allocated, elements, leaked, billed>>
  BY SentKept DEF Update, Return, flushVars
<1>7. \A x \in Countable : tally'[x] = IF x = e THEN tally[x] \cup {ev} ELSE tally[x]
  BY <1>3, <1>5, <1>6 DEF IInv, TypeOK
<1> HIDE DEF e, ev
<1>8. Pending' = IF e \in Countable THEN Pending \cup {ev} ELSE Pending
  <2>1. Pending' = UNION {tally'[x] : x \in Countable}
    BY <1>2 DEF Pending
  <2>2. CASE e \in Countable
    <3>1. \A y \in Pending' : y \in Pending \cup {ev}
      <4> SUFFICES ASSUME NEW y \in Pending' PROVE y \in Pending \cup {ev}
        OBVIOUS
      <4>1. PICK x \in Countable : y \in tally'[x]
        BY <2>1
      <4>2. y \in tally[x] \cup {ev}
        BY <4>1, <1>7
      <4>3. QED
        BY <4>1, <4>2 DEF Pending
    <3>2. ev \in Pending'
      BY <2>1, <2>2, <1>7
    <3>3. \A x \in Countable : tally[x] \subseteq tally'[x]
      BY <1>7
    <3>4. Pending \subseteq Pending'
      BY <2>1, <3>3 DEF Pending
    <3>5. QED
      BY <2>2, <3>1, <3>2, <3>4
  <2>3. CASE e \notin Countable
    BY <2>1, <2>3, <1>7 DEF Pending
  <2>4. QED
    BY <2>2, <2>3
<1>9. TalliesApart'
  <2> SUFFICES ASSUME NEW e1 \in Countable, NEW e2 \in Countable, e1 # e2
               PROVE  tally'[e1] \cap tally'[e2] = {}
    BY <1>2 DEF TalliesApart
  <2>1. tally[e1] \cap tally[e2] = {}
    BY DEF IInv, EventsAccounted, TalliesApart
  <2>2. QED
    BY <2>1, <1>3, <1>4, <1>7
<1>10. PlacesApart' /\ NothingVanishes'
  BY <1>3, <1>6, <1>8 DEF IInv, EventsAccounted, PlacesApart, NothingVanishes
<1>11. CountedIfFilled' /\ ElementsApart' /\ ElementsOld' /\ BilledOnce'
  BY <1>1, <1>2, <1>6 DEF IInv, CountedIfFilled, ElementsApart, ElementsOld, BilledOnce
<1>12. ElementsKept'
  BY <1>2, <1>6 DEF IInv, ElementsKept
<1>13. QED
  BY <1>9, <1>10, <1>11, <1>12 DEF Data, EventsAccounted

\* A call that makes its element fills an empty place of the current tree, or
\* loses its event.
LEMMA InsertData ==
  ASSUME IInv, NEW t \in Callers, Insert(t)
  PROVE  Data'
<1> DEFINE ev == call[t].event
           k == call[t].key
           new == current # NoCache /\ tree[current][k] = NoElement
<1>1. /\ Unread' = Unread /\ Unread \subseteq Caches
      /\ current # NoCache => current \in allocated
  BY Constants DEF IInv, TypeOK, Insert, Return, flushVars, Unread, Ownership, Owned
<1>2. ev \in Events /\ k \in Keys /\ ev \notin returned
  BY DEF IInv, TypeOK, CallsFresh, Insert, CallType
<1>3. /\ tree' = IF new THEN [tree EXCEPT ![current][k] = ev] ELSE tree
      /\ tally' = IF new THEN [tally EXCEPT ![ev] = {ev}] ELSE tally
      /\ lost' = IF new THEN lost ELSE lost \cup {ev}
      /\ count' = IF current = NoCache THEN count ELSE [count EXCEPT ![current] = @ + 1]
      /\ returned' = returned \cup {ev}
      /\ batch' = batch /\ sent' = sent
      /\ allocated' = allocated /\ billed' = billed
      /\ leaked' = IF current = NoCache THEN leaked \cup {ev} ELSE leaked
      /\ elements' = IF new \/ current = NoCache THEN elements \cup {ev} ELSE elements
  BY SentKept DEF Insert, Return, flushVars
<1>4. CountedIfFilled'
  <2>1. CASE current = NoCache
    BY <2>1, <1>1, <1>3 DEF IInv, CountedIfFilled, Held
  <2>2. CASE current # NoCache
    <3>1. count'[current] # 0
      BY <2>2, <1>3 DEF IInv, TypeOK
    <3>2. \A c \in Unread : c # current => count'[c] = count[c] /\ Held(c)' = Held(c)
      BY <2>2, <1>1, <1>3 DEF IInv, TypeOK, Held
    <3>3. QED
      BY <3>1, <3>2, <1>1 DEF IInv, CountedIfFilled
  <2>3. QED
    BY <2>1, <2>2
<1>a. ev \notin elements /\ ev \notin Countable /\ BilledOnce' /\ ElementsOld'
  BY <1>2, <1>3, CountableKept DEF IInv, ElementsOld, BilledOnce
<1> HIDE DEF ev, k
<1>5. CASE new
  <2>1. /\ current \in Unread
        /\ \A c \in Caches, x \in Keys :
             tree'[c][x] = IF c = current /\ x = k THEN ev ELSE tree[c][x]
        /\ \A x \in Events : tally'[x] = IF x = ev THEN {ev} ELSE tally[x]
    BY <1>2, <1>3, <1>5 DEF IInv, TypeOK, Unread
  <2>a. \A c \in Caches : Held(c)' = IF c = current THEN Held(c) \cup {ev} ELSE Held(c)
    BY <2>1, <1>2, <1>5, Constants DEF Held
  <2>2. Countable' = Countable \cup {ev}
    <3>1. \A c \in Caches : Held(c)' = IF c = current THEN Held(c) \cup {ev} ELSE Held(c)
      BY <2>a
    <3>2. Countable' = UNION {Held(c)' : c \in Unread}
      BY <1>1 DEF Countable
    <3>3. QED
      BY <3>1, <3>2, <2>1, <1>1 DEF Countable
  <2>3. Countable \subseteq Events /\ ev \notin Countable
    BY <1>a, CountableKept DEF IInv, TypeOK
  <2>4. Pending' = Pending \cup {ev}
    <3>1. Pending' = UNION {tally'[x] : x \in Countable \cup {ev}}
      BY <2>2 DEF Pending
    <3>2. QED
      BY <3>1, <2>1, <2>3, <1>2 DEF Pending
  <2>5. ElementsApart'
    <3> SUFFICES ASSUME NEW c1 \in allocated, NEW c2 \in allocated,
                        NEW k1 \in Keys, NEW k2 \in Keys,
                        tree'[c1][k1] # NoElement, tree'[c1][k1] = tree'[c2][k2]
                 PROVE  c1 = c2 /\ k1 = k2
      BY <1>3 DEF ElementsApart
    <3>a. c1 \in Caches /\ c2 \in Caches /\ c1 # NoCache /\ c2 # NoCache
      BY CountableKept, Constants
    <3>b. Held(c1) \subseteq elements /\ Held(c2) \subseteq elements
      BY DEF IInv, ElementsKept
    <3>1. tree[c1][k1] # ev /\ tree[c2][k2] # ev
      BY <3>a, <3>b, <1>a, <1>2, Constants DEF Held
    <3>2. tree[c1][k1] # NoElement /\ tree[c1][k1] = tree[c2][k2] => c1 = c2 /\ k1 = k2
      BY DEF IInv, ElementsApart
    <3>3. QED
      BY <3>a, <3>1, <3>2, <2>1
  <2>6. TalliesApart'
    <3> SUFFICES ASSUME NEW e1 \in Countable \cup {ev}, NEW e2 \in Countable \cup {ev}, e1 # e2
                 PROVE  tally'[e1] \cap tally'[e2] = {}
      BY <2>2 DEF TalliesApart
    <3>1. \A x \in Countable : ev \notin tally[x]
      BY <1>2 DEF IInv, EventsAccounted, NothingVanishes, Pending
    <3>2. e1 \in Countable /\ e2 \in Countable => tally[e1] \cap tally[e2] = {}
      BY DEF IInv, EventsAccounted, TalliesApart
    <3>3. QED
      BY <3>1, <3>2, <2>1, <2>3, <1>2
  <2>7. PlacesApart' /\ NothingVanishes'
    BY <2>4, <1>2, <1>3, <1>5 DEF IInv, EventsAccounted, PlacesApart, NothingVanishes
  <2>8. ElementsKept'
    <3>1. UNION {Held(c)' : c \in allocated} = (UNION {Held(c) : c \in allocated}) \cup {ev}
      <4>1. \A c \in allocated : Held(c)' = IF c = current THEN Held(c) \cup {ev} ELSE Held(c)
        BY <2>a, CountableKept
      <4>2. current \in allocated
        BY <1>1, <1>5
      <4> HIDE DEF Held
      <4>3. QED
        BY <4>1, <4>2
    <3>2. leaked' = leaked /\ elements' = elements \cup {ev} /\ ev \notin leaked /\ lost' = lost
      BY <1>3, <1>5, <1>a DEF IInv, ElementsKept
    <3>3. allocated' = allocated /\ ElementsKept
      BY <1>3 DEF IInv
    <3>4. ev \notin UNION {Held(c) : c \in allocated}
      BY <3>3, <1>a DEF ElementsKept
    <3>5. QED
      BY <3>1, <3>2, <3>3, <3>4 DEF ElementsKept
  <2>9. QED
    BY <2>5, <2>6, <2>7, <2>8, <1>4, <1>a DEF Data, EventsAccounted
<1>6. CASE ~new
  <2>1. tree' = tree /\ tally' = tally /\ lost' = lost \cup {ev}
    BY <1>3, <1>6
  <2>2. Countable' = Countable
    BY <2>1, <1>1 DEF Countable, Held
  <2>3. Pending' = Pending
    BY <2>1, <2>2 DEF Pending
  <2>4. ElementsApart' /\ TalliesApart'
    BY <2>1, <2>2, <1>1, <1>3 DEF IInv, EventsAccounted, ElementsApart, TalliesApart
  <2>a. ElementsKept'
    <3>1. UNION {Held(c)' : c \in allocated} = UNION {Held(c) : c \in allocated}
      BY <2>1 DEF Held
    <3>2. UNION {Held(c) : c \in allocated} \subseteq elements
      BY DEF IInv, ElementsKept
    <3>3. QED
      BY <3>1, <3>2, <2>1, <1>3, <1>6, <1>a DEF IInv, ElementsKept
  <2>5. PlacesApart' /\ NothingVanishes'
    BY <2>1, <2>3, <1>2, <1>3 DEF IInv, EventsAccounted, PlacesApart, NothingVanishes
  <2>6. QED
    BY <2>4, <2>a, <2>5, <1>4, <1>a DEF Data, EventsAccounted
<1>7. QED
  BY <1>5, <1>6

\* The walk moves the events of one cache into the batch of its owner; a cache
\* that is not walked has none.
LEMMA SerializeData ==
  ASSUME IInv, NEW a \in Flushers, Serialize(a)
  PROVE  Data'
<1> DEFINE c == drained[a]
           some == c # NoCache /\ count[c] > 0
           walked == UNION {tally[e] : e \in Held(c)}
<1>1. /\ tree' = tree /\ count' = count /\ tally' = tally
      /\ returned' = returned /\ sent' = sent /\ lost' = lost
      /\ batch' = [batch EXCEPT ![a] = IF some THEN walked ELSE {}]
      /\ UNCHANGED <<allocated, elements, leaked, billed>>
  BY SentKept DEF Serialize, cacheVars, historyVars
<1>2. Unread' = Unread \ {c} /\ Unread \subseteq Caches
  BY Constants DEF IInv, TypeOK, Ownership, FlusherState, OneFlusherAtClose, Serialize,
     cacheVars, Unread, WorkerStates, CloserStates, FlushStates, Living
<1>3. c # NoCache => c \in Unread
  BY DEF Serialize, Unread
<1>4. batch[a] = {}
  BY DEF IInv, FlusherState, Serialize
<1>5. \A x : Held(x)' = Held(x)
  BY <1>1 DEF Held
<1>6. Countable' = UNION {Held(x) : x \in Unread \ {c}}
  BY <1>2, <1>5 DEF Countable
<1>7. CountedIfFilled' /\ ElementsApart' /\ ElementsKept' /\ BilledOnce'
  BY <1>1, <1>2, <1>5 DEF IInv, CountedIfFilled, ElementsApart, ElementsKept, BilledOnce
<1>8. Countable' \subseteq Countable
  BY <1>6 DEF Countable
<1>9. TalliesApart' /\ ElementsOld'
  BY <1>1, <1>8 DEF IInv, EventsAccounted, TalliesApart, ElementsOld
<1> HIDE DEF c
<1>10. CASE some
  <2>1. Countable = Countable' \cup Held(c)
    BY <1>3, <1>6, <1>10 DEF Countable
  <2>2. Countable' \cap Held(c) = {}
    <3> SUFFICES ASSUME NEW x \in Unread, x # c, NEW e \in Held(x), e \in Held(c)
                 PROVE  FALSE
      BY <1>6
    <3>1. c \in Unread
      BY <1>3, <1>10
    <3>2. PICK k1 \in Keys : tree[x][k1] = e /\ e # NoElement
      BY DEF Held
    <3>3. PICK k2 \in Keys : tree[c][k2] = e
      BY DEF Held
    <3>4. QED
      BY <3>1, <3>2, <3>3, CountableKept DEF IInv, ElementsApart
  <2>3. Pending = Pending' \cup walked
    BY <1>1, <2>1 DEF Pending
  <2>4. Pending' \cap walked = {}
    <3> SUFFICES ASSUME NEW e1 \in Countable', NEW e2 \in Held(c)
                 PROVE  tally[e1] \cap tally[e2] = {}
      BY <1>1 DEF Pending
    <3>1. QED
      BY <2>1, <2>2 DEF IInv, EventsAccounted, TalliesApart
  <2>5. PlacesApart' /\ NothingVanishes'
    BY <1>1, <1>4, <1>10, <2>3, <2>4, Constants
       DEF IInv, TypeOK, EventsAccounted, PlacesApart, NothingVanishes
  <2>6. QED
    BY <1>7, <1>9, <2>5 DEF Data, EventsAccounted
<1>11. CASE ~some
  <2>1. batch' = batch
    BY <1>1, <1>4, <1>11 DEF IInv, TypeOK
  <2>2. c # NoCache => Held(c) = {}
    BY <1>2, <1>3, <1>11 DEF IInv, TypeOK, CountedIfFilled
  <2>3. Countable' = Countable
    BY <1>6, <2>2 DEF Countable, Unread
  <2>4. Pending' = Pending
    BY <1>1, <2>3 DEF Pending
  <2>5. PlacesApart' /\ NothingVanishes'
    BY <1>1, <2>1, <2>4 DEF IInv, EventsAccounted, PlacesApart, NothingVanishes
  <2>6. QED
    BY <1>7, <1>9, <2>5 DEF Data, EventsAccounted
<1>12. QED
  BY <1>10, <1>11

\* A POST settles the events of one batch.
LEMMA SendData ==
  ASSUME IInv, NEW a \in Flushers, NEW d \in BOOLEAN, Send(a, d)
  PROVE  Data'
<1>1. Unread' = Unread
  BY Constants DEF IInv, TypeOK, Send, cacheVars, Unread
<1>2. /\ tree' = tree /\ count' = count /\ tally' = tally /\ returned' = returned
      /\ UNCHANGED <<allocated, elements, leaked>>
      /\ sent' = IF d THEN sent \cup batch[a] ELSE sent
      /\ lost' = IF d THEN lost ELSE lost \cup batch[a]
      /\ batch' = [batch EXCEPT ![a] = {}]
  BY SentStep DEF IInv, Send, cacheVars
<1>3. \A c : Held(c)' = Held(c)
  BY <1>2 DEF Held
<1>4. Countable' = Countable
  BY <1>1, <1>3 DEF Countable
<1>5. Pending' = Pending
  BY <1>2, <1>4 DEF Pending
<1>6. PlacesApart' /\ NothingVanishes'
  BY <1>2, <1>5, Constants DEF IInv, TypeOK, EventsAccounted, PlacesApart, NothingVanishes
<1>7. BilledOnce'
  <2>1. \A e \in Events : e \in batch[a] => billed[e] = 0
    BY DEF IInv, TypeOK, EventsAccounted, PlacesApart, sent
  <2>2. \A e \in Events : billed[e] \in Nat /\ billed[e] <= 1
    BY DEF IInv, TypeOK, BilledOnce
  <2>3. QED
    BY <2>1, <2>2 DEF Send, Told, BilledOnce
<1>8. ElementsKept'
  BY <1>2, <1>3 DEF IInv, ElementsKept
<1>9. QED
  BY <1>1, <1>2, <1>3, <1>4, <1>6, <1>7, <1>8 DEF IInv, Data, CountedIfFilled, ElementsApart,
     EventsAccounted, TalliesApart, ElementsOld

\* A freed cache takes its own elements with it, and no other.
LEMMA FreeData ==
  ASSUME IInv, NEW a \in Flushers, Free(a)
  PROVE  Data'
<1> DEFINE c == drained[a]
<1>1. /\ UNCHANGED <<current, tree, count, tally, batch, returned, lost, billed, leaked>>
      /\ allocated' = allocated \ {c} /\ elements' = elements \ Held(c)
      /\ sent' = sent
  BY SentKept DEF Free, historyVars
<1>2. Unread' = Unread
  BY Constants DEF IInv, TypeOK, Free, Unread
<1>3. \A x : Held(x)' = Held(x)
  BY <1>1 DEF Held
<1>4. Countable' = Countable
  BY <1>2, <1>3 DEF Countable
<1>5. Pending' = Pending
  BY <1>1, <1>4 DEF Pending
<1>6. CountedIfFilled' /\ ElementsApart' /\ EventsAccounted' /\ ElementsOld' /\ BilledOnce'
  BY <1>1, <1>2, <1>3, <1>4, <1>5 DEF IInv, CountedIfFilled, ElementsApart, EventsAccounted,
     TalliesApart, PlacesApart, NothingVanishes, ElementsOld, BilledOnce
<1>7. \A x \in allocated : x # c => Held(x) \cap Held(c) = {}
  <2> SUFFICES ASSUME NEW x \in allocated, x # c, NEW e \in Held(x), e \in Held(c)
               PROVE  FALSE
    OBVIOUS
  <2>1. c \in allocated /\ c # NoCache
    BY DEF IInv, Ownership, Owned, Held
  <2>2. PICK k1 \in Keys : tree[x][k1] = e /\ e # NoElement
    BY DEF Held
  <2>3. PICK k2 \in Keys : tree[c][k2] = e
    BY <2>1 DEF Held
  <2>4. QED
    BY <2>1, <2>2, <2>3 DEF IInv, ElementsApart
<1>8. Held(c) \cap leaked = {}
  BY Constants DEF IInv, ElementsKept, Ownership, Owned, Held
<1>9. ElementsKept'
  BY <1>1, <1>3, <1>7, <1>8 DEF IInv, ElementsKept
<1>10. QED
  BY <1>6, <1>9 DEF Data

\* The new cache is empty.
LEMMA ReplaceData ==
  ASSUME IInv, NEW c \in Caches, Replace(c)
  PROVE  Data'
<1>1. /\ c \notin allocated
      /\ tree' = [tree EXCEPT ![c] = EmptyTree]
      /\ count' = [count EXCEPT ![c] = 0]
      /\ tally' = tally /\ batch' = batch
      /\ returned' = returned /\ sent' = sent /\ lost' = lost
      /\ allocated' = allocated \cup {c} /\ UNCHANGED <<elements, leaked, billed>>
  BY SentKept DEF Replace, flushVars, historyVars
<1>2. Unread \subseteq allocated /\ allocated \subseteq Caches /\ c # NoCache
  BY CountableKept, Constants
<1>3. Unread' = Unread \cup {c}
  BY Constants DEF IInv, TypeOK, FlusherState, Replace, LeaveSwap, flushVars, Unread
<1>4. /\ \A x \in allocated : Held(x)' = Held(x) /\ count'[x] = count[x] /\ tree'[x] = tree[x]
      /\ tree'[c] = EmptyTree /\ Held(c)' = {}
  BY <1>1, <1>2 DEF IInv, TypeOK, Held, EmptyTree
<1>5. Countable' = Countable
  BY <1>2, <1>3, <1>4 DEF Countable
<1>6. Pending' = Pending
  BY <1>1, <1>5 DEF Pending
<1>7. CountedIfFilled'
  BY <1>2, <1>3, <1>4 DEF IInv, CountedIfFilled
<1>8. ElementsApart'
  BY <1>1, <1>4 DEF IInv, ElementsApart, EmptyTree
<1>9. EventsAccounted' /\ ElementsOld' /\ BilledOnce'
  BY <1>1, <1>5, <1>6 DEF IInv, EventsAccounted, TalliesApart, PlacesApart, NothingVanishes,
     ElementsOld, BilledOnce
<1>10. ElementsKept'
  BY <1>1, <1>4 DEF IInv, ElementsKept
<1>11. QED
  BY <1>7, <1>8, <1>9, <1>10 DEF Data
-----------------------------------------------------------------------------
(* Who owns which cache, and whose call is whose. *)

Control == Ownership /\ FlusherState /\ OneFlusherAtClose

\* A step of a caller moves no cache and no flusher.
LEMMA CallerControl ==
  ASSUME IInv, NEW t \in Callers, Add(t)
  PROVE  Control'
<1>1. /\ current' = current /\ allocated' = allocated /\ drained' = drained /\ batch' = batch
      /\ pc'[Worker] = pc[Worker] /\ pc'[Closer] = pc[Closer]
  BY Constants DEF IInv, TypeOK, Add, Begin, FindMiss, FindHit, Update, Insert, Return,
     cacheVars, flushVars
<1>2. QED
  BY <1>1, Constants DEF IInv, Control, Ownership, Owned, FlusherState, OneFlusherAtClose

\* A step of a flusher: the destructor flushes only after the worker is gone.
LEMMA FlushControl ==
  ASSUME IInv, NEW a \in Flushers, Flush(a)
  PROVE  Control'
<1> USE Constants DEF Control, Ownership, Owned, FlusherState, OneFlusherAtClose,
        WorkerStates, CloserStates, FlushStates, Living
<1>1. CASE Serialize(a)
  BY <1>1 DEF IInv, TypeOK, Serialize, cacheVars
<1>2. ASSUME NEW d \in BOOLEAN, Send(a, d)
      PROVE  Control'
  BY <1>2 DEF IInv, TypeOK, Send, cacheVars
<1>3. CASE Free(a)
  BY <1>3 DEF IInv, TypeOK, Free
<1>4. QED
  BY <1>1, <1>2, <1>3 DEF Flush, Deliver, FailToSend

LEMMA TaskControl ==
  ASSUME IInv, Task
  PROVE  Control'
<1> USE Constants DEF Control, Ownership, Owned, FlusherState, OneFlusherAtClose,
        WorkerStates, CloserStates, FlushStates, Living
<1>1. CASE Start
  BY <1>1 DEF IInv, TypeOK, Start, cacheVars, flushVars
<1>2. CASE Wait
  BY <1>2 DEF IInv, TypeOK, Wait, cacheVars, flushVars
<1>3. CASE Wake
  BY <1>3 DEF IInv, TypeOK, Wake
<1>4. ASSUME NEW c \in Caches, Replace(c)
      PROVE  Control'
  <2>1. /\ current = NoCache /\ current' = c /\ c \notin allocated /\ c # NoCache
        /\ allocated' = allocated \cup {c} /\ drained' = drained /\ batch' = batch
        /\ pc[Worker] = "swap" /\ pc'[Worker] = "serialize" /\ pc'[Closer] = pc[Closer]
    BY <1>4 DEF IInv, TypeOK, Replace, LeaveSwap, flushVars
  <2>2. pc[Closer] \in Living
    BY <2>1 DEF IInv
  <2>3. Owned' = Owned \cup {c}
    BY <2>1
  <2>4. Ownership'
    BY <2>1, <2>3 DEF IInv
  <2>5. FlusherState' /\ OneFlusherAtClose'
    <3>1. \A a \in Flushers : batch'[a] # {} => pc'[a] = "send"
      BY <2>1 DEF IInv
    <3>2. QED
      BY <2>1, <2>2, <3>1 DEF IInv
  <2>6. QED
    BY <2>4, <2>5
<1>5. CASE FailToReplace
  BY <1>5 DEF IInv, TypeOK, FailToReplace, LeaveSwap, cacheVars, flushVars
<1>6. CASE WaitFails
  BY <1>6 DEF IInv, TypeOK, WaitFails, cacheVars, flushVars
<1>7. QED
  BY <1>1, <1>2, <1>3, <1>4, <1>5, <1>6 DEF Task

LEMMA CloserControl ==
  ASSUME IInv, Creation \/ Tick \/ Close \/ Join
  PROVE  Control'
<1> USE Constants DEF Control, Ownership, Owned, FlusherState, OneFlusherAtClose,
        WorkerStates, CloserStates, FlushStates, Living
<1>1. CASE Creation
  <2>1. CASE Launch \/ ConfigureFlush \/ ConfigureCount
    BY <2>1 DEF IInv, TypeOK, Launch, ConfigureFlush, ConfigureCount, cacheVars, flushVars
  <2>2. CASE FailToLaunch
    BY <2>2 DEF IInv, TypeOK, FailToLaunch
  <2>3. QED
    BY <1>1, <2>1, <2>2 DEF Creation
<1>2. CASE Tick
  BY <1>2 DEF IInv, TypeOK, Tick, cacheVars, flushVars
<1>3. CASE Close
  <2>1. /\ current' = NoCache /\ allocated' = allocated /\ batch' = batch
        /\ drained'[Worker] = drained[Worker] /\ drained'[Closer] = current
        /\ pc'[Worker] = pc[Worker] /\ pc'[Closer] = "join"
        /\ pc[Worker] # "swap" /\ pc[Closer] = "open" /\ drained[Closer] = NoCache
    BY <1>3 DEF IInv, TypeOK, Close, LockFree
  <2>2. Ownership'
    <3>1. Owned' = Owned
      BY <2>1
    <3>2. QED
      BY <2>1, <3>1 DEF IInv
  <2>3. FlusherState' /\ OneFlusherAtClose'
    BY <2>1 DEF IInv
  <2>4. QED
    BY <2>2, <2>3
<1>4. CASE Join
  <2>1. /\ UNCHANGED <<current, allocated, drained, batch>>
        /\ pc'[Worker] = pc[Worker] /\ pc'[Closer] = "serialize"
        /\ pc[Worker] = "exit" /\ pc[Closer] = "join"
    BY <1>4 DEF IInv, TypeOK, Join, cacheVars, flushVars
  <2>2. QED
    BY <2>1 DEF IInv
<1>5. QED
  BY <1>1, <1>2, <1>3, <1>4

\* A new call takes an event nobody has; only a returning call gives its up.
LEMMA CallsStep ==
  ASSUME IInv, [Next]_vars
  PROVE  CallsFresh'
<1>1. ASSUME NEW t \in Callers, NEW k \in Keys, NEW e \in Events, Begin(t, k, e)
      PROVE  CallsFresh'
  BY <1>1, Constants DEF IInv, TypeOK, CallsFresh, Begin, InFlight, historyVars
<1>2. ASSUME NEW t \in Callers, FindMiss(t) \/ FindHit(t)
      PROVE  CallsFresh'
  <2>1. returned' = returned /\ pc'[t] # "idle" /\ pc[t] # "idle"
    BY <1>2 DEF IInv, TypeOK, FindMiss, FindHit, historyVars
  <2>2. \A u \in Callers : call'[u].event = call[u].event
    <3>1. CASE FindMiss(t)
      BY <3>1 DEF FindMiss
    <3>2. CASE FindHit(t)
      BY <3>2 DEF IInv, TypeOK, CallType, FindHit
    <3>3. QED
      BY <1>2, <3>1, <3>2
  <2>3. \A u \in Callers : u # t => pc'[u] = pc[u]
    BY <1>2 DEF IInv, TypeOK, FindMiss, FindHit
  <2>4. QED
    BY <2>1, <2>2, <2>3 DEF IInv, CallsFresh
<1>3. ASSUME NEW t \in Callers, pc[t] # "idle", Return(t)
      PROVE  CallsFresh'
  <2>1. /\ \A u \in Callers : call'[u] = IF u = t THEN NoCall ELSE call[u]
        /\ \A u \in Callers : pc'[u] = IF u = t THEN "idle" ELSE pc[u]
        /\ returned' = returned \cup {call[t].event}
    BY <1>3 DEF IInv, TypeOK, Return
  <2>2. NoCall.event = NoEvent /\ NoEvent \notin returned
    BY Constants DEF IInv, TypeOK, NoCall
  <2>3. \A u \in Callers : pc'[u] = "idle" <=> call'[u].event = NoEvent
    BY <2>1, <2>2 DEF IInv, CallsFresh
  <2>4. \A u \in Callers : call'[u].event \notin returned'
    BY <2>1, <2>2, <1>3 DEF IInv, CallsFresh, Return
  <2>5. QED
    BY <2>1, <2>2, <2>3, <2>4 DEF IInv, CallsFresh
<1>4. ASSUME UNCHANGED <<call, returned>>, \A t \in Callers : pc'[t] = pc[t]
      PROVE  CallsFresh'
  BY <1>4 DEF IInv, CallsFresh
<1>5. ASSUME NEW a \in Flushers, Flush(a)
      PROVE  CallsFresh'
  BY <1>4, <1>5, Constants DEF IInv, TypeOK, Flush, Serialize, Deliver, FailToSend, Send, Free,
     historyVars
<1>6. CASE Task
  BY <1>4, <1>6, Constants DEF IInv, TypeOK, Task, Start, Wait, Wake, WaitFails, Replace, FailToReplace,
     LeaveSwap, historyVars
<1>7. CASE Creation \/ Tick \/ Close \/ Join \/ UNCHANGED vars
  BY <1>4, <1>7, Constants DEF IInv, TypeOK, Creation, Launch, FailToLaunch, ConfigureFlush,
     ConfigureCount, Tick, Close, Join, historyVars, vars
<1>8. QED
  BY <1>1, <1>2, <1>3, <1>5, <1>6, <1>7 DEF Next, Add, Update, Insert, Closed
-----------------------------------------------------------------------------
LEMMA InvariantInit == Init => IInv
<1> SUFFICES ASSUME Init PROVE IInv
  OBVIOUS
<1>1. TypeOK
  BY TypeInit
<1>2. PICK c \in Caches : current = c /\ allocated = {c}
  BY DEF Init
<1>3. /\ pc[Worker] = "exit" /\ pc[Closer] = "create"
      /\ \A t \in Callers : pc[t] = "idle"
  BY Constants DEF Init
<1>4. \A x \in Caches : Held(x) = {}
  BY DEF Init, Held, EmptyTree
<1>5. Unread \subseteq Caches
  BY <1>1, <1>3 DEF TypeOK, Unread
<1>6. Countable = {} /\ Pending = {} /\ sent = {}
  BY <1>4, <1>5 DEF Countable, Pending, Init, sent
<1>7. Ownership /\ FlusherState /\ OneFlusherAtClose
  BY <1>2, <1>3, Constants DEF Init, Ownership, Owned, FlusherState, OneFlusherAtClose,
     FlushStates, Living
<1>8. Data /\ CacheKept
  BY <1>2, <1>3, <1>4, <1>5, <1>6, Constants DEF Init, Data, CountedIfFilled, ElementsApart,
     EmptyTree, EventsAccounted, TalliesApart, PlacesApart, NothingVanishes, ElementsOld,
     ElementsKept, BilledOnce, CacheKept
<1>9. CallsFresh
  BY <1>3 DEF Init, CallsFresh, NoCall
<1>10. QED
  BY <1>1, <1>7, <1>8, <1>9 DEF IInv, Data

LEMMA DataStep == IInv /\ [Next]_vars => Data'
<1> SUFFICES ASSUME IInv, [Next]_vars PROVE Data'
  OBVIOUS
<1>1. Data
  BY DEF IInv, Data
<1>2. ASSUME NEW t \in Callers, Add(t)
      PROVE  Data'
  <2>1. CASE Update(t)
    BY <2>1, UpdateData
  <2>2. CASE Insert(t)
    BY <2>2, InsertData
  <2>3. CASE FindMiss(t) \/ FindHit(t) \/ \E k \in Keys, e \in Events : Begin(t, k, e)
    <3>1. UNCHANGED <<tree, count, allocated, elements, tally, batch, historyVars>>
      BY <2>3 DEF FindMiss, FindHit, Begin, cacheVars, flushVars
    <3>2. Unread' = Unread
      BY <2>3, Constants DEF IInv, TypeOK, FindMiss, FindHit, Begin, cacheVars, flushVars, Unread
    <3>3. QED
      BY <1>1, <3>1, <3>2, QuietStep
  <2>4. QED
    BY <1>2, <2>1, <2>2, <2>3 DEF Add
<1>3. ASSUME NEW a \in Flushers, Flush(a)
      PROVE  Data'
  BY <1>3, FreeData, SerializeData, SendData DEF Flush, Deliver, FailToSend
<1>4. CASE Task
  <2>1. ASSUME NEW c \in Caches, Replace(c)
        PROVE  Data'
    BY <2>1, ReplaceData
  <2>2. CASE Start \/ Wait \/ Wake \/ WaitFails \/ FailToReplace
    <3>1. UNCHANGED <<tree, count, allocated, elements, tally, batch, historyVars>>
      BY <2>2 DEF Start, Wait, Wake, WaitFails, FailToReplace, cacheVars, flushVars
    <3>2. Unread' = Unread
      <4>1. CASE Start \/ Wait \/ WaitFails
        BY <4>1, Constants DEF IInv, TypeOK, Start, Wait, WaitFails, cacheVars, flushVars, Unread
      <4>2. CASE Wake
        BY <4>2, Constants DEF IInv, TypeOK, Wake, Unread
      <4>3. CASE FailToReplace
        BY <4>3, Constants DEF IInv, TypeOK, FailToReplace, LeaveSwap, cacheVars, flushVars, Unread
      <4>4. QED
        BY <2>2, <4>1, <4>2, <4>3
    <3>3. QED
      BY <1>1, <3>1, <3>2, QuietStep
  <2>3. QED
    BY <1>4, <2>1, <2>2 DEF Task
<1>5. CASE Creation \/ Tick \/ Close \/ Join \/ UNCHANGED vars
  <2>1. UNCHANGED <<tree, count, allocated, elements, tally, batch, historyVars>>
    BY <1>5 DEF Creation, Launch, FailToLaunch, ConfigureFlush,
     ConfigureCount, Tick, Close, Join, vars, cacheVars, flushVars
  <2>2. Unread' = Unread
    <3>a. CASE FailToLaunch
      BY <3>a, Constants DEF IInv, TypeOK, FailToLaunch, Unread, OneFlusherAtClose
    <3>b. CASE Launch
      <4>1. UNCHANGED <<current, drained>> /\ pc[Worker] = "exit" /\ pc'[Worker] = "start"
            /\ pc[Closer] \in Living /\ pc'[Closer] \in Living
        BY <3>b, Constants DEF IInv, TypeOK, OneFlusherAtClose, Launch, Living, cacheVars, flushVars
      <4>2. QED
        BY <4>1 DEF Unread, Living
    <3>1. CASE ConfigureFlush \/ ConfigureCount \/ Tick \/ Join \/ UNCHANGED vars
      BY <3>1, Constants DEF IInv, TypeOK, Creation, Launch, FailToLaunch, ConfigureFlush,
     ConfigureCount, Tick, Join, vars, cacheVars, flushVars, Unread
    <3>2. CASE Close
      BY <3>2, Constants DEF IInv, TypeOK, Close, Unread
    <3>3. QED
      BY <1>5, <3>a, <3>b, <3>1, <3>2 DEF Creation
  <2>3. QED
    BY <1>1, <2>1, <2>2, QuietStep
<1>6. QED
  BY <1>2, <1>3, <1>4, <1>5 DEF Next, Closed

LEMMA ControlStep == IInv /\ [Next]_vars => Control'
<1> SUFFICES ASSUME IInv, [Next]_vars PROVE Control'
  OBVIOUS
<1>1. CASE UNCHANGED vars
  BY <1>1 DEF IInv, Control, Ownership, Owned, FlusherState, OneFlusherAtClose, vars, cacheVars,
     flushVars
<1>2. QED
  BY <1>1, CallerControl, FlushControl, TaskControl, CloserControl DEF Next, Closed

\* Calls are made while there is a cache, but for the failures at a swap.
LEMMA CacheStep == IInv /\ [Next]_vars => CacheKept'
<1> SUFFICES ASSUME IInv, [Next]_vars PROVE CacheKept'
  OBVIOUS
<1> USE Constants DEF IInv, TypeOK, CacheKept, Living
<1>1. ASSUME NEW t \in Callers, Add(t) PROVE CacheKept'
  <2>1. UNCHANGED <<current, pc[Worker], pc[Closer]>>
    BY <1>1 DEF Add, Begin, FindMiss, FindHit, Update, Insert, Return, cacheVars
  <2>2. \A u \in Callers : pc'[u] # "idle" => pc[Closer] = "open"
    BY <1>1 DEF Add, Begin, FindMiss, FindHit, Update, Insert, Return
  <2>3. leaked' = leaked \/ (current = NoCache /\ pc[t] = "missed" /\ LockFree)
    BY <1>1 DEF Add, Begin, FindMiss, FindHit, Update, Insert, historyVars
  <2>4. QED
    BY <2>1, <2>2, <2>3 DEF LockFree
<1>2. ASSUME NEW a \in Flushers, Flush(a) PROVE CacheKept'
  BY <1>2 DEF Flush, Serialize, Deliver, FailToSend, Send, Free, cacheVars, historyVars,
     FlusherState, FlushStates
<1>3. CASE Task
  BY <1>3 DEF Task, Start, Wait, Wake, WaitFails, Replace, FailToReplace, LeaveSwap, cacheVars,
     historyVars
<1>4. CASE Launch \/ FailToLaunch
  BY <1>4 DEF Launch, FailToLaunch, OneFlusherAtClose, cacheVars, historyVars
<1>a. CASE ConfigureFlush \/ ConfigureCount \/ Tick \/ Close \/ Join
  BY <1>a DEF ConfigureFlush, ConfigureCount, Tick, Close, Join, cacheVars, historyVars
<1>5. CASE UNCHANGED vars
  BY <1>5 DEF vars, cacheVars, historyVars
<1> QED
  BY <1>1, <1>2, <1>3, <1>4, <1>a, <1>5 DEF Next, Closed, Creation

LEMMA InvariantStep == IInv /\ [Next]_vars => IInv'
  BY TypeStep, DataStep, ControlStep, CallsStep, CacheStep DEF IInv, Data, Control

\* The inductive invariant holds of every context, whatever the number of
\* threads, keys and calls, and whatever fails.
THEOREM Invariance == Spec => []IInv
  BY InvariantInit, InvariantStep, PTL DEF Spec

\* The worker and the destructor never share, leak or free twice a cache.
THEOREM CachesOwned == Spec => []Ownership
<1>1. IInv => Ownership
  BY DEF IInv
<1>2. QED
  BY <1>1, Invariance, PTL

\* The destructor flushes and frees only when the worker is gone.
THEOREM JoinComesFirst == Spec => []OneFlusherAtClose
<1>1. IInv => OneFlusherAtClose
  BY DEF IInv
<1>2. QED
  BY <1>1, Invariance, PTL

\* Every event of a call that returned is in exactly one place.
THEOREM EventsAreAccounted == Spec => []EventsAccounted
<1>1. IInv => EventsAccounted
  BY DEF IInv
<1>2. QED
  BY <1>1, Invariance, PTL

\* A destroyed context has freed its caches and settled every event, and of its
\* memory there is left what no cache took, which is nothing if no swap failed.
THEOREM CloseSettles == Spec => []ClosedIsSettled
<1>1. IInv => ClosedIsSettled
  <2> SUFFICES ASSUME IInv, pc[Closer] = "closed"
               PROVE  /\ allocated = {} /\ returned = sent \cup lost
                      /\ elements = leaked /\ leaked \subseteq lost
                      /\ ~SwapMayFail => elements = {}
    BY DEF ClosedIsSettled
  <2>1. pc[Worker] = "exit" /\ current = NoCache
    BY DEF IInv, OneFlusherAtClose, FlusherState, Living
  <2>2. \A a \in Flushers : drained[a] = NoCache /\ batch[a] = {}
    BY <2>1 DEF IInv, FlusherState, FlushStates
  <2>3. Owned = {} /\ Unread = {}
    BY <2>1, <2>2 DEF Owned, Unread
  <2>4. Pending = {}
    BY <2>3 DEF Pending, Countable
  <2>5. QED
    BY <2>2, <2>3, <2>4
       DEF IInv, Ownership, EventsAccounted, NothingVanishes, ElementsKept, CacheKept
<1>2. QED
  BY <1>1, Invariance, PTL
-----------------------------------------------------------------------------
(* Lookups.  An element found in a cache stays in it, until a swap makes       *)
(* another cache the current one.                                              *)

Found ==
  \A t \in Callers : pc[t] = "found" =>
    /\ call[t].cache # NoCache
    /\ call[t].cache = current => call[t].element \in Held(current)

\* A call's own lookup.
LEMMA FindFound ==
  ASSUME TypeOK, Found, NEW t \in Callers, FindHit(t)
  PROVE  Found'
<1> DEFINE e == tree[call[t].cache][call[t].key]
<1>1. /\ call' = [call EXCEPT ![t].element = e] /\ pc' = [pc EXCEPT ![t] = "found"]
      /\ call[t].cache # NoCache /\ e # NoElement
      /\ current' = current /\ tree' = tree /\ pc[t] = "find"
  BY DEF FindHit, cacheVars
<1>2. call[t].key \in Keys
  BY <1>1 DEF TypeOK, CallType
<1>3. e \in Held(call[t].cache)
  BY <1>1, <1>2 DEF Held
<1> HIDE DEF e
<1>4. /\ call'[t].cache = call[t].cache /\ call'[t].element = e
      /\ \A u \in Callers \ {t} : call'[u] = call[u] /\ pc'[u] = pc[u]
  BY <1>1 DEF TypeOK, CallType
<1>5. \A c : Held(c)' = Held(c)
  BY <1>1 DEF Held
<1> QED
  BY <1>1, <1>3, <1>4, <1>5 DEF Found

\* The other steps of a call find nothing, and take no element out of a tree.
LEMMA CallFound ==
  ASSUME TypeOK, Found, NEW t \in Callers,
         (\E k \in Keys, e \in Events : Begin(t, k, e)) \/ FindMiss(t) \/ Update(t) \/ Insert(t)
  PROVE  Found'
<1>1. pc'[t] # "found" /\ current' = current
  BY DEF TypeOK, Begin, FindMiss, Update, Insert, Return, cacheVars
<1>2. \A u \in Callers \ {t} : pc'[u] = pc[u] /\ call'[u] = call[u]
  BY DEF TypeOK, Begin, FindMiss, Update, Insert, Return
<1>3. current # NoCache => Held(current) \subseteq Held(current)'
  <2> SUFFICES ASSUME current # NoCache, NEW k \in Keys, tree[current][k] # NoElement
               PROVE  tree'[current][k] = tree[current][k]
    BY <1>1 DEF Held
  <2>1. CASE tree' = tree
    BY <2>1
  <2>2. CASE Insert(t) /\ tree' # tree
    <3>1. /\ tree' = [tree EXCEPT ![current][call[t].key] = call[t].event]
          /\ tree[current][call[t].key] = NoElement
      BY <2>2 DEF Insert
    <3>2. call[t].key # k
      BY <3>1
    <3> QED
      BY <3>1, <3>2 DEF TypeOK
  <2> QED
    BY <2>1, <2>2 DEF Begin, FindMiss, Update, cacheVars
<1> QED
  BY <1>1, <1>2, <1>3 DEF Found

\* The steps of the flushers and of the clock: the current cache stays, goes, or
\* is one that no call names.
LEMMA OtherFound ==
  ASSUME TypeOK, Found, call' = call, \A t \in Callers : pc'[t] = pc[t],
         \/ current' = current /\ tree' = tree
         \/ current' = NoCache
         \/ current' \notin {call[t].cache : t \in Callers}
  PROVE  Found'
<1>1. CASE current' = current /\ tree' = tree
  BY <1>1 DEF Found, Held
<1>2. CASE current' = NoCache
  BY <1>2 DEF Found
<1>3. CASE current' \notin {call[t].cache : t \in Callers}
  BY <1>3 DEF Found
<1> QED
  BY <1>1, <1>2, <1>3

LEMMA FoundStep == TypeOK /\ Found /\ [Next]_vars => Found'
<1> SUFFICES ASSUME TypeOK, Found, [Next]_vars PROVE Found'
  OBVIOUS
<1>1. ASSUME NEW t \in Callers, Add(t) PROVE Found'
  BY <1>1, FindFound, CallFound DEF Add
<1>2. ASSUME NEW a \in Flushers, Flush(a) PROVE Found'
  <2>1. /\ call' = call /\ current' = current /\ tree' = tree
        /\ \A t \in Callers : pc'[t] = pc[t]
    BY <1>2, Constants DEF TypeOK, Flush, Serialize, Deliver, FailToSend, Send, Free, cacheVars
  <2> QED
    BY <2>1, OtherFound
<1>3. CASE Start \/ Wait \/ Wake \/ WaitFails \/ FailToReplace
  <2>1. /\ call' = call
        /\ (current' = current /\ tree' = tree) \/ current' = NoCache
        /\ \A t \in Callers : pc'[t] = pc[t]
    BY <1>3, Constants DEF TypeOK, Start, Wait, Wake, WaitFails, FailToReplace, LeaveSwap, cacheVars
  <2> QED
    BY <2>1, OtherFound
<1>4. ASSUME NEW c \in Caches, Replace(c) PROVE Found'
  <2>1. /\ call' = call /\ current' \notin {call[t].cache : t \in Callers}
        /\ \A t \in Callers : pc'[t] = pc[t]
    BY <1>4, Constants DEF TypeOK, Replace, LeaveSwap
  <2> QED
    BY <2>1, OtherFound
<1>5. CASE Creation \/ Tick \/ Close \/ Join
  <2>1. /\ call' = call
        /\ \A t \in Callers : pc'[t] = pc[t]
        /\ (current' = current /\ tree' = tree) \/ current' = NoCache
    BY <1>5, Constants DEF TypeOK, Creation, Launch, FailToLaunch, ConfigureFlush,
     ConfigureCount, Tick, Close, Join, cacheVars
  <2> QED
    BY <2>1, OtherFound
<1>6. CASE Closed \/ UNCHANGED vars
  BY <1>6, OtherFound DEF Closed, vars, cacheVars
<1> QED
  BY <1>1, <1>2, <1>3, <1>4, <1>5, <1>6 DEF Next, Task

\* Only a swap can make a find stale: an element found in the cache that is still
\* the current one is still in it.
THEOREM FindsAreCurrent == Spec => []FoundIsCurrent
<1>1. Init => Found
  BY Constants DEF Init, Found
<1>2. Found => FoundIsCurrent
  BY DEF Found, FoundIsCurrent
<1> QED
  BY <1>1, <1>2, FoundStep, TypeCorrect, PTL DEF Spec
-----------------------------------------------------------------------------
(* The ledger *)

\* A step leaves the history alone, ends the call of a new event, or settles
\* recorded events in one way.
LEMMA HistoryStep ==
  ASSUME IInv, [Next]_vars
  PROVE  \/ UNCHANGED historyVars
         \/ \E e \in Events \ returned :
              /\ returned' = returned \cup {e} /\ sent' = sent
              /\ lost' = lost \/ lost' = lost \cup {e}
         \/ \E a \in Flushers :
              /\ batch[a] \subseteq returned \ (sent \cup lost) /\ returned' = returned
              /\ \/ sent' = sent \cup batch[a] /\ lost' = lost
                 \/ sent' = sent /\ lost' = lost \cup batch[a]
<1>1. ASSUME NEW t \in Callers, Update(t) \/ Insert(t)
      PROVE  \E e \in Events \ returned :
               /\ returned' = returned \cup {e} /\ sent' = sent
               /\ lost' = lost \/ lost' = lost \cup {e}
  <2>1. call[t].event \in Events \ returned
    BY <1>1 DEF IInv, TypeOK, CallType, CallsFresh, Update, Insert
  <2>2. QED
    BY <1>1, <2>1, SentKept DEF Update, Insert, Return
<1>2. ASSUME NEW a \in Flushers, NEW d \in BOOLEAN, Send(a, d)
      PROVE  /\ batch[a] \subseteq returned \ (sent \cup lost) /\ returned' = returned
             /\ \/ sent' = sent \cup batch[a] /\ lost' = lost
                \/ sent' = sent /\ lost' = lost \cup batch[a]
  BY <1>2, SentStep DEF IInv, EventsAccounted, PlacesApart, NothingVanishes, Send
<1>3. ASSUME NEW t \in Callers, NEW k \in Keys, NEW e \in Events,
             Begin(t, k, e) \/ FindMiss(t) \/ FindHit(t)
      PROVE  UNCHANGED historyVars
  BY <1>3 DEF Begin, FindMiss, FindHit
<1>4. ASSUME NEW a \in Flushers, Serialize(a) \/ Free(a)
      PROVE  UNCHANGED historyVars
  BY <1>4 DEF Serialize, Free
<1>5. CASE Task \/ Creation \/ Tick \/ Close \/ Join \/ UNCHANGED vars
  BY <1>5 DEF Task, Start, Wait, Wake, WaitFails, Replace, FailToReplace, Creation, Launch, FailToLaunch, ConfigureFlush,
     ConfigureCount, Tick, Close, Join, vars
<1>6. CASE \E t \in Callers : Add(t)
  <2>1. PICK t \in Callers : Add(t)
    BY <1>6
  <2>2. CASE Update(t) \/ Insert(t)
    BY <2>2, <1>1
  <2>3. CASE FindMiss(t) \/ FindHit(t) \/ \E k \in Keys, e \in Events : Begin(t, k, e)
    BY <2>3 DEF Begin, FindMiss, FindHit
  <2>4. QED
    BY <2>1, <2>2, <2>3 DEF Add
<1>7. CASE \E a \in Flushers : Flush(a)
  BY <1>7, <1>2, <1>4 DEF Flush, Deliver, FailToSend
<1>8. QED
  BY <1>5, <1>6, <1>7 DEF Next, Closed

LEMMA FateIsHistory ==
  ASSUME IInv, NEW e \in Events
  PROVE  FateOf(e) = IF e \in sent THEN "reported" ELSE IF e \in lost THEN "lost"
                     ELSE IF e \in returned THEN "recorded" ELSE "new"
  BY DEF IInv, EventsAccounted, PlacesApart, NothingVanishes, FateOf, Recorded

\* No event is billed twice, however often batches are posted.
THEOREM NeverBilledTwice == Spec => []BilledOnce
<1>1. IInv => BilledOnce
  BY DEF IInv
<1>2. QED
  BY <1>1, Invariance, PTL

LEMMA LedgerInit == Init => Ledger!Init
<1> SUFFICES ASSUME Init
             PROVE  [e \in Events |-> FateOf(e)] = [e \in Events |-> "new"]
  BY DEF Ledger!Init
<1>1. \A e \in Events : FateOf(e) = "new"
  BY InvariantInit, FateIsHistory DEF Init, sent
<1>2. QED
  BY <1>1

LEMMA LedgerStep ==
  ASSUME IInv, IInv', [Next]_vars
  PROVE  [Ledger!Next]_([e \in Events |-> FateOf(e)])
<1> DEFINE fate == [e \in Events |-> FateOf(e)]
           History(e, r, s, l) == IF e \in s THEN "reported" ELSE IF e \in l THEN "lost"
                                  ELSE IF e \in r THEN "recorded" ELSE "new"
<1>1. \A e \in Events : fate[e] = History(e, returned, sent, lost)
  BY FateIsHistory
<1>2. \A e \in Events : FateOf(e)' = History(e, returned', sent', lost')
  <2>1. \A e \in Events : FateOf(e) = History(e, returned, sent, lost)
    BY FateIsHistory
  <2>2. QED
    BY DEF IInv, EventsAccounted, PlacesApart, NothingVanishes, FateOf, Recorded
<1>3. fate' = [e \in Events |-> History(e, returned', sent', lost')]
  BY <1>2
<1>4. sent \cup lost \subseteq returned
  BY DEF IInv, EventsAccounted, NothingVanishes
<1> HIDE DEF fate
<1>5. CASE UNCHANGED historyVars
  <2>1. fate' = fate
    BY <1>3, <1>5, FateIsHistory, SentKept DEF fate, historyVars
  <2>2. QED
    BY <2>1 DEF fate
<1>6. ASSUME NEW e \in Events \ returned,
             returned' = returned \cup {e}, sent' = sent,
             lost' = lost \/ lost' = lost \cup {e}
      PROVE  Ledger!Next
  <2>1. fate[e] = "new"
    BY <1>1, <1>4, <1>6
  <2>2. CASE lost' = lost
    <3>1. fate' = [x \in Events |-> IF x \in {e} THEN "recorded" ELSE fate[x]]
      BY <1>1, <1>3, <1>4, <1>6, <2>2
    <3>2. Ledger!Record(e)
      BY <2>1, <3>1 DEF Ledger!Record, Ledger!Settle, fate
    <3>3. QED
      BY <3>2 DEF Ledger!Next
  <2>3. CASE lost' = lost \cup {e}
    <3>1. fate' = [x \in Events |-> IF x \in {e} THEN "lost" ELSE fate[x]]
      BY <1>1, <1>3, <1>4, <1>6, <2>3
    <3>2. Ledger!Lose({e})
      BY <2>1, <3>1 DEF Ledger!Lose, Ledger!Settle, fate
    <3>3. QED
      BY <3>2 DEF Ledger!Next
  <2>4. QED
    BY <1>6, <2>2, <2>3
<1>7. ASSUME NEW S, S \subseteq returned \ (sent \cup lost), returned' = returned,
             \/ sent' = sent \cup S /\ lost' = lost
             \/ sent' = sent /\ lost' = lost \cup S
      PROVE  Ledger!Next
  <2>1. S \in SUBSET Events /\ \A e \in S : fate[e] = "recorded"
    BY <1>1, <1>7 DEF IInv, TypeOK
  <2>2. CASE sent' = sent \cup S /\ lost' = lost
    <3>1. fate' = [x \in Events |-> IF x \in S THEN "reported" ELSE fate[x]]
      BY <1>1, <1>3, <1>7, <2>2
    <3>2. Ledger!Report(S)
      BY <2>1, <3>1 DEF Ledger!Report, Ledger!Settle, fate
    <3>3. QED
      BY <2>1, <3>2 DEF Ledger!Next
  <2>3. CASE sent' = sent /\ lost' = lost \cup S
    <3>1. fate' = [x \in Events |-> IF x \in S THEN "lost" ELSE fate[x]]
      BY <1>1, <1>3, <1>7, <2>3
    <3>2. Ledger!Lose(S)
      BY <2>1, <3>1 DEF Ledger!Lose, Ledger!Settle, fate
    <3>3. QED
      BY <2>1, <3>2 DEF Ledger!Next
  <2>4. QED
    BY <1>7, <2>2, <2>3
<1>8. QED
  BY <1>5, <1>6, <1>7, HistoryStep

\* The billing component implements the ledger: an event's fate is settled once,
\* by the POST of one batch or by its loss.
THEOREM BillingImplementsLedger == Spec => ImplementsLedger
<1>1. IInv /\ IInv' /\ [Next]_vars => [Ledger!Next]_([e \in Events |-> FateOf(e)])
  BY LedgerStep
<1>2. QED
  BY <1>1, LedgerInit, Invariance, PTL DEF Spec, ImplementsLedger, Ledger!Spec
-----------------------------------------------------------------------------
(* The end of a context.  That the destructor comes to its end (CloseCompletes) *)
(* takes fairness; what fairness has to carry it over is proved here: a bounded *)
(* number of steps, of which one is always open to the worker or the closer.    *)

Closing == pc[Closer] \in {"join"} \cup FlushStates

\* How many steps a thread has before it at most, from each of its places, once
\* there is no current cache.
WorkerLeft(place) ==
  CASE place = "wait" -> 1 [] place = "top" -> 2 [] place \in {"start", "free"} -> 3
    [] place = "send" -> 4 [] place = "serialize" -> 5 [] OTHER -> 0

CloserLeft(place) ==
  CASE place = "free" -> 1 [] place = "send" -> 2 [] place = "serialize" -> 3
    [] place = "join" -> 4 [] OTHER -> 0

StepsLeft == WorkerLeft(pc[Worker]) + CloserLeft(pc[Closer])

\* The places at which a thread waits for nothing: the guard of its next action
\* is the place.  Here the worker does not have to be given a free cache, and the
\* closer does not wait for the worker.
Unblocked ==
  \/ pc[Worker] \in {"start", "top", "wait"} \cup FlushStates
  \/ pc[Worker] = "exit" /\ pc[Closer] \in {"join"} \cup FlushStates

ClosingStep ==
  Closing => /\ pc' # pc => StepsLeft' < StepsLeft
             /\ Closing' \/ pc'[Closer] = "closed"

\* While the context closes, every step of a program is the worker's or the
\* closer's, and brings it nearer to its end.
LEMMA ClosingSteps ==
  ASSUME IInv, [Next]_vars
  PROVE  ClosingStep
<1> SUFFICES ASSUME Closing
             PROVE  /\ pc' # pc => StepsLeft' < StepsLeft
                    /\ Closing' \/ pc'[Closer] = "closed"
  BY DEF ClosingStep
<1>1. /\ current = NoCache /\ pc[Worker] # "swap" /\ TypeOK
      /\ \A t \in Callers : pc[t] = "idle"
  BY DEF IInv, FlusherState, CacheKept, Closing, FlushStates, Living
<1> USE Constants, <1>1 DEF TypeOK, Closing, FlushStates, WorkerStates, CloserStates,
        StepsLeft, WorkerLeft, CloserLeft
<1>2. ASSUME NEW t \in Callers PROVE ~Add(t)
  BY DEF Add, Begin, FindMiss, FindHit, Update, Insert
<1>3. ASSUME NEW a \in Flushers, Flush(a)
      PROVE  StepsLeft' < StepsLeft /\ (Closing' \/ pc'[Closer] = "closed")
  BY <1>3 DEF Flush, Serialize, Deliver, FailToSend, Send, Free
<1>4. CASE Task
  BY <1>4 DEF Task, Start, Wait, Wake, WaitFails, Replace, FailToReplace, LeaveSwap
<1>5. CASE Join
  BY <1>5 DEF Join
<1>6. CASE UNCHANGED pc
  BY <1>6
<1>7. ~Creation /\ ~Close
  BY DEF Creation, Launch, FailToLaunch, ConfigureFlush,
     ConfigureCount, Close
<1> QED
  BY <1>2, <1>3, <1>4, <1>5, <1>6, <1>7 DEF Next, Tick, Closed, vars

\* A context that is being destroyed is never stuck, and is gone after nine steps
\* of its threads at most, however often the clock ticks between them: the worker
\* is not left asleep, and takes no cache any more.
THEOREM CloseIsBounded ==
  Spec => [](Closing => Unblocked /\ StepsLeft \in 0..9) /\ [][ClosingStep]_vars
<1>2. IInv => (Closing => Unblocked /\ StepsLeft \in 0..9)
  <2> SUFFICES ASSUME IInv, Closing PROVE Unblocked /\ StepsLeft \in 0..9
    OBVIOUS
  <2>1. Unblocked
    BY DEF IInv, TypeOK, FlusherState, Closing, Unblocked, WorkerStates, FlushStates, Living
  <2>2. WorkerLeft(pc[Worker]) \in 0..5 /\ CloserLeft(pc[Closer]) \in 0..4
    BY DEF WorkerLeft, CloserLeft
  <2> QED BY <2>1, <2>2 DEF StepsLeft
<1>3. IInv /\ [Next]_vars => [ClosingStep]_vars
  BY ClosingSteps
<1> QED
  BY <1>2, <1>3, Invariance, PTL DEF Spec
=============================================================================
