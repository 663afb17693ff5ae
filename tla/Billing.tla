------------------------------ MODULE Billing ------------------------------
(***************************************************************************)
(* Usage reporting (lib/billing.c).  Every encryption or decryption leaves *)
(* one event in a cache of counters; a worker thread takes the whole cache *)
(* from time to time, serializes it and POSTs it; the destructor of the    *)
(* context stops the worker and flushes what is left.                      *)
(*                                                                         *)
(* Actors: Callers run ubiq_billing_add_billing_event, Worker runs         *)
(* process_billing_task, Closer is the thread in                           *)
(* ubiq_billing_ctx_create / _destroy.  A cache is an object of the heap;  *)
(* a billing_element is named by the event that created it, and its count  *)
(* is kept as the set of the events it counts.                             *)
(***************************************************************************)
EXTENDS Integers, FiniteSets

CONSTANTS
  Callers, Worker, Closer,   \* the threads
  Keys,                      \* api_key / dataset / group / action / key number
  Events,                    \* the calls made, one event each
  Caches,                    \* heap cells for struct ubiq_platform_cache
  NoCache, NoElement, NoEvent, NoKey,
  FlushInterval,             \* event_reporting_flush_interval, in ticks
  MinimumCount,              \* event_reporting_minimum_count
  MaxElapsed,                \* bound on the clock: the last instant it leaves
  SwapMayFail,               \* may the allocation at the swap fail?
  SendMayFail,               \* may a POST fail or be refused?
  WorkerMayFail              \* may pthread_create and cond_timedwait fail?

ASSUME ActorsAssumption == Worker \notin Callers /\ Closer \notin Callers
                           /\ Worker # Closer
ASSUME NullsAssumption == NoCache \notin Caches /\ NoElement \notin Events
                          /\ NoEvent \notin Events /\ NoKey \notin Keys
ASSUME IntervalAssumption == FlushInterval \in Int /\ MinimumCount \in Int
                             /\ MaxElapsed \in Nat
ASSUME FaultAssumption == {SwapMayFail, SendMayFail, WorkerMayFail} \subseteq BOOLEAN

Flushers == {Worker, Closer}
Actors == Callers \cup Flushers

VARIABLES
  current,          \* e->billing_elements_cache
  tree, count,      \* root and count of each cache
  allocated,        \* the caches that are not freed
  tally,            \* billing_element.count
  elements,         \* the billing_elements that are not freed
  pc,
  call,             \* the locals of each add_billing_event
  drained, batch,   \* the cache a flusher took, and its JSON array
  flushInterval, minimumCount,   \* fields of the context
  flushAfter, elapsed,           \* flush_time and now, relative to the reset
  returned, lost,                \* history: what became of the events,
  billed,                        \* how often the server was told each,
  leaked                         \* and the elements no cache took

cacheVars == <<current, tree, count, allocated, tally, elements>>
flushVars == <<drained, batch>>
timeVars == <<flushInterval, minimumCount, flushAfter, elapsed>>
historyVars == <<returned, lost, billed, leaked>>
vars == <<cacheVars, flushVars, timeVars, historyVars, pc, call>>
-----------------------------------------------------------------------------
NoCall == [event |-> NoEvent, key |-> NoKey, cache |-> NoCache,
           element |-> NoElement]

EmptyTree == [k \in Keys |-> NoElement]

Held(c) == IF c = NoCache THEN {} ELSE {tree[c][k] : k \in Keys} \ {NoElement}

\* The places of the closer before it takes the cache away.
Living == {"create", "configure", "halfway", "open"}

\* The caches whose elements a flusher has still to serialize.
Unread == ({current}
           \cup (IF pc[Worker] \in {"swap", "serialize"} THEN {drained[Worker]} ELSE {})
           \cup (IF pc[Closer] \in {"join", "serialize"} THEN {drained[Closer]} ELSE {}))
          \ {NoCache}

Countable == UNION {Held(c) : c \in Unread}

Pending == UNION {tally[e] : e \in Countable}

sent == {e \in Events : billed[e] > 0}

InFlight == {call[t].event : t \in Callers} \ {NoEvent}

\* Mutant: the worker leaves its loop with the lock.
LockNotReleased == pc[Worker] \notin {"swap", "exit"}

\* The one critical section that is more than one step: from the worker's
\* taking of the cache to its replacement.
LockFree == pc[Worker] # "swap"

\* ubiq_billing_ctx_create is about to call pthread_create: the context is zeroed
\* but for its empty cache, and there is no worker.
Init ==
  /\ \E c \in Caches : current = c /\ allocated = {c}
  /\ tree = [c \in Caches |-> EmptyTree]
  /\ count = [c \in Caches |-> 0]
  /\ tally = [e \in Events |-> {}] /\ elements = {}
  /\ pc = [a \in Actors |-> CASE a = Worker -> "exit"
                              [] a = Closer -> "create"
                              [] OTHER -> "idle"]
  /\ call = [t \in Callers |-> NoCall]
  /\ drained = [a \in Flushers |-> NoCache]
  /\ batch = [a \in Flushers |-> {}]
  /\ flushInterval = 0 /\ minimumCount = 0 /\ flushAfter = 0 /\ elapsed = 0
  /\ returned = {} /\ lost = {} /\ leaked = {} /\ billed = [e \in Events |-> 0]

\* pthread_create succeeds.  Without a configuration the intervals stay zero.
Launch ==
  /\ pc[Closer] = "create"
  /\ \E next \in {"configure", "open"} :
       pc' = [pc EXCEPT ![Worker] = "start", ![Closer] = next]
  /\ UNCHANGED <<cacheVars, flushVars, timeVars, historyVars, call>>

\* It fails: the destructor goes on without a thread to join.
FailToLaunch ==
  /\ WorkerMayFail /\ pc[Closer] = "create"
  /\ drained' = [drained EXCEPT ![Closer] = current]
  /\ current' = NoCache
  /\ pc' = [pc EXCEPT ![Closer] = "serialize"]
  /\ UNCHANGED <<tree, count, allocated, tally, elements, batch, timeVars, historyVars, call>>

\* The rest of ubiq_billing_ctx_create, concurrent with the worker it started.
\* The two getters are assigned crosswise, one after the other.
ConfigureFlush ==
  /\ pc[Closer] = "configure"
  /\ flushInterval' = MinimumCount
  /\ pc' = [pc EXCEPT ![Closer] = "halfway"]
  /\ UNCHANGED <<cacheVars, flushVars, historyVars, call, minimumCount, flushAfter, elapsed>>

ConfigureCount ==
  /\ pc[Closer] = "halfway"
  /\ minimumCount' = FlushInterval
  /\ pc' = [pc EXCEPT ![Closer] = "open"]
  /\ UNCHANGED <<cacheVars, flushVars, historyVars, call, flushInterval, flushAfter, elapsed>>

Tick ==
  /\ elapsed <= MaxElapsed
  /\ elapsed' = elapsed + 1
  /\ UNCHANGED <<cacheVars, flushVars, historyVars, pc, call,
                 flushInterval, minimumCount, flushAfter>>
-----------------------------------------------------------------------------
(* ubiq_billing_add_billing_event *)

\* The argument e->billing_elements_cache is read before any lock is taken.
Begin(t, k, e) ==
  /\ pc[Closer] = "open" /\ pc[t] = "idle"
  /\ e \notin returned \cup InFlight
  /\ call' = [call EXCEPT ![t] = [event |-> e, key |-> k, cache |-> current,
                                  element |-> NoElement]]
  /\ pc' = [pc EXCEPT ![t] = "find"]
  /\ UNCHANGED <<cacheVars, flushVars, timeVars, historyVars>>

\* tfind in a cache that has been freed meanwhile may see its old nodes or
\* nothing, and it may miss a node while another caller's tsearch rebalances
\* the tree; in a null cache it finds nothing.
Rebalanced(t) == \E u \in Callers \ {t} : pc[u] = "missed"

FindMiss(t) ==
  LET c == call[t].cache IN
  /\ pc[t] = "find"
  /\ c \in allocated /\ ~Rebalanced(t) => tree[c][call[t].key] = NoElement
  /\ pc' = [pc EXCEPT ![t] = "missed"]
  /\ UNCHANGED <<cacheVars, flushVars, timeVars, historyVars, call>>

FindHit(t) ==
  LET c == call[t].cache IN
  /\ pc[t] = "find"
  /\ c # NoCache
  /\ tree[c][call[t].key] # NoElement
  /\ call' = [call EXCEPT ![t].element = tree[c][call[t].key]]
  /\ pc' = [pc EXCEPT ![t] = "found"]
  /\ UNCHANGED <<cacheVars, flushVars, timeVars, historyVars>>

Return(t) ==
  /\ returned' = returned \cup {call[t].event}
  /\ call' = [call EXCEPT ![t] = NoCall]
  /\ pc' = [pc EXCEPT ![t] = "idle"]

\* count += 1 under the lock.  The element was found before the lock was
\* taken: when its cache has been serialized since, nobody reads the count.
Update(t) ==
  LET e == call[t].element IN
  /\ pc[t] = "found" /\ LockFree
  /\ tally' = [tally EXCEPT ![e] = @ \cup {call[t].event}]
  /\ lost' = IF e \in Countable THEN lost ELSE lost \cup {call[t].event}
  /\ Return(t)
  /\ UNCHANGED <<current, tree, count, allocated, elements, flushVars, timeVars, billed, leaked>>

\* Mutant: a new element takes the place of an old one.
InsertReplacing(t) ==
  LET ev == call[t].event
      k == call[t].key
  IN
  /\ pc[t] = "missed" /\ LockFree /\ current # NoCache
  /\ tree' = [tree EXCEPT ![current][k] = ev]
  /\ tally' = [tally EXCEPT ![ev] = {ev}]
  /\ count' = [count EXCEPT ![current] = @ + 1]
  /\ elements' = elements \cup {ev}
  /\ Return(t)
  /\ UNCHANGED <<current, allocated, flushVars, timeVars, billed, leaked, lost>>

\* billing_element_create, and ubiq_platform_cache_add_element under the lock.
\* Without a cache the add fails, the failure is dropped and nobody has the new
\* element; when the key is there already, the new element is destroyed, though
\* the count of the cache goes up all the same.
Insert(t) ==
  LET ev == call[t].event
      k == call[t].key
      new == current # NoCache /\ tree[current][k] = NoElement
  IN
  /\ pc[t] = "missed" /\ LockFree
  /\ tree' = IF new THEN [tree EXCEPT ![current][k] = ev] ELSE tree
  /\ tally' = IF new THEN [tally EXCEPT ![ev] = {ev}] ELSE tally
  /\ lost' = IF new THEN lost ELSE lost \cup {ev}
  /\ count' = IF current = NoCache THEN count
              ELSE [count EXCEPT ![current] = @ + 1]
  /\ leaked' = IF current = NoCache THEN leaked \cup {ev} ELSE leaked
  /\ elements' = IF new \/ current = NoCache THEN elements \cup {ev} ELSE elements
  /\ Return(t)
  /\ UNCHANGED <<current, allocated, flushVars, timeVars, billed>>
-----------------------------------------------------------------------------
(* process_billing_btree, run by the worker and by the destructor *)

\* The walk of the tree; an empty or null cache is not sent.
Serialize(a) ==
  LET c == drained[a]
      some == c # NoCache /\ count[c] > 0
  IN
  /\ pc[a] = "serialize"
  /\ batch' = [batch EXCEPT ![a] = IF some THEN UNION {tally[e] : e \in Held(c)} ELSE {}]
  /\ pc' = [pc EXCEPT ![a] = IF some THEN "send" ELSE "free"]
  /\ UNCHANGED <<cacheVars, timeVars, historyVars, call, drained>>

\* The server counts what a POST delivers.
Told(b) == [e \in Events |-> billed[e] + (IF e \in b THEN 1 ELSE 0)]

\* Mutants: a POST is made once more, as it is; a batch that has been sent is
\* serialized and sent again.
Resend(a, delivered) ==
  /\ pc[a] = "send"
  /\ billed' = IF delivered THEN Told(batch[a]) ELSE billed
  /\ lost' = IF delivered THEN lost ELSE lost \cup batch[a]
  /\ batch' = IF delivered THEN batch ELSE [batch EXCEPT ![a] = {}]
  /\ pc' = IF delivered THEN pc ELSE [pc EXCEPT ![a] = "free"]
  /\ UNCHANGED <<cacheVars, timeVars, call, drained, returned, leaked>>

SendAgain(a, delivered) ==
  /\ pc[a] = "send"
  /\ billed' = IF delivered THEN Told(batch[a]) ELSE billed
  /\ lost' = IF delivered THEN lost ELSE lost \cup batch[a]
  /\ batch' = [batch EXCEPT ![a] = {}]
  /\ pc' = [pc EXCEPT ![a] = "serialize"]
  /\ UNCHANGED <<cacheVars, timeVars, call, drained, returned, leaked>>

\* send_billing_data: its result is dropped, whatever the server answered.
Send(a, delivered) ==
  /\ pc[a] = "send"
  /\ billed' = IF delivered THEN Told(batch[a]) ELSE billed
  /\ lost' = IF delivered THEN lost ELSE lost \cup batch[a]
  /\ batch' = [batch EXCEPT ![a] = {}]
  /\ pc' = [pc EXCEPT ![a] = "free"]
  /\ UNCHANGED <<cacheVars, timeVars, call, drained, returned, leaked>>

Deliver(a) == Send(a, TRUE)
FailToSend(a) == SendMayFail /\ Send(a, FALSE)

\* Mutants: the destructor goes on where the worker would; a cache is freed
\* without its elements.
FreeToTop(a) ==
  /\ pc[a] = "free"
  /\ elements' = elements \ Held(drained[a])
  /\ allocated' = allocated \ {drained[a]}
  /\ drained' = [drained EXCEPT ![a] = NoCache]
  /\ pc' = [pc EXCEPT ![a] = "top"]
  /\ UNCHANGED <<current, tree, count, tally, batch, timeVars, historyVars, call>>

FreeShell(a) ==
  /\ pc[a] = "free"
  /\ allocated' = allocated \ {drained[a]}
  /\ drained' = [drained EXCEPT ![a] = NoCache]
  /\ pc' = [pc EXCEPT ![a] = IF a = Worker THEN "top" ELSE "closed"]
  /\ UNCHANGED <<current, tree, count, tally, elements, batch, timeVars, historyVars, call>>

\* ubiq_platform_cache_destroy frees the elements of the tree with the cache.
Free(a) ==
  /\ pc[a] = "free"
  /\ allocated' = allocated \ {drained[a]}
  /\ elements' = elements \ Held(drained[a])
  /\ drained' = [drained EXCEPT ![a] = NoCache]
  /\ pc' = [pc EXCEPT ![a] = IF a = Worker THEN "top" ELSE "closed"]
  /\ UNCHANGED <<current, tree, count, tally, batch, timeVars, historyVars, call>>
-----------------------------------------------------------------------------
(* process_billing_task *)

\* flush_time is computed from an interval the creator may not have set yet.
Start ==
  /\ pc[Worker] = "start"
  /\ flushAfter' = flushInterval /\ elapsed' = 0
  /\ pc' = [pc EXCEPT ![Worker] = "top"]
  /\ UNCHANGED <<cacheVars, flushVars, historyVars, call, flushInterval, minimumCount>>

\* From the lock at the top of the loop to the release in cond_timedwait.
Wait ==
  /\ pc[Worker] = "top"
  /\ pc' = [pc EXCEPT ![Worker] = IF current = NoCache THEN "exit" ELSE "wait"]
  /\ UNCHANGED <<cacheVars, flushVars, timeVars, historyVars, call>>

\* Mutants: only the count is looked at; both conditions are asked for, and one
\* record more.
DueByCount == minimumCount \in 0..count[current]
DueByBoth == elapsed > flushAfter /\ minimumCount \in 0..(count[current] - 1)

\* The count is unsigned, and so is what it is compared with: a negative minimum
\* is more than any count.
Due == elapsed > flushAfter \/ minimumCount \in 0..count[current]

\* Mutant: e->billing_elements_cache is not cleared when it is taken.
WakeSharing ==
  LET next == IF current = NoCache THEN "exit" ELSE IF Due THEN "swap" ELSE "top"
  IN
  /\ pc[Worker] = "wait"
  /\ pc' = [pc EXCEPT ![Worker] = next]
  /\ drained' = IF next = "swap" THEN [drained EXCEPT ![Worker] = current] ELSE drained
  /\ UNCHANGED <<current, tree, count, allocated, tally, elements, batch, timeVars, historyVars, call>>

\* A time-out, a signal or a spurious wake-up: the worker goes back to sleep
\* ("top"), leaves, or takes the cache and keeps the lock.
Wake ==
  LET next == IF current = NoCache THEN "exit" ELSE IF Due THEN "swap" ELSE "top"
  IN
  /\ pc[Worker] = "wait"
  /\ pc' = [pc EXCEPT ![Worker] = next]
  /\ IF next = "swap"
     THEN drained' = [drained EXCEPT ![Worker] = current] /\ current' = NoCache
     ELSE UNCHANGED <<drained, current>>
  /\ UNCHANGED <<tree, count, allocated, tally, elements, batch, timeVars, historyVars, call>>

\* pthread_cond_timedwait returns another error: the worker leaves, and nobody
\* takes the cache until the destructor does.
WaitFails ==
  /\ WorkerMayFail /\ pc[Worker] = "wait"
  /\ pc' = [pc EXCEPT ![Worker] = "exit"]
  /\ UNCHANGED <<cacheVars, flushVars, timeVars, historyVars, call>>

\* The end of the critical section and the new flush_time.
LeaveSwap ==
  /\ pc[Worker] = "swap"
  /\ flushAfter' = flushInterval /\ elapsed' = 0
  /\ pc' = [pc EXCEPT ![Worker] = "serialize"]

\* The address of a cache that a caller still holds is not handed out again:
\* that caller would simply see the new cache.
Replace(c) ==
  /\ c \notin allocated \cup {call[t].cache : t \in Callers}
  /\ current' = c
  /\ allocated' = allocated \cup {c}
  /\ tree' = [tree EXCEPT ![c] = EmptyTree]
  /\ count' = [count EXCEPT ![c] = 0]
  /\ LeaveSwap
  /\ UNCHANGED <<tally, elements, flushVars, historyVars, call, flushInterval, minimumCount>>

\* calloc fails in ubiq_platform_cache_create: the context has no cache left.
FailToReplace ==
  /\ SwapMayFail
  /\ LeaveSwap
  /\ UNCHANGED <<cacheVars, flushVars, historyVars, call, flushInterval, minimumCount>>
-----------------------------------------------------------------------------
(* ubiq_billing_ctx_destroy; its caller makes sure no call is in progress *)

\* Mutants: the cache is not cleared; what was left is not processed.
CloseKeeping ==
  /\ pc[Closer] = "open" /\ LockFree
  /\ \A t \in Callers : pc[t] = "idle"
  /\ drained' = [drained EXCEPT ![Closer] = current]
  /\ pc' = [pc EXCEPT ![Closer] = "join"]
  /\ UNCHANGED <<current, tree, count, allocated, tally, elements, batch, timeVars, historyVars, call>>

JoinAndForget ==
  /\ pc[Closer] = "join" /\ pc[Worker] = "exit"
  /\ pc' = [pc EXCEPT ![Closer] = "free"]
  /\ UNCHANGED <<cacheVars, flushVars, timeVars, historyVars, call>>

Close ==
  /\ pc[Closer] = "open" /\ LockFree
  /\ \A t \in Callers : pc[t] = "idle"
  /\ drained' = [drained EXCEPT ![Closer] = current]
  /\ current' = NoCache
  /\ pc' = [pc EXCEPT ![Closer] = "join"]
  /\ UNCHANGED <<tree, count, allocated, tally, elements, batch, timeVars, historyVars, call>>

Join ==
  /\ pc[Closer] = "join" /\ pc[Worker] = "exit"
  /\ pc' = [pc EXCEPT ![Closer] = "serialize"]
  /\ UNCHANGED <<cacheVars, flushVars, timeVars, historyVars, call>>

\* The context is gone.
Closed ==
  /\ pc[Closer] = "closed" /\ pc[Worker] = "exit"
  /\ UNCHANGED vars
-----------------------------------------------------------------------------
Add(t) ==
  \/ \E k \in Keys, e \in Events : Begin(t, k, e)
  \/ FindMiss(t) \/ FindHit(t) \/ Update(t) \/ Insert(t)

Flush(a) == Serialize(a) \/ Deliver(a) \/ FailToSend(a) \/ Free(a)

Creation == Launch \/ FailToLaunch \/ ConfigureFlush \/ ConfigureCount

Task == Start \/ Wait \/ Wake \/ WaitFails \/ (\E c \in Caches : Replace(c)) \/ FailToReplace

Next ==
  \/ \E t \in Callers : Add(t)
  \/ \E a \in Flushers : Flush(a)
  \/ Task \/ Creation \/ Tick \/ Close \/ Join \/ Closed

\* Threads run; a mutex a thread keeps asking for is free between the waits of
\* the worker, each at least one wake interval long; time passes.
Fairness ==
  /\ WF_vars(Creation) /\ WF_vars(Tick) /\ WF_vars(Join)
  /\ WF_vars(Task)
  /\ \A a \in Flushers : WF_vars(Flush(a))
  /\ \A t \in Callers : WF_vars(FindMiss(t) \/ FindHit(t))
                        /\ SF_vars(Update(t) \/ Insert(t))

Spec == Init /\ [][Next]_vars
FairSpec == Spec /\ Fairness
-----------------------------------------------------------------------------
(* Properties *)

CallerStates == {"idle", "find", "missed", "found"}
FlushStates == {"serialize", "send", "free"}
WorkerStates == FlushStates \cup {"start", "top", "wait", "swap", "exit"}
CloserStates == FlushStates \cup Living \cup {"join", "closed"}

CallType == [event: Events \cup {NoEvent}, key: Keys \cup {NoKey},
             cache: Caches \cup {NoCache}, element: Events \cup {NoElement}]

\* Every variable has its type: each thread is at a line of its own code and
\* every reference is null or names an object of its kind.
TypeOK ==
  /\ current \in Caches \cup {NoCache}
  /\ tree \in [Caches -> [Keys -> Events \cup {NoElement}]]
  /\ count \in [Caches -> Nat]
  /\ allocated \subseteq Caches
  /\ tally \in [Events -> SUBSET Events] /\ elements \subseteq Events
  /\ pc \in [Actors -> CallerStates \cup WorkerStates \cup CloserStates]
  /\ \A t \in Callers : pc[t] \in CallerStates
  /\ pc[Worker] \in WorkerStates /\ pc[Closer] \in CloserStates
  /\ call \in [Callers -> CallType]
  /\ \A t \in Callers : pc[t] # "idle" => call[t].event # NoEvent /\ call[t].key # NoKey
  /\ \A t \in Callers : pc[t] = "found" => call[t].element # NoElement
  /\ drained \in [Flushers -> Caches \cup {NoCache}]
  /\ batch \in [Flushers -> SUBSET Events]
  /\ flushInterval \in Int /\ minimumCount \in Int
  /\ flushAfter \in Int /\ elapsed \in Nat
  /\ returned \subseteq Events /\ lost \subseteq Events /\ leaked \subseteq Events
  /\ billed \in [Events -> Nat]

\* The caches the component owns: the one callers add to and the two a flusher
\* may have taken.
Owned == ({current} \cup {drained[a] : a \in Flushers}) \ {NoCache}

\* A cache is never leaked, never freed while somebody owns it, and never has
\* two owners: the worker and the destructor both take e->billing_elements_cache
\* and both destroy what they took.
Ownership ==
  /\ allocated = Owned
  /\ \A a \in Flushers : current # NoCache => drained[a] # current
  /\ drained[Worker] # NoCache => drained[Worker] # drained[Closer]

\* What a flusher holds agrees with the place it has reached, and there is no
\* current cache while it is being replaced or after the destructor took it.
FlusherState ==
  /\ drained[Worker] # NoCache <=> pc[Worker] \in {"swap"} \cup FlushStates
  /\ drained[Closer] # NoCache => pc[Closer] \in {"join"} \cup FlushStates
  /\ \A a \in Flushers : batch[a] # {} => pc[a] = "send"
  /\ pc[Worker] = "swap" \/ pc[Closer] \notin Living => current = NoCache
  /\ pc[Worker] = "swap" => pc[Closer] \in Living

\* There is no worker before it is launched.  The worker and the destructor never
\* POST at the same time, and the context is freed only when the worker is gone:
\* ubiq_billing_ctx_destroy joins first.
OneFlusherAtClose ==
  pc[Closer] \in FlushStates \cup {"create", "closed"} => pc[Worker] = "exit"

\* A cache whose count is zero, which process_billing_btree does not send, has
\* no element in it.
CountedIfFilled == \A c \in Unread : count[c] = 0 => Held(c) = {}

\* No element is reachable under two keys or from two caches.
ElementsApart ==
  \A c1, c2 \in allocated, k1, k2 \in Keys :
    tree[c1][k1] # NoElement /\ tree[c1][k1] = tree[c2][k2] => c1 = c2 /\ k1 = k2

\* No event is counted in two elements.
TalliesApart == \A e1, e2 \in Countable : e1 # e2 => tally[e1] \cap tally[e2] = {}

\* Every event whose call has returned is in exactly one place: an element
\* still to be serialized, the batch of one flusher, the server, or the lost.
PlacesApart ==
  /\ Pending \cap (batch[Worker] \cup batch[Closer] \cup sent \cup lost) = {}
  /\ batch[Worker] \cap batch[Closer] = {}
  /\ (batch[Worker] \cup batch[Closer]) \cap (sent \cup lost) = {}
  /\ sent \cap lost = {}

NothingVanishes ==
  returned = Pending \cup batch[Worker] \cup batch[Closer] \cup sent \cup lost

EventsAccounted == TalliesApart /\ PlacesApart /\ NothingVanishes

\* The events of the calls in progress are new, each caller's its own.
CallsFresh ==
  \A t \in Callers :
    /\ pc[t] = "idle" <=> call[t].event = NoEvent
    /\ call[t].event \notin returned
    /\ \A u \in Callers : call[t].event = call[u].event => t = u \/ call[t].event = NoEvent

\* Elements are made by calls that have returned.
ElementsOld == elements \subseteq returned

\* An element that is not freed is in the tree of one cache that is not freed, or
\* it is one that no cache took.
ElementsKept ==
  LET inTrees == UNION {Held(c) : c \in allocated} IN
  /\ elements = inTrees \cup leaked
  /\ inTrees \cap leaked = {} /\ leaked \subseteq lost

\* The context of a call has a cache but while the worker replaces it, unless an
\* allocation failed.  Calls are made on an open context only.
CacheKept ==
  /\ \A t \in Callers : pc[t] # "idle" => pc[Closer] = "open"
  /\ ~SwapMayFail => leaked = {}
  /\ ~SwapMayFail /\ pc[Closer] \in Living /\ pc[Worker] # "swap" => current # NoCache

\* No event is ever billed twice: however often batches are posted, the server is
\* told of each event once at most.
BilledOnce == \A e \in Events : billed[e] <= 1

\* The inductive invariant of the specification.
IInv ==
  /\ TypeOK /\ Ownership /\ FlusherState /\ OneFlusherAtClose /\ CountedIfFilled
  /\ ElementsApart /\ EventsAccounted /\ CallsFresh /\ ElementsOld
  /\ ElementsKept /\ CacheKept /\ BilledOnce

\* When the destructor is done, every cache is freed and every event is settled one
\* way or the other: none is left in a cache or in a batch.  The only memory still
\* held is that of the elements that found no cache to be added to, which nobody
\* frees; there is none of them if no allocation failed at a swap.
ClosedIsSettled ==
  pc[Closer] = "closed" =>
    /\ allocated = {} /\ returned = sent \cup lost
    /\ elements = leaked /\ leaked \subseteq lost
    /\ ~SwapMayFail => elements = {}

\* An element found in the cache that is still the current one when the lock
\* is taken is still in it: only a swap can make a find stale.
FoundIsCurrent ==
  \A t \in Callers :
    pc[t] = "found" /\ call[t].cache = current => call[t].element \in Held(current)

\* The component implements the ledger: what happens to an event is decided
\* once, and the place the event is in says what was decided.
Recorded == Pending \cup batch[Worker] \cup batch[Closer]

FateOf(e) ==
  IF e \in Recorded THEN "recorded"
  ELSE IF e \in lost THEN "lost"
  ELSE IF e \in sent THEN "reported" ELSE "new"

Ledger == INSTANCE BillingLedger WITH fate <- [e \in Events |-> FateOf(e)]

ImplementsLedger == Ledger!Spec

\* The comment in process_billing_task: a batch is taken when the flush interval
\* is reached or the configured number of records is.
TakenWhenConfigured ==
  [][ /\ pc[Worker] = "wait" /\ pc'[Worker] = "swap"
      /\ minimumCount # 0 /\ flushAfter # 0
      => elapsed > FlushInterval \/ count[current] >= MinimumCount]_vars

\* Every call returns: the lock is never kept from a caller for good.
CallsReturn == \A t \in Callers : pc[t] # "idle" ~> pc[t] = "idle"

\* A context that is being destroyed goes away: the worker is never left asleep
\* on the condition while the destructor waits for it.
CloseCompletes == pc[Closer] = "join" ~> pc[Closer] = "closed"

\* An event that is recorded does not stay in the client for ever.
EventsSettle == \A e \in Events : e \in Pending ~> e \in sent \cup lost
=============================================================================
