--------------------------- MODULE FpeKeysProofs ---------------------------
(***************************************************************************)
(* Proofs about FpeKeys: its type invariant and its safety invariants, for *)
(* any number of keys, any duration and any bound on the clock.            *)
(***************************************************************************)
EXTENDS FpeKeys, TLAPS

\* The type invariant in four parts.
ServerTyped == now \in 0..MaxTime /\ newest \in Key /\ stopped \in [Key -> 0..Never]
Element == [key : 0..newest, until : -1..(now + Duration)]
CachesTyped == definition \in -1..(now + Duration) /\ keys \in [Ask -> Element]
CallTyped ==
  /\ pc \in Places /\ op \in Operations /\ ask \in Ask
  /\ outcome \in {"none", "ok", "error"}
  /\ seen \in -1..newest /\ n \in 0..newest /\ (n <= seen \/ n = 0)
  /\ answer \in 0..newest /\ at \in 0..now /\ late \in 0..now
  /\ context \in [key : 0..newest, held : BOOLEAN]
TextsTyped ==
  /\ results \in Seq([key : 0..newest, number : 0..newest]) /\ Len(results) <= seen + 1
  /\ billed \in Seq(0..newest) /\ used \subseteq 0..newest

\* The current key, and those to come, have not stopped being current; the
\* others have, by now.
ServerSound ==
  /\ \A k \in Key : k >= newest => stopped[k] = Never
  /\ \A k \in Key : k < newest => stopped[k] <= now

\* The element under a number is of that key; the one under -1 is of a key that
\* was current when it was chosen, by so much earlier than it was added.
SoundKeys(cache, delay) ==
  /\ \A k \in Key : Live(cache[k].until) => cache[k].key = k
  /\ stopped[cache[Current].key] >= cache[Current].until - Duration - delay
CacheSound == SoundKeys(keys, late)

Running == pc \notin {"idle", "crashed"}
InLoop == pc \in {"context", "store", "cipher", "bill"}

\* What a call asks a context for.
AskSound ==
  /\ Running => outcome = "none"
  /\ Running /\ op = "encrypt" => ask = Current
  /\ Running /\ op = "decrypt" => ask \in Key
  /\ InLoop /\ op = "search" => ask = n
  /\ Running /\ op # "search" => n = 0 /\ seen = 0
  /\ pc \in {"load", "unwrap"} => op = "search"
  /\ InLoop \/ pc = "unwrap" => n <= seen

\* What the server has answered, and what get_ctx has found.
ContextSound ==
  /\ pc = "store" => /\ IF ask = Current THEN stopped[answer] >= at ELSE answer = ask
                     /\ ~Live(keys[ask].until)
  /\ pc = "unwrap" => stopped[seen] >= at
  /\ pc = "cipher" => context.held
  /\ pc \in {"cipher", "bill"} /\ ask # Current => context.key = ask
  /\ pc = "cipher" /\ ask = Current => stopped[context.key] >= now - Duration - late

\* A search that knows of any key knows of every one with which the object has
\* encrypted.
SearchSound ==
  /\ op = "search" /\ ((Running /\ pc # "load") \/ outcome = "ok")
       => used \subseteq 0..seen \/ seen = -1
  /\ op = "search" => \A i \in 1..Len(results) : results[i].key = i - 1

\* How many texts a call has made and billed.
Progress ==
  /\ pc \in {"load", "unwrap", "define"} => results = <<>> /\ billed = <<>>
  /\ pc \in {"load", "define"} => n = 0
  /\ pc \in {"context", "store", "cipher"} => Len(results) = n /\ Len(billed) = n
  /\ pc = "bill" => Len(results) = n + 1 /\ Len(billed) = n
  /\ pc = "bill" => results[n + 1].number = Number
  /\ outcome = "none" \/ outcome = "ok" => 
       \A i \in 1..Len(billed) : i <= Len(results) /\ billed[i] = results[i].number
  /\ outcome = "none" => Len(billed) <= Len(results)
  /\ outcome = "ok" => Len(results) = Len(billed)
  /\ outcome = "ok" /\ op = "search" => Len(results) = seen + 1
  /\ \A i \in 1..Len(results) : results[i].number = results[i].key

\* The inductive invariant.
IInv == /\ ServerTyped /\ CachesTyped /\ CallTyped /\ TextsTyped
        /\ ServerSound /\ CacheSound /\ AskSound
        /\ ContextSound /\ SearchSound /\ Progress
-----------------------------------------------------------------------------
(* Facts about the sequences, the numbers and the caches *)

LEMMA WiderSeq ==
  ASSUME NEW S, NEW T, S \subseteq T, NEW s \in Seq(S)
  PROVE  s \in Seq(T)
  OBVIOUS

LEMMA InSeq ==
  ASSUME NEW S, NEW s \in Seq(S), NEW i \in 1..Len(s)
  PROVE  s[i] \in S
  OBVIOUS

LEMMA NumbersAsked ==
  ASSUME ServerTyped
  PROVE  /\ Current \in Ask /\ 0..newest \subseteq Key /\ Key \subseteq Ask
         /\ \A k \in Key : k # Current
  BY BoundsAssumption DEF ServerTyped, Key, Ask, Current

\* What adding to a cache returns, and that its elements keep their type.
LEMMA AddedAt ==
  ASSUME NEW cache \in [Ask -> Element], NEW name \in Ask, NEW k, NEW a \in Ask
  PROVE  Added(cache, name, k)[a] =
           IF a = name /\ ~Live(cache[name].until)
             THEN [key |-> k, until |-> now + Duration] ELSE cache[a]
  BY DEF Added

LEMMA AddedTyped ==
  ASSUME ServerTyped, NEW cache \in [Ask -> Element], NEW name \in Ask, NEW k \in 0..newest
  PROVE  Added(cache, name, k) \in [Ask -> Element]
<1>1. [key |-> k, until |-> now + Duration] \in Element
  BY BoundsAssumption DEF ServerTyped, Element, Key
<1> QED
  BY <1>1 DEF Added

\* An element that is added names its key, or under -1 one still current.
LEMMA AddedSound ==
  ASSUME ServerTyped, NEW delay \in Int, NEW cache \in [Ask -> Element],
         SoundKeys(cache, delay), NEW name \in Ask, NEW k \in 0..newest,
         NEW t \in 0..now,
         name # Current => k = name,
         name = Current => stopped[k] >= t
  PROVE  LET new == Added(cache, name, k) IN
         SoundKeys(new, IF new[Current] = cache[Current] THEN delay ELSE now - t)
<1> USE NumbersAsked
<1> DEFINE new == Added(cache, name, k)
           newDelay == IF new[Current] = cache[Current] THEN delay ELSE now - t
<1>1. \A a \in Ask : Added(cache, name, k)[a] =
         IF a = name /\ ~Live(cache[name].until)
           THEN [key |-> k, until |-> now + Duration] ELSE cache[a]
  BY AddedAt
<1>2. \A a \in Key : Live(Added(cache, name, k)[a].until) => Added(cache, name, k)[a].key = a
  <2> SUFFICES ASSUME NEW a \in Key PROVE Live(Added(cache, name, k)[a].until) => Added(cache, name, k)[a].key = a
    OBVIOUS
  <2>1. a # Current /\ a \in Ask
    BY BoundsAssumption DEF Key, Current
  <2> QED
    BY <1>1, <2>1 DEF SoundKeys
<1>3. stopped[new[Current].key] >= new[Current].until - Duration - newDelay
  <2>1. CASE new[Current] = cache[Current]
    BY <2>1 DEF SoundKeys
  <2>2. CASE new[Current] # cache[Current]
    <3>1. name = Current /\ new[Current] = [key |-> k, until |-> now + Duration]
      BY <1>1, <2>2
    <3>2. stopped[k] >= t /\ k \in Key /\ stopped[k] \in Int /\ now \in Int
      BY <3>1 DEF ServerTyped, Never
    <3>3. new[Current].key = k /\ new[Current].until = now + Duration /\ newDelay = now - t
      BY <3>1, <2>2
    <3> HIDE DEF new, newDelay
    <3> QED
      BY <3>2, <3>3, BoundsAssumption
  <2> QED
    BY <2>1, <2>2
<1> QED
  BY <1>2, <1>3 DEF SoundKeys

\* An element is added under its number, and then under -1.
LEMMA NumberAdded ==
  ASSUME ServerTyped, CachesTyped, CacheSound, late \in Int, NEW k \in 0..newest
  PROVE  LET new == Added(keys, k, k) IN
         /\ new \in [Ask -> Element] /\ SoundKeys(new, late)
         /\ new[Current] = keys[Current]
<1>1. k \in Ask /\ k # Current /\ Current \in Ask
  BY NumbersAsked
<1>2. keys \in [Ask -> Element] /\ SoundKeys(keys, late)
  BY DEF CachesTyped, CacheSound
<1>3. Added(keys, k, k)[Current] = keys[Current]
  BY <1>1, <1>2, AddedAt
<1>4. 0 \in 0..now
  BY DEF ServerTyped
<1>5. SoundKeys(Added(keys, k, k),
        IF Added(keys, k, k)[Current] = keys[Current] THEN late ELSE now - 0)
  BY <1>1, <1>2, <1>4, AddedSound
<1>6. Added(keys, k, k) \in [Ask -> Element]
  BY <1>1, <1>2, AddedTyped
<1> QED
  BY <1>3, <1>5, <1>6

LEMMA BothAdded ==
  ASSUME ServerTyped, CachesTyped, CacheSound, late \in Int, NEW k \in 0..newest,
         NEW t \in 0..now, stopped[k] >= t
  PROVE  LET new == Added(Added(keys, k, k), Current, k) IN
         /\ new \in [Ask -> Element]
         /\ SoundKeys(new, IF new[Current] = keys[Current] THEN late ELSE now - t)
<1> DEFINE first == Added(keys, k, k)
<1>1. first \in [Ask -> Element] /\ SoundKeys(first, late) /\ first[Current] = keys[Current]
  BY NumberAdded
<1> HIDE DEF first
<1>2. Current \in Ask
  BY NumbersAsked
<1> QED
  BY <1>1, <1>2, AddedTyped, AddedSound DEF first

-----------------------------------------------------------------------------
(* Steps that share what they do *)

\* A step that leaves the server and its clock alone.
LEMMA ServerKept ==
  ASSUME ServerTyped, ServerSound, UNCHANGED serverVars
  PROVE  ServerTyped' /\ ServerSound'
  BY DEF ServerTyped, ServerSound, serverVars

\* A step that leaves the caches alone, too.
LEMMA CachesKept ==
  ASSUME CachesTyped, CacheSound, UNCHANGED <<serverVars, cacheVars, late>>
  PROVE  CachesTyped' /\ CacheSound'
  BY DEF CachesTyped, Element, CacheSound, SoundKeys, Live, serverVars, cacheVars

\* A step that changes the keys that are cached.
LEMMA KeysChanged ==
  ASSUME CachesTyped, UNCHANGED <<serverVars, definition>>,
         keys' \in [Ask -> Element], SoundKeys(keys', late')
  PROVE  CachesTyped' /\ CacheSound'
  BY DEF CachesTyped, Element, CacheSound, SoundKeys, Live, serverVars

\* A call that is over, with its texts or without.
LEMMA FailureKeeps ==
  ASSUME IInv, UNCHANGED <<serverVars, late, op, workVars, billed, used>>,
         pc' \in {"idle", "crashed"}, outcome' = "error",
         results' \in {<<>>, results}, op = "search" => results' = <<>>
  PROVE  /\ ServerTyped' /\ CallTyped' /\ TextsTyped' /\ ServerSound'
         /\ AskSound' /\ ContextSound' /\ SearchSound' /\ Progress'
<1> USE DEF IInv, workVars
<1>1. ServerTyped' /\ ServerSound' /\ UNCHANGED <<now, newest>>
  BY ServerKept DEF serverVars
<1>2. CallTyped'
  BY <1>1 DEF CallTyped, Places
<1>3. TextsTyped'
  <2>1. CASE results' = <<>>
    BY <2>1, <1>1 DEF ServerTyped, CallTyped, TextsTyped, Key
  <2>2. CASE results' = results
    BY <2>2, <1>1 DEF TextsTyped
  <2> QED
    BY <2>1, <2>2
<1>4. AskSound' /\ ContextSound'
  BY DEF AskSound, ContextSound, Running, InLoop
<1>5. SearchSound' /\ Progress'
  BY DEF SearchSound, Progress, Running
<1> QED
  BY <1>1, <1>2, <1>3, <1>4, <1>5

LEMMA FailedIsFailure ==
  ASSUME NEW allocated, NEW count, Failed(allocated, count)
  PROVE  /\ UNCHANGED <<serverVars, op, workVars, billed, used>>
         /\ pc' \in {"idle", "crashed"} /\ outcome' = "error"
         /\ results' \in {<<>>, results} /\ (op = "search" => results' = <<>>)
  BY DEF Failed

\* The failures that leave the caches as they are.
LEMMA FailuresKeep ==
  ASSUME IInv, LoadFails \/ NotDefined \/ NotDecoded \/ FetchFails \/ CipherFails \/ EventFails
  PROVE  IInv'
<1>1. UNCHANGED <<cacheVars, late>> /\ \E allocated, count : Failed(allocated, count)
  BY DEF LoadFails, NotDefined, NotDecoded, FetchFails, CipherFails, EventFails,
     FailedInLoop
<1>2. PICK allocated, count : Failed(allocated, count)
  BY <1>1
<1>3. CachesTyped' /\ CacheSound'
  BY <1>1, <1>2, FailedIsFailure, CachesKept DEF IInv
<1> QED
  BY <1>1, <1>2, <1>3, FailedIsFailure, FailureKeeps DEF IInv

LEMMA DefinitionGoneKeeps ==
  ASSUME IInv, DefinitionGone
  PROVE  IInv'
<1>1. CachesTyped' /\ CacheSound'
  BY CachesKept DEF IInv, DefinitionGone
<1> QED
  BY <1>1, FailureKeeps DEF IInv, DefinitionGone

LEMMA BeginKeeps ==
  ASSUME IInv, NEW o \in Operations, NEW k \in Ask, Begin(o, k),
         o = "encrypt" => k = Current, o = "decrypt" => k \in Key
  PROVE  IInv'
<1> USE DEF IInv
<1>1. ServerTyped' /\ ServerSound' /\ UNCHANGED <<now, newest>>
  BY ServerKept DEF Begin, serverVars
<1>2. CachesTyped' /\ CacheSound'
  BY CachesKept DEF Begin
<1>3. CallTyped'
  BY <1>1 DEF Begin, CallTyped, ServerTyped, Key, Places
<1>4. TextsTyped'
  BY <1>1 DEF Begin, TextsTyped, ServerTyped, Key
<1>5. AskSound' /\ ContextSound'
  BY DEF Begin, AskSound, ContextSound, Running, InLoop, Operations
<1>6. SearchSound'
  BY DEF Begin, SearchSound, Running, TextsTyped, ServerTyped
<1>7. Progress'
  BY DEF Begin, Progress
<1> QED
  BY <1>1, <1>2, <1>3, <1>4, <1>5, <1>6, <1>7

LEMMA CallsKeep ==
  ASSUME IInv, Encrypt \/ Decrypt \/ Search
  PROVE  IInv'
<1>1. 0 \in Key
  BY BoundsAssumption DEF Key
<1> QED
  BY <1>1, BeginKeeps, NumbersAsked DEF IInv, Encrypt, Decrypt, Search, Operations
-----------------------------------------------------------------------------
(* The other actions *)

LEMMA TickKeeps ==
  ASSUME IInv, Tick
  PROVE  IInv'
<1> USE BoundsAssumption DEF IInv
<1>1. ServerTyped' /\ ServerSound'
  BY DEF Tick, ServerTyped, ServerSound, Key, Never
<1>2. CachesTyped'
  BY DEF Tick, ServerTyped, CachesTyped, Element, Key, cacheVars
<1>3. CacheSound'
  <2>1. now' = now + 1 /\ UNCHANGED <<keys, stopped, late>>
    BY DEF Tick, cacheVars
  <2>2. \A k \in Key : keys[k].until \in Int
    BY NumbersAsked DEF CachesTyped, Element
  <2>3. now \in Int
    BY DEF ServerTyped
  <2>4. \A k \in Key : Live(keys[k].until)' => Live(keys[k].until)
    BY <2>1, <2>2, <2>3 DEF Live
  <2>5. stopped'[keys'[Current].key] >= keys'[Current].until - Duration - late'
    BY <2>1 DEF CacheSound, SoundKeys
  <2>6. \A k \in Key : Live(keys[k].until)' => keys'[k].key = k
    BY <2>1, <2>4 DEF CacheSound, SoundKeys
  <2> QED
    BY <2>5, <2>6 DEF CacheSound, SoundKeys
<1>4. CallTyped' /\ TextsTyped'
  BY DEF Tick, CallTyped, TextsTyped, ServerTyped, workVars, saidVars
<1>5. AskSound' /\ ContextSound'
  BY DEF Tick, Waiting, AskSound, ContextSound, CachesTyped, CallTyped, Element,
     ServerTyped, Running, InLoop, Live, cacheVars, workVars, saidVars
<1>6. SearchSound' /\ Progress'
  BY DEF Tick, SearchSound, Progress, Running, Number, workVars, saidVars
<1> QED
  BY <1>1, <1>2, <1>3, <1>4, <1>5, <1>6

LEMMA RotateKeeps ==
  ASSUME IInv, Rotate
  PROVE  IInv'
<1> USE BoundsAssumption DEF IInv
<1>1. ServerTyped' /\ ServerSound'
  BY DEF Rotate, ServerTyped, ServerSound, Key, Never
<1>2. CachesTyped'
  BY DEF Rotate, ServerTyped, CachesTyped, Element, Key, cacheVars
<1>3. CacheSound'
  <2>1. stopped' = [stopped EXCEPT ![newest] = now] /\ UNCHANGED <<keys, now, late>>
    BY DEF Rotate, cacheVars
  <2> DEFINE k == keys[Current].key
             until == keys[Current].until
  <2>2. k \in Key /\ until \in -1..(now + Duration) /\ late \in 0..now
    BY NumbersAsked DEF CachesTyped, Element, CallTyped
  <2>3. stopped'[k] >= until - Duration - late
    <3>1. CASE k = newest
      BY <3>1, <2>1, <2>2 DEF ServerTyped
    <3>2. CASE k # newest
      BY <3>2, <2>1, <2>2 DEF CacheSound, SoundKeys, ServerTyped
    <3> QED
      BY <3>1, <3>2
  <2> QED
    BY <2>1, <2>3 DEF CacheSound, SoundKeys, Live
<1>4. CallTyped'
  <2>1. /\ newest' = newest + 1
        /\ UNCHANGED <<now, late, pc, op, ask, outcome, seen, n, answer, at, context>>
    BY DEF Rotate, workVars, saidVars
  <2>2. context \in [key : 0..(newest + 1), held : BOOLEAN]
    BY DEF CallTyped, ServerTyped, Key
  <2> QED
    BY <2>1, <2>2 DEF CallTyped, ServerTyped, Key
<1>5. TextsTyped'
  <2>1. newest' = newest + 1 /\ UNCHANGED <<results, seen, billed, used>>
    BY DEF Rotate, workVars, saidVars
  <2>2. 0..newest \subseteq 0..(newest + 1)
    BY DEF ServerTyped, Key
  <2>3. [key : 0..newest, number : 0..newest] \subseteq [key : 0..(newest + 1), number : 0..(newest + 1)]
    BY <2>2
  <2> QED
    BY <2>1, <2>2, <2>3, WiderSeq DEF TextsTyped
<1>6. AskSound' /\ ContextSound'
  <2>1. AskSound'
    BY DEF Rotate, Waiting, AskSound, Running, InLoop, workVars, saidVars
  <2>2. /\ UNCHANGED <<pc, ask, answer, at, seen, now, late, keys, context>>
        /\ pc \notin {"cipher", "bill"} /\ stopped' = [stopped EXCEPT ![newest] = now]
    BY DEF Rotate, Waiting, workVars, cacheVars
  <2>3. \A k \in 0..newest : stopped[k] >= at => stopped'[k] >= at
    <3> SUFFICES ASSUME NEW k \in 0..newest, stopped[k] >= at PROVE stopped'[k] >= at
      OBVIOUS
    <3> QED
      BY <2>2, NumbersAsked DEF ServerTyped, CallTyped
  <2>4. pc = "unwrap" => seen \in 0..newest
    BY DEF AskSound, CallTyped, ServerTyped, Key
  <2> QED
    BY <2>1, <2>2, <2>3, <2>4 DEF ContextSound, Live, CallTyped
<1>7. SearchSound' /\ Progress'
  BY DEF Rotate, Waiting, SearchSound, Progress, Running, Number, workVars, saidVars
<1> QED
  BY <1>1, <1>2, <1>3, <1>4, <1>5, <1>6, <1>7

LEMMA LoadKeeps ==
  ASSUME IInv, Load
  PROVE  IInv'
<1> USE BoundsAssumption DEF IInv
<1>1. ServerTyped' /\ ServerSound' /\ UNCHANGED <<now, newest, stopped>>
  BY ServerKept DEF Load, serverVars
<1>2. CachesTyped' /\ CacheSound'
  BY DEF Load, ServerTyped, CachesTyped, Element, CacheSound, SoundKeys, Live, Key,
     serverVars
<1>3. CallTyped'
  BY DEF Load, CallTyped, ServerTyped, Places, Key, saidVars, serverVars
<1>4. TextsTyped'
  BY DEF Load, TextsTyped, Progress, ServerTyped, CallTyped, Key, saidVars, serverVars
<1>5. AskSound'
  BY DEF AskSound, CallTyped, ServerTyped, Running, InLoop, Load, Key, saidVars
<1>6. ContextSound'
  <2>1. stopped[newest] = Never /\ seen' = newest /\ at' = now /\ stopped' = stopped
    BY DEF Load, ServerSound, ServerTyped, Key, serverVars
  <2>2. pc' = "unwrap" /\ Never >= now
    BY DEF Load, ServerTyped, Never
  <2> QED
    BY <2>1, <2>2 DEF ContextSound
<1>7. SearchSound'
  BY DEF Load, SearchSound, Running, ServerTyped, TextsTyped, serverVars, saidVars,
     AskSound
<1>8. Progress'
  BY DEF Load, Progress, AskSound, Running, saidVars
<1> QED
  BY <1>1, <1>2, <1>3, <1>4, <1>5, <1>6, <1>7, <1>8

LEMMA LoadNothingKeeps ==
  ASSUME IInv, LoadNothing
  PROVE  IInv'
<1> USE DEF IInv
<1>1. ServerTyped' /\ ServerSound' /\ CachesTyped' /\ CacheSound'
  BY ServerKept, CachesKept DEF LoadNothing
<1>2. CallTyped' /\ TextsTyped'
  BY DEF LoadNothing, CallTyped, TextsTyped, Progress, ServerTyped, Places, Key,
     serverVars, saidVars
<1>3. AskSound' /\ ContextSound'
  BY DEF LoadNothing, AskSound, ContextSound, Running, InLoop, saidVars
<1>4. SearchSound' /\ Progress'
  BY DEF LoadNothing, AskSound, SearchSound, Progress, Running, saidVars
<1> QED
  BY <1>1, <1>2, <1>3, <1>4

LEMMA UnwrapKeeps ==
  ASSUME IInv, Unwrap
  PROVE  IInv'
<1> USE BoundsAssumption DEF IInv
<1>1. ServerTyped' /\ ServerSound' /\ UNCHANGED <<now, newest, stopped>>
  BY ServerKept DEF Unwrap, serverVars
<1>2. CachesTyped' /\ CacheSound'
  <2>1. /\ n \in 0..newest /\ at \in 0..now /\ late \in Int
        /\ n = seen => stopped[n] >= at
    BY DEF CallTyped, ServerTyped, ContextSound, Unwrap
  <2>2. /\ keys' \in [Ask -> Element]
        /\ SoundKeys(keys', IF keys'[Current] = keys[Current] THEN late ELSE now - at)
    BY <2>1, NumberAdded, BothAdded DEF Unwrap, Unwrapped, CachesTyped, CacheSound
  <2> QED
    BY <2>2, KeysChanged DEF Unwrap, Dated
<1>3. CallTyped'
  <2>1. n' \in 0..newest /\ (n' <= seen \/ n' = 0)
    BY DEF Unwrap, CallTyped, ServerTyped, Key
  <2>2. late' \in 0..now
    BY DEF Unwrap, Dated, CallTyped, ServerTyped
  <2> QED
    BY <2>1, <2>2 DEF Unwrap, CallTyped, Places, serverVars, saidVars
<1>4. TextsTyped'
  BY DEF Unwrap, TextsTyped, saidVars, serverVars
<1>5. AskSound'
  BY DEF AskSound, CallTyped, Running, InLoop, Unwrap, saidVars, serverVars
<1>6. ContextSound'
  BY DEF ContextSound, Running, InLoop, Unwrap, saidVars, serverVars
<1>7. SearchSound'
  BY DEF SearchSound, Running, Unwrap, saidVars, serverVars
<1>8. Progress'
  BY DEF Progress, Running, Number, Unwrap, saidVars, serverVars
<1> QED
  BY <1>1, <1>2, <1>3, <1>4, <1>5, <1>6, <1>7, <1>8

LEMMA UnwrapFailsKeeps ==
  ASSUME IInv, UnwrapFails
  PROVE  IInv'
<1> USE BoundsAssumption DEF IInv
<1>1. CachesTyped' /\ CacheSound'
  <2>1. n \in 0..newest /\ late \in Int
    BY DEF CallTyped, ServerTyped
  <2>2. Added(keys, n, n) \in [Ask -> Element] /\ SoundKeys(Added(keys, n, n), late)
    BY <2>1, NumberAdded
  <2> QED
    BY <2>2, KeysChanged DEF UnwrapFails, Failed, CachesTyped, CacheSound
<1>2. /\ ServerTyped' /\ CallTyped' /\ TextsTyped' /\ ServerSound'
      /\ AskSound' /\ ContextSound' /\ SearchSound' /\ Progress'
  BY FailedIsFailure, FailureKeeps DEF UnwrapFails
<1> QED
  BY <1>1, <1>2

LEMMA DefinedKeeps ==
  ASSUME IInv, Defined
  PROVE  IInv'
<1> USE BoundsAssumption DEF IInv
<1>1. ServerTyped' /\ ServerSound' /\ UNCHANGED <<now, newest, stopped>>
  BY ServerKept DEF Defined, serverVars
<1>2. CachesTyped' /\ CacheSound'
  BY DEF Defined, GetsDefinition, ServerTyped, CachesTyped, Element, CacheSound, SoundKeys, Live, Key,
     serverVars
<1>3. CallTyped'
  BY DEF Defined, CallTyped, ServerTyped, CachesTyped, Places, Key, Ask, serverVars,
     saidVars
<1>4. TextsTyped'
  BY DEF Defined, TextsTyped, saidVars, serverVars
<1>5. AskSound'
  <2>1. n = 0 /\ n <= seen
    BY DEF Defined, NothingToSearch, Progress, AskSound, Running, CallTyped, ServerTyped,
       Key
  <2> QED
    BY <2>1 DEF Defined, AskSound, Running, InLoop, Current, Key, saidVars
<1>6. ContextSound'
  BY DEF ContextSound, Running, InLoop, Defined, saidVars
<1>7. SearchSound'
  BY DEF SearchSound, Running, Defined, saidVars
<1>8. Progress'
  BY DEF Progress, Running, Number, Defined, saidVars
<1> QED
  BY <1>1, <1>2, <1>3, <1>4, <1>5, <1>6, <1>7, <1>8

LEMMA DefinedForNothingKeeps ==
  ASSUME IInv, DefinedForNothing
  PROVE  IInv'
<1> USE BoundsAssumption DEF IInv
<1>1. ServerTyped' /\ ServerSound' /\ UNCHANGED <<now, newest, stopped>>
  BY ServerKept DEF DefinedForNothing, serverVars
<1>2. CachesTyped' /\ CacheSound'
  BY DEF DefinedForNothing, GetsDefinition, ServerTyped, CachesTyped, Element, CacheSound,
     SoundKeys, Live, Key, serverVars
<1>3. CallTyped' /\ TextsTyped'
  BY DEF DefinedForNothing, CallTyped, TextsTyped, Places, serverVars, workVars
<1>4. AskSound' /\ ContextSound' /\ SearchSound'
  BY DEF DefinedForNothing, NothingToSearch, AskSound, ContextSound, SearchSound, Running,
     InLoop, workVars
<1>5. Progress'
  BY DEF DefinedForNothing, NothingToSearch, Progress, workVars
<1> QED
  BY <1>1, <1>2, <1>3, <1>4, <1>5

LEMMA FindKeeps ==
  ASSUME IInv, Find
  PROVE  IInv'
<1> USE BoundsAssumption DEF IInv
<1>1. ServerTyped' /\ ServerSound' /\ UNCHANGED <<now, newest, stopped>>
  BY ServerKept DEF Find, serverVars
<1>2. CachesTyped' /\ CacheSound'
  BY CachesKept DEF Find
<1>3. CallTyped'
  <2>1. keys[ask] \in Element
    BY DEF CachesTyped, CallTyped
  <2> QED
    BY <2>1 DEF Find, CallTyped, Element, Places, serverVars, saidVars
<1>4. TextsTyped'
  BY DEF Find, TextsTyped, serverVars, saidVars
<1>5. AskSound'
  BY DEF AskSound, CallTyped, Running, InLoop, Find, saidVars
<1>6. ContextSound'
  <2>1. /\ pc' = "cipher" /\ context' = [key |-> keys[ask].key, held |-> TRUE]
        /\ Live(keys[ask].until) /\ UNCHANGED <<ask, keys, now, stopped, late>>
    BY DEF Find, serverVars, cacheVars
  <2>2. ask # Current => keys[ask].key = ask
    BY <2>1 DEF CacheSound, SoundKeys, CallTyped, Ask
  <2>3. ask = Current => stopped[keys[ask].key] >= now - Duration - late
    <3>1. /\ keys[Current].until \in Int /\ now \in Int /\ keys[Current].key \in Key
          /\ late \in Int
      BY NumbersAsked DEF CachesTyped, Element, ServerTyped, CallTyped
    <3>2. stopped[keys[Current].key] \in Int
      BY <3>1 DEF ServerTyped, Never
    <3> QED
      BY <2>1, <3>1, <3>2 DEF CacheSound, SoundKeys, Live
  <2> QED
    BY <2>1, <2>2, <2>3 DEF ContextSound
<1>7. SearchSound'
  BY DEF SearchSound, Running, Find, saidVars
<1>8. Progress'
  BY DEF Progress, Running, Number, Find, saidVars
<1> QED
  BY <1>1, <1>2, <1>3, <1>4, <1>5, <1>6, <1>7, <1>8

LEMMA FetchKeeps ==
  ASSUME IInv, Fetch
  PROVE  IInv'
<1> USE BoundsAssumption DEF IInv
<1>1. ServerTyped' /\ ServerSound' /\ UNCHANGED <<now, newest, stopped>>
  BY ServerKept DEF Fetch, serverVars
<1>2. CachesTyped' /\ CacheSound'
  BY CachesKept DEF Fetch
<1>3. CallTyped'
  BY DEF Fetch, Refused, CallTyped, ServerTyped, Places, Key, Ask, Current,
     serverVars, saidVars
<1>4. TextsTyped'
  BY DEF Fetch, TextsTyped, serverVars, saidVars
<1>5. AskSound'
  BY DEF AskSound, CallTyped, Running, InLoop, Fetch, saidVars
<1>6. ContextSound'
  <2>1. ask = Current => stopped[newest] = Never
    BY DEF ServerSound, ServerTyped, Key
  <2>2. Never >= now
    BY DEF ServerTyped, Never
  <2> QED
    BY <2>1, <2>2 DEF Fetch, ContextSound, Live, serverVars, cacheVars
<1>7. SearchSound'
  BY DEF SearchSound, Running, Fetch, saidVars
<1>8. Progress'
  BY DEF Progress, Running, Number, Fetch, saidVars
<1> QED
  BY <1>1, <1>2, <1>3, <1>4, <1>5, <1>6, <1>7, <1>8

LEMMA StoreKeeps ==
  ASSUME IInv, Store
  PROVE  IInv'
<1> USE BoundsAssumption DEF IInv
<1>1. ServerTyped' /\ ServerSound' /\ UNCHANGED <<now, newest, stopped>>
  BY ServerKept DEF Store, serverVars
<1>2. CachesTyped' /\ CacheSound'
  <2>1. /\ answer \in 0..newest /\ at \in 0..now /\ late \in Int
        /\ ask = Current => stopped[answer] >= at
    BY DEF CallTyped, ServerTyped, ContextSound, Store
  <2>2. /\ keys' \in [Ask -> Element]
        /\ SoundKeys(keys', IF keys'[Current] = keys[Current] THEN late ELSE now - at)
    BY <2>1, NumberAdded, BothAdded DEF Store
  <2> QED
    BY <2>2, KeysChanged DEF Store, Dated
<1>3. CallTyped'
  <2>1. late' \in 0..now
    BY DEF Store, Dated, CallTyped, ServerTyped
  <2> QED
    BY <2>1 DEF Store, CallTyped, Places, serverVars, saidVars
<1>4. TextsTyped'
  BY DEF Store, TextsTyped, serverVars, saidVars
<1>5. AskSound'
  BY DEF AskSound, CallTyped, Running, InLoop, Store, saidVars
<1>6. ContextSound'
  <2>1. /\ pc' = "cipher" /\ context' = [key |-> answer, held |-> ~Live(keys[ask].until)]
        /\ pc = "store" /\ UNCHANGED <<ask, now, stopped>>
    BY DEF Store, serverVars
  <2>2. context'.held /\ (ask # Current => answer = ask)
    BY <2>1 DEF ContextSound
  <2>3. ask = Current => stopped[answer] >= now - Duration - late'
    <3> SUFFICES ASSUME ask = Current PROVE stopped[answer] >= now - Duration - late'
      OBVIOUS
    <3>1. /\ keys'[Current] = [key |-> answer, until |-> now + Duration]
          /\ keys'[Current] # keys[Current]
      <4>1. /\ Current \in Ask /\ answer \in Ask /\ answer # Current
            /\ ~Live(keys[Current].until) /\ keys \in [Ask -> Element]
            /\ answer \in 0..newest /\ late \in Int
        BY <2>1, NumbersAsked DEF ContextSound, CachesTyped, CallTyped, ServerTyped
      <4>2. /\ Added(keys, answer, answer) \in [Ask -> Element]
            /\ Added(keys, answer, answer)[Current] = keys[Current]
        BY <4>1, NumberAdded
      <4>3. keys'[Current] = [key |-> answer, until |-> now + Duration]
        BY <4>1, <4>2, AddedAt DEF Store
      <4>4. keys[Current].until < now
        BY <4>1 DEF Live, Element, ServerTyped
      <4> QED
        BY <4>3, <4>4 DEF ServerTyped
    <3>2. late' = now - at /\ stopped[answer] >= at
      BY <3>1, <2>1 DEF Store, Dated, ContextSound
    <3>3. now \in Int /\ at \in Int /\ stopped[answer] \in Int
      BY NumbersAsked DEF ServerTyped, CallTyped, Never
    <3> QED
      BY <3>2, <3>3
  <2> QED
    BY <2>1, <2>2, <2>3 DEF ContextSound
<1>7. SearchSound'
  BY DEF SearchSound, Running, Store, saidVars
<1>8. Progress'
  BY DEF Progress, Running, Number, Store, saidVars
<1> QED
  BY <1>1, <1>2, <1>3, <1>4, <1>5, <1>6, <1>7, <1>8

LEMMA StoreFailsKeeps ==
  ASSUME IInv, StoreFails
  PROVE  IInv'
<1> USE BoundsAssumption DEF IInv
<1>1. /\ UNCHANGED <<serverVars, late, op, workVars, billed, used>>
      /\ pc' \in {"idle", "crashed"} /\ outcome' = "error"
      /\ results' \in {<<>>, results} /\ (op = "search" => results' = <<>>)
  BY FailedIsFailure DEF StoreFails, FailedInLoop
<1>2. CachesTyped' /\ CacheSound'
  <2>1. answer \in 0..newest /\ late \in Int
    BY DEF CallTyped, ServerTyped
  <2>2. /\ Added(keys, answer, answer) \in [Ask -> Element]
        /\ SoundKeys(Added(keys, answer, answer), late)
    BY <2>1, NumberAdded
  <2>3. keys' \in {keys, Added(keys, answer, answer)}
    BY DEF StoreFails
  <2> QED
    BY <1>1, <2>2, <2>3, KeysChanged DEF StoreFails, CachesTyped, CacheSound
<1>3. /\ ServerTyped' /\ CallTyped' /\ TextsTyped' /\ ServerSound'
      /\ AskSound' /\ ContextSound' /\ SearchSound' /\ Progress'
  BY <1>1, FailureKeeps
<1> QED
  BY <1>1, <1>2, <1>3

LEMMA CipherKeeps ==
  ASSUME IInv, Cipher
  PROVE  IInv'
<1> USE BoundsAssumption DEF IInv
<1>1. ServerTyped' /\ ServerSound' /\ UNCHANGED <<now, newest, stopped>>
  BY ServerKept DEF Cipher, serverVars
<1>2. CachesTyped' /\ CacheSound'
  BY CachesKept DEF Cipher
<1>3. CallTyped'
  BY DEF Cipher, CallTyped, Places, serverVars, workVars
<1>4. TextsTyped'
  <2>1. Number \in 0..newest /\ context.key \in 0..newest /\ Len(results) + 1 <= seen + 1
    BY DEF Cipher, Number, Progress, AskSound, InLoop, CallTyped, ServerTyped, Key
  <2>2. /\ results' \in Seq([key : 0..newest, number : 0..newest])
        /\ Len(results') = Len(results) + 1
    BY <2>1 DEF Cipher, TextsTyped
  <2>3. used' \subseteq 0..newest
    BY <2>1 DEF Cipher, TextsTyped
  <2> QED
    BY <2>1, <2>2, <2>3 DEF Cipher, TextsTyped, serverVars, workVars
<1>5. AskSound'
  BY DEF AskSound, CallTyped, Running, InLoop, Cipher, workVars
<1>6. ContextSound'
  BY DEF ContextSound, Running, InLoop, Cipher, workVars
<1>7. SearchSound'
  <2>1. /\ pc' = "bill" /\ pc = "cipher" /\ UNCHANGED <<op, seen, outcome>>
        /\ results' = Append(results, [key |-> context.key, number |-> Number])
        /\ op = "search" => UNCHANGED used
    BY DEF Cipher, workVars
  <2>2. op = "search" => context.key = n /\ Len(results) = n
    BY <2>1 DEF AskSound, InLoop, ContextSound, Progress, CallTyped, Current
  <2>3. /\ Len(results') = Len(results) + 1
        /\ results'[Len(results) + 1].key = context.key
        /\ \A i \in 1..Len(results) : results'[i] = results[i]
    BY <2>1 DEF TextsTyped
  <2>4. op = "search" => \A i \in 1..Len(results') : results'[i].key = i - 1
    <3> SUFFICES ASSUME op = "search", NEW i \in 1..Len(results')
                 PROVE  results'[i].key = i - 1
      OBVIOUS
    <3>1. Len(results) = n /\ n \in Nat /\ i \in 1..(n + 1)
      BY <2>2, <2>3 DEF CallTyped, ServerTyped, Key
    <3>2. CASE i = n + 1
      BY <3>1, <3>2, <2>2, <2>3
    <3>3. CASE i \in 1..n
      BY <3>1, <3>3, <2>3 DEF SearchSound
    <3> QED
      BY <3>1, <3>2, <3>3
  <2> QED
    BY <2>1, <2>4 DEF SearchSound, Running
<1>8. Progress'
  <2>1. /\ pc' = "bill" /\ pc = "cipher" /\ UNCHANGED <<op, n, seen, context, outcome, billed>>
        /\ results' = Append(results, [key |-> context.key, number |-> Number])
    BY DEF Cipher, workVars
  <2>2. outcome = "none" /\ Len(results) = n /\ Len(billed) = n /\ n \in Nat
    BY <2>1 DEF AskSound, Running, Progress, CallTyped
  <2>3. Len(results') = n + 1 /\ results'[n + 1] = [key |-> context.key, number |-> Number]
    BY <2>1, <2>2 DEF TextsTyped
  <2>4. \A i \in 1..n : results'[i] = results[i]
    BY <2>1, <2>2 DEF TextsTyped
  <2>5. Number' = Number /\ Number = context.key
    BY <2>1 DEF Number, AskSound, InLoop, ContextSound, CallTyped, Current
  <2>6. \A i \in 1..Len(results') : results'[i].number = results'[i].key
    BY <2>2, <2>3, <2>4, <2>5 DEF Progress
  <2>7. \A i \in 1..Len(billed) : i <= Len(results') /\ billed[i] = results'[i].number
    BY <2>2, <2>3, <2>4 DEF Progress
  <2> QED
    BY <2>1, <2>2, <2>3, <2>5, <2>6, <2>7 DEF Progress
<1> QED
  BY <1>1, <1>2, <1>3, <1>4, <1>5, <1>6, <1>7, <1>8

LEMMA EventKeeps ==
  ASSUME IInv, Event
  PROVE  IInv'
<1> USE BoundsAssumption DEF IInv
<1>1. ServerTyped' /\ ServerSound' /\ UNCHANGED <<now, newest, stopped>>
  BY ServerKept DEF Event, serverVars
<1>2. CachesTyped' /\ CacheSound'
  BY CachesKept DEF Event
<1>3. CallTyped'
  <2>1. CASE op = "search" /\ n < seen
    <3>1. n + 1 \in 0..newest /\ n + 1 <= seen /\ n + 1 \in Ask
      BY <2>1 DEF CallTyped, ServerTyped, Key, Ask
    <3> QED
      BY <2>1, <3>1 DEF Event, Onward, CallTyped, Places, serverVars
  <2>2. CASE ~(op = "search" /\ n < seen)
    BY <2>2 DEF Event, Onward, CallTyped, Places, serverVars
  <2> QED
    BY <2>1, <2>2
<1>4. TextsTyped'
  BY DEF Event, Number, TextsTyped, CallTyped, ServerTyped, Key, serverVars
<1>5. AskSound'
  BY DEF AskSound, CallTyped, Running, InLoop, Event, Onward
<1>6. ContextSound'
  BY DEF ContextSound, Running, InLoop, Event, Onward
<1>7. SearchSound'
  BY DEF SearchSound, Running, Event, Onward
<1>8. Progress'
  <2>1. /\ pc = "bill" /\ pc' \in {"context", "idle"} /\ billed' = Append(billed, Number)
        /\ UNCHANGED <<op, seen, results>>
        /\ pc' = "context" => n' = n + 1 /\ UNCHANGED outcome
        /\ pc' = "idle" => outcome' = "ok" /\ (op # "search" \/ n >= seen)
    BY DEF Event, Onward, CallTyped, ServerTyped
  <2>2. outcome = "none" /\ Len(results) = n + 1 /\ Len(billed) = n /\ n \in 0..seen
    BY <2>1 DEF AskSound, Running, InLoop, Progress, CallTyped, ServerTyped, Key
  <2>3. Len(billed') = n + 1 /\ billed'[n + 1] = Number /\ Number = results[n + 1].number
    BY <2>1, <2>2 DEF TextsTyped, Progress
  <2>4. \A i \in 1..n : billed'[i] = billed[i]
    BY <2>1, <2>2 DEF TextsTyped
  <2>5. \A i \in 1..Len(billed') : i <= Len(results) /\ billed'[i] = results[i].number
    BY <2>2, <2>3, <2>4 DEF Progress
  <2>6. pc' = "idle" /\ op = "search" => Len(results) = seen + 1
    BY <2>1, <2>2 DEF CallTyped, ServerTyped
  <2>7. outcome' \in {"none", "ok"} /\ (outcome' = "ok" => pc' = "idle")
    BY <2>1, <2>2
  <2> QED
    BY <2>1, <2>2, <2>3, <2>5, <2>6, <2>7 DEF Progress
<1> QED
  BY <1>1, <1>2, <1>3, <1>4, <1>5, <1>6, <1>7, <1>8

-----------------------------------------------------------------------------
LEMMA InvariantInit == Init => IInv
<1> SUFFICES ASSUME Init PROVE IInv
  OBVIOUS
<1>1. ServerTyped /\ CachesTyped /\ CallTyped /\ TextsTyped
  BY BoundsAssumption DEF Init, ServerTyped, CachesTyped, Element, CallTyped,
     TextsTyped,
     Key, Ask, Current, Never, Places, Operations
<1>2. ServerSound /\ CacheSound
  BY BoundsAssumption DEF Init, ServerSound, CacheSound, SoundKeys, Key, Ask, Current,
     Never, Live
<1>3. AskSound /\ ContextSound /\ SearchSound /\ Progress
  BY DEF Init, AskSound, ContextSound, SearchSound, Progress, Running, InLoop
<1> QED
  BY <1>1, <1>2, <1>3 DEF IInv

LEMMA InvariantStep == IInv /\ [Next]_vars => IInv'
<1>1. ASSUME IInv, UNCHANGED vars PROVE IInv'
  <2>1. ServerTyped' /\ ServerSound' /\ CachesTyped' /\ CacheSound'
    BY <1>1, ServerKept, CachesKept DEF IInv, vars
  <2>2. CallTyped' /\ TextsTyped'
    BY <1>1 DEF IInv, CallTyped, TextsTyped, vars, serverVars, workVars, saidVars
  <2>3. AskSound' /\ ContextSound'
    BY <1>1 DEF IInv, AskSound, ContextSound, Running, InLoop, Live, vars, serverVars,
       cacheVars, workVars, saidVars
  <2>4. SearchSound' /\ Progress'
    BY <1>1 DEF IInv, SearchSound, Progress, Running, Number, vars, serverVars,
       workVars,
       saidVars
  <2> QED
    BY <2>1, <2>2, <2>3, <2>4 DEF IInv
<1> QED
  BY <1>1, FailuresKeep, CallsKeep, TickKeeps, RotateKeeps, LoadKeeps, UnwrapKeeps,
     LoadNothingKeeps, UnwrapFailsKeeps, DefinedKeeps, DefinedForNothingKeeps, DefinitionGoneKeeps, FindKeeps, FetchKeeps, StoreKeeps, StoreFailsKeeps,
     CipherKeeps, EventKeeps
     DEF Next, GetContext, Crashed

\* What a call of lib/fpe.c holds, and what its caches and its results hold,
\* in every state.
THEOREM Invariance == Spec => []IInv
  BY InvariantInit, InvariantStep, PTL DEF Spec

\* Every variable keeps its type: no index of a search runs past its keys, and
\* no element of a cache outlives the duration it was given.
THEOREM TypeCorrect == Spec => []TypeOK
<1>1. IInv => TypeOK
  BY DEF IInv, TypeOK, ServerTyped, CachesTyped, Element, CallTyped, TextsTyped
<1> QED
  BY <1>1, Invariance, PTL

\* Every text and its event carry the number of the key that was used, and a
\* context is used only while its cache has it.
THEOREM NumbersNameTheirKeys == Spec => []NumbersNameKeys
<1>1. IInv => NumbersNameKeys
  <2> SUFFICES ASSUME IInv PROVE NumbersNameKeys
    OBVIOUS
  <2>1. \A i \in DOMAIN results : results[i].number = results[i].key
    <3>1. DOMAIN results = 1..Len(results)
      BY DEF IInv, TextsTyped
    <3> QED
      BY <3>1 DEF IInv, Progress
  <2> QED
    BY <2>1 DEF IInv, CacheSound, SoundKeys, ContextSound, NumbersNameKeys
<1> QED
  BY <1>1, Invariance, PTL

\* However often the server turns to a new key, the one that a text is encrypted
\* with has been current within the duration for which get_ctx keeps it and the
\* time between the server's choice and the adding to the cache.
THEOREM KeysAreRecent == Spec => []CurrentWithinDuration
<1>1. IInv => CurrentWithinDuration
  BY DEF IInv, AskSound, ContextSound, Running, CurrentWithinDuration
<1> QED
  BY <1>1, Invariance, PTL

\* Of a call that succeeds each text was billed once, in order.
THEOREM DeliveredTextsAreBilled == Spec => []DeliveredIsBilled
<1>1. IInv => DeliveredIsBilled
  <2> SUFFICES ASSUME IInv PROVE DeliveredIsBilled
    OBVIOUS
  <2>1. outcome = "ok" => billed = [i \in 1..Len(results) |-> results[i].number]
    <3> SUFFICES ASSUME outcome = "ok" PROVE billed = [i \in 1..Len(results) |-> results[i].number]
      OBVIOUS
    <3>1. Len(billed) = Len(results) /\ \A i \in 1..Len(billed) : billed[i] = results[i].number
      BY DEF IInv, Progress
    <3>2. billed = [i \in 1..Len(billed) |-> billed[i]]
      BY DEF IInv, TextsTyped
    <3> QED
      BY <3>1, <3>2
  <2> QED
    BY <2>1 DEF IInv, Progress, DeliveredIsBilled
<1> QED
  BY <1>1, Invariance, PTL

\* A search that succeeds has a text for every key the object ever encrypted with,
\* unless the server's response, no object, left it without any key.
THEOREM SearchesAreComplete == Spec => []SearchComplete
<1>1. IInv => SearchComplete
  <2> SUFFICES ASSUME IInv, op = "search", outcome = "ok"
               PROVE  /\ results = [i \in 1..(seen + 1) |-> [key |-> i - 1, number |-> i - 1]]
                      /\ used \subseteq {results[i].key : i \in DOMAIN results} \/ seen = -1
    BY DEF SearchComplete
  <2>1. /\ Len(results) = seen + 1 /\ (used \subseteq 0..seen \/ seen = -1) /\ seen \in Int
        /\ results \in Seq([key : 0..newest, number : 0..newest])
    BY BoundsAssumption DEF IInv, ServerTyped, CallTyped, TextsTyped, Progress,
       SearchSound, Key
  <2>2. \A i \in 1..(seen + 1) : results[i].key = i - 1 /\ results[i].number = i - 1
    BY <2>1 DEF IInv, Progress, SearchSound
  <2>3. DOMAIN results = 1..(seen + 1)
    BY <2>1
  <2>4. \A i \in 1..(seen + 1) : results[i] = [key |-> i - 1, number |-> i - 1]
    <3> SUFFICES ASSUME NEW i \in 1..(seen + 1) PROVE results[i] = [key |-> i - 1, number |-> i - 1]
      OBVIOUS
    <3>1. i \in 1..Len(results)
      BY <2>1
    <3>2. results[i] \in [key : 0..newest, number : 0..newest]
      BY <3>1, <2>1, InSeq
    <3> QED
      BY <3>2, <2>2
  <2>5. results = [i \in 1..(seen + 1) |-> results[i]]
    BY <2>1, <2>3
  <2>6. results = [i \in 1..(seen + 1) |-> [key |-> i - 1, number |-> i - 1]]
    BY <2>4, <2>5
  <2>7. \A k \in 0..seen : k + 1 \in DOMAIN results /\ results[k + 1].key = k
    BY <2>1, <2>2, <2>3
  <2> QED
    BY <2>1, <2>6, <2>7
<1> QED
  BY <1>1, Invariance, PTL
=============================================================================
