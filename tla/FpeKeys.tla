------------------------------ MODULE FpeKeys ------------------------------
(***************************************************************************)
(* The keys of format-preserving encryption (lib/fpe.c): one object, used  *)
(* by one thread, and one data set.  The server numbers the data set's     *)
(* keys from zero and has a current one, the last.  The object caches the  *)
(* definition of the data set, the context of each key under the key's     *)
(* number, and that of the key it encrypts with under -1.                  *)
(*                                                                         *)
(* A key is its number at the server.  Time passes, and the server turns   *)
(* to a new key, while the object is idle, waits for the server or has yet *)
(* to receive and unwrap what the server has answered.                     *)
(***************************************************************************)
EXTENDS Integers, Sequences

CONSTANTS
  MaxKey,         \* bound on the keys of the data set
  Duration,       \* CACHE_DURATION
  MaxTime,        \* bound on the clock
  FaultsHappen    \* may an allocation, the server or the network fail?

ASSUME BoundsAssumption ==
  MaxKey \in Nat /\ Duration \in Nat /\ MaxTime \in Nat /\ FaultsHappen \in BOOLEAN

Key == 0..MaxKey
Current == -1
Ask == Key \cup {Current}
Never == MaxTime + 1
Operations == {"encrypt", "decrypt", "search"}

VARIABLES
  now,
  newest, stopped,   \* the server: the current key, and when each stopped being it
  definition,        \* ffs_cache: until when, -1 without an element
  keys,              \* key_cache: the key under each name, and until when
  pc, op, ask,       \* the call, where it is, and the number it asks a context for
  seen, n,           \* search: the current key at the load, and the loop's index
  answer,            \* the key in the response
  at, late,          \* history: when the server chose what it answers, and how
                     \* much later the element under -1 was added
  context,           \* *ff1_ctx: its key, and whether the cache still has it
  results,           \* the texts made: the key of each and the number it carries
  billed,            \* the key numbers of the events added
  outcome,
  used               \* keys some text was encrypted with by Encrypt

cacheVars == <<definition, keys>>
serverVars == <<now, newest, stopped>>
workVars == <<ask, seen, n, answer, at, context>>
saidVars == <<results, billed, outcome, used>>
vars == <<serverVars, cacheVars, late, pc, op, workVars, saidVars>>
-----------------------------------------------------------------------------
(* The two caches and the server *)

\* ubiq_platform_cache_find_element: an element is there until it has expired.
Live(until) == until >= now

\* ubiq_platform_cache_add_element: of two live elements the first one stays.
Added(cache, name, k) ==
  IF Live(cache[name].until) THEN cache
  ELSE [cache EXCEPT ![name] = [key |-> k, until |-> now + Duration]]

\* The element under -1 is a new one, of what the server chose at the time at.
Dated == late' = IF keys'[Current] = keys[Current] THEN late ELSE now - at

Init ==
  /\ now = 0 /\ newest = 0 /\ stopped = [k \in Key |-> Never]
  /\ definition = -1 /\ keys = [a \in Ask |-> [key |-> 0, until |-> -1]]
  /\ pc = "idle" /\ op = "encrypt" /\ ask = 0 /\ seen = 0 /\ n = 0 /\ answer = 0
  /\ at = 0 /\ late = 0
  /\ context = [key |-> 0, held |-> FALSE]
  /\ results = <<>> /\ billed = <<>> /\ outcome = "none" /\ used = {}

\* Where the object is idle, waits for the server, or is to be given the answer.
Waiting == pc \in {"idle", "load", "unwrap", "define", "context", "store"}

Tick ==
  /\ Waiting /\ now < MaxTime
  /\ now' = now + 1
  /\ UNCHANGED <<newest, stopped, cacheVars, late, pc, op, workVars, saidVars>>

Rotate ==
  /\ Waiting /\ newest < MaxKey
  /\ newest' = newest + 1 /\ stopped' = [stopped EXCEPT ![newest] = now]
  /\ UNCHANGED <<now, cacheVars, late, pc, op, workVars, saidVars>>

Refused(k) == k > newest
-----------------------------------------------------------------------------
(* The calls: encrypt_data, decrypt_data, encrypt_data_for_search *)

\* Mutant: the texts of the call before are not forgotten.
BeginKeeping(o, k) ==
  /\ pc = "idle"
  /\ op' = o /\ ask' = k /\ n' = 0 /\ seen' = 0
  /\ pc' = IF o = "search" THEN "load" ELSE "define"
  /\ billed' = <<>> /\ outcome' = "none"
  /\ answer' = 0 /\ at' = 0 /\ context' = [key |-> 0, held |-> FALSE]
  /\ UNCHANGED <<serverVars, cacheVars, late, results, used>>

Begin(o, k) ==
  /\ pc = "idle"
  /\ op' = o /\ ask' = k /\ n' = 0 /\ seen' = 0
  /\ pc' = IF o = "search" THEN "load" ELSE "define"
  /\ results' = <<>> /\ billed' = <<>> /\ outcome' = "none"
  /\ answer' = 0 /\ at' = 0 /\ context' = [key |-> 0, held |-> FALSE]
  /\ UNCHANGED <<serverVars, cacheVars, late, used>>

Encrypt == Begin("encrypt", Current)
Decrypt == \E k \in Key : Begin("decrypt", k)
Search == Begin("search", 0)

\* A search that fails frees its results through a pointer that it has just
\* set to null, unless there is at most one of them and there was memory for
\* the array.
FreeingFails(allocated, count) == IF allocated THEN count >= 2 ELSE count >= 1

Failed(allocated, count) ==
  /\ pc' = IF op = "search" /\ FreeingFails(allocated, count) THEN "crashed" ELSE "idle"
  /\ outcome' = "error"
  /\ results' = IF op = "search" THEN <<>> ELSE results
  /\ UNCHANGED <<serverVars, op, workVars, billed, used>>

FailedInLoop == Failed(TRUE, seen + 1)

(* load_search_keys *)

\* The response lists the keys and says which is current; the definition is
\* added if there is none, and nobody asks whether it could be.
Load ==
  /\ pc = "load"
  /\ seen' = newest /\ n' = 0 /\ at' = now
  /\ definition' \in IF Live(definition) THEN {definition}
                     ELSE {now + Duration} \cup (IF FaultsHappen THEN {-1} ELSE {})
  /\ pc' = "unwrap"
  /\ UNCHANGED <<serverVars, keys, late, op, ask, answer, context, saidVars>>

LoadFails ==
  /\ pc = "load" /\ FaultsHappen
  /\ Failed(FALSE, 0)
  /\ UNCHANGED <<cacheVars, late>>

\* The response is JSON and no object: that is no error, and no keys.
LoadNothing ==
  /\ pc = "load" /\ FaultsHappen
  /\ seen' = -1 /\ pc' = "define"
  /\ UNCHANGED <<serverVars, cacheVars, late, op, ask, n, answer, at, context, saidVars>>

\* One key of the list.  The key that is current is added a second time, for
\* the calls that encrypt.
Unwrapped ==
  IF Live(keys[n].until) THEN keys
  ELSE LET first == Added(keys, n, n) IN
       IF n = seen THEN Added(first, Current, n) ELSE first

Unwrap ==
  /\ pc = "unwrap"
  /\ keys' = Unwrapped /\ Dated
  /\ n' = IF n < seen THEN n + 1 ELSE 0
  /\ pc' = IF n < seen THEN "unwrap" ELSE "define"
  /\ UNCHANGED <<serverVars, definition, op, ask, seen, answer, at, context, saidVars>>

\* Not to be unwrapped, no memory for the first element, or for the second.
UnwrapFails ==
  /\ pc = "unwrap" /\ FaultsHappen /\ ~Live(keys[n].until)
  /\ \/ keys' = keys
     \/ n = seen /\ ~Live(keys[Current].until) /\ keys' = Added(keys, n, n)
  /\ Failed(FALSE, seen + 1)
  /\ UNCHANGED <<definition, late>>

(* ffs_get_def *)

\* The definition is found, or fetched and added; one that could not be added is
\* freed, and handed out all the same.
GetsDefinition ==
  \/ Live(definition) /\ definition' = definition
  \/ ~Live(definition) /\ definition' = now + Duration
  \/ ~Live(definition) /\ FaultsHappen /\ definition' = -1

NothingToSearch == op = "search" /\ seen = -1

Defined ==
  /\ pc = "define" /\ ~NothingToSearch
  /\ GetsDefinition
  /\ pc' = "context" /\ ask' = IF op = "search" THEN n ELSE ask
  /\ UNCHANGED <<serverVars, keys, late, op, seen, n, answer, at, context, saidVars>>

\* A search without keys is over, and has succeeded.
DefinedForNothing ==
  /\ pc = "define" /\ NothingToSearch
  /\ GetsDefinition
  /\ pc' = "idle" /\ outcome' = "ok"
  /\ UNCHANGED <<serverVars, keys, late, op, workVars, results, billed, used>>

\* The definition is not to be had; or, in a search, there is no memory for the
\* array of results.
NotDefined ==
  /\ pc = "define" /\ FaultsHappen
  /\ ~Live(definition) \/ op = "search"
  /\ Failed(FALSE, IF op = "search" THEN seen + 1 ELSE 0)
  /\ UNCHANGED <<cacheVars, late>>

\* What is read of a definition that the response did not yield, or that has been
\* freed, may be anything: its name, for the name of a key, is read first.
DefinitionGone ==
  /\ FaultsHappen /\ definition = -1
  /\ pc = "context" \/ (pc = "unwrap" /\ ~Live(keys[n].until))
  /\ pc' = "crashed" /\ outcome' = "error" /\ results' = <<>>
  /\ UNCHANGED <<serverVars, cacheVars, late, op, workVars, billed, used>>

\* The text is not one of the data set, before a key was asked for.
NotDecoded ==
  /\ pc = "context" /\ op = "decrypt"
  /\ Failed(FALSE, 0)
  /\ UNCHANGED <<cacheVars, late>>

(* get_ctx *)

\* Mutant: an element is used whether it has expired or not.
FindEver ==
  /\ pc = "context" /\ keys[ask].until >= 0
  /\ context' = [key |-> keys[ask].key, held |-> TRUE]
  /\ pc' = "cipher"
  /\ UNCHANGED <<serverVars, cacheVars, late, op, ask, seen, n, answer, at, saidVars>>

Find ==
  /\ pc = "context" /\ Live(keys[ask].until)
  /\ context' = [key |-> keys[ask].key, held |-> TRUE]
  /\ pc' = "cipher"
  /\ UNCHANGED <<serverVars, cacheVars, late, op, ask, seen, n, answer, at, saidVars>>

Fetch ==
  /\ pc = "context" /\ ~Live(keys[ask].until)
  /\ ~Refused(ask)
  /\ answer' = IF ask = Current THEN newest ELSE ask
  /\ at' = now
  /\ pc' = "store"
  /\ UNCHANGED <<serverVars, cacheVars, late, op, ask, seen, n, context, saidVars>>

FetchFails ==
  /\ pc = "context" /\ ~Live(keys[ask].until)
  /\ Refused(ask) \/ FaultsHappen
  /\ FailedInLoop
  /\ UNCHANGED <<cacheVars, late>>

\* Mutant: the element under -1 is made first, the one under the number last.
StoreSwapped ==
  /\ pc = "store"
  /\ keys' = Added(IF ask = Current THEN Added(keys, Current, answer) ELSE keys, answer, answer)
  /\ Dated
  /\ context' = [key |-> answer, held |-> ~Live(keys[answer].until)]
  /\ pc' = "cipher"
  /\ UNCHANGED <<serverVars, definition, op, ask, seen, n, answer, at, saidVars>>

\* The two calls of create_and_add_ctx_cache.  The context is the one of the
\* last element made, which the cache destroys if it has a live one already.
Store ==
  /\ pc = "store"
  /\ LET first == Added(keys, answer, answer) IN
       keys' = IF ask = Current THEN Added(first, Current, answer) ELSE first
  /\ Dated
  /\ context' = [key |-> answer, held |-> ~Live(keys[ask].until)]
  /\ pc' = "cipher"
  /\ UNCHANGED <<serverVars, definition, op, ask, seen, n, answer, at, saidVars>>

\* The cache has no memory for the first element, or for the second; or there
\* is none for the context, and a null pointer is destroyed.
StoreFails ==
  /\ pc = "store" /\ FaultsHappen
  /\ \/ keys' = keys
     \/ ask = Current /\ keys' = Added(keys, answer, answer)
  /\ \/ FailedInLoop
     \/ /\ pc' = "crashed" /\ outcome' = "error" /\ results' = <<>>
        /\ UNCHANGED <<serverVars, op, workVars, billed, used>>
  /\ UNCHANGED <<definition, late>>

(* {char,u32}_fpe_{en,de}crypt_data, and the event for it *)

\* A search writes the loop's index in the text, the others the number that is
\* in the element.
Number == IF op = "search" THEN n ELSE context.key

Cipher ==
  /\ pc = "cipher"
  /\ results' = Append(results, [key |-> context.key, number |-> Number])
  /\ used' = IF op = "encrypt" THEN used \cup {context.key} ELSE used
  /\ pc' = "bill"
  /\ UNCHANGED <<serverVars, cacheVars, late, op, workVars, billed, outcome>>

CipherFails ==
  /\ pc = "cipher"
  /\ FailedInLoop
  /\ UNCHANGED <<cacheVars, late>>

\* Mutant: the loop over the keys ends before the current one.
OnwardButLast ==
  IF op = "search" /\ n + 1 < seen
    THEN n' = n + 1 /\ ask' = n + 1 /\ pc' = "context" /\ UNCHANGED outcome
    ELSE pc' = "idle" /\ outcome' = "ok" /\ UNCHANGED <<n, ask>>

\* To the next key of a search, or out of the call.
Onward ==
  IF op = "search" /\ n < seen
    THEN n' = n + 1 /\ ask' = n + 1 /\ pc' = "context" /\ UNCHANGED outcome
    ELSE pc' = "idle" /\ outcome' = "ok" /\ UNCHANGED <<n, ask>>

\* ubiq_billing_add_billing_event.
Event ==
  /\ pc = "bill"
  /\ billed' = Append(billed, Number)
  /\ Onward
  /\ UNCHANGED <<serverVars, cacheVars, late, op, seen, answer, at, context, results, used>>

\* Mutant: the error of the billing event is not looked at.
EventLost ==
  /\ pc = "bill" /\ FaultsHappen
  /\ Onward
  /\ UNCHANGED <<serverVars, cacheVars, late, op, seen, answer, at, context, results, billed, used>>

EventFails ==
  /\ pc = "bill" /\ FaultsHappen
  /\ FailedInLoop
  /\ UNCHANGED <<cacheVars, late>>

Crashed == pc = "crashed" /\ UNCHANGED vars

GetContext == Find \/ Fetch \/ FetchFails \/ Store \/ StoreFails

Next ==
  \/ Tick \/ Rotate
  \/ Encrypt \/ Decrypt \/ Search
  \/ Load \/ LoadFails \/ LoadNothing \/ Unwrap \/ UnwrapFails
  \/ Defined \/ DefinedForNothing \/ NotDefined \/ DefinitionGone
  \/ NotDecoded \/ GetContext
  \/ Cipher \/ CipherFails \/ Event \/ EventFails \/ Crashed

Spec == Init /\ [][Next]_vars
-----------------------------------------------------------------------------
(* Properties *)

Places == {"idle", "load", "unwrap", "define", "context", "store", "cipher", "bill", "crashed"}

\* Every variable has its type, the texts of a call are at most the keys there
\* are, and no element outlives the duration.
TypeOK ==
  /\ now \in 0..MaxTime /\ newest \in Key /\ stopped \in [Key -> 0..Never]
  /\ definition \in -1..(now + Duration)
  /\ keys \in [Ask -> [key : 0..newest, until : -1..(now + Duration)]]
  /\ pc \in Places /\ op \in Operations /\ ask \in Ask
  /\ seen \in -1..newest /\ n \in 0..newest /\ (n <= seen \/ n = 0)
  /\ answer \in 0..newest /\ at \in 0..now /\ late \in 0..now
  /\ context \in [key : 0..newest, held : BOOLEAN]
  /\ results \in Seq([key : 0..newest, number : 0..newest]) /\ Len(results) <= seen + 1
  /\ billed \in Seq(0..newest) /\ used \subseteq 0..newest
  /\ outcome \in {"none", "ok", "error"}

\* The number that a text carries, and that its event carries, is that of the
\* key it was encrypted with, a text is decrypted with the key whose number it
\* carries, and the context at work is one the cache has not destroyed.
NumbersNameKeys ==
  /\ \A i \in DOMAIN results : results[i].number = results[i].key
  /\ \A k \in Key : Live(keys[k].until) => keys[k].key = k
  /\ pc = "cipher" => context.held
  /\ pc \in {"cipher", "bill"} /\ ask # Current => context.key = ask

\* A text that is encrypted for storing gets a key that is current, or was so no
\* longer ago than the duration for which get_ctx caches it and the time that
\* the key, once chosen, took to reach the cache.
CurrentWithinDuration ==
  pc = "cipher" /\ op = "encrypt" => stopped[context.key] >= now - Duration - late

\* Texts are billed in the order in which they are made, none before it is
\* made; a call that succeeds has billed each of its own exactly once.
DeliveredIsBilled ==
  /\ outcome = "none" =>
       /\ Len(billed) <= Len(results)
       /\ \A i \in 1..Len(billed) : billed[i] = results[i].number
  /\ outcome = "ok" => billed = [i \in 1..Len(results) |-> results[i].number]

\* A search that succeeds has a text for every key with which this object has
\* ever encrypted, and one for each key, in order, that the server had when
\* the keys were loaded; but one whose response was no object has no texts.
SearchComplete ==
  op = "search" /\ outcome = "ok" =>
    /\ results = [i \in 1..(seen + 1) |-> [key |-> i - 1, number |-> i - 1]]
    /\ used \subseteq {results[i].key : i \in DOMAIN results} \/ seen = -1
=============================================================================
