# TLA+ development of the Ubiq C/C++ library

This directory holds TLA+ models of the client library in `src/src/lib`, TLC
configurations that check them on small instances, and proofs that TLAPS checks
for every value of their constants.

    tlc -config BillingSafety.cfg MCBilling.tla      # a run
    tlapm BillingProofs.tla                          # the proofs of a component

## The system

An application makes an *object* from its credentials and uses it to encrypt or
decrypt. Each object has its own connection to the server (a *rest handle*), its
own caches and its own *billing context* with a thread of its own.

| Component | Source | State | Operations | Speaks to |
|---|---|---|---|---|
| Usage reporting | `billing.c` | the context: cache of counters, mutex, condition, intervals; the worker thread | create, destroy, add event, worker task | cache, rest handle (shared with the owner), configuration |
| Expiring cache | `cache.c` | a search tree of expiring elements, a count | find, add, destroy, count, walk | billing, FPE |
| Piecewise decryption | `decrypt.c` | buffer, cipher context, data key | create, begin, update, end, destroy | server (data key), billing, cipher |
| Piecewise encryption | `encrypt.c` | cipher context, data key, uses left | create, begin, update, end, destroy | server (data key), billing, cipher |
| Format-preserving encryption | `fpe.c` | caches of data sets and key contexts, last error | create, encrypt, decrypt, encrypt for search, destroy | server, cache, billing, parsing |
| Signed requests | `rest.c`, `curl.c` | one transfer and one response per handle | request, response code and content, reset | server |
| Parsing | `parsing.c` | none | splitting and formatting of strings | FPE |
| Configuration, credentials | `configuration.c`, `credentials.c` | values from defaults, environment, file | create, load, merge | everything |
| Helpers | `common.c`, `algorithm.c`, `support.c`, `openssl.c` | none, or a cipher context | JSON, base64, cipher calls | everything |
| Windows back ends | `wincrypt.c`, `winhttp.c` | as OpenSSL, curl | as OpenSSL, curl | |
| C++ wrappers, init | `*.cpp`, `init.c` | | forward to C | |

### Where it is hard

* *Threads.* The worker of a billing context runs beside the callers. The cache
  is looked up before the lock is taken, replaced by the worker under the lock,
  and sent and freed outside it. The destructor takes the cache away, signals,
  joins and flushes. The worker is started before its intervals are set, one after
  the other. It uses the rest handle of its owner with no lock at all.
* *Failure half way.* A failed POST, a failed allocation at the swap of the
  caches, a billing event refused after the cipher context was made, an add to a
  cache that fails after it has or has not freed the caller's datum.
* *Sequences of calls.* A cipher text arrives in chunks of any size; a message is
  ended early; an update fails and is followed by another; an object is used for
  one message after another.
* *Time.* Elements expire; batches are taken by count or by time; the current
  FPE key is cached for days while the server may rotate it, and an answer of the
  server may be on its way for any time.

PROJECT.json lists each of these hazards at its line, with the properties that
are about it.

### What makes each component correct

* Billing: no event is billed twice, each is accounted for (in the cache, in a
  batch, reported, or lost in a way the model names), no cache leaks or is freed
  under its owner, no element but one the model names is left when the context is
  gone, every call returns, the destructor ends, batches are taken.
* Cache: a map whose bindings expire; data freed exactly once.
* Decryption: no byte is lost or reordered, the tag is never decrypted, what is
  accepted is one whole message, and it was billed.
* Encryption: a key is used no more often than allowed, what is finished without an
  error is billed, and what it emits is complete and in order.
* FPE: the key number in a cipher text is that of the key used; a cached key is
  the one of its number; results are complete or none.
* Rest handle: a response is read by the thread whose request it answers, and what
  is sent is what was signed.
* Parsing, radix conversion, key numbers: decoding inverts encoding.
* Credentials, configuration: each value comes from the best source that has it.

## The modules

| Module | Models | Extends or instantiates |
|---|---|---|
| `BillingLedger` | what reporting promises: an event is recorded, then reported or lost, once | |
| `Billing` | `billing.c` with its three kinds of thread | instantiates `BillingLedger` |
| `ExpiringMap` | what a cache promises | |
| `Cache` | `cache.c` | instantiates `ExpiringMap` |
| `Decryption` | `decrypt.c` and the cipher calls it makes | |
| `Encryption` | `encrypt.c` and the cipher calls it makes | |
| `RestHandle` | `rest.c` over `curl.c`, one handle used by the object and by its worker | |
| `FpeKeys` | `fpe.c`: keys, the two caches, search, rotation at the server | |
| `FpeText` | `fpe.c` and `parsing.c`: what encryption does to a text | |
| `Settings` | `credentials.c` and `configuration.c` | |
| `MCBilling`, `MCCache`, `MCDecryption`, `MCFpeText`, `MCSettings` | values and symmetry for TLC | the module of their name |
| `BillingProofs`, `CacheProofs`, `DecryptionProofs`, `EncryptionProofs`, `RestHandleProofs`, `FpeKeysProofs`, `FpeTextProofs`, `SettingsProofs` | theorems | the module of their name, `TLAPS` |

The modules compose in this way. `Billing` and `RestHandle` are two views of the
same worker: the first follows the events and the caches, the second the requests
that `send_billing_data` makes, with the owner's own on the same handle. In
`Decryption`, `Encryption` and `FpeKeys` a billing event is one call that succeeds
or fails, which is what `Billing` shows a caller to see. `FpeKeys` has the caches of
`Cache` as functions from keys to expiring elements, which is what `Cache` is shown
to implement, and leaves to `FpeText` what is done to a text once there is a key.

The operators a mutant substitutes stand before the definition they change and
are introduced by "Mutant". They are no part of the models.

### Billing

Actors are the `Callers` (application threads in `ubiq_billing_add_billing_event`),
the `Worker` (`process_billing_task`) and the `Closer` (the thread that creates
and destroys the context). `pc` gives each its place.

| TLA+ | Code |
|---|---|
| `current` | `e->billing_elements_cache` |
| `tree`, `count`, `allocated` | the caches on the heap: root, count, and whether freed |
| `tally[e]` | the count of the billing element made by event `e`, as the set of events it counts |
| `elements` | the billing elements that are not freed |
| `call[t]` | a caller's event, key, cache argument and found element |
| `drained[a]`, `batch[a]` | the cache a flusher took, its JSON array |
| `flushInterval`, `minimumCount`, `flushAfter`, `elapsed` | the two fields, `flush_time` and the clock relative to the last reset |
| `billed[e]` | history: how often the server was told of event `e`; `sent` is where this is not zero |
| `returned`, `lost`, `leaked` | history: the calls that have returned, the events nobody will be told of, the elements no cache took |
| `Begin`, `FindMiss`/`FindHit`, `Update`/`Insert` | entry and lookup without the lock; the two branches under the lock |
| `Start`, `Wait`, `Wake`, `Replace`/`FailToReplace` | the worker up to its first lock; lock to wait; wake-up to the taking of the cache; the next cache, unlock, new flush time |
| `WaitFails` | `cond_timedwait` returns an error that is no time-out, and the worker leaves |
| `Serialize`, `Deliver`/`FailToSend`, `Free` | `process_billing_btree`, `send_billing_data`, `ubiq_platform_cache_destroy`, by either flusher |
| `Launch`/`FailToLaunch` | `pthread_create` in create; a creation that fails destroys what it has, with no thread to join |
| `ConfigureFlush`, `ConfigureCount` | the two assignments at the end of create, beside the worker; left out when there is no configuration |
| `Close`, `Join` | destroy up to the join; the join |

A critical section is one step, but for the one in which the worker takes the
cache and makes the next: there the lock is held over two steps (`LockFree`), so
that a lookup, which takes no lock, can see the null pointer in between. The
mutex makes the others indivisible. The intervals are any integers, as
`configuration.c` lets negative ones through: a negative minimum count is compared
as an unsigned number and never reached. An element that is to be added when there
is no cache is in `leaked`: the add fails and nobody frees it.

Abstractions: elements do not expire (their duration is seven days, and a batch
is taken within seconds); the write to an element of a freed cache has no other
effect than that its count is read by nobody; the address of a freed cache is
not handed out while a caller still holds it (the caller would see the new
cache); the allocations of the context, of an element and of its key, clocks and
locks do not fail; a lookup that races with another caller's insertion may miss (`Rebalanced`).

### Cache

`tree[k]` is the element in the search tree under `k`, with its datum and
`expires_after`; `freed` counts the releases of each datum, `given` holds the
data the cache has taken over. `FindExpired` removes and destroys. `AddBinds`
covers the new node and the exchange with an expired one, `AddLoses` the live
duplicate, `AddRefused` a negative duration or a `tsearch` without memory (the
element is leaked and the datum is still its caller's), `AddWithoutKey` a failed
`strdup` (the datum is freed). An add reads the clock for the new element's expiry,
and then again for that of an old one: `Starts` are the first readings, at most
`CallTime` ago, and a binding may so last no time at all. The refinement to `ExpiringMap` shows a binding as
visible until it expires, whether or not it is in the tree still. The free function,
one for all elements of a cache in every use, is left out; `calloc` and
`clock_gettime` do not fail.

### Decryption

A byte is a pair of its message and its position, so that a property can tell
where it came from; a message is fixed header, iv and key, body, tag, with small
lengths (the code uses AES-GCM only: an iv of 12 and a tag of 16). `buf`, `ctx`,
`raw` are `dec->buf`, `dec->ctx`, `dec->key.raw`; `fed` is what the cipher has
been given. `message`, `given` are the caller's; `left`, `sessions`, `billed` are
history. `phase` is the life of the object: `Create`, `FailToCreate`, and `Destroy`,
which may come in the middle of a message and which, by `Reset`, destroys the
context only if there is a key: that there always is one then is part of `TypeOK`.
`Update(n)` is split by what the appended buffer amounts to: `Await`,
`Refuse`, `KeyRefused`, `Open`, `OpenUnbilled`, `Feed`. `Drain` is the code's
last part: everything after `off` but the last `TagLen` bytes goes to the cipher.
After the key is there, the cipher may not take it (`CipherRefused`: the key stays,
without a context), and where there is no memory for the cipher a pointer that was
never set is destroyed (`NoCipher`, `phase = "crashed"`). After an end that failed
the caller gives the message up or goes on with it (`GivenUpOrNot`): it may give
more of it or end it again.
The caller calls begin, updates, end in that order, may end early, and goes on
after errors; it does not pass an empty chunk while the buffer is empty. A header
made of an old message's bytes and a new one's has lengths nobody can tell and a
key the server refuses. The cipher's finalize accepts exactly body and tag of the
header it was made from, unless the message is `Forged`.

### Encryption

`max` and `cur` are `key.uses`, `ctx` is `enc->ctx`; contexts are numbered as they
are made. A piece of cipher text is its context and the header, a chunk or the
tag. `stream` is what the cipher of the last context has made, `out` what the
caller has; they differ when a call fails after the cipher has done its part.
`BeginUnbilled` is the begin whose event is refused: the context is there and the
use is counted all the same. `EndNoTag` and `EndNotJoined` are the ends that run
out of memory before and after the context is destroyed; after the first the
cipher is over and every call on the context fails. `BeginCrash` is the begin that
has no memory for the header, which is written all the same, or for the cipher,
of which a pointer that was never set is destroyed. The caller makes any call at
any time and goes on after errors.

Abstractions: a grant is a natural number (the code stores an `int` of the
response in an `unsigned`); that begin hands the header out although it returns an error is left out; failing creation is one
step.

### RestHandle

A request goes through the places of `pc`: `sign` (the loop over `key[]` in
`ubiq_platform_rest_request`), `perform` (`ubiq_support_http_request` up to libcurl),
`transfer` (libcurl with the two callbacks), `answered` or `failed`, `read` and
`return` (what the caller does with the answer). The length of a body is an argument
of the request (`length`) until `Perform` puts it into the handle. `headers`, `upload`, `down`, `rsp`
and `code` are the fields of the two handles; a buffer has the number of the
request whose answer it was made for, and each piece of its content the number of
the request it answers, so that an answer of somebody else is visible. `phase` is
the object's: it is made, used, closed; its owner then waits for the worker
(`Join`), sends what is left (`Flush`) and destroys the handle. The worker takes
events while the object is open (`Take`) and sends what it is `holding` even if the
object is being closed by then (`Post`). `KeysAtCreation`
chooses the object: an encryption object asks for its key when it is made and
never again; a decryption or FPE object asks at any time. The network fails in the
middle of a transfer, and a header finds no memory.

libcurl is external: a transfer takes the body in pieces and delivers the answer in
pieces. The answer may come before the whole body is sent (`early`; libcurl then
sends the rest or does not), and may have no content (`empty`, a 204). The histories
of a request are forgotten when its caller goes on (`Forget`). Two threads inside one libcurl handle at once have no defined outcome, and
`HandleIdle` keeps every other entry to the handle out of a transfer. So what
`rest_shared` finds is found without it.

### FpeKeys

A key is its number at the server. `definition` is the element of `ffs_cache`,
`keys` the key cache with the name -1 for the key to encrypt with; elements carry
the time at which they expire. A call goes through `load` and `unwrap`
(`load_search_keys`, search only), `define` (`ffs_get_def`), `context` and `store`
(`get_ctx`: the lookup and the request, the two adds), `cipher` and `bill`; search
goes back to `context` for the next key. The server makes its choice in `Load` and
`Fetch`, and the answer reaches the cache some steps later, in `Unwrap` and `Store`:
time passes and the server turns to a new key (`Tick`, `Rotate`) before, between and
after these. `at` is when the server chose what it answers, `late` how much later the
element to encrypt with was added; the element's duration counts from the adding.
The response to a search may be JSON and no object (`LoadNothing`): this is no
error, and the search succeeds without a text (`DefinedForNothing`). `Failed` is
the common exit: a search frees its results through a pointer it has just set to
null, and `Crashed` is where that leaves it. There, too, leads `DefinitionGone`: a
definition that the response did not yield is read uninitialised, one that could not
be added is read after it is freed. `stopped` and `used` are history.

### FpeText

One text, a call on it, and the opposite call on what came out. `Decompose`,
`Parse`, `Convert`, `EncodeKeynum`, `DecodeKeynum` and `Finalize` are the functions
of those names, each for the `char_` and the `u32_` version, which do the same;
`Value` and `Digits` are what the external bigint routines compute, `Ff1Encrypt`
and `Ff1Decrypt` an arbitrary rotation, under one of which every text has every
image. The loops over a text are written by what they compute: `Places` are the
places of the characters to convert, `Rank` the how many-th of them one is,
`Trimmed` the characters at them in order, and `Finalize` puts the n-th character of
its data at the n-th place. `Value` and `Power` are recursive functions.
`DataSetAssumption` is what a definition must observe for the key number to fit
into the first character; the code does not check it (`Overrun` is what it would
read). Integers are below 2^31 for every text of the runs.

### Settings

A string is the place it comes from. `ReadLine` is the handler that inih calls per
line, `Malformed` a file with an error, which clears the list; `Create`,
`CreateSpecific` and `CreateExplicit` are the three calls, made of `FromList`,
`Merge` and `Explicit`, and `Configure` is the loading of a configuration, whose
numbers are doubles cut to `int`: `Numbers` has them in halves. The reference
definition does not follow the code: `Promised` looks for each part in the lines
themselves, from the best source to the worst, as `credentials.h` says. The one case
in which the code does otherwise has a name of its own, `DefaultDropped`.

## The runs

| Run | Bounds | Distinct states | Question |
|---|---|---|---|
| `billing_safety` | 2 callers, 2 keys, 3 events, 4 caches, clock to 3, all faults, symmetry | 150 000 | types, ownership, accounting, lookups, billed once, what is left after the destructor, refinement of the ledger |
| `billing_live` | 2 callers, 1 key, 2 events, a minimum count of 3 at the worker, 4 caches, failing swaps and POSTs, `FairSpec` | 269 000 | calls return, the destructor ends, events settle |
| `billing_intervals` | interval 1, count 3, no fault | | the intervals are exchanged (violation) |
| `cache_safety` | 2 keys, 4 data, durations -1..1, time to 4, 2 of it in a call, failing allocations, symmetry | 5 300 | freed once, no leak, count, refinement of the expiring map |
| `decryption_chunks` | 5 messages, 3 begun, bodies to 3 bytes, header 2+1, tag 2, all faults | 884 000 | the stream, the tag, what is accepted and billed |
| `decryption_whole` | 1 begun, no fault | | a sound message fails (violation) |
| `encryption_uses` | grants of 0, 1, 3; 4 contexts, 2 chunks, all faults | 1 800 | uses, billing, contexts, order of the cipher text |
| `rest_handle` | 4 requests, 3 events, bodies and answers of 2 pieces, keys at creation, all faults | 165 000 | answers, requests and buffers |
| `rest_shared` | 3 requests, 1 event, keys at any time, no fault | | a thread reads an answer that is not its own (violation) |
| `fpe_keys` | 3 keys, duration 1, time to 3, all faults | 3 097 000 | key numbers, age of the current key, billing, complete searches |
| `fpe_text` | 3 characters in, 7 out, "-" passed through, lengths 2 to 3, 3 keys, every text to 3 characters and some of 4 | 158 000 | round trip, format, acceptance |
| `settings` | 3 required parts and the host, 2 profiles, 4 lines, numbers -3/2 to 3/2, symmetry | 282 000 | which source wins, zero intervals |

Why the bounds suffice. *Billing:* two callers make every race of the lookup
with another caller, the worker makes the one with the swap; two keys make an
element that is there beside one that is not; three events let one be sent, one
be in a batch and one be in a call; with four caches one is current, two are
taken and one is held by a late caller. The clock stops one tick after `MaxElapsed`,
which is not below the flush time of the worker: no later instant is told apart. In
`billing_live` the minimum count of the worker is above the number of events, so
that a batch goes by time alone or not at all. *Cache:* with two keys and
four data a key is bound, expires, is bound again and is refused while another
is live; durations of 0 and 1 expire within the four ticks, and within the two of
one call. *Decryption:* the
lengths are small but all different from zero except for one body, chunks have
every size from none to the whole message, and three messages in a row let what
the first left behind meet the second and the third. *Encryption:* the bound on
contexts is above the largest grant, so that the code's own guard is what stops
the fourth use, and two chunks let one be passed again between others.
*RestHandle:* four requests are the key, two batches of the worker and the
destructor's, or three batches of the worker; bodies and answers of two pieces fail
in their middle. *FpeKeys:* three keys make the array of results long enough for
every way to free it; an element lives for one tick of three, so that it is
found, found at its last instant, and found expired, before and after each of two
rotations. *FpeText:* seven characters are two for each key of three and one too
many, so that a key number and a digit out of range can be written; three
characters in one set and seven in the other make the first digit of a converted
text small, as the key number needs. *Settings:* four lines set a part twice in
two sections; halves are the smallest numbers that become zero. Beyond these
bounds the theorems below speak for all of the components.

`CHECK_DEADLOCK` is on but for `FpeText` and `Settings`, which are one or two calls
and stop; the states in which nothing is left to do elsewhere are explicit
(`Closed`, `Gone`, `Crashed`).

### Fairness

`FairSpec` of `Billing` assumes weak fairness of each thread's next step, those of
the creator among them, and of the clock. Operating-system threads run, POSTs time out, and
`pthread_cond_timedwait` ends by itself after the wake interval, which is why
`Wake` needs no signal. The steps a caller takes under the lock have strong
fairness: the worker holds the mutex in bursts, and between two of them it sleeps
for at least a wake interval with the mutex released, so a caller that keeps
asking gets it. Its run leaves out that the wait itself fails
(`WorkerMayFail`): the worker is gone then, and events stay until the destructor
takes them. The application is under no obligation to call or to destroy
(`Begin`, `Close`).

## What the runs show against the comments and documents

* `TakenWhenConfigured`: lines 604-605 of `billing.c` assign the minimum count to
  the flush interval and the flush interval to the minimum count.
* `WholeMessageDecrypts`: if the chunk that completes the header brings no more
  than a tag's length of data, the header is never cut off and the message fails.
  An empty message always fails; TLC's trace is one, in one chunk: nothing is fed,
  and end finds the header in front of the tag. The same cause makes `sz > 0` possible in end,
  against the comment there.
* `AnswerIsMine`: with an object that asks for keys while its worker posts, a
  request that succeeded is followed by another thread's reset or request, and its
  caller reads a freed response, none, or the other's.

Also met while modelling, and not made a run of their own:

* `credentials.h:13-16` says: "Missing variables in the environment will be populated
  by merging those that are found with the 'default' profile". `credentials.c:237-239`
  takes nothing from a default profile that is not whole itself, so that an
  environment and a profile that complete each other give `-ENOENT`. `FromBestSource`
  holds with this one exception, `DefaultDropped`.
* An event that comes after a failed swap leaks its element: `billing.c:715` adds to
  no cache and drops the error. `ClosedIsSettled` says that it is the only memory
  left after the destructor.
* Where there is no memory for a cipher, `openssl.c:321` and `435` leave a pointer
  unset that the error path destroys; begin writes a header (`encrypt.c:328`) for
  which there may be no memory. Both are steps to `crashed`.
* The comment at `billing.c:411` says that a taken batch is isolated from the other
  threads; a caller that found its element before the lock writes it while it is
  serialized, or after it is freed.
* A count is lost when the lookup meets a swap, even with a single caller; so is a
  batch whose POST fails, and every event after the swap failed for want of memory.
  `Billing` names each of these in `lost`.
* An add to a cache that fails in `strdup` has freed its datum; the test of a
  failed add (`test/cache.cpp:124`) and `create_and_add_ctx_cache` free it
  themselves.
* `key.enc.len` of a decryption object is never set, so that no data key is ever
  kept from one message to the next, as the comment at `decrypt.c:317` has it.
* After an end that failed, begin says `-EINPROGRESS` for good (`decrypt.h:138`).
* An update with nothing to decrypt returns 0 and leaves its outputs unset.
* A search over two keys or more that fails dereferences a null pointer
  (`fpe.c:1899`), which is `Crashed`.
* A header that finds no memory does not stop the request (`rest.c:430`); it is
  sent with a signature over headers it does not have.
* A response to a search that is JSON and no object is not an error (`fpe.c:1449`):
  the search succeeds with no texts. `SearchComplete` names it (`seen = -1`).
* A definition that a response did not yield is used uninitialised (`fpe.c:720`,
  `1407`, `1489`), one that could not be added after it is freed (`fpe.c:833`,
  `947-948`).
* How long a key is used after it stopped being current is not bounded by the cache's
  duration: the duration counts from the adding, and a request has no time-out
  (`curl.c:231`). `CurrentWithinDuration` adds the delay.
* A creation whose billing context fails leaks the rest handle, and one whose URL
  cannot be formatted frees a pointer that was never set (`decrypt.c:109`,
  `encrypt.c:123`).

## The proofs

Eight modules hold theorems, each about every value of its component's constants:
any sets of threads, keys, events, messages; any lengths, durations and bounds.
Every invariant that a passing run checks is proved, and so are both
refinements.

| Module | Theorems (property) |
|---|---|
| `BillingProofs` | `TypeCorrect` (`TypeOK`), `Invariance` (`IInv`), `CachesOwned` (`Ownership`), `JoinComesFirst` (`OneFlusherAtClose`), `EventsAreAccounted`, `CloseSettles` (`ClosedIsSettled`), `FindsAreCurrent` (`FoundIsCurrent`), `NeverBilledTwice` (`BilledOnce`), `BillingImplementsLedger`, `CloseIsBounded` |
| `CacheProofs` | `TypeCorrect`, `Invariance`, `DataFreedOnce` (`FreedOnce`), `DataNotLost` (`NoLeak`), `CountIsEnough` (`CountCovers`), `CacheImplementsMap` |
| `DecryptionProofs` | `TypeCorrect`, `Invariance`, `StreamIsKept`, `TagIsHeldBack`, `DecryptedTextsAreBilled`, `CutHeadersDecrypt`, `AcceptedIsWhole` |
| `EncryptionProofs` | `TypeCorrect`, `Invariance`, `GrantKept` (`UsesWithinGrant`), `FinishedTextsAreBilled`, `ContextsOwned`, `TextsInOrder` |
| `RestHandleProofs` | `TypeCorrect`; as long as no two requests overlap: `Invariance`, `WithoutOverlap`; under `KeysAtCreation`: `NoOverlap`, `AnswersAreMine`, `RequestsAreWhole` (`SentAsSigned`), `BuffersAreOwned` |
| `FpeKeysProofs` | `TypeCorrect`, `Invariance`, `NumbersNameTheirKeys`, `KeysAreRecent` (`CurrentWithinDuration`), `DeliveredTextsAreBilled`, `SearchesAreComplete` |
| `FpeTextProofs` | `Invariance` (`TextInv`), `RoundTripHolds`, `FormatKeptHolds`, `EncryptsAllHolds`; of the operators: `EncryptDecrypt`, `DecryptEncrypt`, `OneToOne`, `DigitsOfValue`, `ValueOfDigits`, `KeynumDecodes`, `KeynumEncodes`, `FormatInverse` |
| `SettingsProofs` | `Invariance`, `PartsFromBestSource` (`FromBestSource`), `IntervalsAreNotZero` (`NeverZero`) |

Assumptions are the named `ASSUME`s of the modules and nothing else: threads and
null values are distinct from the real ones, lengths and bounds are natural
numbers, header and tag are not empty, a record is not the empty place of a tree,
the character sets are sequences without repetition and observe `DataSetAssumption`.
TLC evaluates them in the runs. The properties of `RestHandle` are
proved without overlapping requests, which is what `KeysAtCreation` gives and what
nothing gives the other objects: there `rest_shared` shows `AnswerIsMine` to fail.

The arguments, and why each needs more than the property:

* *Billing.* That a batch holds only events not sent before (`PlacesApart`) is
  not inductive: the batch is the union of the tallies of a tree's elements, so
  tallies must be disjoint (`TalliesApart`), which a step of `Update` keeps only if
  the event is new (`CallsFresh`) and one of `Serialize` only if no element is in
  two trees (`ElementsApart`), which `Insert` keeps only if the element, named by
  its event, is not there already (`ElementsOld`). That no event is billed twice
  (`BilledOnce`) follows: the server is told of a batch only, whose events it has not
  been told of. That nothing vanishes when a
  batch is not sent because the count is zero needs `CountedIfFilled`; that the two
  flushers have different caches needs `Ownership` and the places at which a
  flusher has one (`FlusherState`); and that the destructor's flush meets no swap
  needs `OneFlusherAtClose`. That only leaked elements outlive the context needs to
  know where every element is (`ElementsKept`), and that there are none without a
  failed swap that a call finds a cache whenever it gets the lock (`CacheKept`).
  `IInv` is their conjunction. `FindsAreCurrent` has an
  invariant of its own (`Found`): the element stays where it was found as long as
  the cache is the current one, and no swap gives a cache back that a caller
  holds. The refinement is a second walk through the actions. `CloseIsBounded` is what `CloseCompletes` is made of beside
  fairness: as there is no current cache any more (`FlusherState`) the worker takes
  none and does not go round its loop, so that `StepsLeft` falls with every step of a
  thread; the callers, whose steps it does not count, are gone (`CacheKept`).
* *Cache.* `FreedOnce` needs to know that the tree holds only data the cache has
  taken over (`HeldIsGiven`), as a new datum could be one it holds already;
  `CountCovers` needs the tree to be finite. For the refinement each action maps to
  one of the map's: a lookup that removes an expired element is a lookup that finds
  nothing, an exchange with an expired element is a binding.
* *Decryption.* `StreamKept` says where the bytes are, but not that the header in
  front is whole, or that it is the one the context was made from: `Flow` does. A
  message in hand is in the buffer (`buf = Streamed`) until there is a context, and
  then either whole, header included, or cut behind its header. `TagStays` has what
  `TagHeldBack` and `CutHeaderDecrypts` need of the end of the buffer: once anything
  was fed there is at least a tag behind it, and after a success exactly one. The
  lemmas before are about sequences: parts of a concatenation, bytes of a message.
* *Encryption.* `InOrder` is about the last context, so that a context must be the
  last one made (`ContextIsLast`), and an earlier one nobody's. `FinishedIsBilled`
  is kept by `EndDone` because a context whose calls did not fail was billed.
* *RestHandle.* When no two requests overlap (`OneAtATime`) the one under way is the
  last one made (`Apart`), and the state of the handle is that of its thread's place
  (`Stage`): what was signed, what of the body was sent, whose pieces the buffer has.
  `Owned` accounts for the buffers of all requests. `WithoutOverlap` concludes that a
  lock held from a request to the last use of its answer would be enough for every
  object. That an encryption object does without is `NoOverlap`: its owner and
  its worker are in requests in different phases of the object (`Exclusive`), because creation ends before there are events
  and the join comes before the flush.
* *FpeKeys.* That a context has the key that was asked for needs the caches to be
  right (`CacheSound`), which `Store` keeps because the answer is that of the
  question (`ContextSound`). `KeysAreRecent` needs to know when each key stopped
  being current (`ServerSound`) and that what the server chose at `at` was current then,
  wherever the answer is (`ContextSound`), `SearchesAreComplete` that the texts so far are
  those of the keys before the loop's index (`SearchSound`, `Progress`).
* *FpeText.* The run can check texts of three characters; the theorems are about any
  length, and so need induction over it. The library's induction theorems cannot be
  instantiated here, but what they say can be said of a set: `SetInduction` follows
  from the well-foundedness of `<` on the numbers, and `Recursion`, that a function
  defined by recursion exists, from it, by the union of its finite parts. With these
  `Horner` and `HornerOfDigits` show by induction on the length that reading a text as
  a number and writing a number as a text are inverse to each other
  (`DigitsOfValue`, `ValueOfDigits`). `Ranks` shows by induction that ranks number the
  places of a text from one on, so that every place gets its own character back
  (`FormatInverse`). `Room` is where `DataSetAssumption` is used: the number of a text
  is so small that its first digit is below `KeyUnit`, and a key number on top of
  it is still a place in the output set. That the converse, `DecryptEncrypt`, needs
  no check in the code that the number is small is because the key number is cut off
  before the conversion, and the conversion itself refuses what is too large. The
  invariant `TextInv` then says of the state what these theorems say of the calls.
* *Settings.* The list of profiles is, part for part, the last line that sets it
  (`Listed`), which a line more changes in one place; `FromBestSource` follows for
  each call by following its sources, where the code takes the default profile as a
  whole or not at all.

Only model-checked: the liveness properties of `Billing` (fairness and ENABLED are
outside the prover's reach), of which `CloseIsBounded` is as much as is a matter of
safety. That the two calls of `FpeText` invert each other is proved for a cipher
that is a rotation; FF1 itself is external. The violations are TLC's counterexamples.

## What is left

In this order: the composition of `Encryption` with `Decryption`, what the one emits
being given to the other chunk by chunk; the ownership of half-made objects, whose
failing creation is one step now; an element of the billing cache that expires; the
cache walks; the parsing of a data set's definition. The three violations could be followed by models of a
correction, with the same properties.

## Not modelled

* The Windows back ends (`wincrypt.c`, `winhttp.c`) stand behind the same interfaces
  over system libraries that are not in the repository.
* The C++ wrappers forward to C; `init.c` initialises libraries; samples and tests
  are users.
* `common.c`, `algorithm.c`, `support.c` and most of `openssl.c` and `parsing.c` are
  data transformations without state: JSON, base64, a table of algorithms, the
  decryption of a data key, conversions of character sets. Their failures are
  outcomes of the modules that call them.
* The one-call functions (`ubiq_platform_encrypt`, `_decrypt`, `_fpe_encrypt`, ...)
  are fixed sequences of calls that are modelled.
* The text of signatures, URLs and JSON; FF1, AES, libcurl, libunistring, cJSON and
  inih, which are external.
* Calls that fail in ways the program does not survive, where the model has no step to
  `crashed` for them (a null element in a cache after `calloc` failed), and what
  writing to freed memory does.
