----------------------------- MODULE Decryption -----------------------------
(***************************************************************************)
(* The piecewise decryption object (lib/decrypt.c): begin, any number of   *)
(* updates with chunks of any size, end, and again for the next message.   *)
(*                                                                         *)
(* A message is its fixed header, the iv and encrypted key, the cipher     *)
(* text and the tag; a byte is the pair of its message and its position.   *)
(* The caller keeps the order of the calls that decrypt.h asks for, may    *)
(* end a message early, and may go on after an error.  The cipher is       *)
(* AES-GCM as lib/openssl.c uses it: its finalize accepts exactly the      *)
(* cipher text and the tag that belong to the header.                      *)
(***************************************************************************)
EXTENDS Naturals, Sequences, FiniteSets

CONSTANTS
  Messages, NoMessage,
  BadVersion, BadHeader,   \* messages with a version, or with a flag or an
                           \* algorithm, that is not known
  Forged,         \* messages that do not authenticate
  KeyOf, BodyLen, \* data key and cipher text length of each message
  FixedLen,       \* sizeof(h->v0)
  VarLen,         \* ivlen + keylen
  TagLen,         \* algo->len.tag
  NoKey,
  ServerMayFail,  \* may a request for a data key fail?
  BillingMayFail, \* may ubiq_billing_add_billing_event return an error?
  AllocMayFail,   \* may malloc, realloc or the setting up of a cipher fail?
  MaxSessions     \* bound on the messages begun

ASSUME LengthsAssumption ==
  FixedLen \in Nat \ {0} /\ VarLen \in Nat \ {0} /\ TagLen \in Nat \ {0}
  /\ BodyLen \in [Messages -> Nat]
ASSUME MessagesAssumption ==
  NoMessage \notin Messages /\ Forged \subseteq Messages
  /\ BadVersion \subseteq Messages /\ BadHeader \subseteq Messages
  /\ \A m \in Messages : KeyOf[m] # NoKey
ASSUME BoundsAssumption == MaxSessions \in Nat

HeaderLen == FixedLen + VarLen
Total(m) == HeaderLen + BodyLen[m] + TagLen

\* Bytes i to j of a message.
Bytes(m, i, j) == [n \in 1..(j + 1 - i) |-> <<m, i + n - 1>>]
Body(m) == Bytes(m, HeaderLen + 1, HeaderLen + BodyLen[m])
Tag(m) == Bytes(m, HeaderLen + BodyLen[m] + 1, Total(m))

VARIABLES
  phase,      \* of the object: "none", "live", then "gone", or the process "crashed"
  buf,        \* dec->buf
  ctx,        \* dec->ctx, named by the message whose header it was made from
  raw,        \* dec->key.raw
  fed,        \* what the cipher context has been given
  message, given,   \* the caller's message and how much of it has been passed
  left,       \* history: what was in buf when the message was begun
  sessions, billed, \* history: messages begun, those with a billing event
  ret         \* the last call and its result

callVars == <<buf, ctx, raw, fed, message, given, left, sessions, billed, ret>>
vars == <<phase, callVars>>

Init ==
  /\ phase = "none"
  /\ buf = <<>> /\ ctx = NoMessage /\ raw = NoKey /\ fed = <<>>
  /\ message = NoMessage /\ given = 0 /\ left = <<>> /\ sessions = 0 /\ billed = {}
  /\ ret = [call |-> "create", res |-> "OK"]

Returns(c, r) == ret' = [call |-> c, res |-> r]
-----------------------------------------------------------------------------
(* ubiq_platform_decryption_create, _destroy *)

Create ==
  /\ phase = "none" /\ phase' = "live"
  /\ UNCHANGED callVars

\* No memory, no handle or no billing context: the object is freed.
FailToCreate ==
  /\ AllocMayFail
  /\ phase = "none" /\ phase' = "gone"
  /\ UNCHANGED callVars

\* ubiq_platform_decryption_reset destroys the context if there is a key.
Reset ==
  /\ raw' = NoKey
  /\ ctx' = IF raw # NoKey THEN NoMessage ELSE ctx

\* At any time, in the middle of a message or after an error.
Destroy ==
  /\ phase = "live" /\ phase' = "gone"
  /\ Reset
  /\ buf' = <<>> /\ fed' = <<>> /\ message' = NoMessage
  /\ Returns("destroy", "OK")
  /\ UNCHANGED <<given, left, sessions, billed>>
-----------------------------------------------------------------------------
(* ubiq_platform_decryption_begin *)

Begin(m) ==
  /\ message = NoMessage /\ sessions < MaxSessions
  /\ ctx = NoMessage
  /\ sessions' = sessions + 1
  /\ message' = m /\ given' = 0 /\ left' = buf
  /\ Returns("begin", "OK")
  /\ UNCHANGED <<buf, ctx, raw, fed, billed>>

\* The caller has not begun anything and does not go on with this message.
BeginBusy ==
  /\ message = NoMessage /\ sessions < MaxSessions
  /\ ctx # NoMessage
  /\ sessions' = sessions + 1
  /\ Returns("begin", "EINPROGRESS")
  /\ UNCHANGED <<buf, ctx, raw, fed, message, given, left, billed>>
-----------------------------------------------------------------------------
(* ubiq_platform_decryption_update: the chunk is appended to the buffer *)

Appended(n) == buf \o Bytes(message, given + 1, given + n)

Supply(n) ==
  /\ message # NoMessage /\ given + n <= Total(message)
  /\ given' = given + n
  /\ UNCHANGED <<message, left, sessions>>

\* realloc fails, and the chunk is not taken.
OutOfMemory ==
  /\ AllocMayFail /\ message # NoMessage
  /\ Returns("update", "ENOMEM")
  /\ UNCHANGED <<buf, ctx, raw, fed, message, given, left, sessions, billed>>

\* The first n bytes of b are those of one message; a header that is made of
\* what an earlier message left behind and of a new one is not.
Starts(b, n, m) == Len(b) >= n /\ SubSeq(b, 1, n) = Bytes(m, 1, n)
Garbled(b, n) == Len(b) >= n /\ \A m \in Messages : ~Starts(b, n, m)

\* The version byte is always one message's own.
Rejected(b) ==
  \/ \E m \in BadVersion : Starts(b, 1, m)
  \/ \E m \in BadHeader : Starts(b, FixedLen, m)

\* What the lengths of a garbled header say is anybody's guess.
Await(n) ==
  LET b == Appended(n) IN
  /\ Supply(n) /\ ctx = NoMessage
  /\ ~Rejected(b) /\ (Len(b) < HeaderLen \/ Garbled(b, FixedLen))
  /\ buf' = b
  /\ Returns("update", "OK")
  /\ UNCHANGED <<ctx, raw, fed, billed>>

Refuse(n) ==
  LET b == Appended(n) IN
  /\ Supply(n) /\ ctx = NoMessage
  /\ Rejected(b) \/ Garbled(b, FixedLen)
  /\ buf' = b
  /\ Returns("update", "EBADMSG")
  /\ UNCHANGED <<ctx, raw, fed, billed>>

\* key.enc.len is zero always, so that the key at hand is dropped and the
\* server is asked for the one of the header.
HeaderRead(n) ==
  /\ Supply(n) /\ ctx = NoMessage
  /\ ~Rejected(Appended(n)) /\ Len(Appended(n)) >= HeaderLen

KeyRefused(n) ==
  /\ HeaderRead(n)
  /\ ServerMayFail \/ Garbled(Appended(n), HeaderLen)
  /\ raw' = NoKey
  /\ buf' = Appended(n)
  /\ Returns("update", "EPROTO")
  /\ UNCHANGED <<ctx, fed, billed>>

\* Mutants: the move takes no account of off; the tag is decrypted; the move
\* loses a byte.
DrainWithoutOff(b, off, sofar) ==
  LET n == Len(b) - TagLen
      some == n > off
  IN
  /\ buf' = IF some THEN SubSeq(b, n - off + 1, Len(b)) ELSE b
  /\ fed' = IF some THEN sofar \o SubSeq(b, off + 1, n) ELSE sofar
  /\ Returns("update", "OK")

DrainTag(b, off, sofar) ==
  LET n == Len(b)
      some == n > off
  IN
  /\ buf' = IF some THEN SubSeq(b, n + 1, Len(b)) ELSE b
  /\ fed' = IF some THEN sofar \o SubSeq(b, off + 1, n) ELSE sofar
  /\ Returns("update", "OK")

DrainLosing(b, off, sofar) ==
  LET n == Len(b) - TagLen
      some == n > off
  IN
  /\ buf' = IF some THEN SubSeq(b, n + 2, Len(b)) ELSE b
  /\ fed' = IF some THEN sofar \o SubSeq(b, off + 1, n) ELSE sofar
  /\ Returns("update", "OK")

\* Everything after off but the last TagLen bytes goes to the cipher; when that
\* is nothing, buffer and outputs stay as they are, the header included.
Drain(b, off, sofar) ==
  LET n == Len(b) - TagLen
      some == n > off
  IN
  /\ buf' = IF some THEN SubSeq(b, n + 1, Len(b)) ELSE b
  /\ fed' = IF some THEN sofar \o SubSeq(b, off + 1, n) ELSE sofar
  /\ Returns("update", "OK")

\* The cipher has no room for its output: the chunk stays in the buffer.
DrainFails(b, off, sofar) ==
  /\ AllocMayFail /\ Len(b) > TagLen + off
  /\ buf' = b /\ fed' = sofar
  /\ Returns("update", "ENOMEM")

DrainOrFail(b, off, sofar) == Drain(b, off, sofar) \/ DrainFails(b, off, sofar)

\* Mutant: a key that is there is used, whoever it belongs to.
KeyObtainedStale(n) ==
  /\ HeaderRead(n)
  /\ \E m \in Messages :
       Starts(Appended(n), HeaderLen, m) /\ ctx' = m
       /\ raw' = IF raw = NoKey THEN KeyOf[m] ELSE raw

KeyObtained(n) ==
  /\ HeaderRead(n)
  /\ \E m \in Messages :
       Starts(Appended(n), HeaderLen, m) /\ ctx' = m /\ raw' = KeyOf[m]

\* The cipher does not take the key: the key stays, there is no context.
CipherRefused(n) ==
  /\ AllocMayFail
  /\ HeaderRead(n)
  /\ \E m \in Messages : Starts(Appended(n), HeaderLen, m) /\ raw' = KeyOf[m]
  /\ buf' = Appended(n)
  /\ Returns("update", "INT_MIN")
  /\ UNCHANGED <<ctx, fed, billed>>

\* There is no memory for a cipher: one that was never made is destroyed, by
\* way of an uninitialized pointer.
NoCipher(n) ==
  /\ AllocMayFail
  /\ phase = "live" /\ HeaderRead(n)
  /\ \E m \in Messages : Starts(Appended(n), HeaderLen, m) /\ raw' = KeyOf[m]
  /\ buf' = Appended(n)
  /\ phase' = "crashed" /\ Returns("update", "CRASH")
  /\ UNCHANGED <<ctx, fed, billed>>

Open(n) ==
  /\ KeyObtained(n)
  /\ billed' = billed \cup {sessions}
  /\ DrainOrFail(Appended(n), HeaderLen, <<>>)

\* Mutant: the result of the billing event is dropped.
OpenIgnoringBilling(n) ==
  /\ BillingMayFail
  /\ KeyObtained(n)
  /\ DrainOrFail(Appended(n), HeaderLen, <<>>)
  /\ UNCHANGED billed

\* The context exists, but its event was refused: nothing is decrypted now.
OpenUnbilled(n) ==
  /\ BillingMayFail
  /\ KeyObtained(n)
  /\ buf' = Appended(n) /\ fed' = <<>>
  /\ Returns("update", "ENOMEM")
  /\ UNCHANGED billed

Feed(n) ==
  /\ Supply(n) /\ ctx # NoMessage
  /\ DrainOrFail(Appended(n), 0, fed)
  /\ UNCHANGED <<ctx, raw, billed>>

Update(n) ==
  \/ Await(n) \/ Refuse(n) \/ KeyRefused(n) \/ CipherRefused(n)
  \/ Open(n) \/ OpenUnbilled(n) \/ Feed(n)
-----------------------------------------------------------------------------
(* ubiq_platform_decryption_end *)

\* Mutant: the result of the cipher is dropped.
AuthenticAlways == TRUE

Authentic == fed = Body(ctx) /\ buf = Tag(ctx) /\ ctx \notin Forged

End ==
  /\ message # NoMessage
  /\ UNCHANGED <<raw, given, left, sessions, billed>>

\* The caller has done with the message; or, end having failed, it calls end
\* again or passes more of the message first.
GivenUp == message' = NoMessage
GivenUpOrNot == message' \in {message, NoMessage}

EndNoContext ==
  /\ End /\ GivenUpOrNot /\ ctx = NoMessage
  /\ Returns("end", "ESRCH")
  /\ UNCHANGED <<buf, ctx, fed>>

EndNoTag ==
  /\ End /\ GivenUpOrNot /\ ctx # NoMessage /\ Len(buf) # TagLen
  /\ Returns("end", "ENODATA")
  /\ UNCHANGED <<buf, ctx, fed>>

EndNoMemory ==
  /\ AllocMayFail
  /\ End /\ GivenUpOrNot /\ ctx # NoMessage /\ Len(buf) = TagLen
  /\ Returns("end", "ENOMEM")
  /\ UNCHANGED <<buf, ctx, fed>>

\* The cipher has been finalized, and nothing more can come of this message.
EndForged ==
  /\ End /\ GivenUp /\ ctx # NoMessage /\ Len(buf) = TagLen /\ ~Authentic
  /\ Returns("end", "INT_MIN")
  /\ UNCHANGED <<buf, ctx, fed>>

EndDone ==
  /\ End /\ GivenUp /\ ctx # NoMessage /\ Len(buf) = TagLen /\ Authentic
  /\ Returns("end", "OK")
  /\ buf' = <<>> /\ ctx' = NoMessage /\ fed' = <<>>

\* The sizes of the chunks; an empty one only when there is a buffer to grow.
Chunks == IF message = NoMessage THEN {}
          ELSE {n \in 0..Total(message) : n > 0 \/ buf # <<>>}

Call ==
  \/ \E m \in Messages : Begin(m)
  \/ BeginBusy
  \/ \E n \in Chunks : Update(n)
  \/ OutOfMemory
  \/ EndNoContext \/ EndNoTag \/ EndNoMemory \/ EndForged \/ EndDone

Gone == phase \in {"gone", "crashed"} /\ UNCHANGED vars

Next ==
  \/ phase = "live" /\ Call /\ UNCHANGED phase
  \/ \E n \in Chunks : NoCipher(n)
  \/ Create \/ FailToCreate \/ Destroy \/ Gone

Spec == Init /\ [][Next]_vars
-----------------------------------------------------------------------------
(* Properties *)

StreamOf == UNION {{<<m, i>> : i \in 1..Total(m)} : m \in Messages}

\* Buffers are sequences of bytes, and the context has the key of its header, so
\* that a reset, which looks at the key, leaves no context of a destroyed object.
TypeOK ==
  /\ phase \in {"none", "live", "gone", "crashed"}
  /\ phase # "live" => ctx = NoMessage
  /\ \A s \in {buf, fed, left} : \A i \in 1..Len(s) : s[i] \in StreamOf
  /\ ctx \in Messages \cup {NoMessage} /\ message \in Messages \cup {NoMessage}
  /\ ctx # NoMessage => raw = KeyOf[ctx]
  /\ given \in Nat /\ sessions \in 0..MaxSessions /\ billed \subseteq 1..MaxSessions
  /\ ret.call \in {"create", "begin", "update", "end", "destroy"}

Streamed == left \o Bytes(message, 1, given)

\* However the cipher text is cut into chunks, no byte of it is lost, repeated
\* or reordered on its way through dec->buf to the cipher: what the object has
\* been given is what it holds, with or without the header in front.
StreamKept ==
  message # NoMessage =>
    fed \o buf \in {Streamed} \cup
      (IF Len(Streamed) >= HeaderLen
       THEN {SubSeq(Streamed, HeaderLen + 1, Len(Streamed))} ELSE {})

\* The cipher is never fed a byte of the tag as if it were cipher text, though
\* update does not know where the message ends.
TagHeldBack ==
  left = <<>> /\ ctx # NoMessage =>
    \A i \in 1..Len(fed) : fed[i][2] <= HeaderLen + BodyLen[ctx]

\* A complete message decrypts when the chunk that completed its header was long
\* enough for the header to be cut off, whatever the chunks after it, and though
\* some of the calls before the last were out of memory.
CutHeaderDecrypts ==
  /\ ctx # NoMessage /\ message = ctx /\ ctx \notin Forged
  /\ left = <<>> /\ given = Total(ctx) /\ ret.res = "OK"
  /\ Len(fed) > 0 /\ fed[1] = <<ctx, HeaderLen + 1>>
  => Authentic

\* No plain text is accepted as authentic without its own billing event, however
\* often the updates of the message failed and were repeated.
DecryptedIsBilled ==
  ret.call = "end" /\ ret.res = "OK" => sessions \in billed

Ends == message # NoMessage /\ message' = NoMessage /\ ret'.call = "end"

\* What end accepts is the whole of one message and nothing else: no byte that an
\* earlier message left behind is mixed with it, none is missing or added.
AcceptedWhole ==
  [][Ends /\ ret'.res = "OK" => Streamed = Bytes(ctx, 1, Total(ctx))]_vars

\* The README: update is called until all the data is processed, then end.  A
\* sound message, none of whose calls failed, decrypts.
WholeMessageDecrypts ==
  /\ ctx # NoMessage /\ message = ctx /\ ctx \notin Forged /\ given = Total(ctx)
  /\ left = <<>> /\ sessions \in billed
  => Authentic
=============================================================================
