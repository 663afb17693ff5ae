----------------------------- MODULE RestHandle -----------------------------
(***************************************************************************)
(* Signed requests (lib/rest.c over lib/curl.c).  An encryption,           *)
(* decryption or FPE object has one handle; its owner makes the requests   *)
(* for keys on it, and the worker of its billing context the POSTs of the  *)
(* batches.  Nothing locks the handle: what keeps the two apart is when    *)
(* each of them makes a request.                                           *)
(*                                                                         *)
(* Requests are numbered as they begin.  The buffer that receives the      *)
(* answer to a request has the request's number, 0 is a null pointer, and  *)
(* a buffer holds, piece by piece, the request each piece answers.         *)
(***************************************************************************)
EXTENDS Naturals, Sequences, FiniteSets

CONSTANTS
  Owner, Worker,
  MaxRequests,      \* bound on the requests made
  MaxEvents,        \* bound on the billing events, each one batch at most
  MaxBody,          \* pieces of a request's body
  AnswerLen,        \* pieces of an answer that is not empty
  KeysAtCreation,   \* the key is asked for at creation, and never again
  FaultsHappen      \* may an allocation or the network fail?

ASSUME ThreadsAssumption == Owner # Worker
ASSUME BoundsAssumption ==
  /\ MaxEvents \in Nat /\ MaxRequests \in Nat /\ MaxRequests > MaxEvents
  /\ MaxBody \in Nat /\ AnswerLen \in Nat \ {0}
ASSUME ModesAssumption == KeysAtCreation \in BOOLEAN /\ FaultsHappen \in BOOLEAN

Threads == {Owner, Worker}
Request == 1..MaxRequests

VARIABLES
  phase,            \* of the object: being made, in use, or going away
  events, recorded, \* events in the cache, and all there were
  holding,          \* events that the worker has taken and not yet sent
  made,             \* number of the last request
  length,           \* the length of the body each thread has passed
  pc, doing,        \* where each thread is, and its request
  headers,          \* hnd->hlist: whose header each is, and its name
  upload,           \* hnd->req: whose body, its length and the offset, and whether
                    \* CURLOPT_UPLOAD is set
  down, rsp,        \* hnd->rsp.buf and h->rsp.buf
  code,             \* whose answer the response code in the curl handle is of
  content, freed,   \* the buffers of the answers
  signed, sent,     \* headers signed, and headers sent, with each request
  starved,          \* requests a header of which found no memory
  early, empty,     \* requests answered before their body was sent, and those
                    \* with an answer that has no content
  received          \* the pieces of each body at the server

handleVars == <<headers, upload, down, rsp, code, content, freed>>
wireVars == <<signed, sent, starved, early, empty, received>>
useVars == <<phase, events, holding, recorded, made, length>>
vars == <<handleVars, wireVars, useVars, pc, doing>>
-----------------------------------------------------------------------------
\* The headers that are signed and sent, in the order of key[]; the first two
\* have no content without a body.
Names(len) == (IF len > 0 THEN <<"Content-Length", "Content-Type">> ELSE <<>>)
              \o <<"Date", "Digest", "Host">>

HeadersOf(r, names) == [i \in DOMAIN names |-> [of |-> r, name |-> names[i]]]

\* libcurl is not entered twice: a transfer on a handle that another thread
\* resets or reads has no defined outcome and is left out.
HandleIdle == \A t \in Threads : pc[t] # "transfer"

Init ==
  /\ phase = IF KeysAtCreation THEN "create" ELSE "open"
  /\ events = 0 /\ holding = 0 /\ recorded = 0 /\ made = 0
  /\ length = [t \in Threads |-> 0]
  /\ pc = [t \in Threads |-> "idle"] /\ doing = [t \in Threads |-> 0]
  /\ headers = <<>> /\ upload = [of |-> 0, len |-> 0, off |-> 0, on |-> FALSE]
  /\ down = 0 /\ rsp = 0 /\ code = 0
  /\ content = [r \in Request |-> <<>>] /\ freed = {}
  /\ signed = [r \in Request |-> <<>>] /\ sent = [r \in Request |-> <<>>]
  /\ starved = {} /\ early = {} /\ empty = {} /\ received = [r \in Request |-> <<>>]

Goto(t, place) == pc' = [pc EXCEPT ![t] = place]

\* ubiq_platform_rest_handle_reset: curl keeps the last response code.
Reset ==
  /\ headers' = <<>>
  /\ upload' = [upload EXCEPT !.on = FALSE]
  /\ rsp' = 0
  /\ freed' = IF rsp = 0 THEN freed ELSE freed \cup {rsp}

\* The entry of ubiq_platform_rest_request.
Start(t, len) ==
  /\ pc[t] = "idle" /\ made < MaxRequests /\ HandleIdle
  /\ Reset
  /\ made' = made + 1
  /\ doing' = [doing EXCEPT ![t] = made + 1]
  /\ length' = [length EXCEPT ![t] = len]
  /\ Goto(t, "sign")
  /\ UNCHANGED <<down, code, content, wireVars>>

\* The loop over key[] with n headers added, and the Signature header.  When
\* a header finds no memory the loop ends, with that header signed, and its
\* error is overwritten by the outcome of the last one.
Sign(t) ==
  LET r == doing[t]
      names == Names(length[t])
  IN
  /\ pc[t] = "sign" /\ HandleIdle
  /\ \E n \in 0..Len(names) :
       /\ n < Len(names) => FaultsHappen
       /\ signed' = [signed EXCEPT ![r] = SubSeq(names, 1, IF n < Len(names) THEN n + 1 ELSE n)]
       /\ starved' = IF n < Len(names) THEN starved \cup {r} ELSE starved
       /\ \/ /\ headers' = headers \o HeadersOf(r, Append(SubSeq(names, 1, n), "Signature"))
             /\ Goto(t, "perform")
          \/ /\ FaultsHappen
             /\ headers' = headers \o HeadersOf(r, SubSeq(names, 1, n))
             /\ Goto(t, "failed")
  /\ UNCHANGED <<upload, down, rsp, code, content, freed, sent, early, empty, received,
                 useVars, doing>>

\* Mutant: the second body starts where the first one ended.
PerformOn(t) ==
  /\ pc[t] = "perform" /\ HandleIdle
  /\ headers' = Append(headers, [of |-> doing[t], name |-> "Expect"])
  /\ upload' = IF length[t] > 0
               THEN [of |-> doing[t], len |-> length[t], off |-> upload.off, on |-> TRUE]
               ELSE upload
  /\ sent' = [sent EXCEPT ![doing[t]] = headers']
  /\ down' = 0 /\ code' = 0
  /\ Goto(t, "transfer")
  /\ UNCHANGED <<rsp, content, freed, signed, starved, early, empty, received, useVars, doing>>

\* ubiq_support_http_request up to curl_easy_perform.
Perform(t) ==
  /\ pc[t] = "perform" /\ HandleIdle
  /\ headers' = Append(headers, [of |-> doing[t], name |-> "Expect"])
  /\ upload' = IF length[t] > 0
               THEN [of |-> doing[t], len |-> length[t], off |-> 0, on |-> TRUE]
               ELSE upload
  /\ sent' = [sent EXCEPT ![doing[t]] = headers']
  /\ down' = 0 /\ code' = 0
  /\ Goto(t, "transfer")
  /\ UNCHANGED <<rsp, content, freed, signed, starved, early, empty, received, useVars, doing>>

\* No memory for the Expect header, or curl refuses the URL.
FailToPerform(t) ==
  /\ pc[t] = "perform" /\ FaultsHappen
  /\ Goto(t, "failed")
  /\ UNCHANGED <<handleVars, wireVars, useVars, doing>>

BodyLeft == upload.on /\ upload.off < upload.len

\* ubiq_support_http_upload, with room for some of what is left.
Upload(t) ==
  /\ pc[t] = "transfer" /\ BodyLeft
  /\ \E n \in 1..(upload.len - upload.off) :
       /\ received' = [received EXCEPT ![upload.of] = @ \o [i \in 1..n |-> upload.off + i]]
       /\ upload' = [upload EXCEPT !.off = @ + n]
  /\ UNCHANGED <<headers, down, rsp, code, content, freed, signed, sent, starved,
                 early, empty, useVars, pc, doing>>

\* The status line of the answer.  The server may refuse a request before it has
\* the body, and an answer (204) may have no content.
Status(t) ==
  /\ pc[t] = "transfer" /\ code # doing[t]
  /\ code' = doing[t]
  /\ early' = IF BodyLeft THEN early \cup {doing[t]} ELSE early
  /\ empty' \in {empty, empty \cup {doing[t]}}
  /\ UNCHANGED <<headers, upload, down, rsp, content, freed, signed, sent, starved, received,
                 useVars, pc, doing>>

\* ubiq_support_http_download: the buffer grows.
Download(t) ==
  LET b == IF down = 0 THEN doing[t] ELSE down IN
  /\ pc[t] = "transfer" /\ code = doing[t] /\ doing[t] \notin empty
  /\ Len(content[b]) < AnswerLen
  /\ down' = b
  /\ content' = [content EXCEPT ![b] = Append(@, doing[t])]
  /\ UNCHANGED <<headers, upload, rsp, code, freed, wireVars, useVars, pc, doing>>

\* Mutant: only the buffer of a successful transfer is handed to the caller.
PublishIfWhole(t, ok) ==
  /\ rsp' = IF ok THEN down ELSE rsp
  /\ Goto(t, IF ok THEN "answered" ELSE "failed")

\* The return from curl_easy_perform, failed or not.
Publish(t, ok) ==
  /\ rsp' = down
  /\ Goto(t, IF ok THEN "answered" ELSE "failed")

\* curl sends the rest of the body after an early answer, or stops sending.
Finish(t) ==
  /\ pc[t] = "transfer" /\ (BodyLeft => doing[t] \in early)
  /\ code = doing[t]
  /\ doing[t] \in empty \/ (down # 0 /\ Len(content[down]) = AnswerLen)
  /\ Publish(t, TRUE)
  /\ UNCHANGED <<headers, upload, down, code, content, freed, wireVars, useVars, doing>>

\* The network, or realloc in the download: curl gives up.
Abort(t) ==
  /\ pc[t] = "transfer" /\ FaultsHappen
  /\ Publish(t, FALSE)
  /\ UNCHANGED <<headers, upload, down, code, content, freed, wireVars, useVars, doing>>

\* A billing POST asks for the response code only.
Billing(t) == t = Worker \/ phase = "flush"

ReadCode(t) ==
  /\ pc[t] = "answered" /\ HandleIdle
  /\ Goto(t, IF Billing(t) THEN "return" ELSE "read")
  /\ UNCHANGED <<handleVars, wireVars, useVars, doing>>

\* ubiq_platform_rest_response_content, and the parsing of what it points to.
ReadContent(t) ==
  /\ pc[t] = "read" /\ HandleIdle
  /\ Goto(t, "return")
  /\ UNCHANGED <<handleVars, wireVars, useVars, doing>>

\* What the histories hold of a request that is over.
Forget(r) ==
  /\ signed' = [signed EXCEPT ![r] = <<>>] /\ sent' = [sent EXCEPT ![r] = <<>>]
  /\ received' = [received EXCEPT ![r] = <<>>]
  /\ starved' = starved \ {r} /\ early' = early \ {r} /\ empty' = empty \ {r}

\* The caller goes on.  An object whose key was refused is destroyed at once.
Return(t) ==
  /\ pc[t] \in {"return", "failed"}
  /\ phase' = CASE phase = "create" /\ pc[t] = "return" -> "open"
                [] phase = "create" /\ pc[t] = "failed" -> "close"
                [] OTHER -> phase
  /\ Goto(t, "idle")
  /\ doing' = [doing EXCEPT ![t] = 0] /\ length' = [length EXCEPT ![t] = 0]
  /\ Forget(doing[t])
  /\ UNCHANGED <<handleVars, events, holding, recorded, made>>
-----------------------------------------------------------------------------
(* The owner *)

\* The request for a key: the encryption object's in its creation, those of the
\* others in their calls, some of which have no body.  The bound leaves a request
\* for every batch.
Ask(len) ==
  /\ phase = IF KeysAtCreation THEN "create" ELSE "open"
  /\ KeysAtCreation => len > 0
  /\ made + MaxEvents < MaxRequests
  /\ Start(Owner, len)
  /\ UNCHANGED <<phase, events, holding, recorded>>

Record ==
  /\ phase = "open" /\ pc[Owner] = "idle" /\ recorded < MaxEvents
  /\ events' = events + 1 /\ recorded' = recorded + 1
  /\ UNCHANGED <<handleVars, wireVars, phase, holding, made, length, pc, doing>>

\* The steps of the destructor up to its own POST move nothing else.
Onward(next) ==
  /\ phase' = next
  /\ UNCHANGED <<handleVars, wireVars, events, holding, recorded, made, length, pc, doing>>

\* The destructor has the lock, and the cache; what the worker holds it keeps.
Close == phase = "open" /\ pc[Owner] = "idle" /\ Onward("close")

\* Mutant: the worker is not waited for.
JoinAnyhow == phase = "close" /\ pc[Owner] = "idle" /\ Onward("flush")

\* ubiq_billing_ctx_destroy waits for the worker before it flushes.
Join == phase = "close" /\ pc[Owner] = "idle" /\ pc[Worker] = "exit" /\ Onward("flush")

Flush(len) ==
  /\ phase = "flush" /\ events > 0 /\ len > 0
  /\ Start(Owner, len)
  /\ events' = 0
  /\ UNCHANGED <<phase, holding, recorded>>

\* ubiq_platform_rest_handle_destroy, after the billing context is gone.
Destroy ==
  /\ phase = "flush" /\ events = 0 /\ pc[Owner] = "idle"
  /\ Reset
  /\ phase' = "gone"
  /\ UNCHANGED <<down, code, content, wireVars, events, holding, recorded, made, length,
                 pc, doing>>

Gone == phase = "gone" /\ pc[Worker] = "exit" /\ UNCHANGED vars
-----------------------------------------------------------------------------
(* The worker of the billing context *)

\* The worker takes the cache, until the destructor does.
Take ==
  /\ phase = "open" /\ pc[Worker] = "idle" /\ holding = 0 /\ events > 0
  /\ holding' = events /\ events' = 0
  /\ UNCHANGED <<handleVars, wireVars, phase, recorded, made, length, pc, doing>>

\* What it has taken it sends, whatever the destructor has done since.
Post(len) ==
  /\ holding > 0 /\ len > 0
  /\ Start(Worker, len)
  /\ holding' = 0
  /\ UNCHANGED <<phase, events, recorded>>

\* Mutant: the worker leaves in the middle of a request.
LeaveEarly ==
  /\ pc[Worker] # "exit" /\ phase \notin {"create", "open"}
  /\ Goto(Worker, "exit")
  /\ UNCHANGED <<handleVars, wireVars, useVars, doing>>

Leave ==
  /\ pc[Worker] = "idle" /\ holding = 0 /\ phase \notin {"create", "open"}
  /\ Goto(Worker, "exit")
  /\ UNCHANGED <<handleVars, wireVars, useVars, doing>>

Transfer(t) == \/ Perform(t) \/ FailToPerform(t) \/ Upload(t) \/ Status(t)
               \/ Download(t) \/ Finish(t) \/ Abort(t)

Next ==
  \/ \E len \in 0..MaxBody : Ask(len) \/ Flush(len) \/ Post(len)
  \/ \E t \in Threads : \/ Sign(t) \/ Transfer(t)
                        \/ ReadCode(t) \/ ReadContent(t) \/ Return(t)
  \/ Record \/ Close \/ Join \/ Destroy \/ Take \/ Leave \/ Gone

Spec == Init /\ [][Next]_vars
-----------------------------------------------------------------------------
(* Properties *)

Places == {"idle", "sign", "perform", "transfer", "answered", "read", "return", "failed", "exit"}

\* Every variable has its type, a thread has a request when it is in one, and
\* only the worker leaves.
TypeOK ==
  /\ phase \in {"create", "open", "close", "flush", "gone"}
  /\ events \in 0..MaxEvents /\ holding \in 0..MaxEvents /\ recorded \in 0..MaxEvents
  /\ made \in 0..MaxRequests
  /\ length \in [Threads -> 0..MaxBody]
  /\ pc \in [Threads -> Places] /\ pc[Owner] # "exit"
  /\ doing \in [Threads -> 0..made]
  /\ \A t \in Threads : doing[t] = 0 <=> pc[t] \in {"idle", "exit"}
  /\ upload.of \in 0..made /\ upload.len \in 0..MaxBody /\ upload.off \in 0..MaxBody
  /\ {down, rsp, code} \subseteq 0..made
  /\ freed \subseteq 1..made /\ starved \subseteq 1..made
  /\ early \subseteq 1..made /\ empty \subseteq 1..made

\* "The response from the server can be retrieved": between the successful
\* return of a request and the last use of its answer, the response code and
\* the content in the handle are those of that request, all of it.
AnswerIsMine ==
  \A t \in Threads : pc[t] \in {"answered", "read"} =>
    /\ code = doing[t]
    /\ IF doing[t] \in empty THEN rsp = 0
       ELSE /\ rsp # 0 /\ rsp \notin freed
            /\ content[rsp] = [i \in 1..AnswerLen |-> doing[t]]

\* What a successful request sent is what was signed: its own headers, each of
\* those in the signature, in order, unless there was no memory for one of them;
\* and its body from the start, all of it unless the server did not wait for it.
SentAsSigned ==
  \A t \in Threads : pc[t] = "answered" =>
    LET r == doing[t] IN
    /\ \E n \in 0..length[t] :
         /\ received[r] = [i \in 1..n |-> i]
         /\ r \notin early => n = length[t]
    /\ r \notin starved =>
         sent[r] = HeadersOf(r, signed[r] \o <<"Signature", "Expect">>)

\* A buffer that received an answer, even part of one, is freed once: until
\* then the handle holds it, and no buffer is left when the handle is gone,
\* by which time no thread is in a request.
BuffersOwned ==
  LET allocated == {r \in Request : content[r] # <<>>} IN
  /\ rsp \notin freed
  /\ \A t \in Threads : pc[t] = "transfer" => down \notin freed
  /\ allocated \subseteq freed \cup {rsp} \cup (IF HandleIdle THEN {} ELSE {down})
  /\ phase = "gone" => allocated = freed /\ \A t \in Threads : doing[t] = 0
=============================================================================
