-------------------------- MODULE RestHandleProofs --------------------------
(* Proofs about RestHandle: as long as no two requests overlap, each request is *)
(* answered, sent and freed as one, for any number of requests and events, and *)
(* bodies and answers of every length; and none overlap when the key is asked  *)
(* for at creation.                                                            *)
EXTENDS RestHandle, TLAPS

HeaderName == {"Content-Length", "Content-Type", "Date", "Digest", "Host", "Signature", "Expect"}

\* TypeOK and the types of the variables it leaves out.
Typed ==
  /\ TypeOK /\ events <= recorded
  /\ upload \in [of : 0..MaxRequests, len : 0..MaxBody, off : 0..MaxBody, on : BOOLEAN]
  /\ pc \in [Threads -> Places]
  /\ content \in [Request -> Seq(Nat)] /\ received \in [Request -> Seq(Nat)]
  /\ signed \in [Request -> Seq(HeaderName)]
  /\ sent \in [Request -> Seq([of : Nat, name : HeaderName])]
  /\ headers \in Seq([of : Nat, name : HeaderName])

Busy(t) == pc[t] \notin {"idle", "exit"}

\* No request begins before the one before it is over.
OneAtATime == \A t, u \in Threads : Busy(t) /\ Busy(u) => t = u

\* The owner and the worker are in a request in different phases of the object.
Exclusive ==
  /\ Busy(Owner) => phase \in {"create", "flush"}
  /\ phase = "create" => pc[Worker] = "idle" /\ holding = 0
  /\ phase \in {"flush", "gone"} => pc[Worker] = "exit"
  /\ phase = "gone" => pc[Owner] = "idle"

\* The request under way is the last one made, and the object goes away when
\* there is none.
Apart ==
  /\ OneAtATime
  /\ phase \in {"flush", "gone"} => pc[Worker] = "exit"
  /\ phase = "gone" => pc[Owner] = "idle"
  /\ \A t \in Threads : Busy(t) => doing[t] = made
-----------------------------------------------------------------------------
(* Types *)

LEMMA ThreadTypes ==
  /\ Owner \in Threads /\ Worker \in Threads /\ Owner # Worker
  /\ \A t \in Threads : t = Owner \/ t = Worker
  BY ThreadsAssumption DEF Threads

LEMMA NamesType == ASSUME NEW len PROVE Names(len) \in Seq(HeaderName)
<1>1. ASSUME NEW S, NEW a \in S, NEW b \in S, NEW c \in S
      PROVE  <<a, b>> \in Seq(S) /\ <<a, b, c>> \in Seq(S) /\ <<>> \in Seq(S)
  OBVIOUS
<1>2. /\ "Content-Length" \in HeaderName /\ "Content-Type" \in HeaderName
      /\ "Date" \in HeaderName /\ "Digest" \in HeaderName /\ "Host" \in HeaderName
  BY DEF HeaderName
<1>3. /\ <<"Content-Length", "Content-Type">> \in Seq(HeaderName)
      /\ <<"Date", "Digest", "Host">> \in Seq(HeaderName)
      /\ <<>> \in Seq(HeaderName)
  BY <1>1, <1>2
<1>4. ASSUME NEW s \in Seq(HeaderName), NEW t \in Seq(HeaderName) PROVE s \o t \in Seq(HeaderName)
  OBVIOUS
<1> QED
  BY <1>3, <1>4 DEF Names

LEMMA HeadersType ==
  ASSUME NEW r \in Nat, NEW s \in Seq(HeaderName)
  PROVE  /\ HeadersOf(r, s) \in Seq([of : Nat, name : HeaderName])
         /\ Len(HeadersOf(r, s)) = Len(s)
         /\ \A i \in 1..Len(s) : HeadersOf(r, s)[i] = [of |-> r, name |-> s[i]]
<1>1. DOMAIN s = 1..Len(s) /\ Len(s) \in Nat /\ \A i \in 1..Len(s) : s[i] \in HeaderName
  OBVIOUS
<1>2. HeadersOf(r, s) = [i \in 1..Len(s) |-> [of |-> r, name |-> s[i]]]
  BY <1>1 DEF HeadersOf
<1> QED
  BY <1>1, <1>2

LEMMA InitTyped == Init => Typed
<1> SUFFICES ASSUME Init PROVE Typed
  OBVIOUS
<1>1. TypeOK /\ events <= recorded
  BY BoundsAssumption, ThreadsAssumption DEF Init, TypeOK, Threads, Places
<1>2. /\ upload \in [of : 0..MaxRequests, len : 0..MaxBody, off : 0..MaxBody, on : BOOLEAN]
      /\ pc \in [Threads -> Places]
  BY BoundsAssumption DEF Init, Places
<1>3. /\ content \in [Request -> Seq(Nat)] /\ received \in [Request -> Seq(Nat)]
      /\ signed \in [Request -> Seq(HeaderName)]
  BY DEF Init
<1>4. /\ sent \in [Request -> Seq([of : Nat, name : HeaderName])]
      /\ headers \in Seq([of : Nat, name : HeaderName])
  BY DEF Init
<1> QED
  BY <1>1, <1>2, <1>3, <1>4 DEF Typed

LEMMA StartTyped ==
  ASSUME Typed, NEW t \in Threads, NEW len \in 0..MaxBody, Start(t, len),
         phase' \in {"create", "open", "close", "flush", "gone"},
         events' \in 0..MaxEvents, holding' \in 0..MaxEvents, recorded' \in 0..MaxEvents,
         events' <= recorded'
  PROVE  Typed'
<1>1. /\ pc[t] = "idle" /\ made < MaxRequests /\ made \in Nat
      /\ made' = made + 1
      /\ doing' = [doing EXCEPT ![t] = made + 1] /\ pc' = [pc EXCEPT ![t] = "sign"]
      /\ upload' = [upload EXCEPT !.on = FALSE] /\ length' = [length EXCEPT ![t] = len]
      /\ UNCHANGED <<down, code, content, signed, sent, starved, early, empty, received>>
      /\ headers' = <<>> /\ rsp' = 0
      /\ freed' = IF rsp = 0 THEN freed ELSE freed \cup {rsp}
  BY DEF Start, Reset, Goto, Typed, TypeOK, wireVars
<1>2. made' \in 0..MaxRequests /\ 0..made \subseteq 0..made' /\ 1..made \subseteq 1..made'
      /\ made + 1 \in 0..made'
  BY <1>1, BoundsAssumption
<1>3. pc' \in [Threads -> Places] /\ pc'[t] = "sign" /\ \A u \in Threads \ {t} : pc'[u] = pc[u]
  BY <1>1 DEF Typed, Places
<1>4. doing' \in [Threads -> 0..made'] /\ doing'[t] # 0 /\ \A u \in Threads \ {t} : doing'[u] = doing[u]
  BY <1>1, <1>2 DEF Typed, TypeOK
<1>5. /\ upload' \in [of : 0..MaxRequests, len : 0..MaxBody, off : 0..MaxBody, on : BOOLEAN]
      /\ upload'.of \in 0..made' /\ upload'.len \in 0..MaxBody /\ upload'.off \in 0..MaxBody
      /\ length' \in [Threads -> 0..MaxBody]
  <2>1. /\ upload \in [of : 0..MaxRequests, len : 0..MaxBody, off : 0..MaxBody, on : BOOLEAN]
        /\ length \in [Threads -> 0..MaxBody] /\ upload.of \in 0..made
    BY DEF Typed, TypeOK
  <2>2. upload'.of = upload.of
    BY <1>1, <2>1
  <2> QED
    BY <1>1, <1>2, <2>1, <2>2
<1>6. /\ {down', rsp', code'} \subseteq 0..made' /\ freed' \subseteq 1..made'
      /\ starved' \subseteq 1..made' /\ early' \subseteq 1..made' /\ empty' \subseteq 1..made'
  <2>1. /\ down \in 0..made /\ rsp \in 0..made /\ code \in 0..made
        /\ freed \subseteq 1..made /\ starved \subseteq 1..made
        /\ early \subseteq 1..made /\ empty \subseteq 1..made
    BY DEF Typed, TypeOK
  <2>2. down' \in 0..made' /\ rsp' \in 0..made' /\ code' \in 0..made'
    BY <1>1, <1>2, <2>1
  <2>3. rsp # 0 => rsp \in 1..made
    BY <2>1
  <2>4. /\ freed' \subseteq 1..made' /\ starved' \subseteq 1..made'
        /\ early' \subseteq 1..made' /\ empty' \subseteq 1..made'
    BY <1>1, <1>2, <2>1, <2>3
  <2> QED
    BY <2>2, <2>4
<1>7. pc'[Owner] # "exit" /\ \A u \in Threads : doing'[u] = 0 <=> pc'[u] \in {"idle", "exit"}
  BY <1>3, <1>4, ThreadTypes DEF Typed, TypeOK
<1>8. TypeOK'
  BY <1>2, <1>3, <1>4, <1>5, <1>6, <1>7 DEF TypeOK
<1>9. /\ content' = content /\ received' = received /\ signed' = signed /\ sent' = sent
      /\ headers' \in Seq([of : Nat, name : HeaderName])
  BY <1>1
<1> QED
  BY <1>3, <1>5, <1>8, <1>9 DEF Typed

\* A thread in a request goes on to another place in it.
LEMMA PlaceTyped ==
  ASSUME Typed, NEW t \in Threads, Busy(t), NEW place \in Places \ {"idle", "exit"},
         Goto(t, place), doing' = doing, UNCHANGED useVars
  PROVE  /\ pc' \in [Threads -> Places] /\ pc'[t] = place
         /\ \A u \in Threads \ {t} : pc'[u] = pc[u]
         /\ pc'[Owner] # "exit" /\ \A u \in Threads : doing'[u] = 0 <=> pc'[u] \in {"idle", "exit"}
         /\ doing[t] \in 1..made /\ doing[t] \in Request /\ made' = made /\ made \in 0..MaxRequests
         /\ phase' = phase /\ events' = events /\ holding' = holding
         /\ recorded' = recorded /\ length' = length
<1>1. /\ pc' = [pc EXCEPT ![t] = place] /\ pc \in [Threads -> Places]
      /\ made' = made /\ phase' = phase /\ events' = events /\ holding' = holding
      /\ recorded' = recorded /\ length' = length
  BY DEF Goto, Typed, useVars
<1>2. /\ pc' \in [Threads -> Places] /\ pc'[t] = place /\ \A u \in Threads \ {t} : pc'[u] = pc[u]
  BY <1>1
<1>3. /\ doing \in [Threads -> 0..made] /\ doing[t] # 0 /\ made \in 0..MaxRequests
      /\ \A u \in Threads : doing[u] = 0 <=> pc[u] \in {"idle", "exit"}
      /\ pc[Owner] # "exit"
  BY DEF Typed, TypeOK, Busy
<1>4. doing[t] \in 1..made /\ doing[t] \in Request
  BY <1>3, BoundsAssumption DEF Request
<1>5. pc'[Owner] # "exit" /\ \A u \in Threads : doing'[u] = 0 <=> pc'[u] \in {"idle", "exit"}
  BY <1>2, <1>3, ThreadTypes
<1> QED
  BY <1>1, <1>2, <1>3, <1>4, <1>5

LEMMA SignTyped ==
  ASSUME Typed, NEW t \in Threads, Sign(t)
  PROVE  Typed'
<1> DEFINE r == doing[t]
<1> DEFINE names == Names(length[t])
<1>1. PICK n \in 0..Len(names) :
        /\ signed' = [signed EXCEPT ![r] = SubSeq(names, 1, IF n < Len(names) THEN n + 1 ELSE n)]
        /\ starved' = IF n < Len(names) THEN starved \cup {r} ELSE starved
        /\ \/ /\ headers' = headers \o HeadersOf(r, Append(SubSeq(names, 1, n), "Signature"))
              /\ Goto(t, "perform")
           \/ /\ headers' = headers \o HeadersOf(r, SubSeq(names, 1, n))
              /\ Goto(t, "failed")
  BY DEF Sign
<1>2. /\ Busy(t) /\ doing' = doing /\ UNCHANGED useVars
      /\ UNCHANGED <<upload, down, rsp, code, content, freed, sent, early, empty, received>>
  BY DEF Sign, Busy
<1>3. PICK place \in {"perform", "failed"} : Goto(t, place)
  BY <1>1
<1>4. /\ pc' \in [Threads -> Places]
      /\ pc'[Owner] # "exit" /\ \A u \in Threads : doing'[u] = 0 <=> pc'[u] \in {"idle", "exit"}
      /\ r \in 1..made /\ r \in Request /\ made' = made /\ made \in 0..MaxRequests
      /\ phase' = phase /\ events' = events /\ holding' = holding
      /\ recorded' = recorded /\ length' = length
  BY <1>2, <1>3, PlaceTyped DEF Places
<1>5. TypeOK'
  BY <1>1, <1>2, <1>4 DEF Typed, TypeOK
<1>6. names \in Seq(HeaderName)
  BY NamesType
<1> HIDE DEF names
<1>7. ASSUME NEW S, NEW q \in Seq(S), NEW k \in 0..Len(q), NEW e \in S
      PROVE  /\ SubSeq(q, 1, k) \in Seq(S) /\ Append(SubSeq(q, 1, k), e) \in Seq(S)
             /\ (k < Len(q) => SubSeq(q, 1, k + 1) \in Seq(S))
  OBVIOUS
<1>8. /\ SubSeq(names, 1, n) \in Seq(HeaderName)
      /\ Append(SubSeq(names, 1, n), "Signature") \in Seq(HeaderName)
      /\ SubSeq(names, 1, IF n < Len(names) THEN n + 1 ELSE n) \in Seq(HeaderName)
  BY <1>6, <1>7 DEF HeaderName
<1>9. signed' \in [Request -> Seq(HeaderName)]
  BY <1>1, <1>4, <1>8 DEF Typed
<1>10. headers' \in Seq([of : Nat, name : HeaderName])
  <2>1. r \in Nat
    BY <1>4
  <2>2. /\ HeadersOf(r, Append(SubSeq(names, 1, n), "Signature")) \in Seq([of : Nat, name : HeaderName])
        /\ HeadersOf(r, SubSeq(names, 1, n)) \in Seq([of : Nat, name : HeaderName])
    BY <1>8, <2>1, HeadersType
  <2>3. ASSUME NEW S, NEW a \in Seq(S), NEW b \in Seq(S) PROVE a \o b \in Seq(S)
    OBVIOUS
  <2>4. headers \in Seq([of : Nat, name : HeaderName])
    BY DEF Typed
  <2> QED
    BY <1>1, <2>2, <2>3, <2>4
<1> QED
  BY <1>2, <1>4, <1>5, <1>9, <1>10 DEF Typed

LEMMA PerformTyped ==
  ASSUME Typed, NEW t \in Threads, Perform(t)
  PROVE  Typed'
<1>1. /\ Busy(t) /\ Goto(t, "transfer") /\ doing' = doing /\ UNCHANGED useVars
      /\ headers' = Append(headers, [of |-> doing[t], name |-> "Expect"])
      /\ upload' = IF length[t] > 0
                   THEN [of |-> doing[t], len |-> length[t], off |-> 0, on |-> TRUE]
                   ELSE upload
      /\ sent' = [sent EXCEPT ![doing[t]] = headers']
      /\ down' = 0 /\ code' = 0
      /\ UNCHANGED <<rsp, content, freed, signed, starved, early, empty, received>>
  BY DEF Perform, Busy
<1>2. /\ pc' \in [Threads -> Places]
      /\ pc'[Owner] # "exit" /\ \A u \in Threads : doing'[u] = 0 <=> pc'[u] \in {"idle", "exit"}
      /\ doing[t] \in 1..made /\ doing[t] \in Request /\ made' = made /\ made \in 0..MaxRequests
      /\ phase' = phase /\ events' = events /\ holding' = holding
      /\ recorded' = recorded /\ length' = length
  BY <1>1, PlaceTyped DEF Places
<1>3. /\ upload'.of \in 0..made /\ upload'.len \in 0..MaxBody /\ upload'.off \in 0..MaxBody
      /\ upload' \in [of : 0..MaxRequests, len : 0..MaxBody, off : 0..MaxBody, on : BOOLEAN]
  <2>1. /\ length[t] \in 0..MaxBody /\ 0 \in 0..MaxBody
        /\ doing[t] \in 0..made /\ doing[t] \in 0..MaxRequests
        /\ upload \in [of : 0..MaxRequests, len : 0..MaxBody, off : 0..MaxBody, on : BOOLEAN]
        /\ upload.of \in 0..made
    BY <1>2, BoundsAssumption DEF Typed, TypeOK, Request
  <2> QED
    BY <1>1, <2>1
<1>4. TypeOK'
  <2>1. {down', rsp', code'} \subseteq 0..made
    BY <1>1, <1>2 DEF Typed, TypeOK
  <2> QED
    BY <1>1, <1>2, <1>3, <2>1 DEF Typed, TypeOK
<1>5. headers' \in Seq([of : Nat, name : HeaderName])
  <2>1. [of |-> doing[t], name |-> "Expect"] \in [of : Nat, name : HeaderName]
    BY <1>2 DEF HeaderName
  <2>2. ASSUME NEW S, NEW a \in Seq(S), NEW e \in S PROVE Append(a, e) \in Seq(S)
    OBVIOUS
  <2>3. headers \in Seq([of : Nat, name : HeaderName])
    BY DEF Typed
  <2> QED
    BY <1>1, <2>1, <2>2, <2>3
<1>6. sent' \in [Request -> Seq([of : Nat, name : HeaderName])]
  BY <1>1, <1>2, <1>5 DEF Typed
<1> QED
  BY <1>1, <1>2, <1>3, <1>4, <1>5, <1>6 DEF Typed

LEMMA UploadTyped ==
  ASSUME Typed, NEW t \in Threads, Upload(t)
  PROVE  Typed'
<1>1. PICK n \in 1..(upload.len - upload.off) :
        /\ received' = [received EXCEPT ![upload.of] = @ \o [i \in 1..n |-> upload.off + i]]
        /\ upload' = [upload EXCEPT !.off = @ + n]
  BY DEF Upload
<1>2. UNCHANGED <<headers, down, rsp, code, content, freed, signed, sent, starved, early, empty,
                  phase, events, holding, recorded, made, length, pc, doing>>
  BY DEF Upload, useVars
<1>3. /\ upload \in [of : 0..MaxRequests, len : 0..MaxBody, off : 0..MaxBody, on : BOOLEAN]
      /\ upload.of \in 0..made /\ upload.len \in Nat /\ upload.off \in Nat
  BY BoundsAssumption DEF Typed, TypeOK
<1>4. n \in Nat /\ upload.off + n \in 0..MaxBody
  BY <1>3, BoundsAssumption
<1>5. /\ upload' \in [of : 0..MaxRequests, len : 0..MaxBody, off : 0..MaxBody, on : BOOLEAN]
      /\ upload'.of = upload.of
  BY <1>1, <1>3, <1>4
<1>6. received' \in [Request -> Seq(Nat)]
  <2>1. [i \in 1..n |-> upload.off + i] \in Seq(Nat)
    BY <1>3, <1>4
  <2>2. ASSUME NEW a \in Seq(Nat), NEW b \in Seq(Nat) PROVE a \o b \in Seq(Nat)
    OBVIOUS
  <2>3. received \in [Request -> Seq(Nat)]
    BY DEF Typed
  <2>4. upload.of \in Request => received[upload.of] \o [i \in 1..n |-> upload.off + i] \in Seq(Nat)
    BY <2>1, <2>2, <2>3
  <2> QED
    BY <1>1, <2>3, <2>4
<1>7. TypeOK'
  BY <1>2, <1>3, <1>5 DEF Typed, TypeOK
<1> QED
  BY <1>2, <1>5, <1>6, <1>7 DEF Typed

LEMMA DownloadTyped ==
  ASSUME Typed, NEW t \in Threads, Download(t)
  PROVE  Typed'
<1> DEFINE b == IF down = 0 THEN doing[t] ELSE down
<1>1. /\ down' = b /\ code' = code
      /\ content' = [content EXCEPT ![b] = Append(@, doing[t])]
      /\ UNCHANGED <<headers, upload, rsp, freed, signed, sent, starved, early, empty, received,
                     phase, events, holding, recorded, made, length, pc, doing>>
  BY DEF Download, wireVars, useVars
<1>2. /\ doing[t] \in 0..made /\ down \in 0..made /\ rsp \in 0..made /\ code \in 0..made
      /\ made \in Nat
  BY BoundsAssumption DEF Typed, TypeOK
<1>3. {down', rsp', code'} \subseteq 0..made
  BY <1>1, <1>2
<1>4. content' \in [Request -> Seq(Nat)]
  <2>1. doing[t] \in Nat /\ content \in [Request -> Seq(Nat)]
    BY <1>2 DEF Typed
  <2>2. b \in Request => Append(content[b], doing[t]) \in Seq(Nat)
    BY <2>1
  <2> HIDE DEF b
  <2> QED
    BY <1>1, <2>1, <2>2
<1>5. TypeOK'
  BY <1>1, <1>3 DEF Typed, TypeOK
<1> QED
  BY <1>1, <1>4, <1>5 DEF Typed

LEMMA StatusTyped ==
  ASSUME Typed, NEW t \in Threads, Status(t)
  PROVE  Typed'
<1>1. /\ pc[t] = "transfer" /\ code' = doing[t]
      /\ early' \subseteq early \cup {doing[t]} /\ empty' \subseteq empty \cup {doing[t]}
      /\ UNCHANGED <<headers, upload, down, rsp, content, freed, signed, sent, starved, received,
                     phase, events, holding, recorded, made, length, pc, doing>>
  BY DEF Status, useVars
<1>2. /\ doing[t] \in 0..made /\ doing[t] # 0 /\ down \in 0..made /\ rsp \in 0..made
      /\ early \subseteq 1..made /\ empty \subseteq 1..made /\ made \in Nat
  <2>1. doing[t] \in 0..made /\ (doing[t] = 0 <=> pc[t] \in {"idle", "exit"})
    BY DEF Typed, TypeOK
  <2>2. /\ {down, rsp, code} \subseteq 0..made /\ made \in 0..MaxRequests
        /\ early \subseteq 1..made /\ empty \subseteq 1..made
    BY DEF Typed, TypeOK
  <2> QED
    BY <1>1, <2>1, <2>2, BoundsAssumption
<1>3. /\ {down', rsp', code'} \subseteq 0..made
      /\ early' \subseteq 1..made /\ empty' \subseteq 1..made
  BY <1>1, <1>2
<1>4. TypeOK'
  BY <1>1, <1>3 DEF Typed, TypeOK
<1> QED
  BY <1>1, <1>4 DEF Typed

\* The places after a transfer, and those a request that fails leaves for.
LEMMA MoveTyped ==
  ASSUME Typed, NEW t \in Threads, Busy(t), NEW place \in Places \ {"idle", "exit"},
         Goto(t, place), doing' = doing, UNCHANGED useVars,
         UNCHANGED <<headers, upload, down, code, content, freed, wireVars>>,
         rsp' \in {rsp, down}
  PROVE  Typed'
<1>1. /\ pc' \in [Threads -> Places]
      /\ pc'[Owner] # "exit" /\ \A u \in Threads : doing'[u] = 0 <=> pc'[u] \in {"idle", "exit"}
      /\ made' = made /\ made \in 0..MaxRequests
      /\ phase' = phase /\ events' = events /\ holding' = holding
      /\ recorded' = recorded /\ length' = length
  BY PlaceTyped
<1>2. UNCHANGED <<headers, upload, down, code, content, freed, signed, sent, starved, early, empty,
                  received>>
  BY DEF wireVars
<1>3. {down', rsp', code'} \subseteq 0..made
  BY <1>2 DEF Typed, TypeOK
<1>4. TypeOK'
  BY <1>1, <1>2, <1>3 DEF Typed, TypeOK
<1>5. /\ events' <= recorded'
      /\ upload' \in [of : 0..MaxRequests, len : 0..MaxBody, off : 0..MaxBody, on : BOOLEAN]
  BY <1>1, <1>2 DEF Typed
<1>6. /\ content' \in [Request -> Seq(Nat)] /\ received' \in [Request -> Seq(Nat)]
      /\ signed' \in [Request -> Seq(HeaderName)]
      /\ sent' \in [Request -> Seq([of : Nat, name : HeaderName])]
      /\ headers' \in Seq([of : Nat, name : HeaderName])
  BY <1>2 DEF Typed
<1> QED
  BY <1>1, <1>4, <1>5, <1>6 DEF Typed

\* The thread's request is over, or it leaves.
LEMMA RestTyped ==
  ASSUME Typed, NEW t \in Threads, NEW place \in {"idle", "exit"}, t = Owner => place = "idle",
         Goto(t, place), doing' = [doing EXCEPT ![t] = 0],
         phase' \in {"create", "open", "close", "flush", "gone"}, made' = made,
         length' \in {length, [length EXCEPT ![t] = 0]},
         Forget(doing[t]) \/ UNCHANGED wireVars,
         UNCHANGED <<handleVars, events, holding, recorded>>
  PROVE  Typed'
<1>1. UNCHANGED <<headers, upload, down, rsp, code, content, freed, events, holding, recorded, made>>
  BY DEF handleVars
<1>2. /\ pc' = [pc EXCEPT ![t] = place] /\ pc \in [Threads -> Places]
      /\ doing \in [Threads -> 0..made] /\ made \in 0..MaxRequests
  BY DEF Goto, Typed, TypeOK
<1>3. /\ pc' \in [Threads -> Places] /\ pc'[t] = place /\ \A u \in Threads \ {t} : pc'[u] = pc[u]
  BY <1>2 DEF Places
<1>4. /\ doing' \in [Threads -> 0..made] /\ doing'[t] = 0
      /\ \A u \in Threads \ {t} : doing'[u] = doing[u]
  BY <1>2, BoundsAssumption
<1>5. pc'[Owner] # "exit" /\ \A u \in Threads : doing'[u] = 0 <=> pc'[u] \in {"idle", "exit"}
  BY <1>3, <1>4, ThreadTypes DEF Typed, TypeOK
<1>6. length' \in [Threads -> 0..MaxBody]
  <2>1. length \in [Threads -> 0..MaxBody] /\ 0 \in 0..MaxBody
    BY BoundsAssumption DEF Typed, TypeOK
  <2> QED
    BY <2>1
<1>7. /\ starved' \subseteq starved /\ early' \subseteq early /\ empty' \subseteq empty
      /\ received' \in [Request -> Seq(Nat)] /\ signed' \in [Request -> Seq(HeaderName)]
      /\ sent' \in [Request -> Seq([of : Nat, name : HeaderName])]
  <2>1. CASE UNCHANGED wireVars
    BY <2>1 DEF wireVars, Typed
  <2>2. CASE Forget(doing[t])
    <3>1. ASSUME NEW S PROVE <<>> \in Seq(S)
      OBVIOUS
    <3>2. /\ received \in [Request -> Seq(Nat)] /\ signed \in [Request -> Seq(HeaderName)]
          /\ sent \in [Request -> Seq([of : Nat, name : HeaderName])]
      BY DEF Typed
    <3>3. ASSUME NEW S, NEW f \in [Request -> Seq(S)], NEW r
          PROVE  [f EXCEPT ![r] = <<>>] \in [Request -> Seq(S)]
      BY <3>1
    <3> QED
      BY <2>2, <3>2, <3>3 DEF Forget
  <2> QED
    BY <2>1, <2>2
<1>8. TypeOK'
  BY <1>1, <1>3, <1>4, <1>5, <1>6, <1>7 DEF Typed, TypeOK
<1> QED
  BY <1>1, <1>3, <1>7, <1>8 DEF Typed

\* The owner's own steps leave the handle alone.
LEMMA OwnerTyped ==
  ASSUME Typed, UNCHANGED <<handleVars, wireVars, made, length, pc, doing>>,
         phase' \in {"create", "open", "close", "flush", "gone"},
         events' \in 0..MaxEvents, holding' \in 0..MaxEvents, recorded' \in 0..MaxEvents,
         events' <= recorded'
  PROVE  Typed'
<1>1. UNCHANGED <<headers, upload, down, rsp, code, content, freed, signed, sent, starved,
                  early, empty, received, made, length, pc, doing>>
  BY DEF handleVars, wireVars
<1>2. TypeOK'
  BY <1>1 DEF Typed, TypeOK
<1> QED
  BY <1>1, <1>2 DEF Typed

LEMMA DestroyTyped == ASSUME Typed, Destroy PROVE Typed'
<1>1. /\ UNCHANGED <<down, code, content, signed, sent, starved, early, empty, received,
                     events, holding, recorded, made, length, pc, doing>>
      /\ phase' = "gone" /\ headers' = <<>> /\ rsp' = 0 /\ upload' = [upload EXCEPT !.on = FALSE]
      /\ freed' = IF rsp = 0 THEN freed ELSE freed \cup {rsp}
  BY DEF Destroy, Reset, wireVars
<1>2. /\ down \in 0..made /\ rsp \in 0..made /\ code \in 0..made /\ freed \subseteq 1..made
      /\ made \in Nat
  BY BoundsAssumption DEF Typed, TypeOK
<1>3. {down', rsp', code'} \subseteq 0..made /\ freed' \subseteq 1..made
  BY <1>1, <1>2
<1>6. /\ upload' \in [of : 0..MaxRequests, len : 0..MaxBody, off : 0..MaxBody, on : BOOLEAN]
      /\ upload'.of = upload.of /\ upload'.len = upload.len /\ upload'.off = upload.off
  BY <1>1 DEF Typed
<1>4. TypeOK'
  BY <1>1, <1>3, <1>6 DEF Typed, TypeOK
<1>5. headers' \in Seq([of : Nat, name : HeaderName])
  BY <1>1
<1> QED
  BY <1>1, <1>4, <1>5, <1>6 DEF Typed

LEMMA NextTyped == Typed /\ [Next]_vars => Typed'
<1> SUFFICES ASSUME Typed, [Next]_vars PROVE Typed'
  OBVIOUS
<1>0. /\ phase \in {"create", "open", "close", "flush", "gone"}
      /\ events <= recorded
      /\ events \in 0..MaxEvents /\ holding \in 0..MaxEvents /\ recorded \in 0..MaxEvents
      /\ 0 \in 0..MaxEvents /\ MaxEvents \in Nat
      /\ doing \in [Threads -> 0..made]
      /\ \A t \in Threads : doing[t] = 0 <=> pc[t] \in {"idle", "exit"}
  BY BoundsAssumption DEF Typed, TypeOK
<1>1. ASSUME NEW len \in 0..MaxBody, Ask(len) \/ Flush(len) \/ Post(len) PROVE Typed'
  <2>1. /\ phase' = phase /\ recorded' = recorded /\ events' \in 0..MaxEvents
        /\ holding' \in 0..MaxEvents /\ events' <= recorded'
        /\ Start(Owner, len) \/ Start(Worker, len)
    BY <1>0, <1>1 DEF Ask, Flush, Post
  <2> QED
    BY <1>0, <2>1, StartTyped, ThreadTypes
<1>2. ASSUME NEW t \in Threads, Sign(t) \/ Perform(t) \/ Upload(t) \/ Status(t) \/ Download(t)
      PROVE  Typed'
  BY <1>2, SignTyped, PerformTyped, UploadTyped, StatusTyped, DownloadTyped
<1>3. ASSUME NEW t \in Threads,
             FailToPerform(t) \/ Finish(t) \/ Abort(t) \/ ReadCode(t) \/ ReadContent(t)
      PROVE  Typed'
  <2>1. PICK place \in {"failed", "answered", "return", "read"} : Goto(t, place)
    BY <1>3 DEF FailToPerform, Finish, Abort, ReadCode, ReadContent, Publish
  <2>2. place \in Places \ {"idle", "exit"}
    BY <2>1 DEF Places
  <2>3. Busy(t) /\ doing' = doing /\ UNCHANGED useVars
    BY <1>3 DEF FailToPerform, Finish, Abort, ReadCode, ReadContent, Busy
  <2>4. /\ UNCHANGED <<headers, upload, down, code, content, freed, wireVars>>
        /\ rsp' \in {rsp, down}
    BY <1>3 DEF FailToPerform, Finish, Abort, ReadCode, ReadContent, Publish, handleVars
  <2> QED
    BY <2>1, <2>2, <2>3, <2>4, MoveTyped
<1>4. ASSUME NEW t \in Threads, Return(t) PROVE Typed'
  <2>1. /\ Goto(t, "idle") /\ doing' = [doing EXCEPT ![t] = 0] /\ made' = made
        /\ length' = [length EXCEPT ![t] = 0] /\ Forget(doing[t])
        /\ UNCHANGED <<handleVars, events, holding, recorded>>
        /\ phase' \in {"create", "open", "close", "flush", "gone"}
    BY <1>0, <1>4 DEF Return
  <2> QED
    BY <2>1, RestTyped
<1>5. CASE Leave
  <2>1. /\ Goto(Worker, "exit") /\ doing' = doing /\ pc[Worker] = "idle"
        /\ made' = made /\ phase' = phase /\ length' = length
        /\ UNCHANGED <<handleVars, wireVars, events, holding, recorded>>
    BY <1>5 DEF Leave, useVars
  <2>2. doing' = [doing EXCEPT ![Worker] = 0]
    BY <1>0, <2>1, ThreadTypes
  <2> QED
    BY <1>0, <2>1, <2>2, RestTyped, ThreadTypes
<1>6. CASE Record \/ Take \/ Close \/ Join
  <2>1. /\ UNCHANGED <<handleVars, wireVars, made, length, pc, doing>>
        /\ phase' \in {"create", "open", "close", "flush", "gone"}
    BY <1>0, <1>6 DEF Record, Take, Close, Join, Onward
  <2>2. \/ events' = events /\ holding' = holding /\ recorded' = recorded
        \/ events' = 0 /\ holding' = events /\ recorded' = recorded
        \/ recorded' = recorded + 1 /\ events' = events + 1 /\ recorded < MaxEvents
           /\ holding' = holding
    BY <1>6 DEF Record, Take, Close, Join, Onward
  <2>3. /\ events' \in 0..MaxEvents /\ holding' \in 0..MaxEvents /\ recorded' \in 0..MaxEvents
        /\ events' <= recorded'
    BY <1>0, <2>2
  <2> QED
    BY <2>1, <2>3, OwnerTyped
<1>7. CASE Destroy
  BY <1>7, DestroyTyped
<1>8. CASE Gone \/ UNCHANGED vars
  BY <1>0, <1>8, OwnerTyped DEF Gone, vars, useVars
<1> QED
  BY <1>1, <1>2, <1>3, <1>4, <1>5, <1>6, <1>7, <1>8 DEF Next, Transfer
-----------------------------------------------------------------------------
(* Exclusion *)

\* The phases keep the requests apart.
LEMMA ExclusiveAlone == Exclusive => OneAtATime
  BY ThreadTypes DEF Exclusive, Busy, OneAtATime

LEMMA InitExclusive == ASSUME KeysAtCreation PROVE Init => Exclusive
  BY ThreadTypes DEF Init, Exclusive, Busy

LEMMA StartExclusive ==
  ASSUME KeysAtCreation, Typed, Exclusive, NEW len, Ask(len) \/ Flush(len) \/ Post(len)
  PROVE  Exclusive'
<1>1. PICK t \in Threads : /\ Start(t, len) /\ phase' = phase /\ phase # "gone"
                           /\ t = Owner => phase \in {"create", "flush"} /\ holding' = holding
                           /\ t = Worker => holding > 0
  <2>1. CASE Ask(len) \/ Flush(len)
    BY <2>1, ThreadTypes DEF Ask, Flush
  <2>2. CASE Post(len)
    BY <2>2, ThreadTypes DEF Post, Start, Exclusive
  <2> QED
    BY <2>1, <2>2
<1>2. pc' = [pc EXCEPT ![t] = "sign"] /\ pc[t] = "idle"
  BY <1>1 DEF Start, Goto
<1>3. pc'[t] = "sign" /\ \A u \in Threads \ {t} : pc'[u] = pc[u]
  BY <1>2 DEF Typed, TypeOK
<1> QED
  BY <1>1, <1>2, <1>3, ThreadTypes DEF Exclusive, Busy, Typed, TypeOK

LEMMA NextExclusive == KeysAtCreation /\ Typed /\ Exclusive /\ [Next]_vars => Exclusive'
<1> SUFFICES ASSUME KeysAtCreation, Typed, Exclusive, [Next]_vars PROVE Exclusive'
  OBVIOUS
<1>1. ASSUME NEW len \in 0..MaxBody, Ask(len) \/ Flush(len) \/ Post(len) PROVE Exclusive'
  BY <1>1, StartExclusive
<1>2. ASSUME NEW t \in Threads,
             \/ Sign(t) \/ Perform(t)
             \/ FailToPerform(t) \/ Finish(t) \/ Abort(t) \/ ReadCode(t) \/ ReadContent(t)
      PROVE  Exclusive'
  <2>1. PICK place \in {"perform", "transfer", "failed", "answered", "return", "read"} :
          Goto(t, place)
    BY <1>2 DEF Sign, Perform, FailToPerform, Finish, Abort, ReadCode, ReadContent, Publish
  <2>2. place \in Places \ {"idle", "exit"}
    BY <2>1 DEF Places
  <2>3. Busy(t) /\ doing' = doing /\ UNCHANGED useVars
    BY <1>2 DEF Sign, Perform, FailToPerform, Finish, Abort, ReadCode, ReadContent, Busy
  <2>4. /\ pc'[t] = place /\ \A u \in Threads \ {t} : pc'[u] = pc[u]
        /\ phase' = phase /\ holding' = holding
    BY <2>1, <2>2, <2>3, PlaceTyped
  <2> QED
    BY <2>2, <2>3, <2>4, ThreadTypes DEF Exclusive, Busy
<1>3. ASSUME NEW t \in Threads, Upload(t) \/ Status(t) \/ Download(t) PROVE Exclusive'
  BY <1>3 DEF Upload, Status, Download, useVars, Exclusive, Busy
<1>4. ASSUME NEW t \in Threads, Return(t) PROVE Exclusive'
  <2>1. /\ pc[t] \in {"return", "failed"} /\ pc' = [pc EXCEPT ![t] = "idle"] /\ holding' = holding
        /\ phase' = CASE phase = "create" /\ pc[t] = "return" -> "open"
                      [] phase = "create" /\ pc[t] = "failed" -> "close"
                      [] OTHER -> phase
    BY <1>4 DEF Return, Goto
  <2>2. pc'[t] = "idle" /\ \A u \in Threads \ {t} : pc'[u] = pc[u]
    BY <2>1 DEF Typed
  <2>3. Busy(t) /\ holding' = holding
        /\ (phase' = phase \/ (phase = "create" /\ phase' \in {"open", "close"}))
    BY <2>1 DEF Busy
  <2>4. CASE t = Owner
    BY <2>2, <2>3, <2>4, ThreadTypes DEF Exclusive, Busy
  <2>5. CASE t = Worker
    BY <2>2, <2>3, <2>5, ThreadTypes DEF Exclusive, Busy
  <2> QED
    BY <2>4, <2>5, ThreadTypes
<1>5. CASE Leave
  <2>1. /\ pc' = [pc EXCEPT ![Worker] = "exit"] /\ phase' = phase
        /\ phase \notin {"create", "open"}
    BY <1>5 DEF Leave, Goto, useVars
  <2>2. pc'[Worker] = "exit" /\ pc'[Owner] = pc[Owner]
    BY <2>1, ThreadTypes DEF Typed
  <2> QED
    BY <2>1, <2>2, ThreadTypes DEF Exclusive, Busy
<1>6. CASE Record \/ Take \/ Close \/ Join \/ Destroy
  BY <1>6, ThreadTypes DEF Record, Take, Close, Join, Onward, Destroy, Exclusive, Busy
<1>7. CASE Gone \/ UNCHANGED vars
  BY <1>7 DEF Gone, vars, useVars, Exclusive, Busy
<1> QED
  BY <1>1, <1>2, <1>3, <1>4, <1>5, <1>6, <1>7 DEF Next, Transfer

\* A request that overlaps no other begins when no other is under way.
LEMMA StartAlone ==
  ASSUME Typed, OneAtATime', NEW len, Ask(len) \/ Flush(len) \/ Post(len)
  PROVE  /\ \A u \in Threads : ~Busy(u)
         /\ \E t \in Threads : Start(t, len) /\ phase' = phase
<1>1. PICK t \in Threads : Start(t, len) /\ phase' = phase
  BY ThreadTypes DEF Ask, Flush, Post
<1>2. /\ pc[t] = "idle" /\ pc'[t] = "sign" /\ \A u \in Threads \ {t} : pc'[u] = pc[u]
  BY <1>1 DEF Start, Goto, Typed
<1>3. \A u \in Threads : ~Busy(u)
  BY <1>2 DEF OneAtATime, Busy
<1> QED
  BY <1>1, <1>3

LEMMA NextApart == Typed /\ Apart /\ [Next]_vars /\ OneAtATime' => Apart'
<1> SUFFICES ASSUME Typed, Apart, [Next]_vars, OneAtATime' PROVE Apart'
  OBVIOUS
<1>1. ASSUME NEW len \in 0..MaxBody, Ask(len) \/ Flush(len) \/ Post(len) PROVE Apart'
  <2>1. PICK t \in Threads : /\ Start(t, len) /\ phase' = phase /\ pc[t] = "idle"
                             /\ phase \in {"flush", "gone"} => t = Owner
                             /\ phase # "gone"
    <3>1. CASE Ask(len) \/ Flush(len)
      BY <3>1, ThreadTypes DEF Ask, Flush, Start
    <3>2. CASE Post(len)
      <4>1. pc[Worker] = "idle" /\ Start(Worker, len) /\ phase' = phase
        BY <3>2 DEF Post, Start
      <4> QED
        BY <4>1, ThreadTypes DEF Apart
    <3> QED
      BY <1>1, <3>1, <3>2
  <2>2. /\ pc' = [pc EXCEPT ![t] = "sign"] /\ doing' = [doing EXCEPT ![t] = made + 1]
        /\ made' = made + 1
    BY <2>1 DEF Start, Goto
  <2>3. pc'[t] = "sign" /\ doing'[t] = made' /\ \A u \in Threads \ {t} : pc'[u] = pc[u]
    BY <2>2 DEF Typed, TypeOK
  <2>4. \A u \in Threads : Busy(u)' => u = t
    BY <2>3 DEF OneAtATime, Busy
  <2> QED
    BY <2>1, <2>3, <2>4, ThreadTypes DEF Apart
<1>2. ASSUME NEW t \in Threads,
             \/ Sign(t) \/ Perform(t)
             \/ FailToPerform(t) \/ Finish(t) \/ Abort(t) \/ ReadCode(t) \/ ReadContent(t)
      PROVE  Apart'
  <2>1. PICK place \in {"perform", "transfer", "failed", "answered", "return", "read"} :
          Goto(t, place)
    BY <1>2 DEF Sign, Perform, FailToPerform, Finish, Abort, ReadCode, ReadContent, Publish
  <2>2. place \in Places \ {"idle", "exit"}
    BY <2>1 DEF Places
  <2>3. Busy(t) /\ doing' = doing /\ UNCHANGED useVars
    BY <1>2 DEF Sign, Perform, FailToPerform, Finish, Abort, ReadCode, ReadContent, Busy
  <2>4. /\ pc'[t] = place /\ \A u \in Threads \ {t} : pc'[u] = pc[u]
        /\ phase' = phase /\ made' = made
    BY <2>1, <2>2, <2>3, PlaceTyped
  <2> QED
    BY <2>2, <2>3, <2>4, ThreadTypes DEF Apart, Busy
<1>3. ASSUME NEW t \in Threads, Upload(t) \/ Status(t) \/ Download(t) PROVE Apart'
  BY <1>3 DEF Upload, Status, Download, useVars, Apart, Busy
<1>4. ASSUME NEW t \in Threads, Return(t) PROVE Apart'
  <2>1. /\ pc[t] \in {"return", "failed"} /\ pc' = [pc EXCEPT ![t] = "idle"]
        /\ doing' = [doing EXCEPT ![t] = 0] /\ made' = made
        /\ phase' = CASE phase = "create" /\ pc[t] = "return" -> "open"
                      [] phase = "create" /\ pc[t] = "failed" -> "close"
                      [] OTHER -> phase
    BY <1>4 DEF Return, Goto
  <2>2. /\ pc'[t] = "idle" /\ \A u \in Threads \ {t} : pc'[u] = pc[u]
        /\ \A u \in Threads \ {t} : doing'[u] = doing[u]
    BY <2>1 DEF Typed, TypeOK
  <2>3. Busy(t) /\ (phase' = phase \/ phase' \in {"open", "close"})
    BY <2>1 DEF Busy
  <2> QED
    BY <2>1, <2>2, <2>3, ThreadTypes DEF Apart, Busy
<1>5. CASE Leave
  <2>1. /\ pc' = [pc EXCEPT ![Worker] = "exit"] /\ doing' = doing /\ made' = made
        /\ phase' = phase
    BY <1>5 DEF Leave, Goto, useVars
  <2>2. pc'[Worker] = "exit" /\ pc'[Owner] = pc[Owner]
    BY <2>1, ThreadTypes DEF Typed
  <2> QED
    BY <2>1, <2>2, ThreadTypes DEF Apart, Busy
<1>6. CASE Record \/ Take \/ Close \/ Join \/ Destroy
  BY <1>6, ThreadTypes DEF Record, Take, Close, Join, Onward, Destroy, Apart, Busy
<1>7. CASE Gone \/ UNCHANGED vars
  BY <1>7 DEF Gone, vars, useVars, Apart, Busy
<1> QED
  BY <1>1, <1>2, <1>3, <1>4, <1>5, <1>6, <1>7 DEF Next, Transfer
-----------------------------------------------------------------------------
(* Lemmas on the pieces of headers, bodies and answers *)

\* The headers of an upload are those added before, with one more.
LEMMA HeadersJoin ==
  ASSUME NEW r \in Nat, NEW s \in Seq(HeaderName)
  PROVE  Append(HeadersOf(r, Append(s, "Signature")), [of |-> r, name |-> "Expect"])
           = HeadersOf(r, s \o <<"Signature", "Expect">>)
<1>1. "Signature" \in HeaderName /\ "Expect" \in HeaderName
  BY DEF HeaderName
<1>2. ASSUME NEW S, NEW q \in Seq(S), NEW a \in S, NEW b \in S
      PROVE  q \o <<a, b>> = Append(Append(q, a), b)
             /\ Append(q, a) \in Seq(S) /\ Append(Append(q, a), b) \in Seq(S)
  OBVIOUS
<1>3. /\ s \o <<"Signature", "Expect">> = Append(Append(s, "Signature"), "Expect")
      /\ Append(s, "Signature") \in Seq(HeaderName)
  BY <1>1, <1>2
<1>4. ASSUME NEW q \in Seq(HeaderName), NEW e \in HeaderName
      PROVE  Append(HeadersOf(r, q), [of |-> r, name |-> e]) = HeadersOf(r, Append(q, e))
  <2>1. /\ HeadersOf(r, q) = [i \in 1..Len(q) |-> [of |-> r, name |-> q[i]]]
        /\ Len(q) \in Nat /\ Len(HeadersOf(r, q)) = Len(q)
    <3>1. DOMAIN q = 1..Len(q) /\ Len(q) \in Nat
      OBVIOUS
    <3> QED
      BY <3>1 DEF HeadersOf
  <2>2. /\ DOMAIN Append(q, e) = 1..(Len(q) + 1)
        /\ \A i \in 1..(Len(q) + 1) : Append(q, e)[i] = IF i = Len(q) + 1 THEN e ELSE q[i]
    OBVIOUS
  <2>3. HeadersOf(r, Append(q, e)) = [i \in 1..(Len(q) + 1) |->
          [of |-> r, name |-> IF i = Len(q) + 1 THEN e ELSE q[i]]]
    BY <2>2 DEF HeadersOf
  <2>4. ASSUME NEW k \in Nat, NEW f, NEW x
        PROVE  Append([i \in 1..k |-> f[i]], x) = [i \in 1..(k + 1) |-> IF i = k + 1 THEN x ELSE f[i]]
    OBVIOUS
  <2> DEFINE f == [i \in 1..Len(q) |-> [of |-> r, name |-> q[i]]]
  <2>5. Append([i \in 1..Len(q) |-> f[i]], [of |-> r, name |-> e])
          = [i \in 1..(Len(q) + 1) |-> IF i = Len(q) + 1 THEN [of |-> r, name |-> e] ELSE f[i]]
    BY <2>1, <2>4
  <2> QED
    BY <2>1, <2>3, <2>5
<1> QED
  BY <1>1, <1>3, <1>4

\* The pieces of a body, one after the other.
LEMMA PiecesJoin ==
  ASSUME NEW k \in Nat, NEW n \in Nat
  PROVE  [i \in 1..k |-> i] \o [i \in 1..n |-> k + i] = [i \in 1..(k + n) |-> i]
  OBVIOUS

LEMMA AnswerGrows ==
  ASSUME NEW k \in Nat, NEW r
  PROVE  Append([i \in 1..k |-> r], r) = [i \in 1..(k + 1) |-> r]
  OBVIOUS
-----------------------------------------------------------------------------
(* What the handle holds in each stage of a request *)

SentWhole == made \notin starved => sent[made] = HeadersOf(made, signed[made] \o <<"Signature", "Expect">>)

Begun ==
  /\ rsp = 0 /\ content[made] = <<>> /\ received[made] = <<>> /\ ~upload.on

Offset == IF upload.on THEN upload.off ELSE 0

Transferring(t) ==
  /\ rsp = 0 /\ down \in {0, made} /\ made \notin freed
  /\ IF length[t] > 0 THEN upload.on /\ upload.of = made /\ upload.len = length[t]
     ELSE ~upload.on
  /\ content[made] = [i \in 1..Len(content[made]) |-> made] /\ Len(content[made]) <= AnswerLen
  /\ down = 0 => content[made] = <<>>
  /\ down # 0 => content[made] # <<>> /\ code = made /\ made \notin empty
  /\ received[made] = [i \in 1..Offset |-> i] /\ Offset <= length[t]
  /\ SentWhole

\* The body at the server, a part of it if the answer did not wait for it.
Arrived(t) ==
  \E n \in 0..length[t] :
    /\ received[made] = [i \in 1..n |-> i]
    /\ made \notin early => n = length[t]

Answered(t) ==
  /\ code = made
  /\ IF made \in empty THEN rsp = 0
     ELSE rsp = made /\ content[made] = [i \in 1..AnswerLen |-> made]
  /\ Arrived(t)
  /\ SentWhole

Stage(t) ==
  /\ pc[t] = "sign" => Begun /\ headers = <<>> /\ made \notin starved
  /\ pc[t] = "perform" => /\ Begun
                          /\ made \notin starved =>
                               headers = HeadersOf(made, Append(signed[made], "Signature"))
  /\ pc[t] = "transfer" => Transferring(t)
  /\ pc[t] \in {"answered", "read"} => Answered(t)

\* The buffers: nothing is in those of requests to come, and those that received
\* anything are freed, or in the handle.
Owned ==
  /\ rsp \notin freed
  /\ \A r \in Request : r > made => content[r] = <<>> /\ received[r] = <<>>
  /\ \A r \in Request : content[r] # <<>> =>
       r \in freed \/ r = rsp \/ (r = down /\ \E t \in Threads : pc[t] = "transfer")
  /\ \A r \in freed : content[r] # <<>>
  /\ rsp # 0 => content[rsp] # <<>>
  /\ phase = "gone" => rsp = 0

\* The inductive invariant.
IInv == Typed /\ Apart /\ Owned /\ \A t \in Threads : Stage(t)

LEMMA InitInvariant == Init => IInv
<1> SUFFICES ASSUME Init PROVE IInv
  OBVIOUS
<1>1. \A t \in Threads : pc[t] = "idle"
  BY DEF Init
<1>2. phase \in {"create", "open"} /\ rsp = 0 /\ freed = {}
      /\ \A r \in Request : content[r] = <<>> /\ received[r] = <<>>
  BY DEF Init
<1>3. Apart
  BY <1>1, <1>2, ThreadTypes DEF Apart, OneAtATime, Busy
<1>4. Owned
  BY <1>2 DEF Owned
<1>5. \A t \in Threads : Stage(t)
  BY <1>1 DEF Stage
<1> QED
  BY <1>3, <1>4, <1>5, InitTyped DEF IInv

\* After a step of t, the only thread that may be in a request, what is left to
\* show is its own stage.
LEMMA OneStage ==
  ASSUME IInv, NEW t \in Threads, Busy(t) \/ \A u \in Threads : ~Busy(u),
         \A u \in Threads \ {t} : pc'[u] = pc[u],
         Stage(t)'
  PROVE  \A u \in Threads : Stage(u)'
<1> SUFFICES ASSUME NEW u \in Threads, u # t PROVE Stage(u)'
  OBVIOUS
<1>1. ~Busy(u)
  BY DEF IInv, Apart, OneAtATime
<1>2. pc'[u] \in {"idle", "exit"}
  BY <1>1 DEF Busy
<1> QED
  BY <1>2 DEF Stage

\* The facts that every step of a thread in a request starts from.
LEMMA Current ==
  ASSUME IInv, NEW t \in Threads, Busy(t)
  PROVE  /\ doing[t] = made /\ made \in Request /\ made \in Nat /\ made # 0 /\ made <= MaxRequests
         /\ upload.len \in Nat /\ upload.off \in Nat /\ length[t] \in Nat
         /\ content[made] \in Seq(Nat)
         /\ received[made] \in Seq(Nat) /\ freed \subseteq 1..made
         /\ \A u \in Threads \ {t} : ~Busy(u)
         /\ Stage(t)
<1>1. doing[t] = made /\ made \in 0..MaxRequests /\ doing[t] # 0
  BY DEF IInv, Apart, Typed, TypeOK, Busy
<1>2. made \in Request /\ made \in Nat /\ made # 0 /\ made <= MaxRequests
  BY <1>1, BoundsAssumption DEF Request
<1>3. /\ upload.len \in Nat /\ upload.off \in Nat /\ freed \subseteq 1..made
      /\ length[t] \in Nat
      /\ content[made] \in Seq(Nat) /\ received[made] \in Seq(Nat)
  BY <1>2, BoundsAssumption DEF IInv, Typed, TypeOK
<1>4. \A u \in Threads \ {t} : ~Busy(u)
  BY DEF IInv, Apart, OneAtATime
<1> QED
  BY <1>1, <1>2, <1>3, <1>4 DEF IInv

\* What is in the handle from an earlier request is freed.
LEMMA ResetOwned ==
  ASSUME IInv, Reset, \A u \in Threads : pc[u] # "transfer",
         UNCHANGED <<content, received>>, made' \in Nat, made' >= made
  PROVE  Owned'
<1>1. /\ rsp' = 0 /\ freed' = IF rsp = 0 THEN freed ELSE freed \cup {rsp}
      /\ content' = content /\ received' = received
  BY DEF Reset
<1>2. /\ freed \subseteq 1..made /\ made \in Nat /\ rsp \in 0..made
  BY BoundsAssumption DEF IInv, Typed, TypeOK
<1>3. 0 \notin freed'
  BY <1>1, <1>2
<1>4. \A r \in Request : r > made' => content'[r] = <<>> /\ received'[r] = <<>>
  <2>1. \A r \in Request : r > made' => r > made
    BY <1>2, BoundsAssumption DEF Request
  <2> QED
    BY <1>1, <2>1 DEF IInv, Owned
<1>5. \A r \in Request : content'[r] # <<>> => r \in freed'
  <2> SUFFICES ASSUME NEW r \in Request, content[r] # <<>> PROVE r \in freed'
    BY <1>1
  <2>1. r \in freed \/ r = rsp
    BY DEF IInv, Owned
  <2>2. r # 0
    BY DEF Request
  <2> QED
    BY <1>1, <2>1, <2>2
<1>6. \A r \in freed' : content'[r] # <<>>
  BY <1>1 DEF IInv, Owned
<1> QED
  BY <1>1, <1>3, <1>4, <1>5, <1>6 DEF Owned

LEMMA StartKeeps ==
  ASSUME IInv, OneAtATime', NEW len \in 0..MaxBody, Ask(len) \/ Flush(len) \/ Post(len)
  PROVE  Owned' /\ \A t \in Threads : Stage(t)'
<1>1. PICK t \in Threads : Start(t, len)
  BY StartAlone DEF IInv
<1>2. \A u \in Threads : ~Busy(u)
  BY StartAlone DEF IInv
<1>3. /\ Reset /\ made' = made + 1 /\ made < MaxRequests /\ pc' = [pc EXCEPT ![t] = "sign"]
      /\ UNCHANGED <<content, received, starved>>
      /\ rsp' = 0 /\ headers' = <<>> /\ upload' = [upload EXCEPT !.on = FALSE]
  BY <1>1 DEF Start, Goto, Reset, wireVars
<1>4. made \in Nat /\ made' \in Nat /\ made' >= made /\ made' > made /\ made' \in Request
      /\ starved \subseteq 1..made
  BY <1>3, BoundsAssumption DEF IInv, Typed, TypeOK, Request
<1>5. \A u \in Threads : pc[u] # "transfer"
  BY <1>2 DEF Busy
<1>6. Owned'
  BY <1>3, <1>4, <1>5, ResetOwned
<1>7. pc'[t] = "sign" /\ \A u \in Threads \ {t} : pc'[u] = pc[u]
  BY <1>3 DEF IInv, Typed
<1>8. Stage(t)'
  <2>1. content'[made'] = <<>> /\ received'[made'] = <<>> /\ made' \notin starved'
    BY <1>3, <1>4 DEF IInv, Owned
  <2>2. ~upload'.on
    BY <1>3 DEF IInv, Typed
  <2> QED
    BY <1>3, <1>7, <2>1, <2>2 DEF Stage, Begun
<1> QED
  BY <1>2, <1>6, <1>7, <1>8, OneStage

\* A step that moves nothing in the buffers.
LEMMA SameOwned ==
  ASSUME IInv, NEW t \in Threads, pc[t] # "transfer", Busy(t),
         UNCHANGED <<rsp, content, freed, received, made, phase>>
  PROVE  Owned'
<1>1. \A u \in Threads : pc[u] # "transfer"
  BY Current DEF Busy
<1> QED
  BY <1>1 DEF IInv, Owned

LEMMA SignKeeps ==
  ASSUME IInv, NEW t \in Threads, Sign(t)
  PROVE  Owned' /\ \A u \in Threads : Stage(u)'
<1> DEFINE names == Names(length[t])
<1>1. PICK n \in 0..Len(names) :
        /\ signed' = [signed EXCEPT ![doing[t]] = SubSeq(names, 1, IF n < Len(names) THEN n + 1 ELSE n)]
        /\ starved' = IF n < Len(names) THEN starved \cup {doing[t]} ELSE starved
        /\ \/ /\ headers' = headers \o HeadersOf(doing[t], Append(SubSeq(names, 1, n), "Signature"))
              /\ Goto(t, "perform")
           \/ Goto(t, "failed")
  BY DEF Sign
<1>2. /\ Busy(t) /\ pc[t] = "sign"
      /\ UNCHANGED <<upload, rsp, content, freed, received, made, phase>>
  BY DEF Sign, Busy, useVars
<1>3. /\ doing[t] = made /\ made \in Request /\ made \in Nat
      /\ Begun /\ headers = <<>> /\ made \notin starved
  BY <1>2, Current DEF Stage
<1>4. Owned'
  BY <1>2, SameOwned
<1>5. \A u \in Threads \ {t} : pc'[u] = pc[u]
  BY <1>1 DEF Goto, IInv, Typed
<1>6. CASE Goto(t, "failed")
  <2>1. pc'[t] = "failed"
    BY <1>6 DEF Goto, IInv, Typed
  <2>2. Stage(t)'
    BY <2>1 DEF Stage
  <2> QED
    BY <1>2, <1>4, <1>5, <2>2, OneStage
<1>7. CASE /\ headers' = headers \o HeadersOf(doing[t], Append(SubSeq(names, 1, n), "Signature"))
           /\ Goto(t, "perform")
  <2>1. pc'[t] = "perform"
    BY <1>7 DEF Goto, IInv, Typed
  <2>2. Begun'
    BY <1>2, <1>3 DEF Begun
  <2>3. ASSUME made \notin starved' PROVE headers' = HeadersOf(made, Append(signed'[made], "Signature"))
    <3>1. names \in Seq(HeaderName)
      BY NamesType
    <3> HIDE DEF names
    <3>2. SubSeq(names, 1, n) \in Seq(HeaderName)
      <4>1. ASSUME NEW S, NEW q \in Seq(S), NEW k \in 0..Len(q) PROVE SubSeq(q, 1, k) \in Seq(S)
        OBVIOUS
      <4> QED
        BY <3>1, <4>1
    <3>3. ~(n < Len(names))
      BY <1>1, <1>3, <2>3
    <3>4. signed'[made] = SubSeq(names, 1, n)
      BY <1>1, <1>3, <3>3 DEF IInv, Typed
    <3>5. Append(SubSeq(names, 1, n), "Signature") \in Seq(HeaderName)
      <4>1. ASSUME NEW S, NEW q \in Seq(S), NEW e \in S PROVE Append(q, e) \in Seq(S)
        OBVIOUS
      <4> QED
        BY <3>2, <4>1 DEF HeaderName
    <3>6. HeadersOf(made, Append(SubSeq(names, 1, n), "Signature")) \in Seq([of : Nat, name : HeaderName])
      BY <1>3, <3>5, HeadersType
    <3>7. ASSUME NEW S, NEW q \in Seq(S) PROVE <<>> \o q = q
      OBVIOUS
    <3>8. headers' = HeadersOf(made, Append(SubSeq(names, 1, n), "Signature"))
      BY <1>3, <1>7, <3>6, <3>7
    <3> QED
      BY <3>4, <3>8
  <2>4. Stage(t)'
    BY <1>2, <2>1, <2>2, <2>3 DEF Stage
  <2> QED
    BY <1>2, <1>4, <1>5, <2>4, OneStage
<1> QED
  BY <1>1, <1>6, <1>7

LEMMA PerformKeeps ==
  ASSUME IInv, NEW t \in Threads, Perform(t)
  PROVE  Owned' /\ \A u \in Threads : Stage(u)'
<1>1. /\ pc[t] = "perform" /\ Busy(t) /\ pc' = [pc EXCEPT ![t] = "transfer"]
      /\ headers' = Append(headers, [of |-> doing[t], name |-> "Expect"])
      /\ upload' = IF length[t] > 0
                   THEN [of |-> doing[t], len |-> length[t], off |-> 0, on |-> TRUE]
                   ELSE upload
      /\ sent' = [sent EXCEPT ![doing[t]] = headers']
      /\ down' = 0
      /\ UNCHANGED <<rsp, content, freed, signed, starved, received, made, phase, length>>
  BY DEF Perform, Goto, Busy, useVars
<1>2. /\ doing[t] = made /\ made \in Request /\ made \in Nat /\ made # 0
      /\ length[t] \in Nat
      /\ Begun
      /\ made \notin starved => headers = HeadersOf(made, Append(signed[made], "Signature"))
  BY <1>1, Current DEF Stage
<1>3. pc'[t] = "transfer" /\ \A u \in Threads \ {t} : pc'[u] = pc[u]
  BY <1>1 DEF IInv, Typed
<1>4. Owned'
  <2>1. \A u \in Threads : pc[u] # "transfer"
    BY <1>1, Current DEF Busy
  <2>2. \A r \in Request : content[r] # <<>> => r \in freed \/ r = rsp
    BY <2>1 DEF IInv, Owned
  <2> QED
    BY <1>1, <2>2 DEF IInv, Owned
<1>5. SentWhole'
  <2>1. sent'[made] = headers'
    BY <1>1, <1>2 DEF IInv, Typed
  <2>2. signed[made] \in Seq(HeaderName)
    BY <1>2 DEF IInv, Typed
  <2>3. made \notin starved => headers' = HeadersOf(made, signed[made] \o <<"Signature", "Expect">>)
    BY <1>1, <1>2, <2>2, HeadersJoin
  <2> QED
    BY <1>1, <2>1, <2>3 DEF SentWhole
<1>6. /\ Offset' = 0
      /\ IF length'[t] > 0 THEN upload'.on /\ upload'.of = made /\ upload'.len = length'[t]
         ELSE ~upload'.on
  <2>1. CASE length[t] > 0
    BY <1>1, <1>2, <2>1 DEF Offset
  <2>2. CASE ~(length[t] > 0)
    BY <1>1, <1>2, <2>2 DEF Offset, Begun
  <2> QED
    BY <2>1, <2>2
<1>7. [i \in 1..0 |-> i] = <<>> /\ [i \in 1..0 |-> made] = <<>> /\ Len(<<>>) = 0
  OBVIOUS
<1>8. Transferring(t)'
  <2>1. /\ rsp' = 0 /\ down' = 0 /\ content'[made'] = <<>>
        /\ received'[made'] = <<>> /\ made' = made
    BY <1>1, <1>2, <1>6 DEF Begun
  <2>3. made' \notin freed'
    BY <1>1, <2>1 DEF IInv, Owned
  <2>2. Len(content'[made']) = 0 /\ 0 <= AnswerLen /\ 0 <= length'[t]
    BY <1>1, <1>2, <1>7, <2>1, BoundsAssumption
  <2> QED
    BY <1>5, <1>6, <1>7, <2>1, <2>2, <2>3 DEF Transferring
<1>9. Stage(t)'
  BY <1>3, <1>8 DEF Stage
<1> QED
  BY <1>1, <1>3, <1>4, <1>9, OneStage

LEMMA UploadKeeps ==
  ASSUME IInv, NEW t \in Threads, Upload(t)
  PROVE  Owned' /\ \A u \in Threads : Stage(u)'
<1>1. /\ pc[t] = "transfer" /\ Busy(t) /\ upload.on /\ upload.off < upload.len
      /\ UNCHANGED <<rsp, down, code, content, freed, signed, sent, starved, empty,
                     made, phase, pc, length>>
  BY DEF Upload, BodyLeft, Busy, useVars
<1>2. PICK n \in 1..(upload.len - upload.off) :
        /\ received' = [received EXCEPT ![upload.of] = @ \o [i \in 1..n |-> upload.off + i]]
        /\ upload' = [upload EXCEPT !.off = @ + n]
  BY DEF Upload
<1>3. /\ made \in Request /\ made \in Nat
      /\ upload.len \in Nat /\ upload.off \in Nat /\ Transferring(t)
      /\ upload.of = made /\ upload.len = length[t] /\ length[t] > 0
  BY <1>1, Current DEF Stage, Transferring
<1>4. /\ upload'.of = made /\ upload'.len = upload.len /\ upload'.off = upload.off + n
      /\ upload'.on
      /\ received' = [received EXCEPT ![made] = @ \o [i \in 1..n |-> upload.off + i]]
      /\ received \in [Request -> Seq(Nat)]
  BY <1>2, <1>3 DEF Transferring, IInv, Typed
<1>5. n \in Nat /\ upload.off + n <= upload.len
  BY <1>3
<1>6. received'[made] = [i \in 1..(upload.off + n) |-> i]
  <2>1. received[made] = [i \in 1..upload.off |-> i]
    BY <1>1, <1>3 DEF Transferring, Offset
  <2>2. received'[made] = [i \in 1..upload.off |-> i] \o [i \in 1..n |-> upload.off + i]
    BY <1>3, <1>4, <2>1
  <2> QED
    BY <1>3, <1>5, <2>2, PiecesJoin
<1>7. Owned'
  <2>1. \A r \in Request : r > made => received'[r] = received[r]
    BY <1>3, <1>4
  <2>2. \A r \in Request : r > made => content'[r] = <<>> /\ received'[r] = <<>>
    BY <1>1, <2>1 DEF IInv, Owned
  <2> QED
    BY <1>1, <2>2 DEF IInv, Owned
<1>8. Offset' = upload.off + n
  BY <1>1, <1>4 DEF Offset
<1>9. Transferring(t)'
  <2>1. /\ length' = length /\ rsp' = rsp /\ down' = down /\ code' = code /\ content' = content
        /\ made' = made /\ freed' = freed /\ empty' = empty /\ SentWhole' = SentWhole
    BY <1>1 DEF SentWhole
  <2> QED
    BY <1>3, <1>4, <1>5, <1>6, <1>8, <2>1 DEF Transferring
<1>10. Stage(t)'
  BY <1>1, <1>9 DEF Stage
<1> QED
  BY <1>1, <1>7, <1>10, OneStage

LEMMA DownloadKeeps ==
  ASSUME IInv, NEW t \in Threads, Download(t)
  PROVE  Owned' /\ \A u \in Threads : Stage(u)'
<1> DEFINE b == IF down = 0 THEN doing[t] ELSE down
<1>1. /\ pc[t] = "transfer" /\ Busy(t) /\ down' = b /\ code = doing[t] /\ code' = code
      /\ doing[t] \notin empty
      /\ content' = [content EXCEPT ![b] = Append(@, doing[t])]
      /\ Len(content[b]) < AnswerLen
      /\ UNCHANGED <<upload, rsp, freed, signed, sent, starved, empty, received, made, phase, pc,
                     length>>
  BY DEF Download, Busy, useVars, wireVars
<1>2. /\ doing[t] = made /\ made \in Request /\ made \in Nat /\ made # 0 /\ Transferring(t)
      /\ content[made] \in Seq(Nat)
  BY <1>1, Current DEF Stage
<1>3. b = made
  BY <1>2 DEF Transferring
<1> HIDE DEF b
<1>4. /\ content'[made] = Append(content[made], made)
      /\ \A r \in Request : r # made => content'[r] = content[r]
  BY <1>1, <1>2, <1>3 DEF IInv, Typed
<1>5. /\ Len(content[made]) \in Nat /\ Len(content'[made]) = Len(content[made]) + 1
      /\ content'[made] # <<>>
  <2>1. ASSUME NEW q \in Seq(Nat), NEW e \in Nat
        PROVE Len(q) \in Nat /\ Len(Append(q, e)) = Len(q) + 1 /\ Append(q, e) # <<>>
    OBVIOUS
  <2> QED
    BY <1>2, <1>4, <2>1
<1>6. content'[made] = [i \in 1..Len(content'[made]) |-> made] /\ Len(content'[made]) <= AnswerLen
  <2>1. Append([i \in 1..Len(content[made]) |-> made], made) = [i \in 1..(Len(content[made]) + 1) |-> made]
    BY <1>5, AnswerGrows
  <2>2. content[made] = [i \in 1..Len(content[made]) |-> made]
    BY <1>2 DEF Transferring
  <2>3. Len(content[made]) + 1 <= AnswerLen
    BY <1>1, <1>3, <1>5, BoundsAssumption
  <2>4. content'[made] = [i \in 1..(Len(content[made]) + 1) |-> made]
    BY <1>4, <2>1, <2>2
  <2> QED
    BY <1>5, <2>3, <2>4
<1>7. Owned'
  <2>1. \A r \in Request : r > made => content'[r] = <<>> /\ received'[r] = <<>>
    <3>1. \A r \in Request : r > made => r # made
      BY <1>2 DEF Request
    <3> QED
      BY <1>1, <1>4, <3>1 DEF IInv, Owned
  <2>2. \A r \in Request : content'[r] # <<>> =>
          r \in freed' \/ r = rsp' \/ (r = down' /\ \E u \in Threads : pc'[u] = "transfer")
    <3>1. \A r \in Request : r # made /\ content[r] # <<>> => r \in freed \/ r = rsp
      BY <1>2 DEF IInv, Owned, Transferring
    <3> QED
      BY <1>1, <1>3, <1>4, <3>1
  <2>3. \A r \in freed' : content'[r] # <<>>
    <3>1. freed \subseteq Request
      BY <1>2, BoundsAssumption DEF IInv, Typed, TypeOK, Request
    <3> QED
      BY <1>1, <1>4, <1>5, <3>1 DEF IInv, Owned
  <2>4. rsp' = 0 /\ 0 \notin freed'
    BY <1>1, <1>2 DEF IInv, Typed, TypeOK, Transferring
  <2>5. made' = made
    BY <1>1
  <2> QED
    BY <2>1, <2>2, <2>3, <2>4, <2>5 DEF Owned
<1>8. Transferring(t)'
  <2>1. down' = made /\ code' = made /\ made \notin empty'
    BY <1>1, <1>2, <1>3
  <2>2. Offset' = Offset /\ SentWhole'
    BY <1>1, <1>2 DEF Offset, SentWhole, Transferring
  <2> QED
    BY <1>1, <1>2, <1>5, <1>6, <2>1, <2>2 DEF Transferring
<1>9. Stage(t)'
  BY <1>1, <1>8 DEF Stage
<1> QED
  BY <1>1, <1>7, <1>9, OneStage

LEMMA StatusKeeps ==
  ASSUME IInv, NEW t \in Threads, Status(t)
  PROVE  Owned' /\ \A u \in Threads : Stage(u)'
<1>1. /\ pc[t] = "transfer" /\ Busy(t) /\ code # doing[t]
      /\ UNCHANGED <<upload, down, rsp, content, freed, signed, sent, starved, received,
                     made, phase, pc, length>>
  BY DEF Status, Busy, useVars
<1>2. doing[t] = made /\ Transferring(t)
  BY <1>1, Current DEF Stage
<1>3. down = 0
  BY <1>1, <1>2 DEF Transferring
<1>4. Transferring(t)'
  <2>1. Offset' = Offset /\ SentWhole' = SentWhole
    BY <1>1 DEF Offset, SentWhole
  <2> QED
    BY <1>1, <1>2, <1>3, <2>1 DEF Transferring
<1>5. Owned'
  BY <1>1 DEF IInv, Owned
<1>6. Stage(t)'
  BY <1>1, <1>4 DEF Stage
<1> QED
  BY <1>1, <1>5, <1>6, OneStage

\* The return of a transfer, whatever its outcome, hands its buffer over.
LEMMA PublishKeeps ==
  ASSUME IInv, NEW t \in Threads, Finish(t) \/ Abort(t)
  PROVE  Owned' /\ \A u \in Threads : Stage(u)'
<1>1. /\ pc[t] = "transfer" /\ Busy(t) /\ rsp' = down
      /\ UNCHANGED <<upload, down, code, content, freed, signed, sent, starved, early, empty,
                     received, made, phase, length>>
  BY DEF Finish, Abort, Publish, Busy, useVars, wireVars
<1>2. /\ made \in Request /\ made \in Nat /\ made # 0 /\ Transferring(t) /\ doing[t] = made
      /\ upload.len \in Nat /\ upload.off \in Nat /\ length[t] \in Nat /\ freed \subseteq 1..made
      /\ \A u \in Threads \ {t} : ~Busy(u)
  BY <1>1, Current DEF Stage
<1>3. PICK place \in {"answered", "failed"} :
        /\ pc' = [pc EXCEPT ![t] = place]
        /\ place = "answered" =>
             /\ (BodyLeft => doing[t] \in early) /\ code = doing[t]
             /\ doing[t] \in empty \/ (down # 0 /\ Len(content[down]) = AnswerLen)
  BY DEF Finish, Abort, Publish, Goto
<1>4. pc'[t] = place /\ \A u \in Threads \ {t} : pc'[u] = pc[u]
  BY <1>3 DEF IInv, Typed
<1>5. made \notin freed \/ down = 0
  <2>1. CASE down # 0
    <3>1. rsp = 0 /\ down = made
      BY <1>2, <2>1 DEF Transferring
    <3>2. made \notin freed
      BY <1>2 DEF Transferring
    <3> QED
      BY <3>2
  <2> QED
    BY <2>1
<1>6. Owned'
  <2>1. down \notin freed
    BY <1>2, <1>5 DEF Transferring
  <2>2. \A r \in Request : content[r] # <<>> => r \in freed \/ r = down
    <3>1. rsp = 0 /\ 0 \notin Request
      BY <1>2 DEF Transferring, Request
    <3> QED
      BY <3>1 DEF IInv, Owned
  <2>3. down # 0 => content[down] # <<>>
    BY <1>2 DEF Transferring
  <2>4. phase # "gone"
    BY <1>1, ThreadTypes DEF IInv, Apart, Busy
  <2>5. /\ \A r \in Request : r > made => content[r] = <<>> /\ received[r] = <<>>
        /\ \A r \in freed : content[r] # <<>>
    BY DEF IInv, Owned
  <2> QED
    BY <1>1, <2>1, <2>2, <2>3, <2>4, <2>5 DEF Owned
<1>7. Stage(t)'
  <2>1. CASE place = "failed"
    BY <1>4, <2>1 DEF Stage
  <2>2. CASE place = "answered"
    <3>1. /\ code = made
          /\ IF made \in empty THEN down = 0
             ELSE down = made /\ content[made] = [i \in 1..AnswerLen |-> made]
      BY <1>2, <1>3, <2>2 DEF Transferring
    <3>2. /\ Offset \in 0..length[t] /\ received[made] = [i \in 1..Offset |-> i]
          /\ made \notin early => Offset = length[t]
      BY <1>2, <1>3, <2>2 DEF Transferring, Offset, BodyLeft
    <3>3. Arrived(t)'
      BY <1>1, <3>2 DEF Arrived
    <3>4. Answered(t)'
      BY <1>1, <1>2, <3>1, <3>3 DEF Answered, Transferring, SentWhole
    <3> QED
      BY <1>4, <2>2, <3>4 DEF Stage
  <2> QED
    BY <2>1, <2>2
<1> QED
  BY <1>1, <1>4, <1>6, <1>7, OneStage

\* The steps of a thread that do not touch the handle.
LEMMA AsideKeeps ==
  ASSUME IInv, NEW t \in Threads,
         FailToPerform(t) \/ ReadCode(t) \/ ReadContent(t) \/ Return(t)
  PROVE  Owned' /\ \A u \in Threads : Stage(u)'
<1>1. /\ pc[t] \in {"perform", "answered", "read", "return", "failed"} /\ Busy(t)
      /\ UNCHANGED <<upload, rsp, down, code, content, freed, made>>
      /\ received' = received \/ received' = [received EXCEPT ![doing[t]] = <<>>]
  BY DEF FailToPerform, ReadCode, ReadContent, Return, Forget, Busy, handleVars, wireVars, useVars
<1>2. PICK place \in {"failed", "return", "read", "idle"} :
        /\ pc' = [pc EXCEPT ![t] = place]
        /\ place = "read" => pc[t] = "answered" /\ UNCHANGED <<wireVars, length>>
  BY DEF FailToPerform, ReadCode, ReadContent, Return, Goto, useVars
<1>3. pc'[t] = place /\ \A u \in Threads \ {t} : pc'[u] = pc[u]
  BY <1>2 DEF IInv, Typed
<1>4. phase # "gone" /\ phase' # "gone"
  <2>1. phase # "gone"
    BY <1>1, ThreadTypes DEF IInv, Apart, Busy
  <2>2. phase' \in {phase, "open", "close"}
    BY DEF FailToPerform, ReadCode, ReadContent, Return, useVars
  <2> QED
    BY <2>1, <2>2
<1>5. Owned'
  <2>1. \A u \in Threads : pc[u] # "transfer"
    BY <1>1, Current DEF Busy
  <2>2. /\ rsp \notin freed
        /\ \A r \in Request : r > made => content[r] = <<>> /\ received[r] = <<>>
        /\ \A r \in Request : content[r] # <<>> => r \in freed \/ r = rsp
        /\ \A r \in freed : content[r] # <<>>
        /\ rsp # 0 => content[rsp] # <<>>
    BY <2>1 DEF IInv, Owned
  <2>3. \A r \in Request : received[r] = <<>> => received'[r] = <<>>
    BY <1>1 DEF IInv, Typed
  <2> QED
    BY <1>1, <1>4, <2>2, <2>3 DEF Owned
<1>6. Stage(t)'
  <2>1. CASE place # "read"
    BY <1>2, <1>3, <2>1 DEF Stage
  <2>2. CASE place = "read"
    <3>1. Answered(t)
      BY <1>1, <1>2, <2>2, Current DEF Stage
    <3>2. Answered(t)'
      BY <1>1, <1>2, <2>2, <3>1 DEF Answered, Arrived, SentWhole, wireVars
    <3> QED
      BY <1>3, <2>2, <3>2 DEF Stage
  <2> QED
    BY <2>1, <2>2
<1> QED
  BY <1>1, <1>3, <1>5, <1>6, OneStage

\* The steps between requests, and those of the owner while the worker is in one.
LEMMA BetweenKeeps ==
  ASSUME IInv, Record \/ Take \/ Close \/ Join \/ Leave
  PROVE  Owned' /\ \A u \in Threads : Stage(u)'
<1>1. /\ UNCHANGED <<headers, upload, rsp, down, code, content, freed, signed, sent, starved,
                     early, empty, received, made, length>>
      /\ phase' # "gone" \/ phase' = phase
  BY DEF Record, Take, Close, Join, Onward, Leave, handleVars, wireVars, useVars
<1>2. \A u \in Threads : pc'[u] = pc[u] \/ (pc[u] = "idle" /\ pc'[u] = "exit")
  BY DEF Record, Take, Close, Join, Onward, Leave, Goto, IInv, Typed
<1>3. (\E u \in Threads : pc[u] = "transfer") => \E u \in Threads : pc'[u] = "transfer"
  BY <1>2
<1>4. Owned'
  <2>1. /\ rsp \notin freed
        /\ \A r \in Request : r > made => content[r] = <<>> /\ received[r] = <<>>
        /\ \A r \in freed : content[r] # <<>>
        /\ rsp # 0 => content[rsp] # <<>>
        /\ phase = "gone" => rsp = 0
    BY DEF IInv, Owned
  <2>2. \A r \in Request : content[r] # <<>> =>
          r \in freed \/ r = rsp \/ (r = down /\ \E u \in Threads : pc'[u] = "transfer")
    BY <1>3 DEF IInv, Owned
  <2> QED
    BY <1>1, <2>1, <2>2 DEF Owned
<1>5. ASSUME NEW u \in Threads PROVE Stage(u)'
  <2>1. Stage(u)
    BY DEF IInv
  <2>2. CASE pc'[u] = "exit"
    BY <2>2 DEF Stage
  <2>3. CASE pc'[u] = pc[u]
    <3>1. /\ Begun' = Begun /\ Transferring(u)' = Transferring(u) /\ Answered(u)' = Answered(u)
      BY <1>1 DEF Begun, Transferring, Answered, Arrived, SentWhole, Offset
    <3> QED
      BY <1>1, <2>1, <2>3, <3>1 DEF Stage
  <2> QED
    BY <1>2, <2>2, <2>3
<1> QED
  BY <1>4, <1>5

LEMMA DestroyKeeps ==
  ASSUME IInv, Destroy
  PROVE  Owned' /\ \A u \in Threads : Stage(u)'
<1>1. /\ Reset /\ phase = "flush" /\ pc[Owner] = "idle" /\ pc' = pc /\ made' = made
      /\ UNCHANGED <<content, received>>
  BY DEF Destroy, wireVars
<1>2. \A u \in Threads : pc[u] \in {"idle", "exit"}
  BY <1>1, ThreadTypes DEF IInv, Apart
<1>3. made' \in Nat /\ made' >= made
  BY <1>1, BoundsAssumption DEF IInv, Typed, TypeOK
<1>4. Owned'
  BY <1>1, <1>2, <1>3, ResetOwned
<1>5. \A u \in Threads : Stage(u)'
  BY <1>1, <1>2 DEF Stage
<1> QED
  BY <1>4, <1>5

LEMMA StutterKeeps ==
  ASSUME IInv, UNCHANGED vars
  PROVE  Owned' /\ \A u \in Threads : Stage(u)'
<1>1. UNCHANGED <<headers, upload, rsp, down, code, content, freed, signed, sent, starved,
                  early, empty, received, made, phase, pc, length>>
  BY DEF vars, handleVars, wireVars, useVars
<1>2. Owned'
  BY <1>1 DEF IInv, Owned
<1>3. /\ Begun' = Begun
      /\ \A u \in Threads : Transferring(u)' = Transferring(u) /\ Answered(u)' = Answered(u)
  BY <1>1 DEF Begun, Transferring, Answered, Arrived, SentWhole, Offset
<1>4. \A u \in Threads : Stage(u)'
  BY <1>1, <1>3 DEF IInv, Stage
<1> QED
  BY <1>2, <1>4

LEMMA NextInvariant == IInv /\ [Next]_vars /\ OneAtATime' => IInv'
<1> SUFFICES ASSUME IInv, [Next]_vars, OneAtATime' PROVE IInv'
  OBVIOUS
<1>1. Typed' /\ Apart'
  BY NextTyped, NextApart DEF IInv
<1>2. Owned' /\ \A u \in Threads : Stage(u)'
  <2>1. ASSUME NEW len \in 0..MaxBody, Ask(len) \/ Flush(len) \/ Post(len)
        PROVE  Owned' /\ \A u \in Threads : Stage(u)'
    BY <2>1, StartKeeps
  <2>2. ASSUME NEW t \in Threads, Sign(t) \/ Perform(t) \/ Upload(t) \/ Status(t) \/ Download(t)
        PROVE  Owned' /\ \A u \in Threads : Stage(u)'
    BY <2>2, SignKeeps, PerformKeeps, UploadKeeps, StatusKeeps, DownloadKeeps
  <2>3. ASSUME NEW t \in Threads, \/ Finish(t) \/ Abort(t)
                                  \/ FailToPerform(t) \/ ReadCode(t) \/ ReadContent(t) \/ Return(t)
        PROVE  Owned' /\ \A u \in Threads : Stage(u)'
    BY <2>3, PublishKeeps, AsideKeeps
  <2>4. CASE Record \/ Take \/ Close \/ Join \/ Leave
    BY <2>4, BetweenKeeps
  <2>5. CASE Destroy
    BY <2>5, DestroyKeeps
  <2>6. CASE Gone \/ UNCHANGED vars
    BY <2>6, StutterKeeps DEF Gone
  <2> QED
    BY <2>1, <2>2, <2>3, <2>4, <2>5, <2>6 DEF Next, Transfer
<1> QED
  BY <1>1, <1>2 DEF IInv
-----------------------------------------------------------------------------
(* Theorems *)

\* Every variable has its type, whenever the keys are asked for.
THEOREM TypeCorrect == Spec => []TypeOK
<1>1. Spec => []Typed
  BY InitTyped, NextTyped, PTL DEF Spec
<1>2. Typed => TypeOK
  BY DEF Typed
<1> QED
  BY <1>1, <1>2, PTL

\* The inductive invariant holds as long as no two requests overlap.
THEOREM Invariance == Spec /\ []OneAtATime => []IInv
  BY InitInvariant, NextInvariant, PTL DEF Spec

\* An object that asks for its key at creation, and never again, makes no request
\* while its worker makes one, although no lock is held in either.
THEOREM NoOverlap == ASSUME KeysAtCreation PROVE Spec => []OneAtATime
<1>1. Init => Typed /\ Exclusive
  BY InitTyped, InitExclusive
<1>2. Typed /\ Exclusive /\ [Next]_vars => Typed' /\ Exclusive'
  BY NextTyped, NextExclusive
<1> QED
  BY <1>1, <1>2, ExclusiveAlone, PTL DEF Spec

LEMMA AnswerSafe == IInv => AnswerIsMine
<1> SUFFICES ASSUME IInv, NEW t \in Threads, pc[t] \in {"answered", "read"}
             PROVE  /\ code = doing[t]
                    /\ IF doing[t] \in empty THEN rsp = 0
                       ELSE /\ rsp # 0 /\ rsp \notin freed
                            /\ content[rsp] = [i \in 1..AnswerLen |-> doing[t]]
  BY DEF AnswerIsMine
<1>1. Busy(t)
  BY DEF Busy
<1>2. doing[t] = made /\ made # 0 /\ Answered(t)
  BY <1>1, Current DEF Stage
<1>3. rsp \notin freed
  BY DEF IInv, Owned
<1> QED
  BY <1>2, <1>3 DEF Answered

LEMMA SentSafe == IInv => SentAsSigned
<1> SUFFICES ASSUME IInv, NEW t \in Threads, pc[t] = "answered"
             PROVE  /\ \E n \in 0..length[t] :
                         /\ received[doing[t]] = [i \in 1..n |-> i]
                         /\ doing[t] \notin early => n = length[t]
                    /\ doing[t] \notin starved =>
                         sent[doing[t]] = HeadersOf(doing[t], signed[doing[t]] \o <<"Signature", "Expect">>)
  BY DEF SentAsSigned
<1>1. Busy(t)
  BY DEF Busy
<1>2. doing[t] = made /\ Answered(t)
  BY <1>1, Current DEF Stage
<1>3. PICK n \in 0..length[t] :
        /\ received[made] = [i \in 1..n |-> i] /\ (made \notin early => n = length[t])
  <2>1. Arrived(t)
    BY <1>2 DEF Answered
  <2> QED
    BY <2>1, Zenon DEF Arrived
<1>4. doing[t] \notin starved =>
        sent[doing[t]] = HeadersOf(doing[t], signed[doing[t]] \o <<"Signature", "Expect">>)
  BY <1>2 DEF Answered, SentWhole
<1>5. received[doing[t]] = [i \in 1..n |-> i] /\ (doing[t] \notin early => n = length[t])
  BY <1>2, <1>3
<1> QED
  BY <1>4, <1>5

LEMMA BuffersSafe == IInv => BuffersOwned
<1> SUFFICES ASSUME IInv PROVE BuffersOwned
  OBVIOUS
<1> DEFINE allocated == {r \in Request : content[r] # <<>>}
<1>1. rsp \notin freed
  BY DEF IInv, Owned
<1>2. ASSUME NEW t \in Threads, pc[t] = "transfer" PROVE down \notin freed
  <2>1. Busy(t)
    BY <1>2 DEF Busy
  <2>2. Transferring(t) /\ freed \subseteq 1..made
    BY <1>2, <2>1, Current DEF Stage
  <2> QED
    BY <2>2 DEF Transferring
<1>3. allocated \subseteq freed \cup {rsp} \cup (IF HandleIdle THEN {} ELSE {down})
  <2>1. ASSUME NEW r \in allocated
        PROVE  r \in freed \/ r = rsp \/ (r = down /\ ~HandleIdle)
    BY DEF IInv, Owned, HandleIdle
  <2> QED
    BY <2>1
<1>4. ASSUME phase = "gone" PROVE allocated = freed /\ \A t \in Threads : doing[t] = 0
  <2>1. pc[Owner] = "idle" /\ pc[Worker] = "exit" /\ rsp = 0
    BY <1>4 DEF IInv, Apart, Owned
  <2>2. \A t \in Threads : doing[t] = 0 /\ pc[t] # "transfer"
    BY <2>1, ThreadTypes DEF IInv, Typed, TypeOK
  <2>3. freed \subseteq Request /\ 0 \notin Request
    BY BoundsAssumption DEF IInv, Typed, TypeOK, Request
  <2>4. allocated = freed
    BY <2>1, <2>2, <2>3 DEF IInv, Owned
  <2> QED
    BY <2>2, <2>4
<1> HIDE DEF allocated
<1> QED
  BY <1>1, <1>2, <1>3, <1>4 DEF BuffersOwned, allocated

\* As long as no two requests overlap, whatever the object is, the answers, the
\* requests and the buffers are right: where one of them is not, as it may be with
\* an object that asks for keys at any time, two requests have overlapped before.
THEOREM WithoutOverlap ==
  Spec /\ []OneAtATime => [](AnswerIsMine /\ SentAsSigned /\ BuffersOwned)
<1>1. IInv => AnswerIsMine /\ SentAsSigned /\ BuffersOwned
  BY AnswerSafe, SentSafe, BuffersSafe
<1> QED
  BY <1>1, Invariance, PTL

\* When the key is asked for at creation, what a thread reads after a request is
\* the answer to that request, all of it.
THEOREM AnswersAreMine == ASSUME KeysAtCreation PROVE Spec => []AnswerIsMine
<1>1. Spec => []OneAtATime
  BY NoOverlap
<1> QED
  BY <1>1, WithoutOverlap, PTL

\* ... and what a successful request sent is what was signed, and its whole body.
THEOREM RequestsAreWhole == ASSUME KeysAtCreation PROVE Spec => []SentAsSigned
<1>1. Spec => []OneAtATime
  BY NoOverlap
<1> QED
  BY <1>1, WithoutOverlap, PTL

\* ... and every buffer is freed once, by the time the handle is gone.
THEOREM BuffersAreOwned == ASSUME KeysAtCreation PROVE Spec => []BuffersOwned
<1>1. Spec => []OneAtATime
  BY NoOverlap
<1> QED
  BY <1>1, WithoutOverlap, PTL
=============================================================================
