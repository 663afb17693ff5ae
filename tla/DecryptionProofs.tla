-------------------------- MODULE DecryptionProofs --------------------------
(* Proofs about Decryption: for messages of every length, cut into chunks in   *)
(* every way, no byte is lost on its way to the cipher, what end accepts is    *)
(* one whole message, and it was billed.                                       *)
EXTENDS Decryption, SequenceTheorems, TLAPS

\* The sequences of bytes, and the operators on them: concatenation, the first h
\* bytes, and the others.
ByteSeq == Seq(StreamOf)
Cat(s, t) == s \o t
Front(s, h) == SubSeq(s, 1, h)
Rest(s, h) == SubSeq(s, h + 1, Len(s))

\* TypeOK in terms of sequences.
Typed ==
  /\ buf \in ByteSeq /\ fed \in ByteSeq /\ left \in ByteSeq
  /\ message \in Messages \cup {NoMessage} /\ ctx \in Messages \cup {NoMessage}
  /\ ctx # NoMessage => raw = KeyOf[ctx]
  /\ phase \in {"none", "live", "gone", "crashed"} /\ (phase # "live" => ctx = NoMessage)
  /\ given \in Nat /\ sessions \in 0..MaxSessions /\ billed \subseteq 1..MaxSessions
  /\ ret.call \in {"create", "begin", "update", "end", "destroy"}
  /\ message # NoMessage => given <= Total(message) /\ sessions > 0

\* Of a message in hand: the header is in the buffer with all the rest, or is
\* cut off, which happens only to a message that was billed.
Whole == Cat(fed, buf) = Streamed
Cut == sessions \in billed /\ Cat(fed, buf) = Rest(Streamed, HeaderLen)

\* The context was made from the first bytes of the stream.
Headed == /\ Len(Streamed) >= HeaderLen
          /\ Front(Streamed, HeaderLen) = Bytes(ctx, 1, HeaderLen)

\* Before there is a context nothing has been fed to one.
Flow ==
  /\ ctx = NoMessage => fed = <<>>
  /\ message # NoMessage /\ ctx = NoMessage => buf = Streamed
  /\ message # NoMessage /\ ctx # NoMessage => Headed /\ (Whole \/ Cut)

\* Behind what has been fed to the cipher there is at least a tag, and after a
\* call that succeeded no more than a tag.
TagStays ==
  message # NoMessage /\ ctx # NoMessage /\ fed # <<>> =>
    /\ Len(buf) >= TagLen
    /\ ret.res = "OK" => Len(buf) = TagLen

\* A result of end is one of the last call's.
EndedIsBilled == ret.call = "end" /\ ret.res = "OK" => sessions \in billed

\* The inductive invariant.
IInv == Typed /\ Flow /\ TagStays /\ EndedIsBilled /\ TagHeldBack
-----------------------------------------------------------------------------
(* Bytes of messages *)

LEMMA LengthTypes ==
  /\ HeaderLen \in Nat \ {0} /\ TagLen \in Nat \ {0}
  /\ \A m \in Messages : BodyLen[m] \in Nat /\ Total(m) \in Nat
                         /\ Total(m) = HeaderLen + BodyLen[m] + TagLen
  BY LengthsAssumption DEF HeaderLen, Total

\* The laws of concatenation.
LEMMA CatType ==
  ASSUME NEW s \in ByteSeq, NEW t \in ByteSeq
  PROVE  /\ Cat(s, t) \in ByteSeq /\ Len(Cat(s, t)) = Len(s) + Len(t)
         /\ Len(s) \in Nat /\ Len(t) \in Nat
         /\ \A i \in 1..Len(s) : Cat(s, t)[i] = s[i]
  BY ConcatProperties, LenProperties DEF ByteSeq, Cat

LEMMA CatAssociative ==
  ASSUME NEW s \in ByteSeq, NEW t \in ByteSeq, NEW u \in ByteSeq
  PROVE  Cat(Cat(s, t), u) = Cat(s, Cat(t, u))
  BY ConcatAssociative DEF ByteSeq, Cat

LEMMA CatEmpty ==
  ASSUME NEW s \in ByteSeq
  PROVE  Cat(s, <<>>) = s /\ Cat(<<>>, s) = s /\ <<>> \in ByteSeq
  BY ConcatEmptySeq, EmptySeq DEF ByteSeq, Cat

LEMMA EmptyBytes ==
  ASSUME NEW s \in ByteSeq
  PROVE  Len(s) \in Nat /\ (Len(s) = 0 <=> s = <<>>)
  BY EmptySeq, LenProperties DEF ByteSeq

\* Sequences that agree in their lengths and their elements are equal.
LEMMA EqualBytes ==
  ASSUME NEW s \in ByteSeq, NEW t \in ByteSeq, Len(s) = Len(t),
         \A i \in 1..Len(s) : s[i] = t[i]
  PROVE  s = t
  BY SeqEqual DEF ByteSeq

\* Bytes i to j of m are a sequence of bytes of the stream.
LEMMA BytesSeq ==
  ASSUME NEW m \in Messages, NEW i \in Nat \ {0}, NEW j \in Nat, i <= j + 1, j <= Total(m)
  PROVE  /\ Bytes(m, i, j) \in ByteSeq /\ Len(Bytes(m, i, j)) = j + 1 - i
         /\ \A n \in 1..(j + 1 - i) : Bytes(m, i, j)[n] = <<m, i + n - 1>>
<1>1. \A n \in 1..(j + 1 - i) : <<m, i + n - 1>> \in StreamOf
  <2> TAKE n \in 1..(j + 1 - i)
  <2>1. i + n - 1 \in 1..Total(m)
    BY LengthTypes
  <2> QED
    BY <2>1 DEF StreamOf
<1>2. j + 1 - i \in Nat
  OBVIOUS
<1>3. Bytes(m, i, j) \in ByteSeq /\ Len(Bytes(m, i, j)) = j + 1 - i
  BY <1>1, <1>2 DEF Bytes, ByteSeq
<1> QED
  BY <1>3 DEF Bytes

\* A sequence is the concatenation of two that agree with its parts.
LEMMA JoinByElements ==
  ASSUME NEW S, NEW a \in Seq(S), NEW b \in Seq(S), NEW c \in Seq(S),
         Len(c) = Len(a) + Len(b),
         \A n \in 1..Len(a) : c[n] = a[n],
         \A n \in 1..Len(b) : c[Len(a) + n] = b[n]
  PROVE  a \o b = c
<1>1. /\ a \o b \in Seq(S) /\ Len(a \o b) = Len(a) + Len(b)
      /\ \A n \in 1..(Len(a) + Len(b)) : (a \o b)[n] = IF n <= Len(a) THEN a[n] ELSE b[n - Len(a)]
  BY ConcatProperties
<1>2. Len(a) \in Nat /\ Len(b) \in Nat
  BY LenProperties
<1>3. ASSUME NEW n \in 1..(Len(a) + Len(b)) PROVE (a \o b)[n] = c[n]
  <2>1. CASE n <= Len(a)
    BY <1>1, <1>2, <2>1
  <2>2. CASE n > Len(a)
    <3>1. n - Len(a) \in 1..Len(b) /\ Len(a) + (n - Len(a)) = n
      BY <1>2, <2>2
    <3>2. c[Len(a) + (n - Len(a))] = b[n - Len(a)]
      BY <3>1
    <3> QED
      BY <1>1, <1>2, <2>2, <3>1, <3>2
  <2> QED
    BY <1>2, <2>1, <2>2
<1> QED
  BY <1>1, <1>3, SeqEqual

\* Adjacent bytes join.
LEMMA BytesJoin ==
  ASSUME NEW m \in Messages, NEW i \in Nat \ {0}, NEW j \in Nat, NEW k \in Nat,
         i <= j + 1, j <= k, k <= Total(m)
  PROVE  Cat(Bytes(m, i, j), Bytes(m, j + 1, k)) = Bytes(m, i, k)
<1>0. /\ j <= Total(m) /\ i <= k + 1 /\ j + 1 \in Nat \ {0} /\ (j + 1) <= k + 1
      /\ Total(m) \in Nat
  BY LengthTypes
<1>1. /\ Bytes(m, i, j) \in ByteSeq /\ Len(Bytes(m, i, j)) = j + 1 - i
      /\ \A n \in 1..(j + 1 - i) : Bytes(m, i, j)[n] = <<m, i + n - 1>>
  BY <1>0, BytesSeq
<1>2. /\ Bytes(m, j + 1, k) \in ByteSeq /\ Len(Bytes(m, j + 1, k)) = k - j
      /\ \A n \in 1..(k - j) : Bytes(m, j + 1, k)[n] = <<m, j + n>>
  <2>1. /\ Bytes(m, j + 1, k) \in ByteSeq /\ Len(Bytes(m, j + 1, k)) = k + 1 - (j + 1)
        /\ \A n \in 1..(k + 1 - (j + 1)) : Bytes(m, j + 1, k)[n] = <<m, (j + 1) + n - 1>>
    BY <1>0, BytesSeq
  <2>2. k + 1 - (j + 1) = k - j
    OBVIOUS
  <2>3. \A n \in 1..(k - j) : (j + 1) + n - 1 = j + n
    OBVIOUS
  <2> QED
    BY <2>1, <2>2, <2>3
<1>3. /\ Bytes(m, i, k) \in ByteSeq /\ Len(Bytes(m, i, k)) = k + 1 - i
      /\ \A n \in 1..(k + 1 - i) : Bytes(m, i, k)[n] = <<m, i + n - 1>>
  BY <1>0, BytesSeq
<1>4. \A n \in 1..(j + 1 - i) : n \in 1..(k + 1 - i)
  BY <1>0
<1>5. \A n \in 1..(k - j) :
        (j + 1 - i) + n \in 1..(k + 1 - i) /\ i + ((j + 1 - i) + n) - 1 = j + n
  BY <1>0
<1>6. \A n \in 1..(k - j) : Bytes(m, i, k)[(j + 1 - i) + n] = Bytes(m, j + 1, k)[n]
  <2> TAKE n \in 1..(k - j)
  <2>1. Bytes(m, i, k)[(j + 1 - i) + n] = <<m, i + ((j + 1 - i) + n) - 1>>
    BY <1>3, <1>5
  <2> QED
    BY <2>1, <1>2, <1>5
<1>7. \A n \in 1..(j + 1 - i) : Bytes(m, i, k)[n] = Bytes(m, i, j)[n]
  BY <1>1, <1>3, <1>4
<1>8. k + 1 - i = (j + 1 - i) + (k - j)
  OBVIOUS
<1>9. /\ Len(Bytes(m, i, k)) = Len(Bytes(m, i, j)) + Len(Bytes(m, j + 1, k))
      /\ \A n \in 1..Len(Bytes(m, i, j)) : Bytes(m, i, k)[n] = Bytes(m, i, j)[n]
  BY <1>1, <1>2, <1>3, <1>7, <1>8
<1>10. \A n \in 1..Len(Bytes(m, j + 1, k)) :
         Bytes(m, i, k)[Len(Bytes(m, i, j)) + n] = Bytes(m, j + 1, k)[n]
  BY <1>1, <1>2, <1>6
<1> QED
  BY <1>1, <1>2, <1>3, <1>9, <1>10, JoinByElements DEF ByteSeq, Cat

\* The message with its header cut off is its body and its tag.
LEMMA BodyAndTag ==
  ASSUME NEW m \in Messages
  PROVE  /\ Body(m) \in ByteSeq /\ Tag(m) \in ByteSeq
         /\ Len(Body(m)) = BodyLen[m] /\ Len(Tag(m)) = TagLen
         /\ Cat(Body(m), Tag(m)) = Bytes(m, HeaderLen + 1, Total(m))
<1>1. /\ HeaderLen \in Nat \ {0} /\ TagLen \in Nat \ {0} /\ BodyLen[m] \in Nat
      /\ Total(m) = HeaderLen + BodyLen[m] + TagLen
  BY LengthTypes
<1> DEFINE j == HeaderLen + BodyLen[m]
<1>a. /\ HeaderLen + 1 \in Nat \ {0} /\ j \in Nat /\ j + 1 \in Nat \ {0}
      /\ HeaderLen + 1 <= j + 1 /\ j <= Total(m) /\ Total(m) \in Nat
      /\ j + 1 <= Total(m) + 1 /\ Total(m) <= Total(m)
  BY <1>1
<1>2. Body(m) \in ByteSeq /\ Len(Body(m)) = BodyLen[m]
  <2>1. Body(m) \in ByteSeq /\ Len(Body(m)) = (HeaderLen + BodyLen[m]) + 1 - (HeaderLen + 1)
    BY <1>a, BytesSeq DEF Body
  <2> QED
    BY <2>1, <1>1
<1>3. Tag(m) \in ByteSeq /\ Len(Tag(m)) = TagLen
  <2>1. Tag(m) \in ByteSeq /\ Len(Tag(m)) = Total(m) + 1 - (HeaderLen + BodyLen[m] + 1)
    BY <1>a, BytesSeq DEF Tag
  <2> QED
    BY <2>1, <1>1
<1>4. Cat(Body(m), Tag(m)) = Bytes(m, HeaderLen + 1, Total(m))
  BY <1>a, BytesJoin DEF Body, Tag
<1> QED
  BY <1>2, <1>3, <1>4
\* Equal concatenations whose first parts are as long have equal parts.
LEMMA EqualParts ==
  ASSUME NEW S, NEW a \in Seq(S), NEW b \in Seq(S), NEW c \in Seq(S), NEW d \in Seq(S),
         a \o b = c \o d, Len(a) = Len(c)
  PROVE  a = c /\ b = d
<1>1. /\ Len(a \o b) = Len(a) + Len(b) /\ Len(c \o d) = Len(c) + Len(d)
      /\ \A i \in 1..(Len(a) + Len(b)) : (a \o b)[i] = IF i <= Len(a) THEN a[i] ELSE b[i - Len(a)]
      /\ \A i \in 1..(Len(c) + Len(d)) : (c \o d)[i] = IF i <= Len(c) THEN c[i] ELSE d[i - Len(c)]
  BY ConcatProperties
<1>2. Len(a) \in Nat /\ Len(b) \in Nat /\ Len(c) \in Nat /\ Len(d) \in Nat
  BY LenProperties
<1>3. Len(b) = Len(d)
  BY <1>1, <1>2
<1>4. \A i \in 1..Len(a) : a[i] = c[i]
  BY <1>1, <1>2, <1>3
<1>5. a = c
  BY <1>4, SeqEqual
<1>6. ASSUME NEW i \in 1..Len(b) PROVE b[i] = d[i]
  <2>1. /\ Len(a) + i \in 1..(Len(a) + Len(b)) /\ ~(Len(a) + i <= Len(a))
        /\ (Len(a) + i) - Len(a) = i
    BY <1>2
  <2>2. (a \o b)[Len(a) + i] = b[i] /\ (c \o d)[Len(a) + i] = d[i]
    BY <1>1, <1>3, <2>1
  <2> QED
    BY <2>2
<1>7. b = d
  BY <1>3, <1>6, SeqEqual
<1> QED
  BY <1>5, <1>7

\* The parts before and after the first h bytes.
LEMMA CutParts ==
  ASSUME NEW S, NEW s \in Seq(S), NEW h \in Nat \ {0}, h <= Len(s)
  PROVE  /\ SubSeq(s, 1, h) \in Seq(S) /\ Len(SubSeq(s, 1, h)) = h
         /\ SubSeq(s, h + 1, Len(s)) \in Seq(S) /\ Len(SubSeq(s, h + 1, Len(s))) = Len(s) - h
         /\ SubSeq(s, 1, h) \o SubSeq(s, h + 1, Len(s)) = s
         /\ SubSeq(s, 1, h)[1] = s[1]
         /\ \A i \in 1..(Len(s) - h) : SubSeq(s, h + 1, Len(s))[i] = s[h + i]
<1>1. /\ SubSeq(s, 1, h) \in Seq(S) /\ Len(SubSeq(s, 1, h)) = h
      /\ SubSeq(s, 1, h)[1] = s[1]
  OBVIOUS
<1>2. /\ SubSeq(s, h + 1, Len(s)) \in Seq(S) /\ Len(SubSeq(s, h + 1, Len(s))) = Len(s) - h
      /\ \A i \in 1..(Len(s) - h) : SubSeq(s, h + 1, Len(s))[i] = s[h + i]
  OBVIOUS
<1>3. SubSeq(s, 1, h) \o SubSeq(s, h + 1, Len(s)) = s
  <2>1. 1 \in 1..(Len(s) + 1) /\ h \in (1 - 1)..Len(s) /\ Len(s) \in h..Len(s)
    OBVIOUS
  <2>2. SubSeq(s, 1, h) \o SubSeq(s, h + 1, Len(s)) = SubSeq(s, 1, Len(s))
    BY <2>1, ConcatAdjacentSubSeq
  <2> QED
    BY <2>2, SubSeqFull
<1> QED
  BY <1>1, <1>2, <1>3

LEMMA CatEqual ==
  ASSUME NEW a \in ByteSeq, NEW b \in ByteSeq, NEW c \in ByteSeq, NEW d \in ByteSeq,
         Cat(a, b) = Cat(c, d), Len(a) = Len(c)
  PROVE  a = c /\ b = d
  BY EqualParts DEF ByteSeq, Cat

LEMMA FrontRest ==
  ASSUME NEW s \in ByteSeq, NEW h \in Nat \ {0}, h <= Len(s)
  PROVE  /\ Front(s, h) \in ByteSeq /\ Len(Front(s, h)) = h
         /\ Rest(s, h) \in ByteSeq /\ Len(Rest(s, h)) = Len(s) - h
         /\ Cat(Front(s, h), Rest(s, h)) = s
         /\ Front(s, h)[1] = s[1]
         /\ \A i \in 1..(Len(s) - h) : Rest(s, h)[i] = s[h + i]
  BY CutParts DEF ByteSeq, Cat, Front, Rest

\* Bytes h + 1 to k, and those after them, are the rest after h.
LEMMA MiddleRest ==
  ASSUME NEW s \in ByteSeq, NEW h \in Nat \ {0}, NEW k \in Nat \ {0}, h < k, k <= Len(s)
  PROVE  /\ SubSeq(s, h + 1, k) \in ByteSeq
         /\ Rest(s, k) \in ByteSeq /\ Len(Rest(s, k)) = Len(s) - k
         /\ Cat(SubSeq(s, h + 1, k), Rest(s, k)) = Rest(s, h)
<1>1. ASSUME NEW S, NEW q \in Seq(S), k <= Len(q)
      PROVE  SubSeq(q, h + 1, k) \in Seq(S)
             /\ SubSeq(q, h + 1, k) \o SubSeq(q, k + 1, Len(q)) = SubSeq(q, h + 1, Len(q))
  <2>1. h + 1 \in 1..(Len(q) + 1) /\ k \in ((h + 1) - 1)..Len(q) /\ Len(q) \in k..Len(q)
    BY <1>1
  <2>2. SubSeq(q, h + 1, k) \in Seq(S)
    BY <1>1
  <2> QED
    BY <2>1, <2>2, ConcatAdjacentSubSeq
<1> QED
  BY <1>1, FrontRest DEF ByteSeq, Cat, Rest

\* A chunk at the end moves neither the header nor the cut.
LEMMA CutGrows ==
  ASSUME NEW s \in ByteSeq, NEW t \in ByteSeq, NEW h \in Nat \ {0}, h <= Len(s)
  PROVE  /\ Front(Cat(s, t), h) = Front(s, h)
         /\ Rest(Cat(s, t), h) = Cat(Rest(s, h), t)
<1>1. Cat(s, t) \in ByteSeq /\ h <= Len(Cat(s, t))
  BY CatType
<1>2. /\ Front(s, h) \in ByteSeq /\ Rest(s, h) \in ByteSeq
      /\ Len(Front(s, h)) = h /\ Cat(Front(s, h), Rest(s, h)) = s
  BY FrontRest
<1>3. /\ Front(Cat(s, t), h) \in ByteSeq /\ Rest(Cat(s, t), h) \in ByteSeq
      /\ Len(Front(Cat(s, t), h)) = h
      /\ Cat(Front(Cat(s, t), h), Rest(Cat(s, t), h)) = Cat(s, t)
  BY <1>1, FrontRest
<1>4. Cat(s, t) = Cat(Front(s, h), Cat(Rest(s, h), t)) /\ Cat(Rest(s, h), t) \in ByteSeq
  BY <1>2, CatAssociative, CatType
<1> QED
  BY <1>2, <1>3, <1>4, CatEqual

\* A whole message with its header cut off.
LEMMA BytesCut ==
  ASSUME NEW m \in Messages
  PROVE  /\ Bytes(m, 1, Total(m)) \in ByteSeq /\ Len(Bytes(m, 1, Total(m))) = Total(m)
         /\ Bytes(m, 1, HeaderLen) \in ByteSeq /\ Len(Bytes(m, 1, HeaderLen)) = HeaderLen
         /\ Bytes(m, 1, HeaderLen)[1] = <<m, 1>>
         /\ Bytes(m, HeaderLen + 1, Total(m)) \in ByteSeq
         /\ Len(Bytes(m, HeaderLen + 1, Total(m))) = Total(m) - HeaderLen
         /\ Bytes(m, HeaderLen + 1, Total(m))[1] = <<m, HeaderLen + 1>>
         /\ Cat(Bytes(m, 1, HeaderLen), Bytes(m, HeaderLen + 1, Total(m))) = Bytes(m, 1, Total(m))
<1>1. /\ HeaderLen \in Nat \ {0} /\ Total(m) \in Nat /\ HeaderLen <= Total(m)
      /\ HeaderLen + 1 \in Nat \ {0} /\ HeaderLen + 1 <= Total(m)
      /\ 1 \in Nat \ {0} /\ 1 <= HeaderLen + 1 /\ 1 <= Total(m) + 1 /\ Total(m) <= Total(m)
      /\ HeaderLen \in Nat /\ HeaderLen + 1 <= Total(m) + 1
  BY LengthTypes
<1>2. ASSUME NEW i \in Nat \ {0}, NEW j \in Nat, i <= j, j <= Total(m)
      PROVE  /\ Bytes(m, i, j) \in ByteSeq /\ Len(Bytes(m, i, j)) = j + 1 - i
             /\ Bytes(m, i, j)[1] = <<m, i>>
  <2>1. i <= j + 1 /\ 1 \in 1..(j + 1 - i) /\ i + 1 - 1 = i
    BY <1>2
  <2>2. /\ Bytes(m, i, j) \in ByteSeq /\ Len(Bytes(m, i, j)) = j + 1 - i
        /\ \A n \in 1..(j + 1 - i) : Bytes(m, i, j)[n] = <<m, i + n - 1>>
    BY <1>2, <2>1, BytesSeq
  <2> QED
    BY <2>1, <2>2
<1>3. 1 <= HeaderLen /\ 1 <= Total(m)
  BY <1>1
<1>4. /\ Bytes(m, 1, Total(m)) \in ByteSeq /\ Len(Bytes(m, 1, Total(m))) = Total(m) + 1 - 1
  BY <1>1, <1>2, <1>3
<1>5. /\ Bytes(m, 1, HeaderLen) \in ByteSeq /\ Len(Bytes(m, 1, HeaderLen)) = HeaderLen + 1 - 1
      /\ Bytes(m, 1, HeaderLen)[1] = <<m, 1>>
  BY <1>1, <1>2, <1>3
<1>6. /\ Bytes(m, HeaderLen + 1, Total(m)) \in ByteSeq
      /\ Len(Bytes(m, HeaderLen + 1, Total(m))) = Total(m) + 1 - (HeaderLen + 1)
      /\ Bytes(m, HeaderLen + 1, Total(m))[1] = <<m, HeaderLen + 1>>
  BY <1>1, <1>2
<1>7. Cat(Bytes(m, 1, HeaderLen), Bytes(m, HeaderLen + 1, Total(m))) = Bytes(m, 1, Total(m))
  BY <1>1, BytesJoin
<1> QED
  BY <1>1, <1>4, <1>5, <1>6, <1>7
-----------------------------------------------------------------------------
(* The stream *)

LEMMA StreamType ==
  ASSUME Typed, message # NoMessage
  PROVE  /\ Bytes(message, 1, given) \in ByteSeq /\ Len(Bytes(message, 1, given)) = given
         /\ Streamed \in ByteSeq /\ Len(Streamed) = Len(left) + given
         /\ message \in Messages /\ given \in Nat /\ given <= Total(message)
<1>1. message \in Messages /\ given \in Nat /\ given <= Total(message)
  BY DEF Typed
<1>2. Bytes(message, 1, given) \in ByteSeq /\ Len(Bytes(message, 1, given)) = given
  <2>1. Bytes(message, 1, given) \in ByteSeq /\ Len(Bytes(message, 1, given)) = given + 1 - 1
    BY <1>1, BytesSeq
  <2> QED
    BY <1>1, <2>1
<1>3. left \in ByteSeq
  BY DEF Typed
<1> QED
  BY <1>1, <1>2, <1>3, CatType DEF Streamed, Cat

\* The chunk that an update supplies.
Chunk(n) == Bytes(message, given + 1, given + n)

\* A chunk more is in the buffer, and in the stream.
LEMMA SupplyStream ==
  ASSUME Typed, NEW n \in Nat, Supply(n)
  PROVE  /\ Chunk(n) \in ByteSeq
         /\ Appended(n) \in ByteSeq /\ Len(Appended(n)) = Len(buf) + n
         /\ Appended(n) = Cat(buf, Chunk(n))
         /\ Streamed' = Cat(Streamed, Chunk(n)) /\ Streamed' \in ByteSeq
         /\ Streamed \in ByteSeq /\ Len(Streamed') = Len(Streamed) + n
         /\ message' = message /\ message \in Messages /\ left' = left /\ sessions' = sessions
         /\ given' \in Nat /\ given' <= Total(message)
<1>1. /\ message # NoMessage /\ given + n <= Total(message) /\ given' = given + n
      /\ message' = message /\ left' = left /\ sessions' = sessions
  BY DEF Supply
<1>2. /\ Bytes(message, 1, given) \in ByteSeq /\ Len(Bytes(message, 1, given)) = given
      /\ Streamed \in ByteSeq /\ Len(Streamed) = Len(left) + given
      /\ message \in Messages /\ given \in Nat
  BY <1>1, StreamType
<1>3. Total(message) \in Nat
  BY <1>2, LengthTypes
<1>4. /\ given + 1 \in Nat \ {0} /\ given + n \in Nat /\ given + 1 <= (given + n) + 1
      /\ 1 <= given + 1 /\ given <= given + n
  BY <1>2
<1>5. Chunk(n) \in ByteSeq /\ Len(Chunk(n)) = n
  <2>1. Chunk(n) \in ByteSeq /\ Len(Chunk(n)) = (given + n) + 1 - (given + 1)
    BY <1>1, <1>2, <1>4, BytesSeq DEF Chunk
  <2> QED
    BY <1>2, <2>1
<1>6. Cat(Bytes(message, 1, given), Chunk(n)) = Bytes(message, 1, given + n)
  <2>1. given + n <= Total(message) /\ given <= Total(message)
    BY <1>1, <1>2, <1>3, <1>4
  <2>2. ASSUME NEW i \in Nat \ {0}, NEW j \in Nat, NEW k \in Nat,
               i <= j + 1, j <= k, k <= Total(message)
        PROVE  Cat(Bytes(message, i, j), Bytes(message, j + 1, k)) = Bytes(message, i, k)
    BY <1>2, <2>2, BytesJoin
  <2>3. 1 \in Nat \ {0} /\ given \in Nat /\ given + n \in Nat
    BY <1>2, <1>4
  <2>4. Cat(Bytes(message, 1, given), Bytes(message, given + 1, given + n))
          = Bytes(message, 1, given + n)
    BY <2>2, <2>1, <2>3, <1>4, Zenon
  <2> QED
    BY <2>4 DEF Chunk
<1>7. left \in ByteSeq /\ buf \in ByteSeq
  BY DEF Typed
<1>8. Streamed' = Cat(left, Bytes(message, 1, given + n))
      /\ Streamed = Cat(left, Bytes(message, 1, given))
  BY <1>1 DEF Streamed, Cat
<1>9. Streamed' = Cat(Streamed, Chunk(n))
  BY <1>2, <1>5, <1>6, <1>7, <1>8, CatAssociative
<1>10. Streamed' \in ByteSeq /\ Len(Streamed') = Len(Streamed) + n
  BY <1>2, <1>5, <1>9, CatType
<1>11. Appended(n) = Cat(buf, Chunk(n))
  BY DEF Appended, Chunk, Cat
<1>12. Appended(n) \in ByteSeq /\ Len(Appended(n)) = Len(buf) + n
  BY <1>5, <1>7, <1>11, CatType
<1> QED
  BY <1>1, <1>2, <1>3, <1>4, <1>5, <1>9, <1>10, <1>11, <1>12

\* What Drain makes of a buffer that is to be decrypted from off on: the buffer
\* and what was fed before stay, or all from off on is in them.
LEMMA DrainKeeps ==
  ASSUME NEW b \in ByteSeq, NEW off \in Nat, NEW sofar \in ByteSeq, off <= Len(b),
         DrainOrFail(b, off, sofar)
  PROVE  /\ buf' \in ByteSeq /\ fed' \in ByteSeq
         /\ \/ buf' = b /\ fed' = sofar /\ (ret'.res = "OK" => Len(b) <= TagLen + off)
            \/ /\ Cat(fed', buf') = Cat(sofar, IF off = 0 THEN b ELSE Rest(b, off))
               /\ Len(buf') = TagLen
         /\ ret'.call = "update"
<1>1. TagLen \in Nat \ {0} /\ Len(b) \in Nat
  BY LengthTypes, EmptyBytes
<1>2. CASE DrainFails(b, off, sofar)
  BY <1>1, <1>2 DEF DrainFails, Returns
<1>3. CASE Drain(b, off, sofar)
  <2> DEFINE n == Len(b) - TagLen
  <2>1. ret'.res = "OK" /\ ret'.call = "update"
    BY <1>3 DEF Drain, Returns
  <2>2. CASE ~(n > off)
    <3>1. buf' = b /\ fed' = sofar
      BY <1>3, <2>2 DEF Drain
    <3>2. Len(b) <= TagLen + off
      BY <1>1, <2>2
    <3> QED
      BY <2>1, <3>1, <3>2
  <2>3. CASE n > off
    <3>1. buf' = SubSeq(b, n + 1, Len(b)) /\ fed' = sofar \o SubSeq(b, off + 1, n)
      BY <1>3, <2>3 DEF Drain
    <3>2. n \in Nat \ {0} /\ n <= Len(b) /\ Len(b) - n = TagLen
      BY <1>1, <2>3
    <3>3. /\ Rest(b, n) \in ByteSeq /\ Len(Rest(b, n)) = TagLen
          /\ SubSeq(b, off + 1, n) \in ByteSeq
          /\ Cat(SubSeq(b, off + 1, n), Rest(b, n)) = IF off = 0 THEN b ELSE Rest(b, off)
      <4>1. CASE off = 0
        BY <3>2, <4>1, FrontRest DEF Front
      <4>2. CASE off # 0
        BY <3>2, <4>2, <2>3, MiddleRest
      <4> QED
        BY <4>1, <4>2
    <3>4. buf' = Rest(b, n) /\ fed' = Cat(sofar, SubSeq(b, off + 1, n))
      BY <3>1 DEF Rest, Cat
    <3>5. Cat(fed', buf') = Cat(sofar, IF off = 0 THEN b ELSE Rest(b, off))
      BY <3>3, <3>4, CatAssociative
    <3>6. fed' \in ByteSeq
      BY <3>3, <3>4, CatType
    <3> QED
      BY <2>1, <3>3, <3>4, <3>5, <3>6
  <2> QED
    BY <2>2, <2>3
<1> QED
  BY <1>2, <1>3 DEF DrainOrFail

\* Of a message of g bytes in hand whose buffer holds at least a tag, nothing of
\* the tag is in what was fed.
LEMMA HeldBack ==
  ASSUME NEW m \in Messages, NEW c \in Messages, NEW f \in ByteSeq, NEW b \in ByteSeq,
         NEW g \in Nat, g <= Total(m), HeaderLen <= g, TagLen <= Len(b),
         Front(Bytes(m, 1, g), HeaderLen) = Bytes(c, 1, HeaderLen),
         Cat(f, b) = Bytes(m, 1, g) \/ Cat(f, b) = Rest(Bytes(m, 1, g), HeaderLen)
  PROVE  \A i \in 1..Len(f) : f[i][2] <= HeaderLen + BodyLen[c]
<1>1. /\ HeaderLen \in Nat \ {0} /\ TagLen \in Nat \ {0} /\ BodyLen[m] \in Nat
      /\ Total(m) = HeaderLen + BodyLen[m] + TagLen
  BY LengthTypes
<1>2. /\ Bytes(m, 1, g) \in ByteSeq /\ Len(Bytes(m, 1, g)) = g
      /\ \A n \in 1..g : Bytes(m, 1, g)[n] = <<m, n>>
  <2>1. /\ Bytes(m, 1, g) \in ByteSeq /\ Len(Bytes(m, 1, g)) = g + 1 - 1
        /\ \A n \in 1..(g + 1 - 1) : Bytes(m, 1, g)[n] = <<m, 1 + n - 1>>
    BY <1>1, BytesSeq
  <2>2. g + 1 - 1 = g /\ \A n \in 1..g : 1 + n - 1 = n
    OBVIOUS
  <2> QED
    BY <2>1, <2>2
<1>3. m = c
  <2>1. Front(Bytes(m, 1, g), HeaderLen)[1] = Bytes(m, 1, g)[1]
    BY <1>1, <1>2, FrontRest
  <2>2. Bytes(m, 1, g)[1] = <<m, 1>>
    BY <1>1, <1>2
  <2>3. Bytes(c, 1, HeaderLen)[1] = <<c, 1>>
    BY BytesCut
  <2> QED
    BY <2>1, <2>2, <2>3
<1>4. /\ Len(f) \in Nat /\ Len(b) \in Nat /\ Len(Cat(f, b)) = Len(f) + Len(b)
      /\ \A i \in 1..Len(f) : Cat(f, b)[i] = f[i]
  BY CatType
<1>5. CASE Cat(f, b) = Bytes(m, 1, g)
  <2> TAKE i \in 1..Len(f)
  <2>1. i \in 1..g /\ i <= HeaderLen + BodyLen[m]
    BY <1>1, <1>2, <1>4, <1>5
  <2>2. f[i] = <<m, i>>
    BY <1>2, <1>4, <1>5, <2>1
  <2> QED
    BY <1>3, <2>1, <2>2
<1>6. CASE Cat(f, b) = Rest(Bytes(m, 1, g), HeaderLen)
  <2>a. ASSUME NEW s \in ByteSeq, Len(s) = g
        PROVE  /\ Len(Rest(s, HeaderLen)) = g - HeaderLen
               /\ \A i \in 1..(g - HeaderLen) : Rest(s, HeaderLen)[i] = s[HeaderLen + i]
    <3>1. HeaderLen \in Nat \ {0} /\ HeaderLen <= Len(s)
      BY <1>1, <2>a
    <3>2. /\ Len(Rest(s, HeaderLen)) = Len(s) - HeaderLen
          /\ \A i \in 1..(Len(s) - HeaderLen) : Rest(s, HeaderLen)[i] = s[HeaderLen + i]
      BY <3>1, FrontRest
    <3> QED
      BY <2>a, <3>2
  <2>1. /\ Len(Rest(Bytes(m, 1, g), HeaderLen)) = g - HeaderLen
        /\ \A i \in 1..(g - HeaderLen) :
             Rest(Bytes(m, 1, g), HeaderLen)[i] = Bytes(m, 1, g)[HeaderLen + i]
    BY <1>2, <2>a
  <2> TAKE i \in 1..Len(f)
  <2>2. /\ i \in 1..(g - HeaderLen) /\ HeaderLen + i \in 1..g
        /\ HeaderLen + i <= HeaderLen + BodyLen[m]
    BY <1>1, <1>4, <1>6, <2>1
  <2>3. f[i] = <<m, HeaderLen + i>>
    BY <1>2, <1>4, <1>6, <2>1, <2>2
  <2> QED
    BY <1>3, <2>2, <2>3
<1> QED
  BY <1>5, <1>6

\* What is authentic was fed with the header cut off, and is all of a message.
LEMMA Acceptance ==
  ASSUME NEW c \in Messages, NEW s \in ByteSeq, HeaderLen <= Len(s),
         Front(s, HeaderLen) = Bytes(c, 1, HeaderLen)
  PROVE  /\ Cat(Body(c), Tag(c)) # s
         /\ Cat(Body(c), Tag(c)) = Rest(s, HeaderLen) => s = Bytes(c, 1, Total(c))
<1>1. /\ HeaderLen \in Nat \ {0}
      /\ Cat(Body(c), Tag(c)) = Bytes(c, HeaderLen + 1, Total(c))
  BY LengthTypes, BodyAndTag
<1>2. /\ Cat(Front(s, HeaderLen), Rest(s, HeaderLen)) = s
      /\ Front(s, HeaderLen)[1] = s[1]
  BY <1>1, FrontRest
<1>3. /\ Bytes(c, 1, HeaderLen)[1] = <<c, 1>>
      /\ Bytes(c, HeaderLen + 1, Total(c))[1] = <<c, HeaderLen + 1>>
      /\ Cat(Bytes(c, 1, HeaderLen), Bytes(c, HeaderLen + 1, Total(c))) = Bytes(c, 1, Total(c))
  BY BytesCut
<1>4. <<c, 1>> # <<c, HeaderLen + 1>>
  BY <1>1
<1>5. Cat(Body(c), Tag(c)) # s
  BY <1>1, <1>2, <1>3, <1>4
<1>6. Cat(Body(c), Tag(c)) = Rest(s, HeaderLen) => s = Bytes(c, 1, Total(c))
  BY <1>1, <1>2, <1>3
<1> QED
  BY <1>5, <1>6
-----------------------------------------------------------------------------
(* Steps *)

\* TagHeldBack follows from the rest of the invariant while a message is in hand,
\* in the next state.
LEMMA HeldBackNext ==
  ASSUME Typed', Flow', TagStays', message' # NoMessage
  PROVE  TagHeldBack'
<1> SUFFICES ASSUME left' = <<>>, ctx' # NoMessage, fed' # <<>>
             PROVE  \A i \in 1..Len(fed') : fed'[i][2] <= HeaderLen + BodyLen[ctx']
  <2>1. CASE fed' = <<>>
    BY <2>1 DEF TagHeldBack
  <2> QED
    BY <2>1 DEF TagHeldBack
<1>1. /\ message' \in Messages /\ ctx' \in Messages /\ fed' \in ByteSeq /\ buf' \in ByteSeq
      /\ given' \in Nat /\ given' <= Total(message')
  BY DEF Typed
<1>2. Bytes(message', 1, given') \in ByteSeq /\ Len(Bytes(message', 1, given')) = given'
  <2>1. ASSUME NEW m \in Messages, NEW g \in Nat, g <= Total(m)
        PROVE  Bytes(m, 1, g) \in ByteSeq /\ Len(Bytes(m, 1, g)) = g
    <3>1. Bytes(m, 1, g) \in ByteSeq /\ Len(Bytes(m, 1, g)) = g + 1 - 1
      BY <2>1, BytesSeq
    <3> QED
      BY <3>1
  <2> QED
    BY <1>1, <2>1
<1>3. Streamed' = Bytes(message', 1, given')
  BY <1>2, CatEmpty DEF Streamed, Cat
<1>4. TagLen <= Len(buf')
  BY LengthTypes, EmptyBytes, <1>1 DEF TagStays
<1>5. /\ HeaderLen <= given'
      /\ Front(Bytes(message', 1, given'), HeaderLen) = Bytes(ctx', 1, HeaderLen)
      /\ \/ Cat(fed', buf') = Bytes(message', 1, given')
         \/ Cat(fed', buf') = Rest(Bytes(message', 1, given'), HeaderLen)
  BY <1>2, <1>3 DEF Flow, Headed, Whole, Cut
<1> QED
  BY <1>1, <1>4, <1>5, HeldBack

LEMMA InitInvariant == Init => IInv
<1> SUFFICES ASSUME Init PROVE IInv
  OBVIOUS
<1>1. <<>> \in ByteSeq
  BY EmptySeq DEF ByteSeq
<1>2. Typed
  BY <1>1, BoundsAssumption DEF Init, Typed
<1> QED
  BY <1>2 DEF Init, IInv, Flow, TagStays, EndedIsBilled, TagHeldBack

LEMMA CreateKeeps == ASSUME IInv, Create \/ FailToCreate PROVE IInv'
<1>1. UNCHANGED callVars /\ phase' \in {"live", "gone"} /\ ctx = NoMessage
  BY DEF IInv, Typed, Create, FailToCreate
<1>2. Typed'
  BY <1>1 DEF IInv, Typed, callVars
<1> QED
  BY <1>1, <1>2 DEF IInv, callVars, Flow, Headed, Whole, Cut, Streamed, TagStays, EndedIsBilled,
                    TagHeldBack

LEMMA StutterKeeps == ASSUME IInv, UNCHANGED vars PROVE IInv'
  BY DEF IInv, vars, callVars, Typed, Flow, Headed, Whole, Cut, Streamed, TagStays, EndedIsBilled,
         TagHeldBack

LEMMA DestroyKeeps == ASSUME IInv, Destroy PROVE IInv'
<1>1. ctx' = NoMessage /\ phase' = "gone"
  BY MessagesAssumption DEF IInv, Typed, Destroy, Reset
<1>2. <<>> \in ByteSeq
  BY EmptySeq DEF ByteSeq
<1>3. Typed'
  BY <1>1, <1>2 DEF IInv, Typed, Destroy, Returns
<1> QED
  BY <1>1, <1>3 DEF IInv, Destroy, Returns, Flow, TagStays, EndedIsBilled, TagHeldBack

LEMMA BeginKeeps ==
  ASSUME IInv, phase' = phase, phase = "live", NEW m \in Messages, Begin(m)
  PROVE  IInv'
<1>1. /\ ctx = NoMessage /\ ctx' = NoMessage /\ message' = m /\ given' = 0 /\ left' = buf
      /\ buf' = buf /\ fed' = fed /\ fed = <<>>
  BY DEF IInv, Flow, Begin
<1>2. sessions' \in 0..MaxSessions /\ sessions' > 0
  BY BoundsAssumption DEF IInv, Typed, Begin
<1>3. Typed'
  BY <1>1, <1>2, LengthTypes DEF IInv, Typed, Begin, Returns
<1>4. Bytes(m, 1, 0) = <<>>
  <2>1. Bytes(m, 1, 0) \in ByteSeq /\ Len(Bytes(m, 1, 0)) = 0 + 1 - 1
    <3>1. 1 \in Nat \ {0} /\ 0 \in Nat /\ 1 <= 0 + 1 /\ 0 <= Total(m)
      BY LengthTypes
    <3> QED
      BY <3>1, BytesSeq
  <2> QED
    BY <2>1, EmptyBytes
<1>5. Streamed' = buf
  BY <1>1, <1>3, <1>4, CatEmpty DEF Streamed, Cat, Typed
<1> QED
  BY <1>1, <1>3, <1>5 DEF IInv, Begin, Returns, Flow, TagStays, EndedIsBilled, TagHeldBack

LEMMA BeginBusyKeeps ==
  ASSUME IInv, phase' = phase, phase = "live", BeginBusy
  PROVE  IInv'
<1>1. /\ message = NoMessage /\ message' = NoMessage /\ ctx' = ctx /\ fed' = fed
      /\ left' = left /\ ret'.call = "begin"
  BY DEF BeginBusy, Returns
<1>2. sessions' \in 0..MaxSessions
  BY BoundsAssumption DEF IInv, Typed, BeginBusy
<1>3. Typed'
  BY <1>1, <1>2 DEF IInv, Typed, BeginBusy
<1> QED
  BY <1>1, <1>3 DEF IInv, Flow, TagStays, EndedIsBilled, TagHeldBack

LEMMA OutOfMemoryKeeps ==
  ASSUME IInv, phase' = phase, phase = "live", OutOfMemory
  PROVE  IInv'
<1>1. UNCHANGED <<buf, ctx, raw, fed, message, given, left, sessions, billed>>
      /\ ret'.call = "update" /\ ret'.res # "OK"
  BY DEF OutOfMemory, Returns
<1>2. Typed'
  BY <1>1 DEF IInv, Typed
<1> QED
  BY <1>1, <1>2 DEF IInv, Flow, Headed, Whole, Cut, Streamed, TagStays, EndedIsBilled, TagHeldBack

\* An update changes no more than the chunk's place, the buffer and the cipher.
LEMMA SupplyTyped ==
  ASSUME Typed, phase' = "live" \/ (phase' = "crashed" /\ ctx' = NoMessage),
         NEW n \in Nat, Supply(n),
         buf' \in ByteSeq, fed' \in ByteSeq,
         ctx' \in Messages \cup {NoMessage}, ctx' # NoMessage => raw' = KeyOf[ctx'],
         billed' \subseteq billed \cup {sessions}, ret'.call = "update"
  PROVE  Typed'
<1>1. /\ message' = message /\ message \in Messages /\ left' = left /\ sessions' = sessions
      /\ given' \in Nat /\ given' <= Total(message)
  BY SupplyStream
<1>2. message # NoMessage /\ sessions > 0 /\ sessions \in 0..MaxSessions
  BY MessagesAssumption, <1>1 DEF Typed
<1>3. sessions \in 1..MaxSessions
  BY <1>2, BoundsAssumption
<1>4. billed' \subseteq 1..MaxSessions
  BY <1>3 DEF Typed
<1> QED
  BY <1>1, <1>2, <1>4 DEF Typed

\* The chunk joins the buffer, and no context is there.
LEMMA WaitingKeeps ==
  ASSUME IInv, phase' \in {"live", "crashed"}, NEW n \in Nat, Supply(n), ctx = NoMessage,
         ctx' = NoMessage, buf' = Appended(n), fed' = fed, billed' = billed,
         ret'.call = "update"
  PROVE  IInv'
<1>1. Typed
  BY DEF IInv
<1>2. /\ Appended(n) \in ByteSeq /\ Appended(n) = Cat(buf, Chunk(n))
      /\ Streamed' = Cat(Streamed, Chunk(n))
  BY <1>1, SupplyStream
<1>3. Typed'
  BY <1>1, <1>2, SupplyTyped DEF Typed
<1>4. buf = Streamed /\ fed = <<>>
  BY DEF IInv, Flow, Supply
<1>5. Flow'
  BY <1>2, <1>4 DEF Flow
<1> QED
  BY <1>3, <1>5 DEF IInv, TagStays, EndedIsBilled, TagHeldBack

LEMMA AwaitKeeps ==
  ASSUME IInv, phase' = phase, phase = "live", NEW n \in Nat,
         Await(n) \/ Refuse(n) \/ KeyRefused(n) \/ CipherRefused(n)
  PROVE  IInv'
<1>1. /\ Supply(n) /\ ctx = NoMessage /\ ctx' = NoMessage /\ buf' = Appended(n)
      /\ fed' = fed /\ billed' = billed /\ ret'.call = "update"
  BY DEF Await, Refuse, KeyRefused, CipherRefused, HeaderRead, Returns
<1> QED
  BY <1>1, WaitingKeeps

\* The process is gone.
LEMMA NoCipherKeeps ==
  ASSUME IInv, NEW n \in Nat, NoCipher(n)
  PROVE  IInv'
<1>1. /\ Supply(n) /\ ctx = NoMessage /\ ctx' = NoMessage /\ buf' = Appended(n)
      /\ fed' = fed /\ billed' = billed /\ phase' = "crashed" /\ ret'.call = "update"
  BY DEF NoCipher, HeaderRead, Returns
<1> QED
  BY <1>1, WaitingKeeps

\* The header is complete: the context is that of the message it belongs to.
LEMMA Obtained ==
  ASSUME IInv, NEW n \in Nat, KeyObtained(n)
  PROVE  /\ Supply(n) /\ ctx' \in Messages /\ raw' = KeyOf[ctx']
         /\ Appended(n) \in ByteSeq /\ HeaderLen <= Len(Appended(n))
         /\ Appended(n) = Streamed'
         /\ Front(Appended(n), HeaderLen) = Bytes(ctx', 1, HeaderLen)
<1>1. Supply(n) /\ ctx = NoMessage /\ Len(Appended(n)) >= HeaderLen
  BY DEF KeyObtained, HeaderRead
<1>2. /\ ctx' \in Messages /\ raw' = KeyOf[ctx']
      /\ SubSeq(Appended(n), 1, HeaderLen) = Bytes(ctx', 1, HeaderLen)
  BY DEF KeyObtained, Starts
<1>3. buf = Streamed
  BY <1>1 DEF IInv, Flow, Supply
<1>4. /\ Appended(n) \in ByteSeq /\ Len(Appended(n)) = Len(buf) + n
      /\ Appended(n) = Cat(buf, Chunk(n)) /\ Streamed' = Cat(Streamed, Chunk(n))
  BY <1>1, SupplyStream DEF IInv
<1>5. Len(Appended(n)) \in Nat /\ HeaderLen \in Nat
  BY <1>4, EmptyBytes, LengthTypes
<1>6. Appended(n) = Streamed'
  BY <1>3, <1>4
<1>7. HeaderLen <= Len(Appended(n))
  BY <1>1, <1>5
<1> QED
  BY <1>1, <1>2, <1>4, <1>6, <1>7 DEF Front

LEMMA OpenUnbilledKeeps ==
  ASSUME IInv, phase' = phase, phase = "live", NEW n \in Nat, OpenUnbilled(n)
  PROVE  IInv'
<1>1. /\ KeyObtained(n) /\ buf' = Appended(n) /\ fed' = <<>> /\ billed' = billed
      /\ ret'.call = "update"
  BY DEF OpenUnbilled, Returns
<1>2. /\ Supply(n) /\ ctx' \in Messages /\ raw' = KeyOf[ctx']
      /\ Appended(n) \in ByteSeq /\ HeaderLen <= Len(Appended(n))
      /\ Appended(n) = Streamed'
      /\ Front(Appended(n), HeaderLen) = Bytes(ctx', 1, HeaderLen)
  BY <1>1, Obtained
<1>3. Typed' /\ message' # NoMessage
  BY <1>1, <1>2, CatEmpty, SupplyTyped DEF IInv, Supply
<1>4. Headed'
  BY <1>2, LengthTypes, EmptyBytes DEF Headed
<1>5. Whole'
  BY <1>1, <1>2, CatEmpty DEF Whole
<1>6. Flow'
  BY <1>2, <1>4, <1>5, MessagesAssumption DEF Flow
<1>7. TagStays'
  BY <1>1 DEF TagStays
<1>8. TagHeldBack'
  BY <1>3, <1>6, <1>7, HeldBackNext
<1> QED
  BY <1>1, <1>3, <1>6, <1>7, <1>8 DEF IInv, EndedIsBilled

LEMMA OpenKeeps ==
  ASSUME IInv, phase' = phase, phase = "live", NEW n \in Nat, Open(n)
  PROVE  IInv'
<1>1. /\ KeyObtained(n) /\ billed' = billed \cup {sessions}
      /\ DrainOrFail(Appended(n), HeaderLen, <<>>)
  BY DEF Open
<1>2. /\ Supply(n) /\ ctx' \in Messages /\ raw' = KeyOf[ctx']
      /\ Appended(n) \in ByteSeq /\ HeaderLen <= Len(Appended(n))
      /\ Appended(n) = Streamed'
      /\ Front(Appended(n), HeaderLen) = Bytes(ctx', 1, HeaderLen)
  BY <1>1, Obtained
<1>3. /\ HeaderLen \in Nat \ {0} /\ TagLen \in Nat \ {0} /\ <<>> \in ByteSeq
  BY <1>2, LengthTypes, CatEmpty
<1>4. /\ buf' \in ByteSeq /\ fed' \in ByteSeq
      /\ \/ buf' = Appended(n) /\ fed' = <<>>
         \/ Cat(fed', buf') = Cat(<<>>, Rest(Appended(n), HeaderLen)) /\ Len(buf') = TagLen
      /\ ret'.call = "update"
  <2>1. HeaderLen \in Nat /\ HeaderLen # 0
    BY <1>3
  <2> QED
    BY <1>1, <1>2, <1>3, <2>1, DrainKeeps
<1>5. Typed' /\ message' # NoMessage
  BY <1>1, <1>2, <1>4, SupplyTyped DEF IInv, Supply
<1>6. Headed'
  BY <1>2, <1>3, EmptyBytes DEF Headed
<1>7. Whole' \/ Cut'
  <2>1. CASE buf' = Appended(n) /\ fed' = <<>>
    BY <1>2, <2>1, CatEmpty DEF Whole
  <2>2. CASE Cat(fed', buf') = Cat(<<>>, Rest(Appended(n), HeaderLen))
    <3>1. Rest(Appended(n), HeaderLen) \in ByteSeq
      BY <1>2, <1>3, FrontRest
    <3>2. Cat(fed', buf') = Rest(Streamed', HeaderLen)
      BY <1>2, <2>2, <3>1, CatEmpty
    <3>3. sessions' \in billed'
      BY <1>1, <1>2 DEF Supply
    <3> QED
      BY <3>2, <3>3 DEF Cut
  <2> QED
    BY <1>4, <2>1, <2>2
<1>8. Flow'
  BY <1>2, <1>6, <1>7, MessagesAssumption DEF Flow
<1>9. TagStays'
  BY <1>3, <1>4 DEF TagStays
<1>10. TagHeldBack'
  BY <1>5, <1>8, <1>9, HeldBackNext
<1> QED
  BY <1>4, <1>5, <1>8, <1>9, <1>10 DEF IInv, EndedIsBilled

LEMMA FeedKeeps ==
  ASSUME IInv, phase' = phase, phase = "live", NEW n \in Nat, Feed(n)
  PROVE  IInv'
<1>1. /\ Supply(n) /\ ctx # NoMessage /\ message # NoMessage
      /\ DrainOrFail(Appended(n), 0, fed)
      /\ ctx' = ctx /\ raw' = raw /\ billed' = billed
  BY DEF Feed, Supply
<1>2. /\ Typed /\ ctx \in Messages /\ fed \in ByteSeq /\ buf \in ByteSeq
      /\ raw = KeyOf[ctx]
  BY <1>1 DEF IInv, Typed
<1>3. /\ Chunk(n) \in ByteSeq /\ Appended(n) \in ByteSeq /\ Len(Appended(n)) = Len(buf) + n
      /\ Appended(n) = Cat(buf, Chunk(n)) /\ Streamed' = Cat(Streamed, Chunk(n))
      /\ Streamed \in ByteSeq /\ message' = message /\ sessions' = sessions
      /\ Len(Streamed') = Len(Streamed) + n
  BY <1>1, <1>2, SupplyStream
<1>4. HeaderLen \in Nat \ {0} /\ TagLen \in Nat \ {0} /\ Len(buf) \in Nat /\ Len(Streamed) \in Nat
  BY LengthTypes, EmptyBytes, <1>2, <1>3
<1>5. /\ buf' \in ByteSeq /\ fed' \in ByteSeq
      /\ \/ buf' = Appended(n) /\ fed' = fed /\ (ret'.res = "OK" => Len(Appended(n)) <= TagLen)
         \/ Cat(fed', buf') = Cat(fed, Appended(n)) /\ Len(buf') = TagLen
      /\ ret'.call = "update"
  <2>1. 0 \in Nat /\ 0 <= Len(Appended(n)) /\ TagLen + 0 = TagLen
    BY <1>3, <1>4
  <2> QED
    BY <1>1, <1>2, <1>3, <2>1, DrainKeeps
<1>6. Typed'
  BY <1>1, <1>2, <1>5, SupplyTyped
<1>7. Cat(fed', buf') = Cat(Cat(fed, buf), Chunk(n))
  BY <1>2, <1>3, <1>5, CatAssociative
<1>8. Headed /\ (Whole \/ Cut)
  BY <1>1 DEF IInv, Flow
<1>9. HeaderLen <= Len(Streamed)
  BY <1>4, <1>8 DEF Headed
<1>10. /\ Front(Streamed', HeaderLen) = Front(Streamed, HeaderLen)
       /\ Rest(Streamed', HeaderLen) = Cat(Rest(Streamed, HeaderLen), Chunk(n))
  BY <1>3, <1>4, <1>9, CutGrows
<1>11. Headed'
  <2>1. Len(Streamed') >= HeaderLen
    BY <1>3, <1>4, <1>9
  <2> QED
    BY <1>1, <1>8, <1>10, <2>1 DEF Headed
<1>12. Whole' \/ Cut'
  BY <1>1, <1>3, <1>7, <1>8, <1>10 DEF Whole, Cut
<1>13. Flow'
  BY <1>1, <1>11, <1>12 DEF Flow
<1>14. TagStays'
  <2>1. CASE buf' = Appended(n) /\ fed' = fed /\ (ret'.res = "OK" => Len(Appended(n)) <= TagLen)
    <3>1. fed # <<>> => Len(buf) >= TagLen
      BY <1>1 DEF IInv, TagStays
    <3>2. fed # <<>> => /\ Len(buf') >= TagLen
                        /\ ret'.res = "OK" => Len(buf') = TagLen
      BY <1>3, <1>4, <2>1, <3>1
    <3> QED
      BY <2>1, <3>2 DEF TagStays
  <2>2. CASE Len(buf') = TagLen
    BY <1>4, <2>2 DEF TagStays
  <2> QED
    BY <1>5, <2>1, <2>2
<1>15. TagHeldBack'
  BY <1>1, <1>3, <1>6, <1>13, <1>14, HeldBackNext
<1> QED
  BY <1>5, <1>6, <1>13, <1>14, <1>15 DEF IInv, EndedIsBilled

\* What end accepts is the whole of one message, which was billed.
LEMMA AcceptedStream ==
  ASSUME IInv, message # NoMessage, ctx # NoMessage, Authentic
  PROVE  sessions \in billed /\ Streamed = Bytes(ctx, 1, Total(ctx))
<1>1. ctx \in Messages /\ Streamed \in ByteSeq
  BY StreamType DEF IInv, Typed
<1>2. /\ HeaderLen <= Len(Streamed)
      /\ Front(Streamed, HeaderLen) = Bytes(ctx, 1, HeaderLen)
      /\ Whole \/ Cut
  BY <1>1, LengthTypes, EmptyBytes DEF IInv, Flow, Headed
<1>3. /\ Cat(Body(ctx), Tag(ctx)) # Streamed
      /\ Cat(Body(ctx), Tag(ctx)) = Rest(Streamed, HeaderLen)
           => Streamed = Bytes(ctx, 1, Total(ctx))
  BY <1>1, <1>2, Acceptance
<1>4. Cat(fed, buf) = Cat(Body(ctx), Tag(ctx))
  BY DEF Authentic
<1>5. Cut
  BY <1>2, <1>3, <1>4 DEF Whole
<1> QED
  BY <1>3, <1>4, <1>5 DEF Cut

LEMMA EndKeeps ==
  ASSUME IInv, phase' = phase, phase = "live",
         EndNoContext \/ EndNoTag \/ EndNoMemory \/ EndForged \/ EndDone
  PROVE  IInv'
<1>1. /\ message # NoMessage /\ message' \in {message, NoMessage}
      /\ UNCHANGED <<raw, given, left, sessions, billed>>
  BY DEF EndNoContext, EndNoTag, EndNoMemory, EndForged, EndDone, End, GivenUp, GivenUpOrNot
<1>2. CASE EndNoContext \/ EndNoTag \/ EndNoMemory \/ EndForged
  <2>1. /\ buf' = buf /\ ctx' = ctx /\ fed' = fed /\ ret'.call = "end" /\ ret'.res # "OK"
    BY <1>2 DEF EndNoContext, EndNoTag, EndNoMemory, EndForged, Returns
  <2>2. Typed'
    BY <1>1, <2>1 DEF IInv, Typed
  <2> QED
    BY <1>1, <2>1, <2>2 DEF IInv, Flow, Headed, Whole, Cut, Streamed, TagStays, EndedIsBilled,
       TagHeldBack
<1>3. CASE EndDone
  <2>1. /\ ctx # NoMessage /\ Authentic /\ ret'.call = "end" /\ message' = NoMessage
        /\ buf' = <<>> /\ ctx' = NoMessage /\ fed' = <<>>
    BY <1>3 DEF EndDone, GivenUp, Returns
  <2>2. <<>> \in ByteSeq
    BY EmptySeq DEF ByteSeq
  <2>3. Typed'
    BY <1>1, <2>1, <2>2 DEF IInv, Typed
  <2>4. sessions' \in billed'
    BY <1>1, <2>1, AcceptedStream
  <2> QED
    BY <1>1, <2>1, <2>3, <2>4 DEF IInv, Flow, TagStays, EndedIsBilled, TagHeldBack
<1> QED
  BY <1>2, <1>3

LEMMA ChunkIsNat ==
  ASSUME Typed, NEW n \in Chunks
  PROVE  n \in Nat
<1>1. message \in Messages
  BY DEF Chunks, Typed
<1>2. Total(message) \in Nat
  BY <1>1, LengthTypes
<1> QED
  BY <1>1, <1>2 DEF Chunks

LEMMA NextInvariant == IInv /\ [Next]_vars => IInv'
<1> SUFFICES ASSUME IInv, [Next]_vars PROVE IInv'
  OBVIOUS
<1>1. CASE phase = "live" /\ Call /\ phase' = phase
  <2>1. ASSUME NEW m \in Messages, Begin(m) PROVE IInv'
    BY <1>1, <2>1, BeginKeeps
  <2>2. CASE BeginBusy
    BY <1>1, <2>2, BeginBusyKeeps
  <2>3. ASSUME NEW n \in Chunks, Update(n) PROVE IInv'
    <3>1. n \in Nat
      BY ChunkIsNat DEF IInv
    <3>2. \/ Await(n) \/ Refuse(n) \/ KeyRefused(n) \/ CipherRefused(n)
          \/ Open(n) \/ OpenUnbilled(n) \/ Feed(n)
      BY <2>3 DEF Update
    <3> QED
      BY <1>1, <3>1, <3>2, AwaitKeeps, OpenKeeps, OpenUnbilledKeeps, FeedKeeps
  <2>4. CASE OutOfMemory
    BY <1>1, <2>4, OutOfMemoryKeeps
  <2>5. CASE EndNoContext \/ EndNoTag \/ EndNoMemory \/ EndForged \/ EndDone
    BY <1>1, <2>5, EndKeeps
  <2> QED
    BY <1>1, <2>1, <2>2, <2>3, <2>4, <2>5 DEF Call
<1>2. CASE Create \/ FailToCreate
  BY <1>2, CreateKeeps
<1>3. CASE Destroy
  BY <1>3, DestroyKeeps
<1>4. CASE Gone \/ UNCHANGED vars
  BY <1>4, StutterKeeps DEF Gone
<1>5. ASSUME NEW n \in Chunks, NoCipher(n) PROVE IInv'
  <2>1. n \in Nat
    BY <1>5, ChunkIsNat DEF IInv
  <2> QED
    BY <1>5, <2>1, NoCipherKeeps
<1> QED
  BY <1>1, <1>2, <1>3, <1>4, <1>5 DEF Next
-----------------------------------------------------------------------------
(* Theorems *)

THEOREM Invariance == Spec => []IInv
<1> QED
  BY InitInvariant, NextInvariant, PTL DEF Spec

\* The type invariant: buffers hold bytes of messages, a context has the key of
\* its header, and a destroyed object has no context.
THEOREM TypeCorrect == Spec => []TypeOK
<1>1. IInv => TypeOK
  <2> SUFFICES ASSUME IInv PROVE TypeOK
    OBVIOUS
  <2>1. ASSUME NEW s \in ByteSeq PROVE \A i \in 1..Len(s) : s[i] \in StreamOf
    BY <2>1, ElementOfSeq DEF ByteSeq
  <2>2. \A s \in {buf, fed, left} : \A i \in 1..Len(s) : s[i] \in StreamOf
    BY <2>1 DEF IInv, Typed
  <2> QED
    BY <2>2 DEF IInv, Typed, TypeOK
<1> QED
  BY <1>1, Invariance, PTL

\* No byte is lost, repeated or reordered between update and the cipher, for
\* messages of every length and chunks of every size.
THEOREM StreamIsKept == Spec => []StreamKept
<1>1. IInv => StreamKept
  <2> SUFFICES ASSUME IInv, message # NoMessage
               PROVE  fed \o buf \in {Streamed} \cup
                        (IF Len(Streamed) >= HeaderLen
                         THEN {SubSeq(Streamed, HeaderLen + 1, Len(Streamed))} ELSE {})
    BY DEF StreamKept
  <2>1. CASE ctx = NoMessage
    <3>1. fed = <<>> /\ buf = Streamed /\ buf \in ByteSeq
      BY <2>1 DEF IInv, Flow, Typed
    <3>2. fed \o buf = Streamed
      BY <3>1, CatEmpty DEF Cat
    <3> QED
      BY <3>2
  <2>2. CASE ctx # NoMessage
    <3>1. Len(Streamed) >= HeaderLen /\ (Whole \/ Cut)
      BY <2>2 DEF IInv, Flow, Headed
    <3>2. fed \o buf = Streamed \/ fed \o buf = SubSeq(Streamed, HeaderLen + 1, Len(Streamed))
      BY <3>1 DEF Whole, Cut, Cat, Rest
    <3> QED
      BY <3>1, <3>2
  <2> QED
    BY <2>1, <2>2
<1> QED
  BY <1>1, Invariance, PTL

\* The tag is never fed to the cipher as if it were cipher text.
THEOREM TagIsHeldBack == Spec => []TagHeldBack
<1>1. IInv => TagHeldBack
  BY DEF IInv
<1> QED
  BY <1>1, Invariance, PTL

\* What end accepted has its billing event.
THEOREM DecryptedTextsAreBilled == Spec => []DecryptedIsBilled
<1>1. IInv => DecryptedIsBilled
  BY DEF IInv, EndedIsBilled, DecryptedIsBilled
<1> QED
  BY <1>1, Invariance, PTL

\* A complete message whose header was cut off authenticates.
THEOREM CutHeadersDecrypt == Spec => []CutHeaderDecrypts
<1>1. IInv => CutHeaderDecrypts
  <2> SUFFICES ASSUME IInv, ctx # NoMessage, message = ctx, ctx \notin Forged,
                      left = <<>>, given = Total(ctx), ret.res = "OK",
                      Len(fed) > 0, fed[1] = <<ctx, HeaderLen + 1>>
               PROVE  Authentic
    BY DEF CutHeaderDecrypts
  <2>1. /\ ctx \in Messages /\ message # NoMessage /\ fed \in ByteSeq /\ buf \in ByteSeq
        /\ HeaderLen \in Nat \ {0} /\ Len(fed) \in Nat /\ fed # <<>>
    BY EmptyBytes, LengthTypes DEF IInv, Typed
  <2>2. Len(buf) = TagLen /\ (Whole \/ Cut)
    BY <2>1 DEF IInv, TagStays, Flow
  <2>3. /\ Bytes(ctx, 1, Total(ctx)) \in ByteSeq
        /\ Len(Bytes(ctx, 1, Total(ctx))) = Total(ctx)
        /\ Cat(Bytes(ctx, 1, HeaderLen), Bytes(ctx, HeaderLen + 1, Total(ctx)))
             = Bytes(ctx, 1, Total(ctx))
        /\ Bytes(ctx, 1, HeaderLen) \in ByteSeq /\ Len(Bytes(ctx, 1, HeaderLen)) = HeaderLen
        /\ Bytes(ctx, HeaderLen + 1, Total(ctx)) \in ByteSeq
        /\ Bytes(ctx, 1, HeaderLen)[1] = <<ctx, 1>>
    BY <2>1, BytesCut
  <2>4. Streamed = Bytes(ctx, 1, Total(ctx))
    BY <2>3, CatEmpty DEF Streamed, Cat
  <2>5. ~Whole
    <3>1. Cat(fed, buf)[1] = fed[1]
      <4>1. 1 \in 1..Len(fed)
        BY <2>1
      <4> QED
        BY <2>1, <4>1, CatType
    <3>2. Bytes(ctx, 1, Total(ctx))[1] = <<ctx, 1>>
      <4>1. 1 \in 1..HeaderLen
        BY <2>1
      <4>2. Cat(Bytes(ctx, 1, HeaderLen), Bytes(ctx, HeaderLen + 1, Total(ctx)))[1]
              = Bytes(ctx, 1, HeaderLen)[1]
        <5>1. ASSUME NEW s \in ByteSeq, NEW t \in ByteSeq, Len(s) = HeaderLen
              PROVE  Cat(s, t)[1] = s[1]
          BY <4>1, <5>1, CatType
        <5> QED
          BY <2>3, <5>1
      <4> QED
        BY <2>3, <4>2
    <3>3. <<ctx, 1>> # <<ctx, HeaderLen + 1>>
      BY <2>1
    <3> QED
      BY <2>4, <3>1, <3>2, <3>3 DEF Whole
  <2>6. Cat(fed, buf) = Bytes(ctx, HeaderLen + 1, Total(ctx))
    <3>1. Total(ctx) \in Nat /\ HeaderLen <= Total(ctx)
      BY <2>1, LengthTypes
    <3>2. /\ Front(Streamed, HeaderLen) \in ByteSeq /\ Rest(Streamed, HeaderLen) \in ByteSeq
          /\ Len(Front(Streamed, HeaderLen)) = HeaderLen
          /\ Cat(Front(Streamed, HeaderLen), Rest(Streamed, HeaderLen)) = Streamed
      BY <2>1, <2>3, <2>4, <3>1, FrontRest
    <3>3. Rest(Streamed, HeaderLen) = Bytes(ctx, HeaderLen + 1, Total(ctx))
      BY <2>3, <2>4, <3>2, CatEqual
    <3> QED
      BY <2>2, <2>5, <3>3 DEF Cut
  <2>7. /\ Body(ctx) \in ByteSeq /\ Tag(ctx) \in ByteSeq
        /\ Len(Body(ctx)) = BodyLen[ctx] /\ Len(Tag(ctx)) = TagLen
        /\ Cat(Body(ctx), Tag(ctx)) = Bytes(ctx, HeaderLen + 1, Total(ctx))
        /\ BodyLen[ctx] \in Nat /\ TagLen \in Nat
    BY <2>1, BodyAndTag, LengthTypes
  <2>8. Len(fed) = BodyLen[ctx]
    <3>1. /\ Len(Cat(fed, buf)) = Len(fed) + Len(buf)
          /\ Len(Cat(Body(ctx), Tag(ctx))) = Len(Body(ctx)) + Len(Tag(ctx))
      BY <2>1, <2>7, CatType
    <3> QED
      BY <2>1, <2>2, <2>6, <2>7, <3>1
  <2>9. fed = Body(ctx) /\ buf = Tag(ctx)
    BY <2>1, <2>6, <2>7, <2>8, CatEqual
  <2> QED
    BY <2>9 DEF Authentic
<1> QED
  BY <1>1, Invariance, PTL

\* What end accepts is the whole of one message and nothing else.
THEOREM AcceptedIsWhole == Spec => AcceptedWhole
<1>1. IInv /\ [Next]_vars
        => [Ends /\ ret'.res = "OK" => Streamed = Bytes(ctx, 1, Total(ctx))]_vars
  <2> SUFFICES ASSUME IInv, Next, Ends, ret'.res = "OK"
               PROVE  Streamed = Bytes(ctx, 1, Total(ctx))
    BY DEF vars
  <2>1. message # NoMessage /\ message' = NoMessage /\ ret'.call = "end"
    BY DEF Ends
  <2>2. EndDone
    <3>1. ~Create /\ ~FailToCreate /\ ~Destroy /\ ~Gone /\ \A n \in Chunks : ~NoCipher(n)
      BY <2>1 DEF Create, FailToCreate, callVars, Destroy, Returns, Gone, vars, NoCipher,
                  HeaderRead, Supply
    <3>2. Call
      BY <3>1 DEF Next
    <3>3. ASSUME NEW n PROVE ~Update(n)
      BY <2>1 DEF Update, Await, Refuse, KeyRefused, CipherRefused, Open, OpenUnbilled, Feed,
                  KeyObtained, HeaderRead, Supply
    <3>4. ~OutOfMemory /\ ~BeginBusy /\ \A m \in Messages : ~Begin(m)
      BY <2>1 DEF OutOfMemory, BeginBusy, Begin
    <3>5. ~EndNoContext /\ ~EndNoTag /\ ~EndNoMemory /\ ~EndForged
      BY DEF EndNoContext, EndNoTag, EndNoMemory, EndForged, Returns
    <3> QED
      BY <3>2, <3>3, <3>4, <3>5 DEF Call
  <2>3. ctx # NoMessage /\ Authentic
    BY <2>2 DEF EndDone
  <2> QED
    BY <2>1, <2>3, AcceptedStream
<1> QED
  BY <1>1, Invariance, PTL DEF Spec, AcceptedWhole
=============================================================================
