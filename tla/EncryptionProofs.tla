-------------------------- MODULE EncryptionProofs --------------------------
(* Proofs about Encryption: the uses of the key, their billing, the cipher    *)
(* contexts and the order of the cipher text, for every grant and every bound. *)
EXTENDS Encryption, TLAPS

\* What the cipher has made of a text of n chunks, but for the tag.
BodyOf(c, n) == [i \in 1..(n + 1) |-> Piece(c, i - 1)]

\* The context in use is the last one made, of an object in use, and none of
\* those that are finished; what is finished without an error was billed.
ContextIsLast ==
  ctx # None => ctx = made /\ phase = "live" /\ made \notin finished

\* Before it is created the object has made nothing.
NothingBefore == phase = "none" => made = 0

\* The two sequences, as InOrder gives them.
Ordered ==
  made > 0 =>
    /\ stream = BodyOf(made, chunks) \/ stream = Append(BodyOf(made, chunks), Piece(made, Tag))
    /\ out = IF made \in finished THEN stream ELSE BodyOf(made, chunks)
    /\ Over => made \in finished \cup failed

\* The inductive invariant.
IInv == /\ TypeOK /\ UsesWithinGrant /\ FinishedIsBilled /\ ContextOwned
        /\ ContextIsLast /\ NothingBefore /\ Ordered
        /\ ctx # None /\ made \notin failed => made \in billed
-----------------------------------------------------------------------------
\* A body is a sequence of pieces, and its last one is no tag.
LEMMA BodyIsSeq ==
  ASSUME NEW c \in Nat \ {0}, NEW n \in 0..MaxChunks
  PROVE  /\ BodyOf(c, n) \in Seq((1..c) \X (0..Tag))
         /\ BodyOf(c, n) # <<>>
         /\ Len(BodyOf(c, n)) = n + 1
         /\ Last(BodyOf(c, n)) = Piece(c, n)
         /\ Last(BodyOf(c, n))[2] # Tag
<1>1. \A i \in 1..(n + 1) : Piece(c, i - 1) \in (1..c) \X (0..Tag)
  BY BoundsAssumption DEF Piece, Tag
<1>2. BodyOf(c, n) \in Seq((1..c) \X (0..Tag)) /\ Len(BodyOf(c, n)) = n + 1
  BY <1>1 DEF BodyOf
<1>3. Last(BodyOf(c, n)) = Piece(c, n)
  BY <1>2 DEF BodyOf, Last
<1>4. Piece(c, n)[2] # Tag
  BY BoundsAssumption DEF Piece, Tag
<1>5. BodyOf(c, n) # <<>>
  BY <1>2
<1> QED
  BY <1>2, <1>3, <1>4, <1>5

\* One chunk more.
LEMMA BodyGrows ==
  ASSUME NEW c \in Nat \ {0}, NEW n \in 0..MaxChunks
  PROVE  Append(BodyOf(c, n), Piece(c, n + 1)) = BodyOf(c, n + 1)
  BY BoundsAssumption DEF BodyOf, Piece

\* A body of no chunks is the header.
LEMMA BodyStarts ==
  ASSUME NEW c \in Nat \ {0}
  PROVE  BodyOf(c, 0) = <<Piece(c, Header)>>
  BY DEF BodyOf, Piece, Header

\* The tag behind a body.
LEMMA TagIsLast ==
  ASSUME NEW c \in Nat \ {0}, NEW n \in 0..MaxChunks
  PROVE  LET s == Append(BodyOf(c, n), Piece(c, Tag)) IN
         /\ s \in Seq((1..c) \X (0..Tag)) /\ s # <<>> /\ Last(s) = Piece(c, Tag)
         /\ Last(s)[2] = Tag
<1> DEFINE s == Append(BodyOf(c, n), Piece(c, Tag))
<1>1. Piece(c, Tag) \in (1..c) \X (0..Tag) /\ Piece(c, Tag)[2] = Tag
  BY BoundsAssumption DEF Piece, Tag
<1>2. BodyOf(c, n) \in Seq((1..c) \X (0..Tag)) /\ Len(BodyOf(c, n)) = n + 1
  BY BodyIsSeq
<1>3. s \in Seq((1..c) \X (0..Tag)) /\ Len(s) = n + 2
  BY <1>1, <1>2
<1>4. s[Len(s)] = Piece(c, Tag)
  BY <1>1, <1>2, <1>3
<1>5. Len(s) # 0
  BY <1>3
<1>6. Last(s) = Piece(c, Tag)
  BY <1>4 DEF Last
<1> HIDE DEF s
<1>7. s # <<>>
  BY <1>5
<1> QED
  BY <1>1, <1>3, <1>6, <1>7 DEF s
-----------------------------------------------------------------------------
\* With its bodies in place the invariant gives the property of the sequences.
LEMMA OrderedGivesInOrder ==
  ASSUME TypeOK, ContextIsLast, Ordered
  PROVE  InOrder
<1> SUFFICES ASSUME made > 0
             PROVE  /\ stream = IF Over THEN Append(BodyOf(made, chunks), Piece(made, Tag))
                                ELSE BodyOf(made, chunks)
                    /\ out = IF made \in finished THEN stream ELSE BodyOf(made, chunks)
                    /\ Over => made \in finished \cup failed
  BY DEF InOrder, BodyOf
<1>1. made \in Nat \ {0} /\ chunks \in 0..MaxChunks
  BY DEF TypeOK
<1>2. CASE stream = BodyOf(made, chunks)
  BY <1>1, <1>2, BodyIsSeq DEF Ordered, Over
<1>3. CASE stream = Append(BodyOf(made, chunks), Piece(made, Tag))
  BY <1>1, <1>3, TagIsLast DEF Ordered, Over
<1> QED
  BY <1>2, <1>3 DEF Ordered

\* What is made of a context that is in use and has not made its tag.
LEMMA OpenBody ==
  ASSUME TypeOK, ContextIsLast, Ordered, ctx # None, ~Over
  PROVE  /\ made \in Nat \ {0} /\ chunks \in 0..MaxChunks /\ ctx = made
         /\ made \in 1..made
         /\ made \notin finished
         /\ stream = BodyOf(made, chunks) /\ out = BodyOf(made, chunks)
<1>1. made \in Nat \ {0} /\ chunks \in 0..MaxChunks /\ ctx = made /\ made \notin finished
  BY DEF TypeOK, ContextIsLast, None, Contexts
<1>2. stream # Append(BodyOf(made, chunks), Piece(made, Tag))
  BY <1>1, TagIsLast DEF Over
<1> QED
  BY <1>1, <1>2 DEF Ordered

LEMMA InitInvariant == Init => IInv
  BY BoundsAssumption
  DEF Init, IInv, TypeOK, UsesWithinGrant, FinishedIsBilled, ContextOwned, ContextIsLast,
      NothingBefore, Ordered, None, Contexts, Tag

\* A step that makes nothing and ends nothing.
LEMMA QuietSteps ==
  ASSUME IInv,
         \/ (\E grant \in Grants : Create(grant)) \/ FailToCreate \/ Destroy
         \/ BeginBusy \/ BeginSpent \/ BeginNoCipher \/ BeginCrash \/ NoContext \/ CallFails
         \/ Gone \/ UNCHANGED vars
  PROVE  IInv'
<1> USE GrantsAssumption DEF IInv
<1>1. UNCHANGED <<stream, made, billed, finished, out, chunks>>
  BY DEF Create, FailToCreate, Destroy, BeginBusy, BeginSpent, BeginNoCipher, BeginCrash,
         NoContext, CallFails, Ready, Gone, Refused, textVars, vars
<1>2. failed' = failed \/ (ctx # None /\ failed' = failed \cup {ctx})
  BY DEF Create, FailToCreate, Destroy, BeginBusy, BeginSpent, BeginNoCipher, BeginCrash,
         NoContext, CallFails, Ready, Gone, Refused, textVars, vars
<1>3. /\ max' \in Nat /\ cur' = cur /\ cur' <= max'
      /\ phase' \in {"none", "live", "failed", "gone", "crashed"}
      /\ phase' = "none" => phase = "none"
  BY DEF Create, FailToCreate, Destroy, BeginBusy, BeginSpent, BeginNoCipher, BeginCrash,
         NoContext, CallFails, Ready, Gone, Refused, vars, keyVars, TypeOK, UsesWithinGrant, NothingBefore
<1>4. \/ ctx' = ctx /\ alive' = alive /\ (phase = "live" => phase' = "live" \/ ctx = None)
      \/ ctx' = None /\ alive' = alive \ {ctx}
  BY DEF Create, FailToCreate, Destroy, BeginBusy, BeginSpent, BeginNoCipher, BeginCrash,
         NoContext, CallFails, Ready, Gone, Refused, vars, keyVars
<1>5. TypeOK'
  BY <1>1, <1>2, <1>3, <1>4 DEF TypeOK, Contexts, None
<1>6. ContextOwned'
  BY <1>4 DEF ContextOwned
<1>7. ContextIsLast'
  BY <1>1, <1>4 DEF ContextIsLast
<1>8. Over' = Over
  BY <1>1 DEF Over
<1>9. Ordered'
  BY <1>1, <1>2, <1>8 DEF Ordered
<1>10. UsesWithinGrant' /\ NothingBefore'
  BY <1>1, <1>3 DEF UsesWithinGrant, NothingBefore
<1>11. FinishedIsBilled' /\ (ctx # None /\ made \notin failed => made \in billed)'
  BY <1>1, <1>2, <1>4 DEF FinishedIsBilled
<1> QED
  BY <1>5, <1>6, <1>7, <1>9, <1>10, <1>11

\* A begin that makes a context, billed or not.
LEMMA BeginSteps ==
  ASSUME IInv, BeginDone \/ BeginUnbilled
  PROVE  IInv'
<1> USE DEF IInv
<1>1. MakeContext
  BY DEF BeginDone, BeginUnbilled
<1>2. /\ made' = made + 1 /\ made \in Nat /\ made' \in Nat \ {0}
      /\ ctx = None /\ ctx' = made' /\ alive' = alive \cup {made'}
      /\ cur' = cur + 1 /\ cur < max /\ phase = "live"
      /\ UNCHANGED <<phase, max, finished>>
      /\ stream' = <<Piece(made', Header)>> /\ out' = stream' /\ chunks' = 0
  BY <1>1 DEF MakeContext, Ready, keyVars, TypeOK
<1>3. made' \notin finished /\ made' \notin failed
  BY <1>2 DEF TypeOK, Contexts
<1>4. stream' = BodyOf(made', chunks') /\ chunks' \in 0..MaxChunks
  BY <1>2, BodyStarts, BoundsAssumption
<1>5. \/ billed' = billed \cup {made'} /\ failed' = failed
      \/ billed' = billed /\ failed' = failed \cup {made'}
  BY DEF BeginDone, BeginUnbilled
<1>6. stream' \in Seq((1..made') \X (0..Tag)) /\ ~Over'
  BY <1>2, <1>4, BodyIsSeq DEF Over
<1>7. Contexts \subseteq Contexts' /\ made' \in Contexts'
  BY <1>2 DEF Contexts
<1>8. TypeOK'
  <2>1. billed' \subseteq Contexts' /\ failed' \subseteq Contexts' /\ finished' \subseteq Contexts'
        /\ alive' \subseteq Contexts' /\ ctx' \in Contexts'
    BY <1>2, <1>5, <1>7 DEF TypeOK
  <2>2. stream' \in Seq(Contexts' \X (0..Tag)) /\ out' \in Seq(Contexts' \X (0..Tag))
    BY <1>2, <1>6 DEF Contexts
  <2>3. cur' \in Nat /\ max' \in Nat
    BY <1>2 DEF TypeOK
  <2> QED
    BY <1>2, <1>4, <2>1, <2>2, <2>3 DEF TypeOK, Tag
<1>9. UsesWithinGrant' /\ NothingBefore'
  BY <1>2 DEF UsesWithinGrant, NothingBefore, TypeOK
<1>10. ContextOwned' /\ ContextIsLast'
  BY <1>2, <1>3 DEF ContextOwned, ContextIsLast, None
<1>11. FinishedIsBilled' /\ (ctx # None /\ made \notin failed => made \in billed)'
  BY <1>2, <1>3, <1>5 DEF FinishedIsBilled
<1>12. Ordered'
  BY <1>2, <1>3, <1>4, <1>6 DEF Ordered
<1> QED
  BY <1>8, <1>9, <1>10, <1>11, <1>12

\* A chunk is taken.
LEMMA UpdateStep ==
  ASSUME IInv, UpdateDone
  PROVE  IInv'
<1> USE DEF IInv
<1>1. /\ chunks < MaxChunks /\ chunks' = chunks + 1
      /\ ctx # None /\ ~Over
      /\ stream' = Append(stream, Piece(ctx, chunks')) /\ out' = Append(out, Last(stream'))
      /\ UNCHANGED <<phase, max, cur, ctx, alive, made, billed, failed, finished>>
  BY DEF UpdateDone, keyVars
<1>2. /\ made \in Nat \ {0} /\ chunks \in 0..MaxChunks /\ ctx = made /\ made \notin finished
      /\ stream = BodyOf(made, chunks) /\ out = BodyOf(made, chunks)
  BY <1>1, OpenBody
<1>3. chunks' \in 0..MaxChunks
  BY <1>1, <1>2, BoundsAssumption
<1>4. stream' = BodyOf(made, chunks')
  BY <1>1, <1>2, BodyGrows
<1>5. Last(stream') = Piece(made, chunks') /\ Last(stream')[2] # Tag
      /\ stream' \in Seq((1..made) \X (0..Tag))
  BY <1>2, <1>3, <1>4, BodyIsSeq
<1>6. out' = BodyOf(made, chunks')
  BY <1>1, <1>2, <1>5, BodyGrows
<1>7. ~Over'
  BY <1>5 DEF Over
<1>8. TypeOK'
  BY <1>1, <1>3, <1>4, <1>5, <1>6 DEF TypeOK, Contexts
<1>9. Ordered'
  BY <1>1, <1>2, <1>4, <1>6, <1>7 DEF Ordered
<1>10. UsesWithinGrant' /\ NothingBefore' /\ ContextOwned' /\ ContextIsLast' /\ FinishedIsBilled'
       /\ (ctx # None /\ made \notin failed => made \in billed)'
  BY <1>1 DEF UsesWithinGrant, NothingBefore, ContextOwned, ContextIsLast, FinishedIsBilled
<1> QED
  BY <1>8, <1>9, <1>10

\* The ends that get as far as the cipher.
LEMMA EndSteps ==
  ASSUME IInv, EndNoTag \/ EndDone \/ EndNotJoined
  PROVE  IInv'
<1> USE DEF IInv
<1>1. /\ ctx # None /\ ~Over
      /\ stream' = Append(stream, Piece(ctx, Tag))
      /\ UNCHANGED <<phase, max, cur, made, billed, chunks>>
  BY DEF EndNoTag, EndDone, EndNotJoined, Finalize, keyVars, textVars
<1>2. /\ made \in Nat \ {0} /\ chunks \in 0..MaxChunks /\ ctx = made /\ made \notin finished
      /\ stream = BodyOf(made, chunks) /\ out = BodyOf(made, chunks)
  BY <1>1, OpenBody
<1>3. /\ stream' = Append(BodyOf(made, chunks), Piece(made, Tag))
      /\ Last(stream') = Piece(made, Tag)
      /\ stream' \in Seq((1..made) \X (0..Tag)) /\ Over'
  BY <1>1, <1>2, TagIsLast DEF Over
<1>4. \/ ctx' = ctx /\ alive' = alive
      \/ ctx' = None /\ alive' = alive \ {ctx}
  BY DEF EndNoTag, EndDone, EndNotJoined, Finalize
<1>5. \/ out' = out /\ finished' = finished /\ failed' = failed \cup {made}
      \/ out' = stream' /\ finished' = finished \cup {made} /\ failed' = failed /\ ctx' = None
  BY <1>1, <1>2, <1>3 DEF EndNoTag, EndDone, EndNotJoined, Finalize, textVars
<1>6. out' \in Seq((1..made) \X (0..Tag))
  BY <1>3, <1>5 DEF TypeOK, Contexts
<1>7. TypeOK'
  BY <1>1, <1>2, <1>3, <1>4, <1>5, <1>6 DEF TypeOK, Contexts, None
<1>8. ContextOwned' /\ ContextIsLast'
  BY <1>1, <1>2, <1>4, <1>5 DEF ContextOwned, ContextIsLast
<1>9. FinishedIsBilled' /\ (ctx # None /\ made \notin failed => made \in billed)'
  BY <1>1, <1>2, <1>4, <1>5 DEF FinishedIsBilled
<1>10. Ordered'
  BY <1>1, <1>2, <1>3, <1>5 DEF Ordered
<1>11. UsesWithinGrant' /\ NothingBefore'
  BY <1>1 DEF UsesWithinGrant, NothingBefore
<1> QED
  BY <1>7, <1>8, <1>9, <1>10, <1>11

\* The invariant holds in every state of every execution.
THEOREM Invariance == Spec => []IInv
<1>1. IInv /\ [Next]_vars => IInv'
  BY QuietSteps, BeginSteps, UpdateStep, EndSteps DEF Next, Begin, Update, End
<1> QED
  BY <1>1, InitInvariant, PTL DEF Spec

\* Every variable of lib/encrypt.c keeps its type.
THEOREM TypeCorrect == Spec => []TypeOK
<1>1. IInv => TypeOK
  BY DEF IInv
<1> QED
  BY <1>1, Invariance, PTL

\* The key is used no more often than its grant, and every context is a use.
THEOREM GrantKept == Spec => []UsesWithinGrant
<1>1. IInv => UsesWithinGrant
  BY DEF IInv
<1> QED
  BY <1>1, Invariance, PTL

\* A text finished without an error has its billing event.
THEOREM FinishedTextsAreBilled == Spec => []FinishedIsBilled
<1>1. IInv => FinishedIsBilled
  BY DEF IInv
<1> QED
  BY <1>1, Invariance, PTL

\* The contexts that are not destroyed are the one of the object, or none.
THEOREM ContextsOwned == Spec => []ContextOwned
<1>1. IInv => ContextOwned
  BY DEF IInv
<1> QED
  BY <1>1, Invariance, PTL

\* The cipher text is the header, the chunks in order, and the tag.
THEOREM TextsInOrder == Spec => []InOrder
<1>1. IInv => InOrder
  BY OrderedGivesInOrder DEF IInv
<1> QED
  BY <1>1, Invariance, PTL
=============================================================================
