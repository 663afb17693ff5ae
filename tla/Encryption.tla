----------------------------- MODULE Encryption -----------------------------
(***************************************************************************)
(* The piecewise encryption object (lib/encrypt.c): one data key with the  *)
(* number of uses the server grants, and for each use a cipher text made   *)
(* by begin, updates and end.                                              *)
(*                                                                         *)
(* Cipher contexts are numbered.  A piece of cipher text is the context it *)
(* was made by and what it is: the header, the chunk of that number, or    *)
(* the tag.  The caller may make the calls in any order, goes on after     *)
(* errors, and passes a chunk that was not taken again.                    *)
(***************************************************************************)
EXTENDS Naturals, Sequences, SequencesExt

CONSTANTS
  Grants,          \* the numbers of uses the server may grant (max_uses)
  MaxContexts,     \* bound on the contexts made
  MaxChunks,       \* bound on the chunks of a plain text
  ServerMayFail,   \* may the request for the key fail?
  BillingMayFail,  \* may ubiq_billing_add_billing_event return an error?
  CipherMayFail,   \* may the random source or the cipher's set-up fail?
  AllocMayFail     \* may malloc or realloc return null?

ASSUME GrantsAssumption == Grants \subseteq Nat
ASSUME BoundsAssumption == MaxContexts \in Nat /\ MaxChunks \in Nat

None == 0
Header == 0
Tag == MaxChunks + 1
Piece(c, what) == <<c, what>>

VARIABLES
  phase,       \* "none", then "live" or "failed", then "gone", or "crashed"
  max, cur,    \* key.uses
  ctx,         \* enc->ctx
  stream,      \* what the cipher of the last context has made, in order
  alive,       \* the contexts that are not destroyed
  made,        \* history: how many contexts there have been
  billed,      \* history: contexts that have a billing event
  failed,      \* history: contexts of which a call has returned an error
  finished,    \* history: contexts whose end has succeeded
  out,         \* the caller's cipher text, from the last begin
  chunks       \* the chunks taken since

vars == <<phase, max, cur, ctx, stream, alive, made, billed, failed, finished, out, chunks>>

keyVars == <<phase, max>>
textVars == <<out, chunks>>

\* The cipher has made its tag and takes no more calls.
Over == stream # <<>> /\ Last(stream)[2] = Tag

Init ==
  /\ phase = "none" /\ max = 0 /\ cur = 0
  /\ ctx = None /\ stream = <<>> /\ alive = {}
  /\ made = 0 /\ billed = {} /\ failed = {} /\ finished = {}
  /\ out = <<>> /\ chunks = 0
-----------------------------------------------------------------------------
(* ubiq_platform_encryption_create, _destroy *)

Create(grant) ==
  /\ phase = "none" /\ phase' = "live"
  /\ max' = grant
  /\ UNCHANGED <<cur, ctx, stream, alive, made, billed, failed, finished, textVars>>

\* The object is destroyed again.
FailToCreate ==
  /\ ServerMayFail
  /\ phase = "none" /\ phase' = "failed"
  /\ UNCHANGED <<max, cur, ctx, stream, alive, made, billed, failed, finished, textVars>>

Destroy ==
  /\ phase = "live" /\ phase' = "gone"
  /\ alive' = alive \ {ctx}
  /\ ctx' = None
  /\ UNCHANGED <<max, cur, stream, made, billed, failed, finished, textVars>>
-----------------------------------------------------------------------------
(* ubiq_platform_encryption_begin *)

\* A call that fails and leaves the object as it was.
Refused == UNCHANGED <<keyVars, cur, ctx, stream, alive, made, billed, finished, textVars>>

BeginBusy ==
  /\ phase = "live" /\ ctx # None
  /\ failed' = failed \cup {ctx}
  /\ Refused

BeginSpent ==
  /\ phase = "live" /\ ctx = None /\ cur >= max
  /\ UNCHANGED failed
  /\ Refused

Ready == phase = "live" /\ ctx = None /\ cur < max /\ made < MaxContexts

\* Mutant: the context is entered before it is made.
BeginEarly ==
  /\ CipherMayFail /\ Ready
  /\ ctx' = made + 1
  /\ UNCHANGED <<keyVars, cur, stream, alive, made, billed, failed, finished, textVars>>

\* No random data, or a cipher that does not take the key: the use is not counted.
BeginNoCipher ==
  /\ CipherMayFail /\ Ready
  /\ UNCHANGED failed
  /\ Refused

\* There is no memory for the header, to which begin writes all the same; or none
\* for the cipher, and the pointer that it leaves unset is destroyed.
BeginCrash ==
  /\ CipherMayFail \/ AllocMayFail
  /\ Ready /\ phase' = "crashed"
  /\ UNCHANGED <<max, cur, ctx, stream, alive, made, billed, failed, finished, textVars>>

\* The context is made and the use counted, whether the event is taken or not.
MakeContext ==
  /\ Ready
  /\ made' = made + 1
  /\ ctx' = made' /\ alive' = alive \cup {made'}
  /\ cur' = cur + 1
  /\ stream' = <<Piece(made', Header)>>
  /\ out' = stream' /\ chunks' = 0
  /\ UNCHANGED <<keyVars, finished>>

BeginDone ==
  /\ MakeContext
  /\ billed' = billed \cup {made'}
  /\ UNCHANGED failed

\* Mutant: an event that is refused does not count as a use.
BeginUncounted ==
  /\ BillingMayFail
  /\ Ready
  /\ made' = made + 1
  /\ ctx' = made' /\ alive' = alive \cup {made'}
  /\ stream' = <<Piece(made', Header)>>
  /\ out' = stream' /\ chunks' = 0
  /\ failed' = failed \cup {made'}
  /\ UNCHANGED <<keyVars, cur, billed, finished>>

\* Mutant: the result of adding the event is not looked at.
BeginIgnoringBilling ==
  /\ BillingMayFail
  /\ MakeContext
  /\ UNCHANGED <<billed, failed>>

BeginUnbilled ==
  /\ BillingMayFail
  /\ MakeContext
  /\ failed' = failed \cup {made'}
  /\ UNCHANGED billed
-----------------------------------------------------------------------------
(* ubiq_platform_encryption_update *)

\* ESRCH, from update and from end.
NoContext ==
  /\ phase = "live" /\ ctx = None
  /\ UNCHANGED failed
  /\ Refused

UpdateDone ==
  /\ ctx # None /\ ~Over /\ chunks < MaxChunks
  /\ chunks' = chunks + 1
  /\ stream' = Append(stream, Piece(ctx, chunks'))
  /\ out' = Append(out, Last(stream'))
  /\ UNCHANGED <<keyVars, cur, ctx, alive, made, billed, failed, finished>>

\* Mutant: the output is allocated after the cipher has seen the chunk.
CallFailsLate ==
  /\ ctx # None /\ AllocMayFail /\ ~Over
  /\ stream' = Append(stream, Piece(ctx, chunks + 1))
  /\ failed' = failed \cup {ctx}
  /\ UNCHANGED <<keyVars, cur, ctx, alive, made, billed, finished, textVars>>

\* No memory for the output, before the cipher has seen the chunk, or a cipher
\* that has made its tag; the same of end.
CallFails ==
  /\ ctx # None /\ (AllocMayFail \/ Over)
  /\ failed' = failed \cup {ctx}
  /\ Refused
-----------------------------------------------------------------------------
(* ubiq_platform_encryption_end *)

\* The cipher has finished, but there is no memory for the tag.
EndNoTag ==
  /\ AllocMayFail
  /\ ctx # None /\ ~Over
  /\ stream' = Append(stream, Piece(ctx, Tag))
  /\ failed' = failed \cup {ctx}
  /\ UNCHANGED <<keyVars, cur, ctx, alive, made, billed, finished, textVars>>

\* ubiq_support_encryption_finalize destroys the context it has finished.
Finalize ==
  /\ ctx # None /\ ~Over
  /\ stream' = Append(stream, Piece(ctx, Tag))
  /\ alive' = alive \ {ctx}
  /\ ctx' = None
  /\ UNCHANGED <<keyVars, cur, made, billed, chunks>>

EndDone ==
  /\ Finalize
  /\ out' = Append(out, Last(stream'))
  /\ finished' = finished \cup {ctx}
  /\ UNCHANGED failed

\* Mutant: enc->ctx is reset only when the tag has been joined.
EndKeeping ==
  /\ AllocMayFail
  /\ ctx # None /\ ~Over
  /\ stream' = Append(stream, Piece(ctx, Tag))
  /\ alive' = alive \ {ctx}
  /\ failed' = failed \cup {ctx}
  /\ UNCHANGED <<keyVars, cur, ctx, made, billed, chunks, out, finished>>

\* realloc finds no room for the tag behind the last piece: both are freed.
EndNotJoined ==
  /\ AllocMayFail
  /\ Finalize
  /\ failed' = failed \cup {ctx}
  /\ UNCHANGED <<out, finished>>
-----------------------------------------------------------------------------
Gone == phase \in {"failed", "gone", "crashed"} /\ UNCHANGED vars

Begin == BeginBusy \/ BeginSpent \/ BeginNoCipher \/ BeginCrash \/ BeginDone \/ BeginUnbilled
Update == NoContext \/ UpdateDone \/ CallFails
End == EndNoTag \/ EndDone \/ EndNotJoined

Next ==
  \/ \E grant \in Grants : Create(grant)
  \/ FailToCreate \/ Begin \/ Update \/ End \/ Destroy \/ Gone

Spec == Init /\ [][Next]_vars
-----------------------------------------------------------------------------
(* Properties *)

Contexts == 1..made

\* Each variable has its type.
TypeOK ==
  /\ phase \in {"none", "live", "failed", "gone", "crashed"}
  /\ max \in Nat /\ cur \in Nat /\ made \in Nat
  /\ ctx \in Contexts \cup {None}
  /\ stream \in Seq(Contexts \X (0..Tag)) /\ out \in Seq(Contexts \X (0..Tag))
  /\ alive \subseteq Contexts /\ billed \subseteq Contexts
  /\ failed \subseteq Contexts /\ finished \subseteq Contexts
  /\ chunks \in 0..MaxChunks

\* The data key is used no more often than the server granted, and no use goes
\* uncounted: not one whose begin failed on its billing event, nor one that was
\* never brought to its end.
UsesWithinGrant == cur = made /\ cur <= max

\* A cipher text that is finished without an error on the way has been billed.
FinishedIsBilled == finished \ failed \subseteq billed

\* No cipher context is leaked, and enc->ctx is never one that is destroyed,
\* whichever part of end fails.
ContextOwned == alive = {ctx} \ {None}

\* The cipher has seen each chunk once, in order, although a chunk is passed again
\* after an error; and the caller has all that it made, but for the tag of an end
\* that failed.
InOrder ==
  made > 0 =>
    LET body == [i \in 1..(chunks + 1) |-> Piece(made, i - 1)]
    IN /\ stream = IF Over THEN Append(body, Piece(made, Tag)) ELSE body
       /\ out = IF made \in finished THEN stream ELSE body
       /\ Over => made \in finished \cup failed
=============================================================================
