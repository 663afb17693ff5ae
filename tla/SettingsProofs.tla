--------------------------- MODULE SettingsProofs ---------------------------
(* Proofs about Settings: for files of every length, any number of profiles    *)
(* and any numbers, every part of a set of credentials comes from the best     *)
(* source that has it, and no interval of a configuration is zero.             *)
EXTENDS Settings, TLAPS

Line == [section : Profile \cup {NoSection}, part : Part]

Typed ==
  /\ env \in [Part -> {Null, Environment}]
  /\ lines \in Seq(Line)
  /\ list \in [Profile -> [Part -> Nat]]
  /\ call \in [name : {"none", "unread", "create", "specific", "explicit", "configure"},
               profile : Profile, args : [Part -> {Null, Argument}]]

\* The list of profiles is that of the lines read so far.
Listed == \A prof \in Profile, p \in Part : list[prof][p] = LastLine(prof, p)

\* Before the call there is nothing to show for it.
NotYet ==
  /\ outcome = "reading" => creds = Nothing
  /\ outcome = "reading" <=> call.name \in {"none", "unread"}

\* The inductive invariant.
IInv == Typed /\ Listed /\ NotYet /\ FromBestSource /\ NeverZero
-----------------------------------------------------------------------------
(* The lines of a file *)

Found(section, p) == {i \in DOMAIN lines : lines[i] = [section |-> section, part |-> p]}
Greatest(F) == CHOOSE i \in F : \A j \in F : j <= i

LEMMA NothingIsTyped == Nothing \in [Part -> Nat] /\ \A p \in Part : Nothing[p] = Null
  BY DEF Nothing, Null

LEMMA EmptyFile ==
  ASSUME lines = <<>>, NEW section, NEW p
  PROVE  LastLine(section, p) = Null
<1>1. DOMAIN lines = {}
  OBVIOUS
<1> QED
  BY <1>1 DEF LastLine

LEMMA EmptyFileNext ==
  ASSUME lines' = <<>>, NEW section, NEW p
  PROVE  LastLine(section, p)' = Null
<1>1. DOMAIN lines' = {}
  OBVIOUS
<1> QED
  BY <1>1 DEF LastLine

\* A line is the last one of its section for its part, and of no other.
LEMMA NextLine ==
  ASSUME Typed, NEW s \in Profile \cup {NoSection}, NEW q \in Part,
         lines' = Append(lines, [section |-> s, part |-> q]),
         NEW section, NEW p
  PROVE  LastLine(section, p)' = IF section = s /\ p = q THEN Len(lines) + 1
                                 ELSE LastLine(section, p)
<1>1. /\ Len(lines) \in Nat /\ DOMAIN lines = 1..Len(lines)
      /\ DOMAIN lines' = 1..(Len(lines) + 1)
      /\ lines'[Len(lines) + 1] = [section |-> s, part |-> q]
      /\ \A i \in 1..Len(lines) : lines'[i] = lines[i]
  <2>1. [section |-> s, part |-> q] \in Line
    BY DEF Line
  <2>2. ASSUME NEW S, NEW f \in Seq(S), NEW e \in S
        PROVE  /\ Len(f) \in Nat /\ DOMAIN f = 1..Len(f)
               /\ DOMAIN Append(f, e) = 1..(Len(f) + 1)
               /\ Append(f, e)[Len(f) + 1] = e
               /\ \A i \in 1..Len(f) : Append(f, e)[i] = f[i]
    OBVIOUS
  <2> QED
    BY <2>1, <2>2 DEF Typed
<1>2. CASE section = s /\ p = q
  <2>1. /\ Len(lines) + 1 \in Found(section, p)'
        /\ \A j \in Found(section, p)' : j <= Len(lines) + 1 /\ j \in Nat
    BY <1>1, <1>2 DEF Found
  <2>2. LastLine(section, p)' = CHOOSE i \in Found(section, p)' : \A j \in Found(section, p)' : j <= i
    BY <2>1 DEF LastLine, Found
  <2>3. \A i \in Found(section, p)' : (\A j \in Found(section, p)' : j <= i) => i = Len(lines) + 1
    BY <1>1, <2>1
  <2>4. ASSUME NEW F, NEW x \in F, \A j \in F : j <= x,
               \A i \in F : (\A j \in F : j <= i) => i = x
        PROVE  (CHOOSE i \in F : \A j \in F : j <= i) = x
    BY <2>4
  <2>5. LastLine(section, p)' = Len(lines) + 1
    BY <2>1, <2>2, <2>3, <2>4
  <2> QED
    BY <1>2, <2>5
<1>3. CASE ~(section = s /\ p = q)
  <2>1. [section |-> section, part |-> p] # [section |-> s, part |-> q]
    <3>1. /\ [section |-> section, part |-> p].section = section
          /\ [section |-> section, part |-> p].part = p
          /\ [section |-> s, part |-> q].section = s /\ [section |-> s, part |-> q].part = q
      OBVIOUS
    <3> QED
      BY <1>3, <3>1
  <2>2. Found(section, p)' = Found(section, p)
    BY <1>1, <2>1 DEF Found
  <2>3. /\ LastLine(section, p) = IF Found(section, p) = {} THEN Null
                                 ELSE Greatest(Found(section, p))
        /\ LastLine(section, p)' = IF Found(section, p)' = {} THEN Null
                                  ELSE Greatest(Found(section, p)')
    BY DEF LastLine, Found, Greatest
  <2> QED
    BY <1>3, <2>2, <2>3
<1> QED
  BY <1>2, <1>3
-----------------------------------------------------------------------------
(* Steps *)

LEMMA InitInvariant == Init => IInv
<1> SUFFICES ASSUME Init PROVE IInv
  OBVIOUS
<1>1. Typed
  BY NothingIsTyped, SettingsAssumption DEF Init, Typed, Nothing
<1>2. Listed
  BY EmptyFile, NothingIsTyped DEF Init, Listed
<1> QED
  BY <1>1, <1>2 DEF Init, IInv, NotYet, FromBestSource, NeverZero, Defaults, Interval

\* A profile has every required part, the default one filling it up.
Whole(prof) == \A q \in Required : First(LastLine(prof, q), LastLine(Default, q)) # Null

\* What the list gives for a profile is what the file says, if that is whole.
LEMMA ListIsFile ==
  ASSUME Typed, Listed, NEW prof \in Profile
  PROVE  /\ FromList(prof) = [p \in Part |->
               IF Whole(prof) THEN First(LastLine(prof, p), LastLine(Default, p)) ELSE Null]
         /\ \A p \in Part : First(LastLine(Default, p), LastLine(Default, p)) = LastLine(Default, p)
<1>1. Default \in Profile /\ Required \subseteq Part
  BY SettingsAssumption DEF Part
<1> DEFINE c == [p \in Part |-> IF list[prof][p] # Null THEN list[prof][p] ELSE list[Default][p]]
<1>2. \A p \in Part : c[p] = First(LastLine(prof, p), LastLine(Default, p))
  BY <1>1 DEF Listed, First
<1>3. FromList(prof) = IF Complete(c) THEN c ELSE Nothing
  BY DEF FromList
<1>4. Complete(c) <=> \A q \in Required : First(LastLine(prof, q), LastLine(Default, q)) # Null
  BY <1>1, <1>2 DEF Complete
<1>5. c = [p \in Part |-> First(LastLine(prof, p), LastLine(Default, p))]
  BY <1>2
<1>6. Complete(c) <=> Whole(prof)
  BY <1>4 DEF Whole
<1> HIDE DEF c
<1> QED
  BY <1>3, <1>5, <1>6 DEF Nothing, First

LEMMA ReadLineKeeps ==
  ASSUME IInv, NEW section \in Profile \cup {NoSection}, NEW p \in Part, ReadLine(section, p)
  PROVE  IInv'
<1>1. /\ lines' = Append(lines, [section |-> section, part |-> p])
      /\ list' = IF section = NoSection THEN list ELSE [list EXCEPT ![section][p] = Len(lines) + 1]
      /\ UNCHANGED <<env, call, outcome, creds, config>>
      /\ outcome = "reading" /\ call.name = "none"
  BY DEF ReadLine, Reading
<1>2. Typed /\ Listed /\ [section |-> section, part |-> p] \in Line /\ Len(lines) \in Nat
  BY DEF IInv, Typed, Line
<1>3. Typed'
  <2>1. lines' \in Seq(Line)
    BY <1>1, <1>2 DEF Typed
  <2>2. list' \in [Profile -> [Part -> Nat]]
    <3>1. list \in [Profile -> [Part -> Nat]] /\ Len(lines) + 1 \in Nat
      BY <1>2 DEF Typed
    <3> QED
      BY <1>1, <3>1
  <2> QED
    BY <1>1, <1>2, <2>1, <2>2 DEF Typed
<1>4. ASSUME NEW prof \in Profile, NEW q \in Part
      PROVE  list'[prof][q] = LastLine(prof, q)'
  <2>1. LastLine(prof, q)' = IF prof = section /\ q = p THEN Len(lines) + 1 ELSE LastLine(prof, q)
    BY <1>1, <1>2, NextLine
  <2>2. list[prof][q] = LastLine(prof, q)
    BY <1>2 DEF Listed
  <2>3. list \in [Profile -> [Part -> Nat]]
    BY <1>2 DEF Typed
  <2>4. list'[prof][q] = IF prof = section /\ q = p THEN Len(lines) + 1 ELSE list[prof][q]
    BY <1>1, <2>3, SettingsAssumption
  <2> QED
    BY <2>1, <2>2, <2>4
<1>5. Listed'
  BY <1>4 DEF Listed
<1> QED
  BY <1>1, <1>3, <1>5 DEF IInv, NotYet, FromBestSource, NeverZero

LEMMA MalformedKeeps == ASSUME IInv, Malformed PROVE IInv'
<1>1. /\ lines' = <<>> /\ list' = [prof \in Profile |-> Nothing]
      /\ call' = [call EXCEPT !.name = "unread"]
      /\ UNCHANGED <<env, outcome, creds, config>> /\ outcome = "reading"
  BY DEF Malformed, Reading
<1>2. Typed' /\ call'.name = "unread"
  <2>1. lines' \in Seq(Line)
    BY <1>1
  <2>2. list' \in [Profile -> [Part -> Nat]]
    BY <1>1, NothingIsTyped
  <2>3. /\ call' \in [name : {"none", "unread", "create", "specific", "explicit", "configure"},
                     profile : Profile, args : [Part -> {Null, Argument}]]
        /\ call'.name = "unread"
    BY <1>1 DEF IInv, Typed
  <2> QED
    BY <1>1, <2>1, <2>2, <2>3 DEF IInv, Typed
<1>3. Listed'
  <2>1. ASSUME NEW prof \in Profile, NEW q \in Part PROVE list'[prof][q] = LastLine(prof, q)'
    BY <1>1, EmptyFileNext, NothingIsTyped
  <2> QED
    BY <2>1 DEF Listed
<1> QED
  BY <1>1, <1>2, <1>3 DEF IInv, NotYet, FromBestSource, NeverZero

\* A call ends as it should whose parts c are complete when the best ones are,
\* and are the best ones then.
LEMMA CallKeeps ==
  ASSUME IInv, Ready, Typed', UNCHANGED <<env, lines, list, config>>,
         call'.name \in {"create", "specific", "explicit"},
         NEW c, c = [p \in Part |-> c[p]],
         Complete(c) <=> \A p \in Required : Best(p)' # Null,
         Complete(c) => \A p \in Part : c[p] = Best(p)',
         \/ Complete(c) /\ Explicit(c)
         \/ ~Complete(c) /\ outcome' \in {"ENOENT", "EINVAL"} /\ UNCHANGED creds
  PROVE  IInv'
<1>1. creds = Nothing /\ Required \subseteq Part /\ host \in Part
  BY DEF IInv, Ready, NotYet, Part
<1>2. Complete(c) <=> ~\E p \in Required : Best(p)' = Null
  OBVIOUS
<1>3. outcome' # "reading"
  BY DEF Explicit
<1>4. NotYet'
  BY <1>3 DEF NotYet
<1>5. Listed' /\ NeverZero'
  BY DEF IInv, Listed, LastLine, NeverZero
<1>6. FromBestSource'
  <2>1. CASE Complete(c) /\ outcome' = "ok" /\ creds' = [c EXCEPT ![host] = IF @ # Null THEN @ ELSE LibraryHost]
    <3>1. ASSUME NEW p \in Part
          PROVE  creds'[p] = First(Best(p)', IF p = host THEN LibraryHost ELSE Null)
      <4>1. c[p] = Best(p)' /\ c \in [Part -> {c[q] : q \in Part}]
        BY <2>1
      <4>2. creds'[p] = IF p = host THEN (IF c[p] # Null THEN c[p] ELSE LibraryHost) ELSE c[p]
        BY <2>1, <4>1
      <4> QED
        BY <4>1, <4>2 DEF First
    <3> QED
      BY <1>2, <2>1, <3>1 DEF FromBestSource, LibraryHost
  <2>2. CASE Complete(c) /\ outcome' = "ENOMEM" /\ UNCHANGED creds
    BY <1>1, <1>2, <2>2 DEF FromBestSource, Nothing
  <2>3. CASE ~Complete(c) /\ outcome' \in {"ENOENT", "EINVAL"} /\ UNCHANGED creds
    BY <1>1, <1>2, <2>3 DEF FromBestSource, Nothing
  <2> QED
    BY <2>1, <2>2, <2>3 DEF Explicit
<1> QED
  BY <1>4, <1>5, <1>6 DEF IInv

\* What EXCEPT makes of the call.
LEMMA CallType ==
  ASSUME Typed,
         NEW n \in {"none", "unread", "create", "specific", "explicit", "configure"},
         NEW prof \in Profile, NEW a \in [Part -> {Null, Argument}],
         \/ call' = [call EXCEPT !.name = n]
         \/ call' = [call EXCEPT !.name = n, !.profile = prof]
         \/ call' = [call EXCEPT !.name = n, !.args = a]
  PROVE  /\ call' \in [name : {"none", "unread", "create", "specific", "explicit", "configure"},
                       profile : Profile, args : [Part -> {Null, Argument}]]
         /\ call'.name = n
         /\ call' = [call EXCEPT !.name = n, !.profile = prof] => call'.profile = prof
         /\ call' = [call EXCEPT !.name = n, !.args = a] => call'.args = a
  BY DEF Typed

LEMMA NothingIsArgument == Nothing \in [Part -> {Null, Argument}] /\ Default \in Profile
  BY SettingsAssumption DEF Nothing

LEMMA CreateKeeps == ASSUME IInv, Create PROVE IInv'
<1> DEFINE c == Merge(env, FromList(Default))
<1>1. /\ Ready /\ UNCHANGED <<env, lines, list, config>>
      /\ call' = [call EXCEPT !.name = "create"]
      /\ CreateFrom(c)
  BY DEF Create
<1>2. Typed' /\ call'.name = "create"
  BY <1>1, NothingIsArgument, CallType DEF IInv, Typed
<1>3. \A p \in Part : FromList(Default)[p] =
                         IF Whole(Default) THEN LastLine(Default, p) ELSE Null
  BY NothingIsArgument, ListIsFile DEF IInv
<1>4. c = [p \in Part |-> c[p]]
  BY DEF Merge
<1>5. \A p \in Part : c[p] = Best(p)'
  <2> TAKE p \in Part
  <2>1. c[p] = First(env[p], IF Whole(Default) THEN LastLine(Default, p) ELSE Null)
    BY <1>3 DEF Merge, First
  <2>2. \A q \in Part : LastLine(Default, q)' = LastLine(Default, q)
    BY <1>1 DEF LastLine
  <2>3. Whole(Default) <=> ~DefaultDropped'
    BY <1>2, <2>2 DEF Whole, DefaultDropped, First, Part
  <2>4. Best(p)' = IF Whole(Default) THEN First(env[p], LastLine(Default, p)) ELSE env[p]
    BY <1>1, <1>2, <2>2, <2>3 DEF Best, Promised
  <2> QED
    BY <2>1, <2>4 DEF First
<1>6. \/ Complete(c) /\ Explicit(c)
      \/ ~Complete(c) /\ outcome' \in {"ENOENT", "EINVAL"} /\ UNCHANGED creds
  BY <1>1 DEF CreateFrom
<1>7. Complete(c) <=> \A p \in Required : Best(p)' # Null
  BY <1>5 DEF Complete, Part
<1> HIDE DEF c
<1> QED
  BY <1>1, <1>2, <1>4, <1>5, <1>6, <1>7, CallKeeps

LEMMA CreateSpecificKeeps ==
  ASSUME IInv, NEW prof \in Profile, CreateSpecific(prof)
  PROVE  IInv'
<1> DEFINE f == FromList(prof)
<1> DEFINE c == [f EXCEPT ![host] = IF @ # Null THEN @ ELSE env[host]]
<1>1. /\ Ready /\ UNCHANGED <<env, lines, list, config>>
      /\ call' = [call EXCEPT !.name = "specific", !.profile = prof]
      /\ CreateFrom(c)
  BY DEF CreateSpecific
<1>2. Typed' /\ call'.name = "specific" /\ call'.profile = prof
  BY <1>1, NothingIsArgument, CallType DEF IInv, Typed
<1>3. f = [p \in Part |->
            IF Whole(prof) THEN First(LastLine(prof, p), LastLine(Default, p)) ELSE Null]
  BY ListIsFile DEF IInv
<1>4. c = [p \in Part |-> IF p # host THEN f[p] ELSE IF f[p] # Null THEN f[p] ELSE env[host]]
  BY <1>3
<1>5. \A p \in Part : /\ Whole(prof) => c[p] = Best(p)'
                      /\ p \in Required => (c[p] # Null <=> Whole(prof) /\ Best(p)' # Null)
  <2> TAKE p \in Part
  <2>1. c[p] = IF p = host /\ f[p] = Null THEN env[p] ELSE f[p]
    BY <1>4
  <2>2. \A s, q : LastLine(s, q)' = LastLine(s, q)
    BY <1>1 DEF LastLine
  <2>3. Best(p)' = First(First(LastLine(prof, p), LastLine(Default, p)),
                         IF p = host THEN env[p] ELSE Null)
    BY <1>1, <1>2, <2>2 DEF Best, Promised, DefaultDropped
  <2>4. p \in Required => p # host
    BY SettingsAssumption
  <2> QED
    BY <1>3, <2>1, <2>3, <2>4 DEF First
<1>8. Complete(c) <=> \A p \in Required : Best(p)' # Null
  <2>1. \A p \in Required : Best(p)' = First(LastLine(prof, p), LastLine(Default, p))
    <3> SUFFICES ASSUME NEW p \in Required
                 PROVE  Best(p)' = First(LastLine(prof, p), LastLine(Default, p))
      OBVIOUS
    <3>1. p # host
      BY SettingsAssumption
    <3>2. \A s, q : LastLine(s, q)' = LastLine(s, q)
      BY <1>1 DEF LastLine
    <3>3. Best(p)' = First(First(LastLine(prof, p), LastLine(Default, p)), Null)
      BY <1>1, <1>2, <3>1, <3>2 DEF Best, Promised, DefaultDropped
    <3> QED
      BY <3>3 DEF First
  <2>2. Whole(prof) <=> \A p \in Required : Best(p)' # Null
    BY <2>1 DEF Whole
  <2>3. Complete(c) => Whole(prof) \/ Required = {}
    BY <1>5 DEF Complete, Part
  <2> QED
    BY <1>5, <2>2, <2>3 DEF Complete, Part
<1>9. Complete(c) => \A p \in Part : c[p] = Best(p)'
  BY <1>5, <1>8, SettingsAssumption DEF Complete, Part, Whole
<1>6. \/ Complete(c) /\ Explicit(c)
      \/ ~Complete(c) /\ outcome' \in {"ENOENT", "EINVAL"} /\ UNCHANGED creds
  BY <1>1 DEF CreateFrom
<1>7. c = [p \in Part |-> c[p]]
  BY <1>4
<1> HIDE DEF c
<1> QED
  BY <1>1, <1>2, <1>6, <1>7, <1>8, <1>9, CallKeeps

LEMMA CreateExplicitKeeps ==
  ASSUME IInv, NEW args \in [Part -> {Null, Argument}], CreateExplicit(args)
  PROVE  IInv'
<1>1. /\ Ready /\ UNCHANGED <<env, lines, list, config>>
      /\ call' = [call EXCEPT !.name = "explicit", !.args = args]
      /\ IF Complete(args) THEN Explicit(args) ELSE outcome' = "EINVAL" /\ UNCHANGED creds
  BY DEF CreateExplicit
<1>2. Typed' /\ call'.name = "explicit" /\ call'.args = args
  BY <1>1, NothingIsArgument, CallType DEF IInv, Typed
<1>3. \A p \in Part : args[p] = Best(p)'
  BY <1>2 DEF Best, Promised, DefaultDropped
<1>4. /\ args = [p \in Part |-> args[p]]
      /\ Complete(args) <=> \A p \in Required : Best(p)' # Null
  BY <1>3 DEF Complete, Part
<1> QED
  BY <1>1, <1>2, <1>3, <1>4, CallKeeps

LEMMA ConfigureKeeps ==
  ASSUME IInv, NEW file \in [Interval -> Numbers], Configure(file)
  PROVE  IInv'
<1>1. /\ config' = [i \in Interval |-> Taken(Defaults[i], file[i])]
      /\ call' = [call EXCEPT !.name = "configure"] /\ outcome' = "ok"
      /\ UNCHANGED <<env, lines, list, creds>>
  BY DEF Configure
<1>2. Typed' /\ call'.name = "configure"
  BY <1>1, NothingIsArgument, CallType DEF IInv, Typed
<1>3. NeverZero'
  <2>1. \A i \in Interval : Defaults[i] # 0
    BY DEF Defaults, Interval
  <2>2. \A i \in Interval : Taken(Defaults[i], file[i]) # 0
    BY <2>1 DEF Taken
  <2> QED
    BY <1>1, <2>2 DEF NeverZero
<1>4. Listed'
  BY <1>1 DEF IInv, Listed, LastLine
<1> QED
  BY <1>1, <1>2, <1>3, <1>4 DEF IInv, NotYet, FromBestSource

LEMMA StutterKeeps == ASSUME IInv, UNCHANGED vars PROVE IInv'
<1>1. UNCHANGED <<env, lines, list, call, outcome, creds, config>>
  BY DEF vars
<1>2. Typed' /\ NotYet' /\ NeverZero'
  BY <1>1 DEF IInv, Typed, NotYet, NeverZero
<1>a. Listed'
  BY <1>1 DEF IInv, Listed, LastLine
<1>3. \A p \in Part : Best(p)' = Best(p)
  BY <1>1 DEF Best, Promised, DefaultDropped, LastLine
<1>4. FromBestSource'
  BY <1>1, <1>3 DEF IInv, FromBestSource, Part, First, LibraryHost
<1> QED
  BY <1>2, <1>a, <1>4 DEF IInv

LEMMA NextInvariant == IInv /\ [Next]_vars => IInv'
<1> SUFFICES ASSUME IInv, [Next]_vars PROVE IInv'
  OBVIOUS
<1>1. ASSUME NEW section \in Profile \cup {NoSection}, NEW p \in Part, ReadLine(section, p)
      PROVE  IInv'
  BY <1>1, ReadLineKeeps
<1>2. CASE Malformed
  BY <1>2, MalformedKeeps
<1>3. CASE Create
  BY <1>3, CreateKeeps
<1>4. ASSUME NEW prof \in Profile, CreateSpecific(prof) PROVE IInv'
  BY <1>4, CreateSpecificKeeps
<1>5. ASSUME NEW args \in [Part -> {Null, Argument}], CreateExplicit(args) PROVE IInv'
  BY <1>5, CreateExplicitKeeps
<1>6. ASSUME NEW file \in [Interval -> Numbers], Configure(file) PROVE IInv'
  BY <1>6, ConfigureKeeps
<1>7. CASE UNCHANGED vars
  BY <1>7, StutterKeeps
<1> QED
  BY <1>1, <1>2, <1>3, <1>4, <1>5, <1>6, <1>7 DEF Next
-----------------------------------------------------------------------------
(* Theorems *)

THEOREM Invariance == Spec => []IInv
<1> QED
  BY InitInvariant, NextInvariant, PTL DEF Spec

\* Every part of a set of credentials comes from the best source that has it, as
\* credentials.h says, whatever the lines of the file and their order; but create
\* takes nothing from a default profile that lacks a required part.
THEOREM PartsFromBestSource == Spec => []FromBestSource
<1>1. IInv => FromBestSource
  BY DEF IInv
<1> QED
  BY <1>1, Invariance, PTL

\* No interval is zero, whatever numbers are in the file.
THEOREM IntervalsAreNotZero == Spec => []NeverZero
<1>1. IInv => NeverZero
  BY DEF IInv
<1> QED
  BY <1>1, Invariance, PTL
=============================================================================
