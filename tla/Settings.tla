------------------------------ MODULE Settings ------------------------------
(***************************************************************************)
(* Credentials and configuration (lib/credentials.c, lib/configuration.c): *)
(* one call that makes a set of credentials from the environment, a file   *)
(* of profiles or its arguments, or one that makes a configuration.        *)
(*                                                                         *)
(* A string is the place it comes from: the number of the line of the file *)
(* that sets it, the environment, an argument, or the library's default    *)
(* host; 0 is a null pointer.                                              *)
(***************************************************************************)
EXTENDS Integers, Sequences

CONSTANTS
  Required, host,     \* the parts of a set of credentials: three, and the server
  Profile, Default,   \* sections of the file, and the one named "default"
  NoSection,          \* where lines before the first section are
  MaxLines,           \* bound on the lines of the file
  MaxNumber           \* bound on the numbers in a configuration, in halves

ASSUME SettingsAssumption ==
  /\ host \notin Required
  /\ Default \in Profile /\ NoSection \notin Profile
  /\ MaxLines \in Nat /\ MaxNumber \in Nat

Part == Required \cup {host}
Interval == {"wake_interval", "minimum_count", "flush_interval"}

Null == 0
Environment == MaxLines + 1
Argument == MaxLines + 2
Numbers == {<<h>> : h \in (-MaxNumber)..MaxNumber} \cup {<<>>}

Nothing == [p \in Part |-> Null]
Defaults == [i \in Interval |-> CASE i = "wake_interval" -> 1
                                  [] i = "minimum_count" -> 5
                                  [] i = "flush_interval" -> 10]

VARIABLES
  env,         \* the environment
  lines,       \* the lines of the file read so far
  list,        \* the list of profiles: what each has for each part
  call,        \* the call, and the profile or the arguments it is given
  outcome,     \* reading, ok, or the error returned
  creds,       \* *creds
  config       \* *config

vars == <<env, lines, list, call, outcome, creds, config>>
-----------------------------------------------------------------------------
(* Credentials *)

Complete(c) == \A p \in Required : c[p] # Null

\* ubiq_platform_credentials_from_list: the parts of the profile, or of the
\* default one where it has none; nothing at all if that is not a whole set.
FromList(prof) ==
  LET c == [p \in Part |-> IF list[prof][p] # Null THEN list[prof][p] ELSE list[Default][p]]
  IN IF Complete(c) THEN c ELSE Nothing

\* Mutant: what comes second replaces what is there.
MergeOver(into, from) == [p \in Part |-> IF from[p] # Null THEN from[p] ELSE into[p]]

\* ubiq_platform_credentials_merge.
Merge(into, from) == [p \in Part |-> IF into[p] # Null THEN into[p] ELSE from[p]]

\* The library's own host, "api.ubiqsecurity.com".
LibraryHost == MaxLines + 3

\* ubiq_platform_credentials_create_explicit.
Explicit(c) ==
  \/ /\ outcome' = "ok"
     /\ creds' = [c EXCEPT ![host] = IF @ # Null THEN @ ELSE LibraryHost]
  \/ outcome' = "ENOMEM" /\ UNCHANGED creds

\* The environment, then the file's default profile; or a profile of a file,
\* for which the environment can give no more than the host.
CreateFrom(c) ==
  IF Complete(c) THEN Explicit(c) ELSE outcome' = "ENOENT" /\ UNCHANGED creds

Init ==
  /\ env \in [Part -> {Null, Environment}]
  /\ lines = <<>> /\ list = [prof \in Profile |-> Nothing]
  /\ call = [name |-> "none", profile |-> Default, args |-> Nothing]
  /\ outcome = "reading" /\ creds = Nothing /\ config = Defaults

Reading == outcome = "reading" /\ call.name = "none"

\* ubiq_platform_credentials_param_handler: a later line for a part replaces an
\* earlier one, and a section that comes back is taken up again.
ReadLine(section, p) ==
  /\ Reading /\ Len(lines) < MaxLines
  /\ lines' = Append(lines, [section |-> section, part |-> p])
  /\ list' = IF section = NoSection THEN list
             ELSE [list EXCEPT ![section][p] = Len(lines) + 1]
  /\ UNCHANGED <<env, call, outcome, creds, config>>

\* The parser found an error in the file: the list is cleared.
Malformed ==
  /\ Reading
  /\ lines' = <<>> /\ list' = [prof \in Profile |-> Nothing]
  /\ call' = [call EXCEPT !.name = "unread"]
  /\ UNCHANGED <<env, outcome, creds, config>>

Ready == outcome = "reading" /\ call.name \in {"none", "unread"}

Create ==
  /\ Ready
  /\ CreateFrom(Merge(env, FromList(Default)))
  /\ call' = [call EXCEPT !.name = "create"]
  /\ UNCHANGED <<env, lines, list, config>>

CreateSpecific(prof) ==
  /\ Ready
  /\ LET c == FromList(prof) IN
       CreateFrom([c EXCEPT ![host] = IF @ # Null THEN @ ELSE env[host]])
  /\ call' = [call EXCEPT !.name = "specific", !.profile = prof]
  /\ UNCHANGED <<env, lines, list, config>>

\* It reads no file.
CreateExplicit(args) ==
  /\ Ready /\ lines = <<>>
  /\ IF Complete(args) THEN Explicit(args) ELSE outcome' = "EINVAL" /\ UNCHANGED creds
  /\ call' = [call EXCEPT !.name = "explicit", !.args = args]
  /\ UNCHANGED <<env, lines, list, config>>
-----------------------------------------------------------------------------
(* Configuration *)

\* The int that a double becomes, the double in halves; a number that is not
\* in the file is the empty sequence.
Truncated(h) == IF h >= 0 THEN h \div 2 ELSE -((-h) \div 2)

\* Mutant: it is the number in the file that must not be zero.
TakenUncut(value, number) ==
  IF number # <<>> /\ number[1] # 0 THEN Truncated(number[1]) ELSE value

\* A number replaces the default unless it is zero once it is an int.
Taken(value, number) ==
  IF number # <<>> /\ Truncated(number[1]) # 0 THEN Truncated(number[1]) ELSE value

\* ubiq_platform_configuration_load_configuration, of a file that can be
\* parsed or of one that has nothing; create_explicit does the same with ints.
Configure(file) ==
  /\ Reading /\ lines = <<>>
  /\ config' = [i \in Interval |-> Taken(Defaults[i], file[i])]
  /\ call' = [call EXCEPT !.name = "configure"] /\ outcome' = "ok"
  /\ UNCHANGED <<env, lines, list, creds>>

Next ==
  \/ \E section \in Profile \cup {NoSection}, p \in Part : ReadLine(section, p)
  \/ Malformed \/ Create
  \/ \E prof \in Profile : CreateSpecific(prof)
  \/ \E args \in [Part -> {Null, Argument}] : CreateExplicit(args)
  \/ \E file \in [Interval -> Numbers] : Configure(file)

Spec == Init /\ [][Next]_vars
-----------------------------------------------------------------------------
(* Properties *)

\* The last line of the file that sets a part in a section.
LastLine(section, p) ==
  LET found == {i \in DOMAIN lines : lines[i] = [section |-> section, part |-> p]} IN
  IF found = {} THEN Null ELSE CHOOSE i \in found : \A j \in found : j <= i

First(a, b) == IF a # Null THEN a ELSE b

\* What credentials.h promises, part by part: the environment, then the default
\* profile; the profile asked for, then the default one and, for the host alone,
\* the environment; or the argument.
Promised(p) ==
  CASE call.name = "create" -> First(env[p], LastLine(Default, p))
    [] call.name = "specific" ->
         First(First(LastLine(call.profile, p), LastLine(Default, p)),
               IF p = host THEN env[p] ELSE Null)
    [] call.name = "explicit" -> call.args[p]
    [] OTHER -> Null

\* The code breaks that promise where the default profile lacks a required part:
\* then create takes nothing from it, not even what the environment is missing.
DefaultDropped ==
  call.name = "create" /\ \E q \in Required : LastLine(Default, q) = Null

Best(p) == IF DefaultDropped THEN env[p] ELSE Promised(p)

\* Every part of a set of credentials comes from the best source that has it,
\* as credentials.h says, and none is made exactly when a part is nowhere, or for
\* want of memory; but a default profile that lacks a required part counts for
\* nothing in create.
FromBestSource ==
  call.name \in {"create", "specific", "explicit"} =>
    /\ outcome \in {"ENOENT", "EINVAL"} <=> \E p \in Required : Best(p) = Null
    /\ outcome = "ok" => \A p \in Part :
         creds[p] = First(Best(p), IF p = host THEN LibraryHost ELSE Null)
    /\ outcome # "ok" => creds = Nothing

\* The worker never gets an interval or a count of zero, with which it would
\* not wait at all, whatever numbers are in the file.
NeverZero == \A i \in Interval : config[i] # 0
=============================================================================
