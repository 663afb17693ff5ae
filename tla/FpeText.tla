------------------------------ MODULE FpeText ------------------------------
(***************************************************************************)
(* What format-preserving encryption does to a text (lib/fpe.c and         *)
(* lib/parsing.c).  The char_ functions and the u32_ functions do the same *)
(* to bytes and to code points; here a text is a sequence of characters.   *)
(*                                                                         *)
(* The FF1 cipher is external: for a key and a length it is a bijection on *)
(* the texts of the input set.  Every property here is about one text and  *)
(* its image, so it is enough to let the bijection be any rotation of the  *)
(* numbers of that length: each text has each image under one of them.     *)
(***************************************************************************)
EXTENDS Naturals, Sequences, FiniteSets, SequencesExt

CONSTANTS
  Input, Output,             \* the character sets, in order
  Passthrough,               \* characters that stay as they are
  MinLength, MaxLength,      \* of the characters to encrypt
  MsbEncodingBits,
  MaxKey,                    \* the current key of the data set
  Overrun,                   \* what is behind the last character of a set
  Texts                      \* the texts that are passed in

Key == 0..MaxKey
Position(set, c) == (CHOOSE i \in DOMAIN set : set[i] = c) - 1

\* b to the n-th, defined so that it can be reasoned about, and the number of
\* texts of a length.
Power(b, n) ==
  LET power[k \in Nat] == IF k = 0 THEN 1 ELSE power[k - 1] * b IN power[n]
Size(set, len) == Power(Len(set), len)
KeyUnit == Power(2, MsbEncodingBits)

ASSUME TypeAssumption ==
  /\ \A s \in {Input, Output} \cup Texts : s \in Seq(ToSet(s))
  /\ {MinLength, MaxLength, MsbEncodingBits, MaxKey} \subseteq Nat

\* What a sound definition of a data set has to observe.  The first character
\* of a converted text must leave room for the key number, for every length
\* and every key.
ASSUME DataSetAssumption ==
  /\ Passthrough \cap (ToSet(Input) \cup ToSet(Output)) = {}
  /\ IsInjective(Input) /\ IsInjective(Output)
  /\ 0 < MinLength /\ MinLength <= MaxLength
  /\ \A len \in MinLength..MaxLength :
       Size(Input, len) <= KeyUnit * Size(Output, len - 1)
  /\ (MaxKey + 1) * KeyUnit <= Len(Output)
  /\ Overrun \notin Passthrough \cup ToSet(Input) \cup ToSet(Output)

VARIABLES
  original, text,   \* the text passed in first, and what was made of it
  ok, number,       \* did the last call succeed, and the key it used
  rotation, calls   \* the bijection, and the calls made

vars == <<original, text, ok, number, rotation, calls>>
-----------------------------------------------------------------------------
(* The pieces *)

\* Where in a text the characters of a set are, and the how many-th of these
\* places one is.
Places(s, set) == {i \in DOMAIN s : s[i] \in ToSet(set)}
Rank(places, i) == Cardinality({j \in places : j <= i})
Trimmed(s, set) ==
  LET places == Places(s, set) IN
  [n \in 1..Cardinality(places) |-> s[CHOOSE i \in places : Rank(places, i) = n]]

\* Mutant: characters that are passed through are skipped.
DecomposeSkipping(s, set, zeroth) ==
  [ok |-> ToSet(s) \subseteq ToSet(set) \cup Passthrough,
   trimmed |-> Trimmed(s, set),
   formatted |-> [i \in DOMAIN Trimmed(s, set) |-> zeroth]]

\* {char,u32}_parsing_decompose_string: the characters to convert, and the text
\* with the zeroth character of the destination in their places.
Decompose(s, set, zeroth) ==
  [ok |-> ToSet(s) \subseteq ToSet(set) \cup Passthrough,
   trimmed |-> Trimmed(s, set),
   formatted |-> [i \in DOMAIN s |-> IF s[i] \in ToSet(set) THEN zeroth ELSE s[i]]]

\* {char,u32}_parse_data and the check of the length that follows it.
Parse(s, from, to) ==
  LET parsed == Decompose(s, from, to[1]) IN
  [parsed EXCEPT !.ok = @ /\ Len(parsed.trimmed) \in MinLength..MaxLength]

\* __bigint_set_str, and __bigint_get_str with the padding that follows it.
Value(s, set) ==
  LET value[n \in 0..Len(s)] ==
        IF n = 0 THEN 0 ELSE value[n - 1] * Len(set) + Position(set, s[n])
  IN value[Len(s)]
Digits(v, set, len) ==
  [i \in 1..len |-> set[((v \div Size(set, len - i)) % Len(set)) + 1]]

\* Mutant: a result as long as the source is too long.
ConvertShorter(s, from, to) ==
  [ok |-> Value(s, from) < Size(to, Len(s) - 1),
   out |-> Digits(Value(s, from), to, Len(s))]

\* {u32_,}str_convert_{u32_,}radix: the same number in the other set, if it has
\* no more digits there.
Convert(s, from, to) ==
  [ok |-> Value(s, from) < Size(to, Len(s)),
   out |-> Digits(Value(s, from), to, Len(s))]

\* {u32_,}encode_keynum, on the first character: no bound is checked.
EncodeKeynum(s, k) ==
  LET v == Position(Output, s[1]) + k * KeyUnit IN
  [s EXCEPT ![1] = IF v < Len(Output) THEN Output[v + 1] ELSE Overrun]

\* Mutant: the key number stays in the first character.
DecodeKeynumKeeping(s) ==
  [key |-> Position(Output, s[1]) \div KeyUnit, rest |-> s]

\* {u32_,}decode_keynum.
DecodeKeynum(s) ==
  LET v == Position(Output, s[1])
      k == v \div KeyUnit
  IN [key |-> k, rest |-> [s EXCEPT ![1] = Output[v - k * KeyUnit + 1]]]

\* {char,u32}_finalize_output_string: the i-th zeroth character gets data[i].
Finalize(formatted, data, zeroth) ==
  [i \in DOMAIN formatted |->
     IF formatted[i] = zeroth THEN data[Rank(Places(formatted, <<zeroth>>), i)]
     ELSE formatted[i]]

\* ff1_encrypt and ff1_decrypt.
Ff1Encrypt(s, r) == Digits((Value(s, Input) + r) % Size(Input, Len(s)), Input, Len(s))
Ff1Decrypt(s, r) ==
  LET size == Size(Input, Len(s)) IN
  Digits(((Value(s, Input) + size) - (r % size)) % size, Input, Len(s))

Failure == [ok |-> FALSE, out |-> <<>>, key |-> 0]

\* {char,u32}_fpe_encrypt_data.
EncryptData(s, k, r) ==
  LET parsed == Parse(s, Input, Output)
      ct == Convert(Ff1Encrypt(parsed.trimmed, r), Input, Output)
  IN
  IF ~parsed.ok \/ ~ct.ok THEN Failure
  ELSE [ok |-> TRUE, key |-> k,
        out |-> Finalize(parsed.formatted, EncodeKeynum(ct.out, k), Output[1])]

\* {char,u32}_fpe_decrypt_data: the number is decoded before the conversion, and
\* the server refuses one that it does not know.
DecryptData(s, r) ==
  LET parsed == Parse(s, Output, Input)
      decoded == DecodeKeynum(parsed.trimmed)
      ct == Convert(decoded.rest, Output, Input)
  IN
  IF ~parsed.ok \/ ~ct.ok \/ decoded.key \notin Key THEN Failure
  ELSE [ok |-> TRUE, key |-> decoded.key,
        out |-> Finalize(parsed.formatted, Ff1Decrypt(ct.out, r), Input[1])]
-----------------------------------------------------------------------------
(* One call on a text, and the other one on what it made *)

Init ==
  /\ text \in Texts /\ original = text
  /\ ok = TRUE /\ number = 0 /\ rotation = 0 /\ calls = <<>>

Rotations == UNION {0..(Size(Input, len) - 1) : len \in MinLength..MaxLength}

Call(operation, result) ==
  /\ ok' = result.ok /\ text' = result.out /\ number' = result.key
  /\ calls' = Append(calls, operation)
  /\ UNCHANGED original

\* ubiq_platform_fpe_encrypt_data with some key, then decrypt_data.
EncryptFirst ==
  /\ calls = <<>>
  /\ rotation' \in Rotations
  /\ \E k \in Key : Call("encrypt", EncryptData(text, k, rotation'))

DecryptBack ==
  /\ calls = <<"encrypt">> /\ ok
  /\ Call("decrypt", DecryptData(text, rotation))
  /\ UNCHANGED rotation

\* decrypt_data, then encrypt_data with the key whose number it found.
DecryptFirst ==
  /\ calls = <<>>
  /\ rotation' \in Rotations
  /\ Call("decrypt", DecryptData(text, rotation'))

EncryptBack ==
  /\ calls = <<"decrypt">> /\ ok
  /\ Call("encrypt", EncryptData(text, number, rotation))
  /\ UNCHANGED rotation

Next == EncryptFirst \/ DecryptBack \/ DecryptFirst \/ EncryptBack

Spec == Init /\ [][Next]_vars
-----------------------------------------------------------------------------
(* Properties *)

\* A text that was encrypted decrypts to itself with the key it was encrypted
\* with; and a text that decrypts is what its plain text encrypts to, so that
\* no two cipher texts of a key have one plain text.
RoundTrip == Len(calls) = 2 => ok /\ text = original

\* Encryption and decryption keep the format: as many characters, those passed
\* through in their places, and the others of the other set.
FormatKept ==
  calls # <<>> /\ ok =>
    /\ Len(text) = Len(original)
    /\ \A i \in DOMAIN text :
         IF original[i] \in Passthrough THEN text[i] = original[i]
         ELSE text[i] \in ToSet(IF calls[Len(calls)] = "encrypt" THEN Output ELSE Input)

\* A text of the data set encrypts under every key, whatever the cipher makes
\* of it: the number it stands for is never too long in the output set.
EncryptsAll ==
  /\ calls = <<"encrypt">>
  /\ ToSet(original) \subseteq ToSet(Input) \cup Passthrough
  /\ Cardinality(Places(original, Input)) \in MinLength..MaxLength
  => ok
=============================================================================
