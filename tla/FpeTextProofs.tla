--------------------------- MODULE FpeTextProofs ---------------------------
(***************************************************************************)
(* Proofs about FpeText, for every value of its constants.                 *)
(***************************************************************************)
EXTENDS FpeText, FiniteSetTheorems, WellFoundedInduction, TLAPS

-----------------------------------------------------------------------------
(* Induction and recursion over the numbers, with sets and functions in the *)
(* place of predicates and operators                                        *)

\* < is well-founded on Nat, with the relation spelled out.
LEMMA LessThanWellFounded ==
  IsWellFoundedOn({ss \in Nat \X Nat : ss[1] < ss[2]}, Nat)
BY NatLessThanWellFounded DEF OpToRel

\* A set with 0, and with the successor of each of its numbers, has them all.
LEMMA SetInduction ==
  ASSUME NEW S, 0 \in S, \A n \in Nat : n \in S => n + 1 \in S
  PROVE  Nat \subseteq S
<1> SUFFICES ASSUME Nat \ S # {} PROVE FALSE
  OBVIOUS
<1> DEFINE R == {ss \in Nat \X Nat : ss[1] < ss[2]}
           T == Nat \ S
<1>1. IsWellFoundedOn(R, Nat)
  BY LessThanWellFounded
<1>2. T \subseteq Nat /\ T # {}
  OBVIOUS
<1>3. PICK x \in T : \A y \in T : ~ (<<y, x>> \in R)
  <2> HIDE DEF R, T
  <2> QED BY <1>1, <1>2, WFMin
<1>4. x # 0 /\ x - 1 \in Nat
  OBVIOUS
<1>5. <<x - 1, x>> \in R
  BY <1>4
<1>6. x - 1 \in S
  BY <1>3, <1>4, <1>5
<1> QED
  BY <1>4, <1>6

\* There is a function with a given value at 0 and a given step.
LEMMA Recursion ==
  ASSUME NEW zero \in Nat, NEW F \in [Nat \X Nat -> Nat]
  PROVE  \E f \in [Nat -> Nat] :
           f[0] = zero /\ \A n \in Nat : f[n + 1] = F[<<f[n], n>>]
<1> DEFINE Upto(n, f) == /\ f \in [0..n -> Nat] /\ f[0] = zero
                         /\ \A k \in 0..n : k # n => f[k + 1] = F[<<f[k], k>>]
           S == {n \in Nat : \E f \in [0..n -> Nat] : Upto(n, f)}
<1>1. 0 \in S
  <2>1. Upto(0, [k \in 0..0 |-> zero])
    OBVIOUS
  <2> QED BY <2>1
<1>2. ASSUME NEW n \in Nat, n \in S PROVE n + 1 \in S
  <2>1. PICK f \in [0..n -> Nat] : Upto(n, f)
    BY <1>2
  <2> DEFINE g == [k \in 0..(n + 1) |-> IF k = n + 1 THEN F[<<f[n], n>>] ELSE f[k]]
  <2>2. F[<<f[n], n>>] \in Nat
    OBVIOUS
  <2>3. g \in [0..(n + 1) -> Nat] /\ g[0] = zero
    BY <2>1, <2>2
  <2>4. ASSUME NEW k \in 0..(n + 1), k # n + 1 PROVE g[k + 1] = F[<<g[k], k>>]
    <3>1. k \in 0..n /\ k + 1 \in 0..(n + 1) /\ g[k] = f[k]
      BY <2>4
    <3>2. CASE k = n
      BY <3>1, <3>2
    <3>3. CASE k # n
      <4>1. k + 1 # n + 1 /\ f[k + 1] = F[<<f[k], k>>]
        BY <3>1, <3>3, <2>1
      <4> QED BY <4>1, <3>1
    <3> QED BY <3>2, <3>3
  <2>5. Upto(n + 1, g)
    BY <2>3, <2>4
  <2> HIDE DEF g, Upto
  <2> QED BY <2>5, <2>3
<1>3. Nat \subseteq S
  <2> HIDE DEF S
  <2> QED BY <1>1, <1>2, SetInduction
<1> DEFINE part == [n \in Nat |-> CHOOSE f \in [0..n -> Nat] : Upto(n, f)]
<1>4. ASSUME NEW n \in Nat PROVE Upto(n, part[n])
  <2>1. \E f \in [0..n -> Nat] : Upto(n, f)
    BY <1>3
  <2> HIDE DEF Upto
  <2> QED BY <2>1
<1> HIDE DEF part
<1>5. ASSUME NEW n \in Nat PROVE \A k \in 0..n : part[n + 1][k] = part[n][k]
  <2> DEFINE a == part[n]
             b == part[n + 1]
             E == {k \in Nat : k \in 0..n => b[k] = a[k]}
  <2>1. Upto(n, a) /\ Upto(n + 1, b)
    <3> HIDE DEF Upto
    <3> QED BY <1>4
  <2> HIDE DEF a, b
  <2>2. 0 \in E
    BY <2>1
  <2>3. ASSUME NEW k \in Nat, k \in E PROVE k + 1 \in E
    <3> SUFFICES ASSUME k + 1 \in 0..n PROVE b[k + 1] = a[k + 1]
      OBVIOUS
    <3>1. k \in 0..n /\ k # n /\ k \in 0..(n + 1) /\ k # n + 1
      OBVIOUS
    <3>2. b[k] = a[k]
      BY <2>3, <3>1
    <3>3. a[k + 1] = F[<<a[k], k>>] /\ b[k + 1] = F[<<b[k], k>>]
      BY <2>1, <3>1
    <3> QED BY <3>2, <3>3
  <2>4. Nat \subseteq E
    <3> HIDE DEF E
    <3> QED BY <2>2, <2>3, SetInduction
  <2>5. 0..n \subseteq Nat
    OBVIOUS
  <2> QED BY <2>4, <2>5 DEF a, b
<1> DEFINE whole == [n \in Nat |-> part[n][n]]
<1>6. whole \in [Nat -> Nat]
  <2>1. ASSUME NEW n \in Nat PROVE part[n][n] \in Nat
    <3>1. part[n] \in [0..n -> Nat] /\ n \in 0..n
      BY <1>4
    <3> QED BY <3>1
  <2> QED BY <2>1
<1>7. whole[0] = zero
  BY <1>4
<1>8. ASSUME NEW n \in Nat PROVE whole[n + 1] = F[<<whole[n], n>>]
  <2>1. part[n + 1][n + 1] = F[<<part[n + 1][n], n>>]
    <3>1. Upto(n + 1, part[n + 1]) /\ n \in 0..(n + 1) /\ n # n + 1
      BY <1>4
    <3> QED BY <3>1
  <2>2. part[n + 1][n] = part[n][n]
    BY <1>5
  <2> QED BY <2>1, <2>2
<1> HIDE DEF whole
<1> QED BY <1>6, <1>7, <1>8

-----------------------------------------------------------------------------
(* Powers *)

\* The recursive function in Power is one.
LEMMA PowerExists ==
  ASSUME NEW b \in Nat
  PROVE  LET power[k \in Nat] == IF k = 0 THEN 1 ELSE power[k - 1] * b IN
         /\ power \in [Nat -> Nat]
         /\ power[0] = 1
         /\ \A n \in Nat : power[n + 1] = power[n] * b
<1> DEFINE F == [fn \in Nat \X Nat |-> fn[1] * b]
           Is(f) == f = [k \in Nat |-> IF k = 0 THEN 1 ELSE f[k - 1] * b]
           power == CHOOSE f : Is(f)
<1>1. F \in [Nat \X Nat -> Nat]
  OBVIOUS
<1>2. PICK f \in [Nat -> Nat] : f[0] = 1 /\ \A n \in Nat : f[n + 1] = F[<<f[n], n>>]
  <2>1. 1 \in Nat
    OBVIOUS
  <2> HIDE DEF F
  <2> QED BY <1>1, <2>1, Recursion
<1>3. \A n \in Nat : f[n + 1] = f[n] * b
  BY <1>2
<1>4. ASSUME NEW k \in Nat PROVE f[k] = IF k = 0 THEN 1 ELSE f[k - 1] * b
  <2>1. CASE k = 0
    BY <1>2, <2>1
  <2>2. CASE k # 0
    <3>1. k - 1 \in Nat /\ (k - 1) + 1 = k
      BY <2>2
    <3>2. f[(k - 1) + 1] = f[k - 1] * b
      BY <1>3, <3>1
    <3> QED BY <3>1, <3>2, <2>2
  <2> QED BY <2>1, <2>2
<1>5. Is(f)
  <2>1. f = [k \in Nat |-> f[k]]
    BY <1>2
  <2> QED BY <2>1, <1>4
<1>6. Is(power)
  <2> HIDE DEF Is
  <2> QED BY <1>5
<1> HIDE DEF power
<1>7. power[0] = 1
  BY <1>6
<1>8. ASSUME NEW n \in Nat PROVE power[n + 1] = power[n] * b
  <2>1. n + 1 \in Nat /\ n + 1 # 0 /\ (n + 1) - 1 = n
    OBVIOUS
  <2> QED BY <1>6, <2>1
<1>9. power \in [Nat -> Nat]
  <2> DEFINE S == {n \in Nat : power[n] \in Nat}
  <2>1. 0 \in S
    BY <1>7
  <2>2. ASSUME NEW n \in Nat, n \in S PROVE n + 1 \in S
    BY <2>2, <1>8
  <2>3. Nat \subseteq S
    <3> HIDE DEF S
    <3> QED BY <2>1, <2>2, SetInduction
  <2>4. power = [k \in Nat |-> power[k]]
    BY <1>6
  <2> QED BY <2>3, <2>4
<1> QED
  BY <1>7, <1>8, <1>9 DEF power

\* What a power is.
LEMMA PowerLaws ==
  ASSUME NEW b \in Nat
  PROVE  /\ Power(b, 0) = 1
         /\ \A n \in Nat : /\ Power(b, n) \in Nat
                           /\ Power(b, n + 1) = Power(b, n) * b
                           /\ b # 0 => Power(b, n) # 0
<1>1. Power(b, 0) = 1
  BY PowerExists DEF Power
<1>2. \A n \in Nat : Power(b, n) \in Nat
  BY PowerExists DEF Power
<1>3. \A n \in Nat : Power(b, n + 1) = Power(b, n) * b
  BY PowerExists DEF Power
<1>4. ASSUME b # 0 PROVE \A n \in Nat : Power(b, n) # 0
  <2> DEFINE S == {n \in Nat : Power(b, n) # 0}
  <2>1. 0 \in S
    BY <1>1
  <2>2. ASSUME NEW n \in Nat, n \in S PROVE n + 1 \in S
    <3>1. Power(b, n) \in Nat \ {0} /\ b \in Nat \ {0}
      BY <2>2, <1>2, <1>4
    <3>2. \A x, y \in Nat \ {0} : x * y # 0
      OBVIOUS
    <3>3. Power(b, n) * b # 0
      BY <3>1, <3>2
    <3> QED BY <3>3, <1>3
  <2>3. Nat \subseteq S
    <3> HIDE DEF S
    <3> QED BY <2>1, <2>2, SetInduction
  <2> QED BY <2>3
<1> QED
  BY <1>1, <1>2, <1>3, <1>4

-----------------------------------------------------------------------------
(* Division *)

\* Quotient and remainder.
LEMMA Division ==
  ASSUME NEW a \in Nat, NEW b \in Nat, b # 0
  PROVE  /\ a \div b \in Nat /\ a % b \in 0..(b - 1)
         /\ a = ((a \div b) * b) + (a % b)
OBVIOUS

\* There is one quotient and one remainder.
LEMMA QuotientUnique ==
  ASSUME NEW b \in Nat, b # 0, NEW q \in Nat, NEW r \in 0..(b - 1)
  PROVE  (q * b + r) \div b = q /\ (q * b + r) % b = r
OBVIOUS

\* A smaller number has a smaller quotient.
LEMMA QuotientLess ==
  ASSUME NEW a \in Nat, NEW b \in Nat, b # 0, NEW m \in Nat, a < m * b
  PROVE  a \div b < m
OBVIOUS

\* To divide by a product is to divide by its factors.
LEMMA DivideTwice ==
  ASSUME NEW a \in Nat, NEW b \in Nat, NEW c \in Nat, b # 0, c # 0
  PROVE  a \div (b * c) = (a \div b) \div c
OBVIOUS

-----------------------------------------------------------------------------
(* Radix conversion *)

\* One step of reading digits: the bound, and what a division takes off.
LEMMA HornerStep ==
  ASSUME NEW b \in Nat, b # 0, NEW x \in Nat, NEW p \in Nat, x < p, NEW d \in 0..(b - 1)
  PROVE  (x * b) + d < p * b
<1>1. x + 1 <= p /\ d < b
  OBVIOUS
<1>2. \A y, z \in Nat : y <= z => y * b <= z * b
  OBVIOUS
<1>3. (x + 1) * b <= p * b
  BY <1>1, <1>2
<1>4. (x + 1) * b = (x * b) + b
  OBVIOUS
<1>5. x * b \in Nat /\ p * b \in Nat
  OBVIOUS
<1> QED
  BY <1>1, <1>3, <1>4, <1>5

\* The numbers that the leading digits stand for: how long they are, and the
\* division and the digit that get them back from the number of all digits.
LEMMA Horner ==
  ASSUME NEW b \in Nat, b # 0, NEW len \in Nat,
         NEW v \in [0..len -> Nat], NEW d \in [1..len -> 0..(b - 1)],
         v[0] = 0, \A n \in 0..(len - 1) : v[n + 1] = (v[n] * b) + d[n + 1]
  PROVE  /\ \A n \in 0..len : v[n] < Power(b, n)
         /\ \A n \in 0..len : v[len] \div Power(b, len - n) = v[n]
         /\ \A i \in 1..len : (v[len] \div Power(b, len - i)) % b = d[i]
<1>1. \A n \in 0..len : v[n] < Power(b, n)
  <2> DEFINE S == {n \in Nat : n \in 0..len => v[n] < Power(b, n)}
  <2>1. 0 \in S
    BY PowerLaws
  <2>2. ASSUME NEW n \in Nat, n \in S PROVE n + 1 \in S
    <3> SUFFICES ASSUME n + 1 \in 0..len PROVE v[n + 1] < Power(b, n + 1)
      OBVIOUS
    <3>1. n \in 0..len /\ n \in 0..(len - 1) /\ n + 1 \in 1..len
      OBVIOUS
    <3>2. v[n] \in Nat /\ v[n] < Power(b, n) /\ d[n + 1] \in 0..(b - 1)
      BY <2>2, <3>1
    <3>3. Power(b, n) \in Nat /\ Power(b, n + 1) = Power(b, n) * b
      BY PowerLaws
    <3>4. v[n + 1] = (v[n] * b) + d[n + 1]
      BY <3>1
    <3> QED BY <3>2, <3>3, <3>4, HornerStep
  <2>3. Nat \subseteq S
    <3> HIDE DEF S
    <3> QED BY <2>1, <2>2, SetInduction
  <2> QED BY <2>3
<1>2. \A n \in 0..len : v[len] \div Power(b, len - n) = v[n]
  <2> DEFINE S == {k \in Nat : k \in 0..len => v[len] \div Power(b, k) = v[len - k]}
  <2>1. 0 \in S
    <3>1. v[len] \in Nat /\ len - 0 = len
      OBVIOUS
    <3>2. v[len] \div 1 = v[len]
      BY <3>1
    <3> QED BY <3>1, <3>2, PowerLaws
  <2>2. ASSUME NEW k \in Nat, k \in S PROVE k + 1 \in S
    <3> SUFFICES ASSUME k + 1 \in 0..len
                 PROVE  v[len] \div Power(b, k + 1) = v[len - (k + 1)]
      OBVIOUS
    <3> DEFINE n == len - (k + 1)
    <3>1. k \in 0..len /\ n \in 0..(len - 1) /\ n \in 0..len /\ n + 1 \in 1..len
          /\ n + 1 = len - k
      OBVIOUS
    <3>2. v[len] \div Power(b, k) = v[n + 1]
      BY <2>2, <3>1
    <3>3. v[n + 1] = (v[n] * b) + d[n + 1] /\ v[n] \in Nat /\ d[n + 1] \in 0..(b - 1)
      BY <3>1
    <3>4. v[n + 1] \div b = v[n]
      <4>1. ((v[n] * b) + d[n + 1]) \div b = v[n]
        BY <3>3, QuotientUnique
      <4> QED BY <3>3, <4>1
    <3>5. Power(b, k) \in Nat /\ Power(b, k) # 0 /\ Power(b, k + 1) = Power(b, k) * b
      BY PowerLaws
    <3>6. v[len] \in Nat
      OBVIOUS
    <3>7. v[len] \div (Power(b, k) * b) = (v[len] \div Power(b, k)) \div b
      BY <3>5, <3>6, DivideTwice
    <3> HIDE DEF n
    <3>8. v[len] \div Power(b, k + 1) = v[n]
      BY <3>2, <3>4, <3>5, <3>7
    <3> QED BY <3>8 DEF n
  <2>3. Nat \subseteq S
    <3> HIDE DEF S
    <3> QED BY <2>1, <2>2, SetInduction
  <2>4. ASSUME NEW n \in 0..len PROVE v[len] \div Power(b, len - n) = v[n]
    <3>1. len - n \in Nat /\ len - n \in 0..len /\ len - (len - n) = n
      OBVIOUS
    <3>2. len - n \in S
      BY <3>1, <2>3
    <3> QED BY <3>1, <3>2
  <2> QED BY <2>4
<1>3. ASSUME NEW i \in 1..len PROVE (v[len] \div Power(b, len - i)) % b = d[i]
  <2>1. i \in 0..len /\ i - 1 \in 0..(len - 1) /\ (i - 1) + 1 = i /\ i - 1 \in 0..len
    OBVIOUS
  <2>2. v[len] \div Power(b, len - i) = v[i]
    BY <2>1, <1>2
  <2>3. v[i] = (v[i - 1] * b) + d[i] /\ v[i - 1] \in Nat /\ d[i] \in 0..(b - 1)
    BY <2>1
  <2>4. ((v[i - 1] * b) + d[i]) % b = d[i]
    BY <2>3, QuotientUnique
  <2> QED BY <2>2, <2>3, <2>4
<1> QED
  BY <1>1, <1>2, <1>3

\* Reading the digits of a number gives the number, when they are enough.
LEMMA HornerOfDigits ==
  ASSUME NEW b \in Nat, b # 0, NEW len \in Nat, NEW x \in Nat, x < Power(b, len),
         NEW v \in [0..len -> Nat], v[0] = 0,
         \A n \in 0..(len - 1) :
           v[n + 1] = (v[n] * b) + ((x \div Power(b, len - (n + 1))) % b)
  PROVE  v[len] = x
<1> DEFINE S == {n \in Nat : n \in 0..len => v[n] = x \div Power(b, len - n)}
<1>1. 0 \in S
  <2>1. Power(b, len) \in Nat /\ Power(b, len) # 0 /\ len - 0 = len
    BY PowerLaws
  <2>2. x < 1 * Power(b, len)
    BY <2>1
  <2>3. x \div Power(b, len) < 1
    BY <2>1, <2>2, QuotientLess
  <2>4. x \div Power(b, len) \in Nat
    BY <2>1, Division
  <2> QED BY <2>1, <2>3, <2>4
<1>2. ASSUME NEW n \in Nat, n \in S PROVE n + 1 \in S
  <2> SUFFICES ASSUME n + 1 \in 0..len
               PROVE  v[n + 1] = x \div Power(b, len - (n + 1))
    OBVIOUS
  <2> DEFINE k == len - (n + 1)
             q == x \div Power(b, k)
  <2>1. k \in Nat /\ k + 1 = len - n /\ n \in 0..len /\ n \in 0..(len - 1)
    OBVIOUS
  <2>2. v[n + 1] = (v[n] * b) + (q % b)
    BY <2>1
  <2>3. v[n] = x \div Power(b, len - n)
    BY <1>2, <2>1
  <2> HIDE DEF k
  <2>4. Power(b, k) \in Nat /\ Power(b, k) # 0 /\ Power(b, k + 1) = Power(b, k) * b
    BY <2>1, PowerLaws
  <2>5. v[n] = q \div b
    <3>1. x \div (Power(b, k) * b) = (x \div Power(b, k)) \div b
      BY <2>4, DivideTwice
    <3> QED BY <2>1, <2>3, <2>4, <3>1
  <2>6. q \in Nat
    BY <2>4, Division
  <2> HIDE DEF q
  <2>7. v[n + 1] = q
    BY <2>2, <2>5, <2>6, Division
  <2> QED BY <2>7 DEF q, k
<1>3. Nat \subseteq S
  <2> HIDE DEF S
  <2> QED BY <1>1, <1>2, SetInduction
<1>4. v[len] = x \div Power(b, len - len)
  BY <1>3
<1>5. x \div 1 = x /\ len - len = 0
  OBVIOUS
<1> QED
  BY <1>4, <1>5, PowerLaws

-----------------------------------------------------------------------------
(* Texts as numbers *)

\* A character set: at least one character, none twice.
Alphabet(set) == set \in Seq(ToSet(set)) /\ IsInjective(set) /\ Len(set) # 0

\* A text is a sequence of characters of the set.
InSet(s, set) == s \in Seq(ToSet(set))

\* A position and its character.
LEMMA Positions ==
  ASSUME NEW set, Alphabet(set)
  PROVE  /\ Len(set) \in Nat
         /\ \A c \in ToSet(set) : /\ Position(set, c) \in 0..(Len(set) - 1)
                                  /\ set[Position(set, c) + 1] = c
         /\ \A p \in 0..(Len(set) - 1) : /\ set[p + 1] \in ToSet(set)
                                         /\ Position(set, set[p + 1]) = p
<1>1. Len(set) \in Nat /\ DOMAIN set = 1..Len(set)
  BY DEF Alphabet
<1>2. ASSUME NEW c \in ToSet(set)
      PROVE  Position(set, c) \in 0..(Len(set) - 1) /\ set[Position(set, c) + 1] = c
  <2>1. \E i \in DOMAIN set : set[i] = c
    BY DEF ToSet
  <2> DEFINE i == CHOOSE i \in DOMAIN set : set[i] = c
  <2>2. i \in 1..Len(set) /\ set[i] = c
    BY <2>1, <1>1
  <2>3. Position(set, c) = i - 1
    BY DEF Position
  <2> HIDE DEF i
  <2> QED BY <2>2, <2>3, <1>1
<1>3. ASSUME NEW p \in 0..(Len(set) - 1)
      PROVE  set[p + 1] \in ToSet(set) /\ Position(set, set[p + 1]) = p
  <2>1. p + 1 \in DOMAIN set
    BY <1>1
  <2>2. set[p + 1] \in ToSet(set)
    BY <2>1 DEF ToSet
  <2> DEFINE q == Position(set, set[p + 1])
  <2>3. q \in 0..(Len(set) - 1) /\ set[q + 1] = set[p + 1]
    BY <2>2, <1>2
  <2> HIDE DEF q
  <2>4. q + 1 \in DOMAIN set
    BY <2>3, <1>1
  <2>5. q + 1 = p + 1
    BY <2>1, <2>3, <2>4 DEF Alphabet, IsInjective
  <2>6. q = p
    BY <2>3, <2>5, <1>1
  <2> QED BY <2>2, <2>6 DEF q
<1> QED
  BY <1>1, <1>2, <1>3

\* The recursive function in Value is one.
LEMMA ValueExists ==
  ASSUME NEW set, Alphabet(set), NEW s, InSet(s, set)
  PROVE  \E v \in [0..Len(s) -> Nat] :
           /\ v[0] = 0 /\ Value(s, set) = v[Len(s)]
           /\ \A n \in 0..(Len(s) - 1) :
                v[n + 1] = (v[n] * Len(set)) + Position(set, s[n + 1])
<1> DEFINE b == Len(set)
           len == Len(s)
           digit == [n \in Nat |-> IF n \in 1..len THEN Position(set, s[n]) ELSE 0]
           F == [fn \in Nat \X Nat |-> (fn[1] * b) + digit[fn[2] + 1]]
           Is(v) == v = [n \in 0..len |-> IF n = 0 THEN 0
                                          ELSE v[n - 1] * b + Position(set, s[n])]
           value == CHOOSE v : Is(v)
<1>1. b \in Nat /\ len \in Nat
  BY Positions DEF InSet
<1>2. ASSUME NEW n \in 1..len PROVE Position(set, s[n]) \in Nat
  <2>1. s[n] \in ToSet(set)
    BY DEF InSet
  <2> QED BY <2>1, Positions, <1>1
<1> HIDE DEF len, b
<1>3. digit \in [Nat -> Nat]
  BY <1>2
<1>4. F \in [Nat \X Nat -> Nat]
  <2> HIDE DEF digit
  <2> QED BY <1>1, <1>3
<1>5. PICK f \in [Nat -> Nat] : f[0] = 0 /\ \A n \in Nat : f[n + 1] = F[<<f[n], n>>]
  <2>1. 0 \in Nat
    OBVIOUS
  <2> HIDE DEF F
  <2> QED BY <1>4, <2>1, Recursion
<1>6. \A n \in Nat : f[n + 1] = (f[n] * b) + digit[n + 1]
  <2> HIDE DEF digit
  <2> QED BY <1>5
<1> DEFINE v == [n \in 0..len |-> f[n]]
<1>7. v \in [0..len -> Nat] /\ v[0] = 0
  BY <1>1, <1>5
<1>8. ASSUME NEW n \in 0..(len - 1)
      PROVE  v[n + 1] = (v[n] * b) + Position(set, s[n + 1])
  <2>1. n \in Nat /\ n + 1 \in 1..len /\ n + 1 \in 0..len /\ n \in 0..len
    BY <1>1
  <2>2. digit[n + 1] = Position(set, s[n + 1])
    BY <2>1
  <2> HIDE DEF digit
  <2> QED BY <2>1, <2>2, <1>6
<1>9. Is(v)
  <2> HIDE DEF v
  <2>1. ASSUME NEW n \in 0..len
        PROVE  v[n] = IF n = 0 THEN 0 ELSE v[n - 1] * b + Position(set, s[n])
    <3>1. CASE n = 0
      BY <3>1, <1>7
    <3>2. CASE n # 0
      <4>1. n - 1 \in 0..(len - 1) /\ (n - 1) + 1 = n
        BY <3>2, <1>1
      <4> QED BY <4>1, <3>2, <1>8
    <3> QED BY <3>1, <3>2
  <2>2. v = [n \in 0..len |-> v[n]]
    BY <1>7
  <2> QED BY <2>1, <2>2
<1>10. Is(value)
  <2> HIDE DEF Is, v
  <2> QED BY <1>9
<1> HIDE DEF value
<1>11. value[0] = 0
  BY <1>1, <1>10
<1>12. ASSUME NEW n \in 0..(len - 1)
       PROVE  value[n + 1] = (value[n] * b) + Position(set, s[n + 1])
  <2>1. n + 1 \in 0..len /\ n + 1 # 0 /\ (n + 1) - 1 = n
    BY <1>1
  <2> QED BY <2>1, <1>10
<1>13. value \in [0..len -> Nat]
  <2> DEFINE S == {n \in Nat : n \in 0..len => value[n] \in Nat}
  <2>1. 0 \in S
    BY <1>11
  <2>2. ASSUME NEW n \in Nat, n \in S PROVE n + 1 \in S
    <3> SUFFICES ASSUME n + 1 \in 0..len PROVE value[n + 1] \in Nat
      OBVIOUS
    <3>1. n \in 0..(len - 1) /\ n \in 0..len /\ n + 1 \in 1..len
      BY <1>1
    <3>2. value[n] \in Nat /\ Position(set, s[n + 1]) \in Nat
      BY <3>1, <2>2, <1>2
    <3> QED BY <3>1, <3>2, <1>1, <1>12
  <2>3. Nat \subseteq S
    <3> HIDE DEF S
    <3> QED BY <2>1, <2>2, SetInduction
  <2>4. value = [n \in 0..len |-> value[n]]
    BY <1>10
  <2>5. 0..len \subseteq Nat
    BY <1>1
  <2> QED BY <2>3, <2>4, <2>5
<1>14. Value(s, set) = value[len]
  BY DEF Value, value, b, len
<1> QED
  BY <1>11, <1>12, <1>13, <1>14 DEF b, len

\* The digits of the number of a text are the text.
THEOREM DigitsOfValue ==
  ASSUME NEW set, Alphabet(set), NEW s, InSet(s, set)
  PROVE  /\ Value(s, set) \in Nat /\ Value(s, set) < Size(set, Len(s))
         /\ Digits(Value(s, set), set, Len(s)) = s
<1> DEFINE b == Len(set)
           len == Len(s)
           d == [i \in 1..len |-> Position(set, s[i])]
<1>1. b \in Nat /\ b # 0 /\ len \in Nat
  BY Positions DEF InSet, Alphabet
<1>2. ASSUME NEW i \in 1..len
      PROVE  Position(set, s[i]) \in 0..(b - 1) /\ set[Position(set, s[i]) + 1] = s[i]
  <2>1. s[i] \in ToSet(set)
    BY DEF InSet
  <2> QED BY <2>1, Positions
<1>3. PICK v \in [0..len -> Nat] :
        /\ v[0] = 0 /\ Value(s, set) = v[len]
        /\ \A n \in 0..(len - 1) : v[n + 1] = (v[n] * b) + Position(set, s[n + 1])
  BY ValueExists
<1> HIDE DEF b, len
<1>4. d \in [1..len -> 0..(b - 1)]
  BY <1>2
<1>5. \A n \in 0..(len - 1) : v[n + 1] = (v[n] * b) + d[n + 1]
  <2> SUFFICES ASSUME NEW n \in 0..(len - 1)
               PROVE  v[n + 1] = (v[n] * b) + d[n + 1]
    OBVIOUS
  <2>1. n + 1 \in 1..len
    BY <1>1
  <2> QED BY <1>3, <2>1
<1> HIDE DEF d
<1>6. /\ \A n \in 0..len : v[n] < Power(b, n)
      /\ \A i \in 1..len : (v[len] \div Power(b, len - i)) % b = d[i]
  BY <1>1, <1>3, <1>4, <1>5, Horner
<1>7. len \in 0..len
  BY <1>1
<1>8. Value(s, set) \in Nat /\ Value(s, set) < Size(set, Len(s))
  BY <1>3, <1>6, <1>7 DEF Size, b, len
<1>9. Digits(v[len], set, len) = [i \in 1..len |-> s[i]]
  <2>1. ASSUME NEW i \in 1..len
        PROVE  set[((v[len] \div Size(set, len - i)) % Len(set)) + 1] = s[i]
    <3>1. (v[len] \div Power(b, len - i)) % b = Position(set, s[i])
      BY <1>6 DEF d
    <3> QED BY <3>1, <1>2 DEF Size, b
  <2> QED BY <2>1 DEF Digits
<1>10. s = [i \in 1..len |-> s[i]]
  BY DEF InSet, len
<1> QED
  BY <1>3, <1>8, <1>9, <1>10 DEF len

\* The number of the digits of a number is the number, when they are enough.
THEOREM ValueOfDigits ==
  ASSUME NEW set, Alphabet(set), NEW len \in Nat, NEW x \in Nat, x < Size(set, len)
  PROVE  /\ InSet(Digits(x, set, len), set) /\ Len(Digits(x, set, len)) = len
         /\ Value(Digits(x, set, len), set) = x
<1> DEFINE b == Len(set)
           s == Digits(x, set, len)
           q(i) == (x \div Power(b, len - i)) % b
<1>1. b \in Nat /\ b # 0
  BY Positions DEF Alphabet
<1>2. ASSUME NEW i \in 1..len PROVE q(i) \in 0..(b - 1)
  <2>1. len - i \in Nat
    OBVIOUS
  <2>2. Power(b, len - i) \in Nat /\ Power(b, len - i) # 0
    BY <1>1, <2>1, PowerLaws
  <2>3. x \div Power(b, len - i) \in Nat
    BY <2>2, Division
  <2> QED BY <1>1, <2>3, Division
<1>3. s = [i \in 1..len |-> set[q(i) + 1]]
  BY DEF Digits, Size
<1>4. ASSUME NEW i \in 1..len
      PROVE  set[q(i) + 1] \in ToSet(set) /\ Position(set, set[q(i) + 1]) = q(i)
  <2> HIDE DEF q
  <2> QED BY <1>2, Positions
<1> HIDE DEF s, q
<1>5. s \in [1..len -> ToSet(set)]
  BY <1>3, <1>4
<1>6. s \in Seq(ToSet(set)) /\ Len(s) = len
  BY <1>5
<1>7. PICK v \in [0..len -> Nat] :
        /\ v[0] = 0 /\ Value(s, set) = v[len]
        /\ \A n \in 0..(len - 1) : v[n + 1] = (v[n] * b) + Position(set, s[n + 1])
  BY <1>6, ValueExists DEF InSet
<1>8. ASSUME NEW n \in 0..(len - 1)
      PROVE  v[n + 1] = (v[n] * b) + ((x \div Power(b, len - (n + 1))) % b)
  <2>1. n + 1 \in 1..len
    OBVIOUS
  <2>2. Position(set, s[n + 1]) = q(n + 1)
    BY <1>3, <1>4, <2>1
  <2> QED BY <1>7, <2>2 DEF q
<1>9. x < Power(b, len)
  BY DEF Size
<1> HIDE DEF b
<1>10. v[len] = x
  BY <1>1, <1>7, <1>8, <1>9, HornerOfDigits
<1> QED
  BY <1>6, <1>7, <1>10 DEF s, InSet

\* Digits for which no leading division leaves anything too long: the first of
\* them stays below a bound that the whole number observes.
LEMMA FirstDigit ==
  ASSUME NEW set, Alphabet(set), NEW len \in Nat, len # 0, NEW x \in Nat,
         NEW m \in Nat, m <= Len(set), x < m * Size(set, len - 1)
  PROVE  Position(set, Digits(x, set, len)[1]) < m
<1> DEFINE b == Len(set)
           p == Power(b, len - 1)
<1>1. b \in Nat /\ b # 0 /\ len - 1 \in Nat /\ 1 \in 1..len
  BY Positions DEF Alphabet
<1>2. p \in Nat /\ p # 0
  BY <1>1, PowerLaws
<1>3. x < m * p
  BY DEF Size
<1> HIDE DEF p
<1>4. x \div p \in Nat /\ x \div p < m
  BY <1>2, <1>3, QuotientLess, Division
<1>5. (x \div p) % b = x \div p /\ x \div p \in 0..(b - 1)
  <2> DEFINE y == x \div p
  <2>1. y \in Nat /\ y < b
    BY <1>1, <1>4
  <2> HIDE DEF y
  <2>2. y % b = y
    BY <2>1, <1>1
  <2> QED BY <2>1, <2>2, <1>1 DEF y
<1>6. Digits(x, set, len)[1] = set[((x \div p) % b) + 1]
  BY <1>1 DEF Digits, Size, p
<1>7. Position(set, set[(x \div p) + 1]) = x \div p
  BY <1>5, Positions
<1> QED
  BY <1>4, <1>5, <1>6, <1>7

-----------------------------------------------------------------------------
(* Places and formats *)

\* Places of a text are numbered through by their ranks.
LEMMA Ranks ==
  ASSUME NEW n \in Nat, NEW places \in SUBSET (1..n)
  PROVE  /\ IsFiniteSet(places) /\ Cardinality(places) \in Nat
         /\ \A i \in places : Rank(places, i) \in 1..Cardinality(places)
         /\ \A i, j \in places : Rank(places, i) = Rank(places, j) => i = j
         /\ \A m \in 1..Cardinality(places) : \E i \in places : Rank(places, i) = m
<1> DEFINE A(i) == {j \in places : j <= i}
<1>0. \A j \in places : j \in Nat /\ 1 <= j /\ j <= n
  <2>1. \A j \in places : j \in 1..n
    OBVIOUS
  <2> QED BY <2>1
<1>1. IsFiniteSet(places) /\ Cardinality(places) \in Nat
  <2>1. IsFiniteSet(1..n)
    BY FS_Interval
  <2> QED BY <2>1, FS_Subset, FS_CardinalityType
<1>2. ASSUME NEW i \in Nat
      PROVE  IsFiniteSet(A(i)) /\ Rank(places, i) \in 0..Cardinality(places)
             /\ Rank(places, i) = Cardinality(A(i))
  <2>1. A(i) \in SUBSET places
    OBVIOUS
  <2>2. IsFiniteSet(A(i)) /\ Cardinality(A(i)) <= Cardinality(places)
    BY <1>1, <2>1, FS_Subset
  <2>3. Cardinality(A(i)) \in Nat
    BY <2>2, FS_CardinalityType
  <2> QED BY <1>1, <2>2, <2>3 DEF Rank
<1>3. ASSUME NEW i \in places PROVE Rank(places, i) \in 1..Cardinality(places)
  <2>1. i \in Nat /\ i \in A(i)
    BY <1>0
  <2>2. Rank(places, i) # 0
    <3>1. Cardinality(A(i)) # 0
      BY <1>2, <2>1, FS_EmptySet
    <3> HIDE DEF A
    <3> QED BY <3>1, <1>2, <2>1
  <2>3. Rank(places, i) \in 0..Cardinality(places)
    BY <1>2, <2>1
  <2> QED BY <1>1, <2>2, <2>3
<1>4. ASSUME NEW i \in places, NEW j \in places, i < j
      PROVE  Rank(places, i) # Rank(places, j)
  <2>1. i \in Nat /\ j \in Nat /\ A(i) \in SUBSET A(j) /\ j \in A(j) /\ j \notin A(i)
    <3>1. i \in Nat /\ j \in Nat /\ ~ (j <= i) /\ j <= j
      BY <1>0, <1>4
    <3>2. \A l \in places : l <= i => l <= j
      BY <1>0, <1>4
    <3> QED BY <3>1, <3>2
  <2>2. Cardinality(A(i)) = Cardinality(A(j)) => A(i) = A(j)
    BY <1>2, <2>1, FS_Subset
  <2> HIDE DEF A
  <2> QED BY <1>2, <2>1, <2>2
<1>5. ASSUME NEW i \in places, NEW j \in places, Rank(places, i) = Rank(places, j)
      PROVE  i = j
  <2>1. i \in Nat /\ j \in Nat
    BY <1>0
  <2> QED BY <1>4, <1>5, <2>1
<1>6. ASSUME NEW m \in 1..Cardinality(places)
      PROVE  \E i \in places : Rank(places, i) = m
  <2> DEFINE S == {k \in Nat : \A l \in 1..Rank(places, k) :
                                 \E i \in places : Rank(places, i) = l}
  <2>1. 0 \in S
    <3>1. A(0) = {}
      <4>1. \A j \in places : ~ (j <= 0)
        BY <1>0
      <4> QED BY <4>1
    <3>2. Rank(places, 0) = 0
      BY <1>2, <3>1, FS_EmptySet
    <3> QED BY <3>2
  <2>2. ASSUME NEW k \in Nat, k \in S PROVE k + 1 \in S
    <3> SUFFICES ASSUME NEW l \in 1..Rank(places, k + 1)
                 PROVE  \E i \in places : Rank(places, i) = l
      OBVIOUS
    <3>1. CASE k + 1 \in places
      <4>1. A(k + 1) = A(k) \cup {k + 1} /\ k + 1 \notin A(k)
        <5>1. \A j \in places : j <= k + 1 <=> j <= k \/ j = k + 1
          BY <1>0
        <5>2. ~ (k + 1 <= k)
          OBVIOUS
        <5> QED BY <3>1, <5>1, <5>2
      <4>2. IsFiniteSet(A(k)) /\ Rank(places, k) = Cardinality(A(k))
            /\ Rank(places, k + 1) = Cardinality(A(k + 1)) /\ Rank(places, k) \in Nat
        BY <1>1, <1>2
      <4> HIDE DEF A
      <4>3. Rank(places, k + 1) = Rank(places, k) + 1
        BY <4>1, <4>2, FS_AddElement
      <4>4. CASE l = Rank(places, k + 1)
        BY <3>1, <4>4
      <4>5. CASE l # Rank(places, k + 1)
        <5>1. l \in 1..Rank(places, k)
          BY <4>2, <4>3, <4>5
        <5> QED BY <2>2, <5>1
      <4> QED BY <4>4, <4>5
    <3>2. CASE k + 1 \notin places
      <4>1. A(k + 1) = A(k)
        <5>1. \A j \in places : j <= k + 1 <=> j <= k \/ j = k + 1
          BY <1>0
        <5> QED BY <3>2, <5>1
      <4>2. Rank(places, k + 1) = Rank(places, k)
        <5>1. Rank(places, k) = Cardinality(A(k))
              /\ Rank(places, k + 1) = Cardinality(A(k + 1))
          BY <1>2
        <5> HIDE DEF A
        <5> QED BY <4>1, <5>1
      <4> QED BY <2>2, <4>2
    <3> QED BY <3>1, <3>2
  <2>3. Nat \subseteq S
    <3> HIDE DEF S
    <3> QED BY <2>1, <2>2, SetInduction
  <2>4. A(n) = places
    BY <1>0
  <2>5. Rank(places, n) = Cardinality(places)
    BY <1>2, <2>4
  <2> QED BY <2>3, <2>5
<1> QED
  BY <1>1, <1>3, <1>5, <1>6

\* What is taken out of a text: as many characters as there are places, each
\* found again by the rank of its place.
LEMMA TrimmedLaws ==
  ASSUME NEW s, s \in Seq(ToSet(s)), NEW set
  PROVE  LET places == Places(s, set) IN
         /\ places \in SUBSET (1..Len(s)) /\ Len(s) \in Nat
         /\ InSet(Trimmed(s, set), set) /\ Len(Trimmed(s, set)) = Cardinality(places)
         /\ \A i \in places : Trimmed(s, set)[Rank(places, i)] = s[i]
<1> DEFINE places == Places(s, set)
           at(n) == CHOOSE i \in places : Rank(places, i) = n
<1>1. places \in SUBSET (1..Len(s)) /\ Len(s) \in Nat
  BY DEF Places
<1>2. Trimmed(s, set) = [n \in 1..Cardinality(places) |-> s[at(n)]]
  BY DEF Trimmed
<1>3. \A i \in places : s[i] \in ToSet(set)
  BY DEF Places
<1> HIDE DEF places
<1>4. Cardinality(places) \in Nat
  BY <1>1, Ranks
<1>5. ASSUME NEW n \in 1..Cardinality(places)
      PROVE  at(n) \in places /\ Rank(places, at(n)) = n
  <2>1. \E i \in places : Rank(places, i) = n
    BY <1>1, Ranks
  <2> QED BY <2>1
<1> HIDE DEF at
<1>6. Trimmed(s, set) \in [1..Cardinality(places) -> ToSet(set)]
  BY <1>2, <1>3, <1>5
<1>7. InSet(Trimmed(s, set), set) /\ Len(Trimmed(s, set)) = Cardinality(places)
  BY <1>4, <1>6 DEF InSet
<1>8. ASSUME NEW i \in places PROVE Trimmed(s, set)[Rank(places, i)] = s[i]
  <2>1. Rank(places, i) \in 1..Cardinality(places)
    BY <1>1, Ranks
  <2>2. at(Rank(places, i)) = i
    <3>1. /\ at(Rank(places, i)) \in places
          /\ Rank(places, at(Rank(places, i))) = Rank(places, i)
      BY <1>5, <2>1
    <3>2. \A j, k \in places : Rank(places, j) = Rank(places, k) => j = k
      BY <1>1, Ranks
    <3> QED BY <3>1, <3>2
  <2> QED BY <1>2, <2>1, <2>2
<1> QED
  BY <1>1, <1>7, <1>8 DEF places

\* Two sets between which texts are translated.
Translation(from, to) ==
  /\ Alphabet(from) /\ Alphabet(to)
  /\ Passthrough \cap (ToSet(from) \cup ToSet(to)) = {}

\* A text with data in the places of the characters of a set, in their order.
Replaced(s, set, data) ==
  [i \in 1..Len(s) |-> IF i \in Places(s, set) THEN data[Rank(Places(s, set), i)]
                       ELSE s[i]]

\* What the formatting makes of a text: the data in the places of the
\* characters that were taken out, in their order, and the rest as it was.
LEMMA FinalizeIs ==
  ASSUME NEW s, s \in Seq(ToSet(s)), NEW from, NEW to, Translation(from, to),
         Decompose(s, from, to[1]).ok, NEW data
  PROVE  /\ \A i \in 1..Len(s) : i \notin Places(s, from) => s[i] \in Passthrough
         /\ Finalize(Decompose(s, from, to[1]).formatted, data, to[1])
              = Replaced(s, from, data)
<1> DEFINE places == Places(s, from)
           zeroth == to[1]
           formatted == Decompose(s, from, zeroth).formatted
<1>1. DOMAIN s = 1..Len(s) /\ \A i \in 1..Len(s) : s[i] \in ToSet(s)
  OBVIOUS
<1>2. formatted = [i \in 1..Len(s) |-> IF i \in places THEN zeroth ELSE s[i]]
  BY <1>1 DEF Decompose, Places
<1>3. \A i \in 1..Len(s) : i \notin places => s[i] \in Passthrough
  <2>1. ToSet(s) \subseteq ToSet(from) \cup Passthrough
    BY DEF Decompose
  <2> QED BY <1>1, <2>1 DEF Places
<1>4. zeroth \notin Passthrough
  <2>1. 1 \in DOMAIN to
    BY DEF Translation, Alphabet
  <2>2. to[1] \in ToSet(to)
    BY <2>1 DEF ToSet
  <2> QED BY <2>2 DEF Translation
<1>5. \A i \in places : i \in 1..Len(s)
  BY <1>1 DEF Places
<1> HIDE DEF places, formatted, zeroth
<1>6. \A i \in 1..Len(s) : formatted[i] = zeroth <=> i \in places
  BY <1>2, <1>3, <1>4
<1>7. DOMAIN formatted = 1..Len(s)
  BY <1>2
<1>8. Places(formatted, <<zeroth>>) = places
  <2>1. ToSet(<<zeroth>>) = {zeroth}
    <3>1. DOMAIN <<zeroth>> = {1}
      OBVIOUS
    <3> QED BY <3>1 DEF ToSet
  <2> QED BY <1>5, <1>6, <1>7, <2>1 DEF Places
<1>9. Finalize(formatted, data, zeroth) =
        [i \in 1..Len(s) |-> IF i \in places THEN data[Rank(places, i)] ELSE s[i]]
  <2>1. ASSUME NEW i \in 1..Len(s)
        PROVE  (IF formatted[i] = zeroth THEN data[Rank(places, i)] ELSE formatted[i])
               = IF i \in places THEN data[Rank(places, i)] ELSE s[i]
    BY <1>2, <1>6
  <2> QED BY <1>7, <1>8, <2>1 DEF Finalize
<1> QED
  BY <1>3, <1>9 DEF places, formatted, zeroth, Replaced

\* Taking a translated text apart again gives the data, and putting into it what
\* was taken out gives the first text.
THEOREM FormatInverse ==
  ASSUME NEW s, s \in Seq(ToSet(s)), NEW from, NEW to, Translation(from, to),
         Decompose(s, from, to[1]).ok,
         NEW data, InSet(data, to), Len(data) = Cardinality(Places(s, from))
  PROVE  LET parsed == Decompose(s, from, to[1])
             out == Finalize(parsed.formatted, data, to[1])
             again == Decompose(out, to, from[1])
         IN  /\ out \in Seq(ToSet(out)) /\ Len(out) = Len(s)
             /\ \A i \in 1..Len(s) : IF s[i] \in Passthrough THEN out[i] = s[i]
                                     ELSE out[i] \in ToSet(to)
             /\ again.ok /\ again.trimmed = data
             /\ Finalize(again.formatted, parsed.trimmed, from[1]) = s
<1> DEFINE parsed == Decompose(s, from, to[1])
           out == Finalize(parsed.formatted, data, to[1])
           again == Decompose(out, to, from[1])
           places == Places(s, from)
           n == Len(s)
<1>1. /\ \A i \in 1..n : i \notin places => s[i] \in Passthrough
      /\ out = [i \in 1..n |-> IF i \in places THEN data[Rank(places, i)] ELSE s[i]]
  BY FinalizeIs DEF Replaced
<1>2. places \in SUBSET (1..n) /\ n \in Nat /\ parsed.trimmed = Trimmed(s, from)
      /\ \A i \in places : parsed.trimmed[Rank(places, i)] = s[i]
  BY TrimmedLaws DEF Decompose
<1>3. \A i \in places : Rank(places, i) \in 1..Cardinality(places)
  BY <1>2, Ranks
<1>4. \A i \in places : data[Rank(places, i)] \in ToSet(to)
  BY <1>3 DEF InSet
<1>5. \A i \in places : s[i] \in ToSet(from) /\ s[i] \notin Passthrough
  BY DEF Places, Translation
<1>6. \A i \in places : data[Rank(places, i)] \notin Passthrough
  BY <1>4 DEF Translation
<1> HIDE DEF out
<1>7. DOMAIN out = 1..n /\ out \in Seq(ToSet(out)) /\ Len(out) = n
  <2>1. DOMAIN out = 1..n
    BY <1>1
  <2>2. \A i \in 1..n : out[i] \in ToSet(out)
    BY <2>1 DEF ToSet
  <2>3. out \in [1..n -> ToSet(out)]
    BY <1>1, <2>1, <2>2
  <2> QED BY <1>2, <2>1, <2>3
<1>8. ASSUME NEW i \in 1..n
      PROVE  IF s[i] \in Passthrough THEN out[i] = s[i] ELSE out[i] \in ToSet(to)
  BY <1>1, <1>4, <1>5
<1>9. again.ok
  <2>1. \A i \in 1..n : out[i] \in ToSet(to) \cup Passthrough
    BY <1>8
  <2>2. \A c \in ToSet(out) : \E i \in 1..n : c = out[i]
    BY <1>7 DEF ToSet
  <2> QED BY <2>1, <2>2 DEF Decompose
<1>10. Places(out, to) = places
  <2>1. \A i \in 1..n : i \in places <=> out[i] \in ToSet(to)
    BY <1>1, <1>4 DEF Translation
  <2>2. \A i \in places : i \in 1..n
    BY <1>2
  <2> HIDE DEF places
  <2> QED BY <1>7, <2>1, <2>2 DEF Places
<1>11. again.trimmed = data
  <2>1. again.trimmed = Trimmed(out, to)
    BY DEF Decompose
  <2>2. /\ InSet(Trimmed(out, to), to) /\ Len(Trimmed(out, to)) = Cardinality(places)
        /\ \A i \in places : Trimmed(out, to)[Rank(places, i)] = out[i]
    BY <1>7, <1>10, TrimmedLaws
  <2>3. ASSUME NEW m \in 1..Cardinality(places) PROVE Trimmed(out, to)[m] = data[m]
    <3>1. PICK i \in places : Rank(places, i) = m
      BY <1>2, Ranks
    <3>2. i \in 1..n
      BY <1>2
    <3>3. out[i] = data[m]
      BY <1>1, <3>1, <3>2
    <3> QED BY <2>2, <3>1, <3>3
  <2>4. Trimmed(out, to) = [m \in 1..Cardinality(places) |-> Trimmed(out, to)[m]]
    BY <2>2 DEF InSet
  <2>5. data = [m \in 1..Cardinality(places) |-> data[m]]
    BY DEF InSet
  <2> QED BY <2>1, <2>3, <2>4, <2>5
<1>12. Finalize(again.formatted, parsed.trimmed, from[1]) = s
  <2>1. Translation(to, from)
    BY DEF Translation
  <2> DEFINE back == parsed.trimmed
  <2> HIDE DEF back
  <2>2. Finalize(again.formatted, back, from[1]) =
          [i \in 1..n |-> IF i \in places THEN back[Rank(places, i)] ELSE out[i]]
    <3>1. Finalize(Decompose(out, to, from[1]).formatted, back, from[1])
            = Replaced(out, to, back)
      BY <1>7, <1>9, <2>1, FinalizeIs
    <3> HIDE DEF places
    <3> QED BY <1>7, <1>10, <3>1 DEF Replaced
  <2>3. ASSUME NEW i \in 1..n
        PROVE  (IF i \in places THEN back[Rank(places, i)] ELSE out[i]) = s[i]
    BY <1>1, <1>2 DEF back
  <2>4. s = [i \in 1..n |-> s[i]]
    OBVIOUS
  <2> QED BY <2>2, <2>3, <2>4 DEF back
<1> QED
  BY <1>7, <1>8, <1>9, <1>11, <1>12 DEF out

-----------------------------------------------------------------------------
(* What a sound data set gives *)

LEMMA Constants ==
  /\ MinLength \in Nat /\ MaxLength \in Nat /\ MsbEncodingBits \in Nat /\ MaxKey \in Nat
  /\ KeyUnit \in Nat /\ KeyUnit # 0 /\ KeyUnit <= Len(Output)
  /\ \A k \in Key : k \in Nat /\ (k + 1) * KeyUnit <= Len(Output)
  /\ Alphabet(Output) /\ Len(Output) \in Nat
<1>1. MinLength \in Nat /\ MaxLength \in Nat /\ MsbEncodingBits \in Nat /\ MaxKey \in Nat
  BY TypeAssumption
<1>2. KeyUnit \in Nat /\ KeyUnit # 0
  BY <1>1, PowerLaws DEF KeyUnit
<1>3. Output \in Seq(ToSet(Output)) /\ IsInjective(Output) /\ Len(Output) \in Nat
  BY TypeAssumption, DataSetAssumption
<1>4. (MaxKey + 1) * KeyUnit <= Len(Output)
  BY DataSetAssumption
<1>5. \A x, y, z \in Nat : x <= y => x * z <= y * z
  OBVIOUS
<1>6. ASSUME NEW k \in Nat, k <= MaxKey PROVE (k + 1) * KeyUnit <= Len(Output)
  <2>1. (k + 1) * KeyUnit <= (MaxKey + 1) * KeyUnit
    <3>1. k + 1 \in Nat /\ MaxKey + 1 \in Nat /\ k + 1 <= MaxKey + 1
      BY <1>1, <1>6
    <3> QED BY <3>1, <1>2, <1>5
  <2>2. \A x, y \in Nat : x * y \in Nat
    OBVIOUS
  <2>3. (k + 1) * KeyUnit \in Nat /\ (MaxKey + 1) * KeyUnit \in Nat
    BY <1>1, <1>2, <2>2
  <2> QED BY <1>3, <1>4, <2>1, <2>3
<1>7. KeyUnit <= Len(Output)
  <2>1. (0 + 1) * KeyUnit = KeyUnit
    BY <1>2
  <2> QED BY <1>1, <1>6, <2>1
<1>8. Len(Output) # 0
  BY <1>2, <1>3, <1>7
<1> QED
  BY <1>1, <1>2, <1>3, <1>6, <1>7, <1>8 DEF Key, Alphabet

\* A number of the input set of an admitted length has room for the key number
\* in its first output character, and is not too long in the output set.
LEMMA Room ==
  ASSUME NEW len \in MinLength..MaxLength, NEW x \in Nat, x < Size(Input, len)
  PROVE  /\ len \in Nat /\ len # 0
         /\ x < KeyUnit * Size(Output, len - 1)
         /\ x < Size(Output, len)
<1> DEFINE p == Size(Output, len - 1)
           b == Len(Output)
           a == Size(Input, len)
<1>1. len \in Nat /\ len # 0 /\ len - 1 \in Nat /\ (len - 1) + 1 = len
  BY Constants, DataSetAssumption
<1>2. p \in Nat /\ Size(Output, len) = p * b
  BY <1>1, Constants, PowerLaws DEF Size
<1>3. a <= KeyUnit * p
  BY DataSetAssumption
<1>4. a \in Nat
  <2>1. Len(Input) \in Nat
    BY TypeAssumption
  <2> QED BY <1>1, <2>1, PowerLaws DEF Size
<1>5. x < a
  OBVIOUS
<1> HIDE DEF p, b, a
<1>6. b \in Nat /\ KeyUnit \in Nat /\ KeyUnit <= b
  BY Constants DEF b
<1>7. KeyUnit * p \in Nat /\ p * b \in Nat /\ KeyUnit * p <= p * b
  <2>1. \A y, z, w \in Nat : z <= w => y * z <= y * w
    OBVIOUS
  <2>2. \A y, z \in Nat : y * z \in Nat /\ y * z = z * y
    OBVIOUS
  <2>3. p * KeyUnit <= p * b
    BY <1>2, <1>6, <2>1
  <2> QED BY <1>2, <1>6, <2>2, <2>3
<1> QED
  <2>1. x < KeyUnit * p /\ x < p * b
    BY <1>3, <1>4, <1>5, <1>7
  <2> QED BY <1>1, <1>2, <2>1 DEF p

-----------------------------------------------------------------------------
(* Key numbers *)

\* A key number that was put in comes out, and leaves the text as it was.
THEOREM KeynumDecodes ==
  ASSUME NEW s, InSet(s, Output), Len(s) # 0,
         Position(Output, s[1]) < KeyUnit, NEW k \in Key
  PROVE  /\ InSet(EncodeKeynum(s, k), Output) /\ Len(EncodeKeynum(s, k)) = Len(s)
         /\ DecodeKeynum(EncodeKeynum(s, k)) = [key |-> k, rest |-> s]
<1> DEFINE p == Position(Output, s[1])
           v == p + (k * KeyUnit)
           e == EncodeKeynum(s, k)
           n == Len(s)
<1>1. n \in Nat /\ 1 \in 1..n /\ DOMAIN s = 1..n /\ s \in [1..n -> ToSet(Output)]
  BY DEF InSet
<1>2. p \in 0..(Len(Output) - 1) /\ Output[p + 1] = s[1]
  BY <1>1, Constants, Positions
<1>3. k \in Nat /\ KeyUnit \in Nat /\ KeyUnit # 0 /\ (k + 1) * KeyUnit <= Len(Output)
      /\ Len(Output) \in Nat
  BY Constants
<1>4. p \in 0..(KeyUnit - 1)
  BY <1>2, <1>3
<1> HIDE DEF p, n
<1>5. k * KeyUnit \in Nat /\ (k + 1) * KeyUnit = (k * KeyUnit) + KeyUnit
  BY <1>3
<1>6. v \in 0..(Len(Output) - 1)
  BY <1>3, <1>4, <1>5
<1>7. v \div KeyUnit = k
  <2>1. ((k * KeyUnit) + p) \div KeyUnit = k
    BY <1>3, <1>4, QuotientUnique
  <2> QED BY <1>4, <1>5, <2>1
<1>8. v - (k * KeyUnit) = p
  BY <1>4, <1>5
<1> HIDE DEF v
<1>9. Output[v + 1] \in ToSet(Output) /\ Position(Output, Output[v + 1]) = v
  BY <1>6, Constants, Positions
<1>10. e = [s EXCEPT ![1] = Output[v + 1]]
  <2>1. v < Len(Output)
    BY <1>3, <1>6
  <2> QED BY <2>1 DEF EncodeKeynum, v, p
<1> HIDE DEF e
<1>11. e \in [1..n -> ToSet(Output)] /\ e[1] = Output[v + 1] /\ [e EXCEPT ![1] = s[1]] = s
  BY <1>1, <1>9, <1>10
<1>12. InSet(e, Output) /\ Len(e) = n
  BY <1>1, <1>11 DEF InSet
<1>13. DecodeKeynum(e) = [key |-> k, rest |-> [e EXCEPT ![1] = Output[p + 1]]]
  BY <1>7, <1>8, <1>9, <1>11 DEF DecodeKeynum
<1> QED
  BY <1>2, <1>11, <1>12, <1>13 DEF e, n

\* A key number that was taken out goes in again, and gives the text as it was.
THEOREM KeynumEncodes ==
  ASSUME NEW s, InSet(s, Output), Len(s) # 0
  PROVE  LET decoded == DecodeKeynum(s) IN
         /\ InSet(decoded.rest, Output) /\ Len(decoded.rest) = Len(s)
         /\ decoded.key \in Nat
         /\ EncodeKeynum(decoded.rest, decoded.key) = s
<1> DEFINE v == Position(Output, s[1])
           k == v \div KeyUnit
           p == v - (k * KeyUnit)
           rest == [s EXCEPT ![1] = Output[p + 1]]
           n == Len(s)
<1>1. n \in Nat /\ 1 \in 1..n /\ DOMAIN s = 1..n /\ s \in [1..n -> ToSet(Output)]
  BY DEF InSet
<1>2. v \in 0..(Len(Output) - 1) /\ Output[v + 1] = s[1]
  BY <1>1, Constants, Positions
<1>3. KeyUnit \in Nat /\ KeyUnit # 0 /\ Len(Output) \in Nat
  BY Constants
<1>4. DecodeKeynum(s) = [key |-> k, rest |-> rest]
  BY DEF DecodeKeynum
<1> HIDE DEF v, n
<1>5. k \in Nat /\ v % KeyUnit \in 0..(KeyUnit - 1) /\ v = (k * KeyUnit) + (v % KeyUnit)
  <2>1. v \in Nat
    BY <1>2, <1>3
  <2> QED BY <1>3, <2>1, Division
<1> HIDE DEF k
<1>6. k * KeyUnit \in Nat
  BY <1>3, <1>5
<1>7. p \in 0..(Len(Output) - 1) /\ p + (k * KeyUnit) = v
  BY <1>2, <1>3, <1>5, <1>6
<1> HIDE DEF p
<1>8. Output[p + 1] \in ToSet(Output) /\ Position(Output, Output[p + 1]) = p
  BY <1>7, Constants, Positions
<1>9. rest \in [1..n -> ToSet(Output)] /\ rest[1] = Output[p + 1]
      /\ [rest EXCEPT ![1] = s[1]] = s
  BY <1>1, <1>8
<1> HIDE DEF rest
<1>10. InSet(rest, Output) /\ Len(rest) = n
  BY <1>1, <1>9 DEF InSet
<1>11. EncodeKeynum(rest, k) = [rest EXCEPT ![1] = Output[v + 1]]
  <2>1. v < Len(Output)
    BY <1>2, <1>3
  <2> QED BY <1>7, <1>8, <1>9, <2>1 DEF EncodeKeynum
<1> QED
  BY <1>2, <1>4, <1>5, <1>9, <1>10, <1>11 DEF n

-----------------------------------------------------------------------------
(* The cipher *)

\* Moving on by r and back again among n numbers, in either order.
LEMMA Rotating ==
  ASSUME NEW n \in Nat, n # 0, NEW a \in 0..(n - 1), NEW r \in Nat
  PROVE  /\ (a + r) % n \in 0..(n - 1)
         /\ ((a + n) - (r % n)) % n \in 0..(n - 1)
         /\ ((((a + r) % n) + n) - (r % n)) % n = a
         /\ ((((a + n) - (r % n)) % n) + r) % n = a
<1> DEFINE c == r % n
           q == r \div n
<1>1. c \in 0..(n - 1) /\ q \in Nat /\ r = (q * n) + c
  BY Division
<1> HIDE DEF q
<1>2. q * n \in Nat
  BY <1>1
<1>3. \A x \in 0..(n - 1) : x % n = x /\ (x + n) % n = x
  <2> SUFFICES ASSUME NEW x \in 0..(n - 1) PROVE x % n = x /\ (x + n) % n = x
    OBVIOUS
  <2>1. ((0 * n) + x) % n = x /\ ((1 * n) + x) % n = x
    BY QuotientUnique
  <2>2. (0 * n) + x = x /\ (1 * n) + x = x + n
    OBVIOUS
  <2> QED BY <2>1, <2>2
<1>4. ASSUME NEW x \in 0..(n - 1)
      PROVE  (x + r) % n = IF x + c < n THEN x + c ELSE (x + c) - n
  <2> HIDE DEF c
  <2>1. CASE x + c < n
    <3>1. x + c \in 0..(n - 1)
      BY <1>1, <2>1
    <3>2. ((q * n) + (x + c)) % n = x + c
      BY <1>1, <3>1, QuotientUnique
    <3>3. x + r = (q * n) + (x + c)
      BY <1>1, <1>2
    <3> QED BY <2>1, <3>2, <3>3
  <2>2. CASE ~ (x + c < n)
    <3>1. (x + c) - n \in 0..(n - 1) /\ q + 1 \in Nat
      BY <1>1, <2>2
    <3>2. (((q + 1) * n) + ((x + c) - n)) % n = (x + c) - n
      BY <3>1, QuotientUnique
    <3>3. (q + 1) * n = (q * n) + n
      BY <1>1
    <3>4. x + r = ((q + 1) * n) + ((x + c) - n)
      BY <1>1, <1>2, <3>3
    <3> QED BY <2>2, <3>2, <3>4
  <2> QED BY <2>1, <2>2
<1>5. ASSUME NEW x \in 0..(n - 1)
      PROVE  ((x + n) - c) % n = IF x < c THEN (x + n) - c ELSE x - c
  <2> HIDE DEF c
  <2>1. CASE x < c
    <3>1. (x + n) - c \in 0..(n - 1)
      BY <1>1, <2>1
    <3> QED BY <1>3, <2>1, <3>1
  <2>2. CASE ~ (x < c)
    <3>1. x - c \in 0..(n - 1) /\ (x + n) - c = (x - c) + n
      BY <1>1, <2>2
    <3> QED BY <1>3, <2>2, <3>1
  <2> QED BY <2>1, <2>2
<1> DEFINE on == (a + r) % n
           back == ((a + n) - c) % n
<1>6. on = (IF a + c < n THEN a + c ELSE (a + c) - n) /\ on \in 0..(n - 1)
  <2>1. on = IF a + c < n THEN a + c ELSE (a + c) - n
    BY <1>4
  <2> HIDE DEF on, c
  <2> QED BY <1>1, <2>1
<1>7. back = (IF a < c THEN (a + n) - c ELSE a - c) /\ back \in 0..(n - 1)
  <2>1. back = IF a < c THEN (a + n) - c ELSE a - c
    BY <1>5
  <2> HIDE DEF back, c
  <2> QED BY <1>1, <2>1
<1> HIDE DEF on, back, c
<1>8. ((on + n) - c) % n = a
  <2>1. ((on + n) - c) % n = IF on < c THEN (on + n) - c ELSE on - c
    BY <1>5, <1>6
  <2> QED BY <1>1, <1>6, <2>1
<1>9. (back + r) % n = a
  <2>1. (back + r) % n = IF back + c < n THEN back + c ELSE (back + c) - n
    BY <1>4, <1>7
  <2> QED BY <1>1, <1>7, <2>1
<1> QED
  BY <1>6, <1>7, <1>8, <1>9 DEF on, back, c

\* Size of the texts of a length.
LEMMA SizeNat ==
  ASSUME NEW set, Alphabet(set), NEW len \in Nat
  PROVE  Size(set, len) \in Nat /\ Size(set, len) # 0
BY Positions, PowerLaws DEF Size, Alphabet

\* The cipher keeps the length and the set, and each direction undoes the other.
LEMMA Ff1Inverse ==
  ASSUME Alphabet(Input), NEW s, InSet(s, Input), NEW r \in Nat
  PROVE  /\ InSet(Ff1Encrypt(s, r), Input) /\ Len(Ff1Encrypt(s, r)) = Len(s)
         /\ InSet(Ff1Decrypt(s, r), Input) /\ Len(Ff1Decrypt(s, r)) = Len(s)
         /\ Ff1Decrypt(Ff1Encrypt(s, r), r) = s
         /\ Ff1Encrypt(Ff1Decrypt(s, r), r) = s
<1> DEFINE len == Len(s)
           n == Size(Input, len)
           a == Value(s, Input)
           x == (a + r) % n
           y == ((a + n) - (r % n)) % n
<1>1. len \in Nat
  BY DEF InSet
<1>2. n \in Nat /\ n # 0
  BY <1>1, SizeNat
<1>3. a \in 0..(n - 1) /\ Digits(a, Input, len) = s
  <2>1. a \in Nat /\ a < n /\ Digits(a, Input, len) = s
    BY DigitsOfValue
  <2> HIDE DEF a, n
  <2> QED BY <1>2, <2>1
<1>4. Ff1Encrypt(s, r) = Digits(x, Input, len)
  BY DEF Ff1Encrypt
<1>5. Ff1Decrypt(s, r) = Digits(y, Input, len)
  BY DEF Ff1Decrypt
<1> HIDE DEF len, a
<1>6. /\ x \in 0..(n - 1) /\ y \in 0..(n - 1)
      /\ ((x + n) - (r % n)) % n = a /\ (y + r) % n = a
  <2> HIDE DEF n
  <2> QED BY <1>2, <1>3, Rotating
<1> HIDE DEF x, y
<1>7. x \in Nat /\ x < n /\ y \in Nat /\ y < n
  <2> HIDE DEF n
  <2> QED BY <1>2, <1>6
<1>8. /\ InSet(Digits(x, Input, len), Input) /\ Len(Digits(x, Input, len)) = len
      /\ Value(Digits(x, Input, len), Input) = x
  BY <1>1, <1>7, ValueOfDigits
<1>9. /\ InSet(Digits(y, Input, len), Input) /\ Len(Digits(y, Input, len)) = len
      /\ Value(Digits(y, Input, len), Input) = y
  BY <1>1, <1>7, ValueOfDigits
<1>10. Ff1Decrypt(Digits(x, Input, len), r) = Digits(((x + n) - (r % n)) % n, Input, len)
  BY <1>8 DEF Ff1Decrypt
<1>11. Ff1Encrypt(Digits(y, Input, len), r) = Digits((y + r) % n, Input, len)
  BY <1>9 DEF Ff1Encrypt
<1> QED
  BY <1>3, <1>4, <1>5, <1>6, <1>8, <1>9, <1>10, <1>11 DEF len

-----------------------------------------------------------------------------
(* One call, and its inverse *)

\* What a call keeps of the format of a text.
Formatted(s, out, to) ==
  /\ out \in Seq(ToSet(out)) /\ Len(out) = Len(s)
  /\ \A i \in 1..Len(s) : IF s[i] \in Passthrough THEN out[i] = s[i]
                          ELSE out[i] \in ToSet(to)

\* What a text that is parsed gives: characters of the set, as many as allowed.
LEMMA ParseLaws ==
  ASSUME NEW s, s \in Seq(ToSet(s)), NEW from, NEW to, Parse(s, from, to).ok
  PROVE  LET parsed == Parse(s, from, to) IN
         /\ Decompose(s, from, to[1]).ok
         /\ parsed.trimmed = Decompose(s, from, to[1]).trimmed
         /\ parsed.formatted = Decompose(s, from, to[1]).formatted
         /\ InSet(parsed.trimmed, from)
         /\ Len(parsed.trimmed) = Cardinality(Places(s, from))
         /\ Len(parsed.trimmed) \in MinLength..MaxLength
         /\ Len(parsed.trimmed) \in Nat /\ Len(parsed.trimmed) # 0
         /\ ToSet(from) # {}
<1> DEFINE t == Trimmed(s, from)
<1>1. Decompose(s, from, to[1]).trimmed = t
  BY DEF Decompose
<1>2. /\ Parse(s, from, to).trimmed = t
      /\ Parse(s, from, to).formatted = Decompose(s, from, to[1]).formatted
      /\ Decompose(s, from, to[1]).ok
      /\ Len(t) \in MinLength..MaxLength
  BY DEF Parse, Decompose
<1>3. InSet(t, from) /\ Len(t) = Cardinality(Places(s, from))
  BY TrimmedLaws
<1>4. Len(t) \in Nat /\ Len(t) # 0
  BY <1>2, Constants, DataSetAssumption
<1>5. t[1] \in ToSet(from)
  BY <1>3, <1>4 DEF InSet
<1> QED
  BY <1>1, <1>2, <1>3, <1>4, <1>5

\* A set with a character that observes the assumptions is an alphabet.
LEMMA InputAlphabet ==
  ASSUME ToSet(Input) # {}
  PROVE  Translation(Input, Output) /\ Translation(Output, Input)
<1>1. Input \in Seq(ToSet(Input)) /\ IsInjective(Input)
  BY TypeAssumption, DataSetAssumption
<1>2. DOMAIN Input # {}
  BY DEF ToSet
<1>3. Len(Input) # 0
  BY <1>1, <1>2
<1> QED
  BY <1>1, <1>3, Constants, DataSetAssumption DEF Translation, Alphabet

\* A text that is parsed encrypts, keeps its format, and decrypts to itself with
\* the key it was encrypted with.
THEOREM EncryptDecrypt ==
  ASSUME NEW s, s \in Seq(ToSet(s)), NEW k \in Key, NEW r \in Nat,
         Parse(s, Input, Output).ok
  PROVE  LET e == EncryptData(s, k, r) IN
         /\ e.ok /\ e.key = k /\ Formatted(s, e.out, Output)
         /\ DecryptData(e.out, r) = [ok |-> TRUE, key |-> k, out |-> s]
<1> DEFINE parsed == Parse(s, Input, Output)
           t == parsed.trimmed
           len == Len(t)
           c == Ff1Encrypt(t, r)
           x == Value(c, Input)
           ct == Convert(c, Input, Output)
           d == Digits(x, Output, len)
           data == EncodeKeynum(d, k)
           out == Finalize(parsed.formatted, data, Output[1])
<1>1. /\ Decompose(s, Input, Output[1]).ok
      /\ t = Decompose(s, Input, Output[1]).trimmed
      /\ parsed.formatted = Decompose(s, Input, Output[1]).formatted
      /\ InSet(t, Input) /\ len = Cardinality(Places(s, Input))
      /\ len \in MinLength..MaxLength /\ len \in Nat /\ len # 0 /\ ToSet(Input) # {}
  BY ParseLaws
<1>2. Translation(Input, Output) /\ Translation(Output, Input)
  BY <1>1, InputAlphabet
<1>3. Alphabet(Input) /\ Alphabet(Output)
  BY <1>2 DEF Translation
<1> HIDE DEF parsed
<1>4. InSet(c, Input) /\ Len(c) = len /\ Ff1Decrypt(c, r) = t
  BY <1>1, <1>3, Ff1Inverse
<1>5. x \in Nat /\ x < Size(Input, len) /\ Digits(x, Input, len) = c
  BY <1>3, <1>4, DigitsOfValue
<1>6. x < KeyUnit * Size(Output, len - 1) /\ x < Size(Output, len)
  BY <1>1, <1>5, Room
<1>7. ct.ok /\ ct.out = d
  BY <1>4, <1>6 DEF Convert
<1> HIDE DEF x, c, len
<1>8. InSet(d, Output) /\ Len(d) = len /\ Value(d, Output) = x
  BY <1>1, <1>3, <1>5, <1>6, ValueOfDigits
<1>9. Position(Output, d[1]) < KeyUnit
  BY <1>1, <1>3, <1>5, <1>6, Constants, FirstDigit
<1> HIDE DEF d
<1>10. /\ InSet(data, Output) /\ Len(data) = len
       /\ DecodeKeynum(data) = [key |-> k, rest |-> d]
  BY <1>1, <1>8, <1>9, KeynumDecodes
<1> HIDE DEF data
<1>11. /\ Formatted(s, out, Output)
       /\ Decompose(out, Output, Input[1]).ok
       /\ Decompose(out, Output, Input[1]).trimmed = data
       /\ Finalize(Decompose(out, Output, Input[1]).formatted, t, Input[1]) = s
  BY <1>1, <1>2, <1>10, FormatInverse DEF Formatted
<1>12. EncryptData(s, k, r) = [ok |-> TRUE, key |-> k, out |-> out]
  <2>1. parsed.ok
    BY DEF parsed
  <2> QED BY <1>7, <2>1 DEF EncryptData, parsed, c, data
<1> HIDE DEF out, t
<1>13. DecryptData(out, r) = [ok |-> TRUE, key |-> k, out |-> s]
  <2> DEFINE again == Parse(out, Output, Input)
  <2>1. again.ok /\ again.trimmed = data
        /\ again.formatted = Decompose(out, Output, Input[1]).formatted
    <3> DEFINE found == Decompose(out, Output, Input[1])
    <3>1. found = [ok |-> found.ok, trimmed |-> found.trimmed,
                   formatted |-> found.formatted]
      BY DEF Decompose
    <3>2. again = [found EXCEPT !.ok = found.ok
                                /\ Len(found.trimmed) \in MinLength..MaxLength]
      BY DEF Parse
    <3> HIDE DEF found, again
    <3> QED BY <1>1, <1>10, <1>11, <3>1, <3>2 DEF found
  <2>2. Convert(d, Output, Input) = [ok |-> TRUE, out |-> c]
    BY <1>5, <1>8 DEF Convert
  <2>3. DecodeKeynum(again.trimmed).key = k /\ DecodeKeynum(again.trimmed).rest = d
    <3> HIDE DEF again
    <3> QED BY <1>10, <2>1
  <2>4. DecryptData(out, r) =
          [ok |-> TRUE, key |-> k,
           out |-> Finalize(again.formatted, Ff1Decrypt(c, r), Input[1])]
    <3> DEFINE taken == DecodeKeynum(again.trimmed)
               conv == Convert(taken.rest, Output, Input)
    <3>1. conv.ok /\ conv.out = c
      <4> HIDE DEF again
      <4> QED BY <2>2, <2>3
    <3>2. DecryptData(out, r) = IF ~ again.ok \/ ~ conv.ok \/ taken.key \notin Key THEN Failure
            ELSE [ok |-> TRUE, key |-> taken.key,
                  out |-> Finalize(again.formatted, Ff1Decrypt(conv.out, r), Input[1])]
      BY DEF DecryptData
    <3>3. taken.key = k /\ taken.key \in Key
      BY <2>3
    <3> HIDE DEF again, taken, conv
    <3> QED BY <2>1, <3>1, <3>2, <3>3
  <2> HIDE DEF again
  <2> QED BY <1>4, <1>11, <2>1, <2>4
<1> QED
  BY <1>11, <1>12, <1>13

\* A text that decrypts keeps its format, and its plain text encrypts to it with
\* the key whose number it has.
THEOREM DecryptEncrypt ==
  ASSUME NEW s, s \in Seq(ToSet(s)), NEW r \in Nat, DecryptData(s, r).ok
  PROVE  LET p == DecryptData(s, r) IN
         /\ p.key \in Key /\ Formatted(s, p.out, Input)
         /\ Decompose(s, Output, Input[1]).ok
         /\ EncryptData(p.out, p.key, r) = [ok |-> TRUE, key |-> p.key, out |-> s]
<1> DEFINE parsed == Parse(s, Output, Input)
           t == parsed.trimmed
           len == Len(t)
           decoded == DecodeKeynum(t)
           rest == decoded.rest
           k == decoded.key
           y == Value(rest, Output)
           ct == Convert(rest, Output, Input)
           c == Digits(y, Input, len)
           data == Ff1Decrypt(c, r)
           out == Finalize(parsed.formatted, data, Input[1])
<1>1. parsed.ok /\ ct.ok /\ k \in Key
      /\ DecryptData(s, r) = [ok |-> TRUE, key |-> k,
                              out |-> Finalize(parsed.formatted, Ff1Decrypt(ct.out, r), Input[1])]
  BY DEF DecryptData, Failure
<1>2. /\ Decompose(s, Output, Input[1]).ok
      /\ t = Decompose(s, Output, Input[1]).trimmed
      /\ parsed.formatted = Decompose(s, Output, Input[1]).formatted
      /\ InSet(t, Output) /\ len = Cardinality(Places(s, Output))
      /\ len \in MinLength..MaxLength /\ len \in Nat /\ len # 0
  BY <1>1, ParseLaws
<1> HIDE DEF parsed
<1>3. InSet(rest, Output) /\ Len(rest) = len /\ EncodeKeynum(rest, k) = t
  BY <1>2, KeynumEncodes
<1> HIDE DEF rest, k
<1>4. Alphabet(Output)
  BY Constants
<1>5. y \in Nat /\ Digits(y, Output, len) = rest
  BY <1>3, <1>4, DigitsOfValue
<1>6. y < Size(Input, len) /\ ct.out = c
  BY <1>1, <1>3 DEF Convert
<1>7. ToSet(Input) # {}
  <2> SUFFICES ASSUME ToSet(Input) = {} PROVE FALSE
    OBVIOUS
  <2>1. Input \in Seq(ToSet(Input))
    BY TypeAssumption
  <2>2. Len(Input) = 0
    <3>1. DOMAIN Input = {}
      BY DEF ToSet
    <3> QED BY <2>1, <3>1
  <2>3. len - 1 \in Nat /\ (len - 1) + 1 = len
    BY <1>2
  <2>4. Size(Input, len) = Power(0, len - 1) * 0 /\ Power(0, len - 1) \in Nat
    <3>1. 0 \in Nat
      OBVIOUS
    <3>2. /\ Power(0, len - 1) \in Nat
          /\ Power(0, (len - 1) + 1) = Power(0, len - 1) * 0
      BY <2>3, <3>1, PowerLaws
    <3> QED BY <2>2, <2>3, <3>2 DEF Size
  <2>5. Size(Input, len) = 0
    BY <2>4
  <2> QED BY <1>5, <1>6, <2>5
<1>8. Translation(Input, Output) /\ Translation(Output, Input)
  BY <1>7, InputAlphabet
<1>9. Alphabet(Input)
  BY <1>8 DEF Translation
<1> HIDE DEF y, len
<1>10. InSet(c, Input) /\ Len(c) = len /\ Value(c, Input) = y
  BY <1>2, <1>5, <1>6, <1>9, ValueOfDigits
<1> HIDE DEF c
<1>11. InSet(data, Input) /\ Len(data) = len /\ Ff1Encrypt(data, r) = c
  BY <1>9, <1>10, Ff1Inverse
<1> HIDE DEF data
<1>12. /\ Formatted(s, out, Input)
       /\ Decompose(out, Input, Output[1]).ok
       /\ Decompose(out, Input, Output[1]).trimmed = data
       /\ Finalize(Decompose(out, Input, Output[1]).formatted, t, Output[1]) = s
  BY <1>2, <1>8, <1>11, FormatInverse DEF Formatted
<1>13. DecryptData(s, r) = [ok |-> TRUE, key |-> k, out |-> out]
  BY <1>1, <1>6 DEF data
<1> HIDE DEF out, t
<1>14. EncryptData(out, k, r) = [ok |-> TRUE, key |-> k, out |-> s]
  <2> DEFINE again == Parse(out, Input, Output)
  <2>1. again.ok /\ again.trimmed = data
        /\ again.formatted = Decompose(out, Input, Output[1]).formatted
    <3> DEFINE found == Decompose(out, Input, Output[1])
    <3>1. found = [ok |-> found.ok, trimmed |-> found.trimmed,
                   formatted |-> found.formatted]
      BY DEF Decompose
    <3>2. again = [found EXCEPT !.ok = found.ok
                                /\ Len(found.trimmed) \in MinLength..MaxLength]
      BY DEF Parse
    <3> HIDE DEF found, again
    <3> QED BY <1>2, <1>11, <1>12, <3>1, <3>2 DEF found
  <2>2. Convert(c, Input, Output) = [ok |-> TRUE, out |-> rest]
    <3>1. y < Size(Output, len)
      BY <1>2, <1>5, <1>6, Room
    <3> QED BY <1>5, <1>10, <3>1 DEF Convert
  <2>3. Ff1Encrypt(again.trimmed, r) = c
    <3> HIDE DEF again
    <3> QED BY <1>11, <2>1
  <2>4. EncryptData(out, k, r) =
          [ok |-> TRUE, key |-> k,
           out |-> Finalize(again.formatted, EncodeKeynum(rest, k), Output[1])]
    <3> DEFINE conv == Convert(Ff1Encrypt(again.trimmed, r), Input, Output)
    <3>1. conv.ok /\ conv.out = rest
      <4> HIDE DEF again
      <4> QED BY <2>2, <2>3
    <3>2. EncryptData(out, k, r) = IF ~ again.ok \/ ~ conv.ok THEN Failure
            ELSE [ok |-> TRUE, key |-> k,
                  out |-> Finalize(again.formatted, EncodeKeynum(conv.out, k), Output[1])]
      BY DEF EncryptData
    <3> HIDE DEF again, conv
    <3> QED BY <2>1, <3>1, <3>2
  <2> HIDE DEF again
  <2> QED BY <1>3, <1>12, <2>1, <2>4
<1>15. DecryptData(s, r).key = k /\ DecryptData(s, r).out = out
  BY <1>13
<1> QED
  BY <1>1, <1>2, <1>12, <1>14, <1>15

\* An encryption that succeeds has parsed the text.
LEMMA EncryptParses ==
  ASSUME NEW s, NEW k, NEW r, EncryptData(s, k, r).ok
  PROVE  Parse(s, Input, Output).ok
BY DEF EncryptData, Failure

\* A cipher text belongs to one key, whatever the keys do to the texts; and under
\* a key to one text, as a text does to one of the cipher texts of a key.
THEOREM OneToOne ==
  ASSUME NEW s, NEW t, s \in Seq(ToSet(s)), t \in Seq(ToSet(t)), NEW r \in Nat
  PROVE  /\ \A k \in Key, l \in Key, q \in Nat :
              /\ EncryptData(s, k, r).ok /\ EncryptData(t, l, q).ok
              /\ EncryptData(s, k, r).out = EncryptData(t, l, q).out
              => k = l /\ (q = r => s = t)
         /\ /\ DecryptData(s, r).ok /\ DecryptData(t, r).ok
            /\ DecryptData(s, r) = DecryptData(t, r)
            => s = t
<1>1. ASSUME NEW k \in Key, NEW l \in Key, NEW q \in Nat,
             EncryptData(s, k, r).ok, EncryptData(t, l, q).ok,
             EncryptData(s, k, r).out = EncryptData(t, l, q).out
      PROVE  k = l /\ (q = r => s = t)
  <2> DEFINE out == EncryptData(s, k, r).out
             taken == DecodeKeynum(Parse(out, Output, Input).trimmed).key
  <2>1. Parse(s, Input, Output).ok /\ Parse(t, Input, Output).ok
    BY <1>1, EncryptParses
  <2>2. DecryptData(out, r) = [ok |-> TRUE, key |-> k, out |-> s]
    BY <2>1, EncryptDecrypt
  <2>3. DecryptData(out, q) = [ok |-> TRUE, key |-> l, out |-> t]
    BY <1>1, <2>1, EncryptDecrypt
  <2>4. \A p : DecryptData(out, p).ok => DecryptData(out, p).key = taken
    BY Zenon DEF DecryptData, Failure
  <2> HIDE DEF out, taken
  <2>5. k = taken /\ l = taken
    BY <2>2, <2>3, <2>4
  <2>6. ASSUME q = r PROVE s = t
    BY <2>2, <2>3, <2>6
  <2> QED BY <2>5, <2>6
<1>2. ASSUME DecryptData(s, r).ok, DecryptData(t, r).ok, DecryptData(s, r) = DecryptData(t, r)
      PROVE  s = t
  <2> DEFINE p == DecryptData(s, r)
  <2>1. EncryptData(p.out, p.key, r) = [ok |-> TRUE, key |-> p.key, out |-> s]
    BY <1>2, DecryptEncrypt
  <2>2. EncryptData(p.out, p.key, r) = [ok |-> TRUE, key |-> p.key, out |-> t]
    BY <1>2, DecryptEncrypt
  <2> HIDE DEF p
  <2> QED BY <2>1, <2>2
<1> QED
  BY <1>1, <1>2

-----------------------------------------------------------------------------
(* The inductive invariant: after one call the state is what the call returned *)
(* for the first text; after two the text is that text again.                  *)

Returned(result) == ok = result.ok /\ text = result.out /\ number = result.key

FirstInv ==
  /\ calls = <<"encrypt">> => \E k \in Key : Returned(EncryptData(original, k, rotation))
  /\ calls = <<"decrypt">> => Returned(DecryptData(original, rotation))

SecondInv ==
  Len(calls) = 2 =>
    /\ ok /\ text = original
    /\ ToSet(original) \subseteq Passthrough \cup
         ToSet(IF calls[2] = "encrypt" THEN Output ELSE Input)

TextInv ==
  /\ original \in Texts /\ rotation \in Nat
  /\ calls \in {<<>>, <<"encrypt">>, <<"decrypt">>} \/ Len(calls) = 2
  /\ calls = <<>> => text = original
  /\ FirstInv /\ SecondInv

\* Texts are sequences, and rotations numbers.
LEMMA TextsAndRotations ==
  /\ \A s \in Texts : s \in Seq(ToSet(s))
  /\ Rotations \subseteq Nat
<1>1. Rotations \subseteq Nat
  <2> SUFFICES ASSUME NEW len \in MinLength..MaxLength, NEW r \in 0..(Size(Input, len) - 1)
               PROVE  r \in Nat
    BY DEF Rotations
  <2>1. Len(Input) \in Nat /\ len \in Nat
    BY TypeAssumption, Constants
  <2>2. Size(Input, len) \in Nat
    BY <2>1, PowerLaws DEF Size
  <2> QED BY <2>2
<1> QED
  BY <1>1, TypeAssumption

\* A text that is parsed has characters of the set and of the passthrough set.
LEMMA DecomposeChars ==
  ASSUME NEW s, NEW from, NEW zeroth, Decompose(s, from, zeroth).ok
  PROVE  ToSet(s) \subseteq Passthrough \cup ToSet(from)
BY DEF Decompose

LEMMA TextInit == Init => TextInv
<1> SUFFICES ASSUME Init PROVE TextInv
  OBVIOUS
<1> QED
  BY DEF Init, TextInv, FirstInv, SecondInv

\* DecryptBack finds the first text under the key of the encryption.
LEMMA DecryptBackInv ==
  ASSUME TextInv, DecryptBack
  PROVE  TextInv'
<1>1. calls = <<"encrypt">> /\ ok /\ rotation' = rotation /\ original' = original
      /\ Len(calls') = 2 /\ calls'[2] = "decrypt"
      /\ ok' = DecryptData(text, rotation).ok /\ text' = DecryptData(text, rotation).out
  <2>1. calls = <<"encrypt">> /\ ok /\ rotation' = rotation /\ original' = original
        /\ calls' = Append(calls, "decrypt")
        /\ ok' = DecryptData(text, rotation).ok /\ text' = DecryptData(text, rotation).out
    BY Zenon DEF DecryptBack, Call
  <2>2. Len(Append(<<"encrypt">>, "decrypt")) = 2
        /\ Append(<<"encrypt">>, "decrypt")[2] = "decrypt"
    OBVIOUS
  <2> QED BY <2>1, <2>2, Zenon
<1>2. PICK k \in Key : Returned(EncryptData(original, k, rotation))
  BY <1>1 DEF TextInv, FirstInv
<1>3. /\ EncryptData(original, k, rotation).ok
      /\ text = EncryptData(original, k, rotation).out
  BY <1>1, <1>2 DEF Returned
<1>4. original \in Seq(ToSet(original)) /\ rotation \in Nat
  BY TextsAndRotations DEF TextInv
<1>5. Parse(original, Input, Output).ok
  BY <1>3, EncryptParses
<1>6. DecryptData(EncryptData(original, k, rotation).out, rotation)
        = [ok |-> TRUE, key |-> k, out |-> original]
  BY <1>4, <1>5, EncryptDecrypt
<1>7. ok' = TRUE /\ text' = original
  BY <1>1, <1>3, <1>6
<1>8. ToSet(original) \subseteq Passthrough \cup ToSet(Input)
  BY <1>4, <1>5, ParseLaws, DecomposeChars
<1> QED
  BY <1>1, <1>7, <1>8 DEF TextInv, FirstInv, SecondInv

\* EncryptBack finds the first text under the key that the decryption found.
LEMMA EncryptBackInv ==
  ASSUME TextInv, EncryptBack
  PROVE  TextInv'
<1>1. calls = <<"decrypt">> /\ ok /\ rotation' = rotation /\ original' = original
      /\ Len(calls') = 2 /\ calls'[2] = "encrypt"
      /\ ok' = EncryptData(text, number, rotation).ok
      /\ text' = EncryptData(text, number, rotation).out
  <2>1. calls = <<"decrypt">> /\ ok /\ rotation' = rotation /\ original' = original
        /\ calls' = Append(calls, "encrypt")
        /\ ok' = EncryptData(text, number, rotation).ok
        /\ text' = EncryptData(text, number, rotation).out
    BY Zenon DEF EncryptBack, Call
  <2>2. Len(Append(<<"decrypt">>, "encrypt")) = 2
        /\ Append(<<"decrypt">>, "encrypt")[2] = "encrypt"
    OBVIOUS
  <2> QED BY <2>1, <2>2, Zenon
<1>2. /\ DecryptData(original, rotation).ok
      /\ text = DecryptData(original, rotation).out
      /\ number = DecryptData(original, rotation).key
  BY <1>1 DEF TextInv, FirstInv, Returned
<1>3. original \in Seq(ToSet(original)) /\ rotation \in Nat
  BY TextsAndRotations DEF TextInv
<1>4. /\ Decompose(original, Output, Input[1]).ok
      /\ EncryptData(text, number, rotation)
           = [ok |-> TRUE, key |-> number, out |-> original]
  BY <1>2, <1>3, DecryptEncrypt
<1>5. ok' = TRUE /\ text' = original
  BY <1>1, <1>4
<1>6. ToSet(original) \subseteq Passthrough \cup ToSet(Output)
  BY <1>4, DecomposeChars
<1> QED
  BY <1>1, <1>5, <1>6 DEF TextInv, FirstInv, SecondInv

LEMMA TextNext == TextInv /\ [Next]_vars => TextInv'
<1> SUFFICES ASSUME TextInv, [Next]_vars PROVE TextInv'
  OBVIOUS
<1>1. CASE EncryptFirst
  <2>1. calls = <<>> /\ original' = original /\ text = original
        /\ calls' = <<"encrypt">> /\ rotation' \in Rotations
    BY <1>1 DEF EncryptFirst, Call, TextInv
  <2>2. \E k \in Key : Returned(EncryptData(original, k, rotation))'
    BY <1>1, <2>1 DEF EncryptFirst, Call, Returned
  <2>3. rotation' \in Nat
    BY <2>1, TextsAndRotations
  <2> QED BY <2>1, <2>2, <2>3 DEF TextInv, FirstInv, SecondInv
<1>2. CASE DecryptFirst
  <2>1. calls = <<>> /\ original' = original /\ text = original
        /\ calls' = <<"decrypt">> /\ rotation' \in Rotations
    BY <1>2 DEF DecryptFirst, Call, TextInv
  <2>2. Returned(DecryptData(original, rotation))'
    BY <1>2, <2>1 DEF DecryptFirst, Call, Returned
  <2>3. rotation' \in Nat
    BY <2>1, TextsAndRotations
  <2> QED BY <2>1, <2>2, <2>3 DEF TextInv, FirstInv, SecondInv
<1>3. CASE DecryptBack
  BY <1>3, DecryptBackInv
<1>4. CASE EncryptBack
  BY <1>4, EncryptBackInv
<1>5. CASE UNCHANGED vars
  BY <1>5 DEF vars, TextInv, FirstInv, SecondInv, Returned
<1> QED
  BY <1>1, <1>2, <1>3, <1>4, <1>5 DEF Next

\* The inductive invariant holds in every state.
THEOREM Invariance == Spec => []TextInv
BY TextInit, TextNext, PTL DEF Spec

-----------------------------------------------------------------------------
(* The properties of the run *)

\* A text that was encrypted decrypts to itself, and one that decrypts is what
\* its plain text encrypts to, for every data set that observes the assumptions.
THEOREM RoundTripHolds == Spec => []RoundTrip
<1>1. TextInv => RoundTrip
  BY DEF TextInv, SecondInv, RoundTrip
<1> QED
  BY <1>1, Invariance, PTL

\* What a formatted text is, in the terms of FormatKept.
LEMMA FormattedKept ==
  ASSUME calls # <<>>, Formatted(original, text, IF calls[Len(calls)] = "encrypt"
                                                 THEN Output ELSE Input),
         original \in Seq(ToSet(original))
  PROVE  FormatKept
<1>1. DOMAIN text = 1..Len(original)
  BY DEF Formatted
<1> QED
  BY <1>1 DEF Formatted, FormatKept

\* Encryption and decryption keep the length, the characters that are passed
\* through, and the set of the others.
THEOREM FormatKeptHolds == Spec => []FormatKept
<1>1. ASSUME TextInv PROVE FormatKept
  <2> SUFFICES ASSUME calls # <<>>, ok PROVE FormatKept
    BY DEF FormatKept
  <2>1. original \in Seq(ToSet(original)) /\ rotation \in Nat
    BY <1>1, TextsAndRotations DEF TextInv
  <2>2. CASE calls = <<"encrypt">>
    <3>1. PICK k \in Key : Returned(EncryptData(original, k, rotation))
      BY <1>1, <2>2 DEF TextInv, FirstInv
    <3>2. /\ EncryptData(original, k, rotation).ok
          /\ text = EncryptData(original, k, rotation).out
      BY <3>1 DEF Returned
    <3>3. Formatted(original, text, Output)
      BY <2>1, <3>2, EncryptParses, EncryptDecrypt
    <3>4. calls[Len(calls)] = "encrypt"
      BY <2>2
    <3> QED BY <2>1, <3>3, <3>4, FormattedKept
  <2>3. CASE calls = <<"decrypt">>
    <3>1. /\ DecryptData(original, rotation).ok
          /\ text = DecryptData(original, rotation).out
      BY <1>1, <2>3 DEF TextInv, FirstInv, Returned
    <3>2. Formatted(original, text, Input)
      BY <2>1, <3>1, DecryptEncrypt
    <3>3. calls[Len(calls)] # "encrypt"
      BY <2>3
    <3> QED BY <2>1, <3>2, <3>3, FormattedKept
  <2>4. CASE Len(calls) = 2
    <3> DEFINE set == IF calls[Len(calls)] = "encrypt" THEN Output ELSE Input
    <3>1. text = original /\ ToSet(original) \subseteq Passthrough \cup ToSet(set)
      BY <1>1, <2>4 DEF TextInv, SecondInv
    <3>2. \A i \in 1..Len(original) : original[i] \in ToSet(original)
      BY <2>1
    <3> HIDE DEF set
    <3>3. Formatted(original, text, set)
      BY <2>1, <3>1, <3>2 DEF Formatted
    <3> QED BY <2>1, <3>3, FormattedKept DEF set
  <2>5. calls = <<"encrypt">> \/ calls = <<"decrypt">> \/ Len(calls) = 2
    BY <1>1 DEF TextInv
  <2> QED BY <2>2, <2>3, <2>4, <2>5
<1> QED
  BY <1>1, Invariance, PTL

\* Every text of the data set encrypts under every key.
THEOREM EncryptsAllHolds == Spec => []EncryptsAll
<1>1. ASSUME TextInv PROVE EncryptsAll
  <2> SUFFICES ASSUME calls = <<"encrypt">>,
                      ToSet(original) \subseteq ToSet(Input) \cup Passthrough,
                      Cardinality(Places(original, Input)) \in MinLength..MaxLength
               PROVE  ok
    BY DEF EncryptsAll
  <2>1. original \in Seq(ToSet(original)) /\ rotation \in Nat
    BY <1>1, TextsAndRotations DEF TextInv
  <2>2. PICK k \in Key : Returned(EncryptData(original, k, rotation))
    BY <1>1 DEF TextInv, FirstInv
  <2>3. Parse(original, Input, Output).ok
    <3>1. Len(Trimmed(original, Input)) = Cardinality(Places(original, Input))
      BY <2>1, TrimmedLaws
    <3> QED BY <3>1 DEF Parse, Decompose
  <2>4. EncryptData(original, k, rotation).ok
    BY <2>1, <2>3, EncryptDecrypt
  <2> QED BY <2>2, <2>4 DEF Returned
<1> QED
  BY <1>1, Invariance, PTL

=============================================================================
