------------------------- MODULE ProtoIngestProofs --------------------------
(***************************************************************************)
(* What is promised of a body of measurements and of what becomes of it,   *)
(* proved for words of any width, any schemas, batches and strings of      *)
(* bytes.  The parts, each on those before it:                             *)
(*                                                                         *)
(*   - induction, powers and widths, sequences of bytes;                   *)
(*   - the decoder: numbers, values, fields and messages, and that a       *)
(*     message is read in parts as in one (DecodeComposes);                *)
(*   - where decoding may fail at run time (RepeatedPanics);               *)
(*   - the round trip: a batch that is encoded is read as it was           *)
(*     (BatchRoundTrip);                                                   *)
(*   - the rounding of numbers, and the types of whatever is decoded;      *)
(*   - the invariant of a request (IngestInvariant), and the properties.   *)
(*                                                                         *)
(* The provers cannot unfold what is defined by recursion.  For every such *)
(* function there is a lemma that it exists and what its steps are         *)
(* (LittleEndianIs, DecodeIs, ...), from Iteration; the other lemmas go by *)
(* induction over the set of places up to which they hold (SetInduction).  *)
(***************************************************************************)
EXTENDS ProtoIngest, FiniteSetTheorems, SequenceTheorems, TLAPS

-----------------------------------------------------------------------------
(* Induction over sets of numbers                                          *)

\* A set of numbers that is not empty has a least element.
LEMMA LeastElement ==
  ASSUME NEW S, S \subseteq Nat, S # {}
  PROVE  \E m \in S : \A k \in S : m <= k
<1> DEFINE T == {0 .. n : n \in S}
<1>1. T \subseteq FiniteSubsetsOf(Nat)
  <2>1. ASSUME NEW n \in S PROVE (0 .. n) \in SUBSET Nat /\ IsFiniteSet(0 .. n)
    <3>1. 0 \in Int /\ n \in Int
      OBVIOUS
    <3> QED BY <3>1, FS_Interval
  <2> QED BY <2>1 DEF FiniteSubsetsOf
<1>2. T # {}
  OBVIOUS
<1>3. PICK x \in T : \A y \in T : ~ (<<y, x>> \in StrictSubsetOrdering(Nat))
  BY <1>1, <1>2, FS_StrictSubsetOrderingWellFounded, WFMin
<1>4. PICK m \in S : x = 0 .. m
  OBVIOUS
<1>5. ASSUME NEW k \in S PROVE m <= k
  <2> SUFFICES ASSUME k < m PROVE FALSE
    OBVIOUS
  <2>1. (0 .. k) \subseteq (0 .. m) /\ 0 .. k # 0 .. m
    <3>1. m \in 0 .. m /\ m \notin 0 .. k
      OBVIOUS
    <3> QED BY <3>1
  <2>2. <<0 .. k, x>> \in StrictSubsetOrdering(Nat)
    BY <2>1, <1>4 DEF StrictSubsetOrdering
  <2> QED BY <2>2, <1>3
<1> QED BY <1>5

\* A set of the numbers up to n that has 0, and with each number the next
\* one, has them all.
LEMMA SetInduction ==
  ASSUME NEW n \in Nat, NEW S, 0 \in S, \A i \in 0 .. n - 1 : i \in S => i + 1 \in S
  PROVE  0 .. n \subseteq S
<1> SUFFICES ASSUME (0 .. n) \ S # {} PROVE FALSE
  OBVIOUS
<1>1. PICK m \in (0 .. n) \ S : \A k \in (0 .. n) \ S : m <= k
  <2>1. (0 .. n) \ S \subseteq Nat
    OBVIOUS
  <2> QED BY <2>1, LeastElement
<1>2. m # 0 /\ m - 1 \in 0 .. n - 1
  OBVIOUS
<1>3. m - 1 \in S
  BY <1>1, <1>2
<1> QED BY <1>2, <1>3

\* The same from n downwards.
LEMMA DownwardSetInduction ==
  ASSUME NEW n \in Nat, NEW S, n \in S, \A i \in 0 .. n - 1 : i + 1 \in S => i \in S
  PROVE  0 .. n \subseteq S
<1> DEFINE T == {i \in 0 .. n : n - i \in S}
<1>1. 0 \in T
  OBVIOUS
<1>2. ASSUME NEW i \in 0 .. n - 1, i \in T PROVE i + 1 \in T
  <2>1. n - (i + 1) \in 0 .. n - 1 /\ n - (i + 1) + 1 \in S
    BY <1>2
  <2>2. n - (i + 1) \in S
    BY <2>1
  <2> QED BY <2>2
<1>3. 0 .. n \subseteq T
  <2> HIDE DEF T
  <2> QED BY <1>1, <1>2, SetInduction
<1>4. ASSUME NEW i \in 0 .. n PROVE i \in S
  <2>1. n - i \in T
    BY <1>3
  <2>2. n - (n - i) \in S
    BY <2>1
  <2> QED BY <2>2
<1> QED BY <1>4

\* The functions on 0 .. n that start with c and go on by the steps of F.
Steps(n, S) == [1 .. n -> [S -> S]]
Iterates(F, n, c, S) ==
    {g \in [0 .. n -> S] : g[0] = c /\ \A i \in 1 .. n : g[i] = F[i][g[i - 1]]}

\* What takes elements of S to elements of S can be repeated n times: a
\* recursive function whose steps are the elements of F exists.
LEMMA Iteration ==
  ASSUME NEW S, NEW c \in S, NEW n \in Nat, NEW F \in Steps(n, S)
  PROVE  Iterates(F, n, c, S) # {}
<1> USE DEF Steps
<1> DEFINE Upto(g, k) == g[0] = c /\ \A i \in 1 .. k : g[i] = F[i][g[i - 1]]
           T == {k \in 0 .. n : \E g \in [0 .. n -> S] : Upto(g, k)}
<1>1. 0 \in T
  <2>1. [i \in 0 .. n |-> c] \in [0 .. n -> S]
    OBVIOUS
  <2>2. Upto([i \in 0 .. n |-> c], 0)
    OBVIOUS
  <2> SUFFICES \E g \in [0 .. n -> S] : Upto(g, 0)
    OBVIOUS
  <2> HIDE DEF Upto
  <2> QED BY <2>1, <2>2
<1>2. ASSUME NEW k \in 0 .. n - 1, k \in T PROVE k + 1 \in T
  <2>1. PICK g \in [0 .. n -> S] : Upto(g, k)
    BY <1>2
  <2> DEFINE h == [i \in 0 .. n |-> IF i = k + 1 THEN F[k + 1][g[k]] ELSE g[i]]
  <2>2. h \in [0 .. n -> S]
    <3>1. F[k + 1][g[k]] \in S
      OBVIOUS
    <3> QED BY <3>1
  <2>3. h[0] = c
    BY <2>1
  <2>4. ASSUME NEW i \in 1 .. k + 1
        PROVE  h[i] = F[i][h[i - 1]]
    <3>1. CASE i = k + 1
      <4>1. h[i] = F[k + 1][g[k]] /\ h[i - 1] = g[k]
        BY <3>1
      <4> QED BY <3>1, <4>1
    <3>2. CASE i # k + 1
      <4>1. i \in 1 .. k /\ h[i] = g[i] /\ h[i - 1] = g[i - 1]
        BY <3>2
      <4> QED BY <2>1, <4>1
    <3> QED BY <3>1, <3>2
  <2> HIDE DEF h
  <2>5. Upto(h, k + 1)
    BY <2>3, <2>4
  <2>6. k + 1 \in 0 .. n
    OBVIOUS
  <2> HIDE DEF Upto
  <2> QED BY <2>2, <2>5, <2>6
<1>3. n \in T
  <2> HIDE DEF T
  <2>1. 0 .. n \subseteq T
    BY <1>1, <1>2, SetInduction
  <2> QED BY <2>1
<1> QED BY <1>3 DEF Iterates

-----------------------------------------------------------------------------
(* Powers and widths                                                       *)

\* The equations of Power.
LEMMA PowerIs ==
  ASSUME NEW n \in Nat
  PROVE  \E p \in [0 .. n -> Nat] :
            /\ Power(n) = p[n]
            /\ p[0] = 1
            /\ \A i \in 1 .. n : p[i] = 2 * p[i - 1]
<1> DEFINE Def(g) == [i \in 0 .. n |-> IF i = 0 THEN 1 ELSE 2 * g[i - 1]]
           p == CHOOSE g : g = Def(g)
           F == [i \in 1 .. n |-> [v \in Nat |-> 2 * v]]
<1>1. PICK g \in [0 .. n -> Nat] : g[0] = 1 /\ \A i \in 1 .. n : g[i] = F[i][g[i - 1]]
  <2>1. F \in Steps(n, Nat)
    BY DEF Steps
  <2> HIDE DEF F
  <2>2. Iterates(F, n, 1, Nat) # {}
    BY <2>1, Iteration
  <2> QED BY <2>2 DEF Iterates
<1>2. g = Def(g)
  <2>1. ASSUME NEW i \in 0 .. n PROVE g[i] = IF i = 0 THEN 1 ELSE 2 * g[i - 1]
    <3>1. CASE i = 0
      BY <1>1, <3>1
    <3>2. CASE i # 0
      <4>1. g[i - 1] \in Nat /\ i \in 1 .. n
        BY <3>2
      <4>2. g[i] = 2 * g[i - 1]
        BY <1>1, <4>1
      <4> QED BY <4>2, <3>2
    <3> QED BY <3>1, <3>2
  <2>2. g = [i \in 0 .. n |-> g[i]]
    OBVIOUS
  <2> QED BY <2>1, <2>2
<1>3. p = Def(p)
  <2> HIDE DEF Def
  <2> QED BY <1>2
<1>4. Power(n) = p[n]
  BY DEF Power
<1> HIDE DEF p
<1>5. p[0] = 1 /\ \A i \in 1 .. n : p[i] = 2 * p[i - 1]
  BY <1>3
<1>6. DOMAIN p = 0 .. n /\ p = [i \in 0 .. n |-> p[i]]
  BY <1>3
<1>7. \A i \in 0 .. n : p[i] \in Nat
  <2> DEFINE T == {i \in 0 .. n : p[i] \in Nat}
  <2>1. 0 \in T
    BY <1>5
  <2>2. ASSUME NEW i \in 0 .. n - 1, i \in T PROVE i + 1 \in T
    <3>1. i + 1 \in 1 .. n /\ p[i + 1] = 2 * p[i + 1 - 1] /\ i + 1 - 1 = i
      BY <1>5
    <3> QED BY <3>1, <2>2
  <2> HIDE DEF T
  <2>3. 0 .. n \subseteq T
    BY <2>1, <2>2, SetInduction
  <2> QED BY <2>3 DEF T
<1> QED BY <1>4, <1>5, <1>6, <1>7

\* The powers of two, as far as widths need them.
LEMMA PowerZero == Power(0) = 1
BY PowerIs

LEMMA PowerNext ==
  ASSUME NEW n \in Nat
  PROVE  Power(n + 1) = 2 * Power(n)
<1>1. PICK p \in [0 .. n -> Nat] :
         Power(n) = p[n] /\ p[0] = 1 /\ \A i \in 1 .. n : p[i] = 2 * p[i - 1]
  BY PowerIs
<1>2. PICK q \in [0 .. n + 1 -> Nat] :
         Power(n + 1) = q[n + 1] /\ q[0] = 1 /\ \A i \in 1 .. n + 1 : q[i] = 2 * q[i - 1]
  <2> DEFINE m == n + 1
  <2>1. m \in Nat
    OBVIOUS
  <2> HIDE DEF m
  <2>2. \E q \in [0 .. m -> Nat] :
           Power(m) = q[m] /\ q[0] = 1 /\ \A i \in 1 .. m : q[i] = 2 * q[i - 1]
    BY <2>1, PowerIs
  <2> QED BY <2>2 DEF m
<1>3. 0 .. n \subseteq {i \in 0 .. n : p[i] = q[i]}
  <2> DEFINE T == {i \in 0 .. n : p[i] = q[i]}
  <2>1. 0 \in T
    BY <1>1, <1>2
  <2>2. ASSUME NEW i \in 0 .. n - 1, i \in T PROVE i + 1 \in T
    <3>1. i + 1 \in 1 .. n /\ p[i + 1] = 2 * p[i + 1 - 1] /\ q[i + 1] = 2 * q[i + 1 - 1]
      BY <1>1, <1>2
    <3> QED BY <3>1, <2>2
  <2> HIDE DEF T
  <2> QED BY <2>1, <2>2, SetInduction DEF T
<1>4. p[n] = q[n] /\ q[n + 1] = 2 * q[n + 1 - 1] /\ n + 1 - 1 = n
  BY <1>2, <1>3
<1> QED BY <1>1, <1>2, <1>4

LEMMA PowerType ==
  ASSUME NEW n \in Nat
  PROVE  Power(n) \in Nat /\ Power(n) >= 1
<1> DEFINE T == {i \in 0 .. n : Power(i) \in Nat /\ Power(i) >= 1}
<1>1. 0 \in T
  BY PowerZero
<1>2. ASSUME NEW i \in 0 .. n - 1, i \in T PROVE i + 1 \in T
  BY <1>2, PowerNext
<1>3. 0 .. n \subseteq T
  <2> HIDE DEF T
  <2> QED BY <1>1, <1>2, SetInduction
<1> QED BY <1>3

LEMMA PowerSum ==
  ASSUME NEW a \in Nat, NEW b \in Nat
  PROVE  Power(a + b) = Power(a) * Power(b)
<1> DEFINE T == {i \in 0 .. b : Power(a + i) = Power(a) * Power(i)}
<1>1. 0 \in T
  <2>1. Power(a) \in Nat /\ a + 0 = a
    BY PowerType
  <2> QED BY <2>1, PowerZero
<1>2. ASSUME NEW i \in 0 .. b - 1, i \in T PROVE i + 1 \in T
  <2>1. Power(a) \in Nat /\ Power(i) \in Nat
    BY PowerType
  <2>2. Power(a + (i + 1)) = 2 * Power(a + i) /\ Power(i + 1) = 2 * Power(i)
    <3>1. a + (i + 1) = (a + i) + 1 /\ a + i \in Nat
      OBVIOUS
    <3> QED BY <3>1, PowerNext
  <2>3. Power(a + i) = Power(a) * Power(i)
    BY <1>2
  <2>4. 2 * (Power(a) * Power(i)) = Power(a) * (2 * Power(i))
    BY <2>1
  <2> QED BY <2>2, <2>3, <2>4
<1>3. 0 .. b \subseteq T
  <2> HIDE DEF T
  <2> QED BY <1>1, <1>2, SetInduction
<1> QED BY <1>3

LEMMA PowerMonotone ==
  ASSUME NEW a \in Nat, NEW b \in Nat, a <= b
  PROVE  Power(a) <= Power(b)
<1>1. Power(a) \in Nat /\ Power(b - a) \in Nat /\ Power(b - a) >= 1
  BY PowerType
<1>2. Power(b) = Power(a) * Power(b - a)
  <2>1. b - a \in Nat /\ a + (b - a) = b
    OBVIOUS
  <2> QED BY <2>1, PowerSum
<1> QED BY <1>1, <1>2

\* What the assumption on the widths gives: bytes fill words and halves
\* exactly, and a byte holds the number and the type of a small field.
LEMMA Widths ==
  /\ Word \in Nat /\ Word >= 2 /\ Word % 2 = 0
  /\ Half \in Nat /\ Half >= 1
  /\ More \in Nat /\ More >= 8 /\ More % 8 = 0
  /\ MaxVarint \in Nat /\ MaxVarint >= 1
  /\ Fixed64Bytes \in Nat /\ Fixed64Bytes >= 2
  /\ Fixed32Bytes \in Nat /\ Fixed32Bytes >= 1
  /\ Fixed64Bytes = 2 * Fixed32Bytes
  /\ WordBits = (GroupBits + 1) * Fixed64Bytes
  /\ WordBits \div 2 = (GroupBits + 1) * Fixed32Bytes
<1> USE WidthAssumption
<1>1. Word = 2 * Power(WordBits - 1) /\ Power(WordBits - 1) \in Nat /\ Power(WordBits - 1) >= 1
  <2>1. WordBits - 1 \in Nat /\ (WordBits - 1) + 1 = WordBits
    OBVIOUS
  <2> QED BY <2>1, PowerNext, PowerType DEF Word
<1>2. WordBits \div 2 \in Nat
  OBVIOUS
<1>3. Half \in Nat /\ Half >= 1
  BY <1>2, PowerType DEF Half
<1>4. More \in Nat /\ More >= 8 /\ More % 8 = 0
  <2>1. GroupBits = 3 + (GroupBits - 3) /\ GroupBits - 3 \in Nat
    OBVIOUS
  <2>2. Power(3) = 8
    <3>1. Power(1) = 2
      BY PowerZero, PowerNext
    <3>2. Power(2) = 4
      BY <3>1, PowerNext
    <3> QED BY <3>2, PowerNext
  <2>3. More = 8 * Power(GroupBits - 3)
    BY <2>1, <2>2, PowerSum DEF More
  <2>4. Power(GroupBits - 3) \in Nat /\ Power(GroupBits - 3) >= 1
    BY <2>1, PowerType
  <2> QED BY <2>3, <2>4
<1>5. MaxVarint \in Nat /\ MaxVarint >= 1
  BY DEF MaxVarint
<1>6. PICK q \in Nat \ {0} : WordBits = (2 * (GroupBits + 1)) * q
  <2> DEFINE u == 2 * (GroupBits + 1)
  <2>1. u \in Nat \ {0}
    OBVIOUS
  <2>2. WordBits = u * (WordBits \div u) + (WordBits % u)
    <3> HIDE DEF u
    <3> QED BY <2>1
  <2>3. WordBits = u * (WordBits \div u)
    BY <2>2
  <2>4. WordBits \div u \in Nat \ {0}
    <3> HIDE DEF u
    <3> QED BY <2>1, <2>3
  <2> QED BY <2>3, <2>4
<1>7. WordBits = (GroupBits + 1) * (2 * q) /\ WordBits = 2 * ((GroupBits + 1) * q)
  BY <1>6
<1>8. Fixed64Bytes = 2 * q
  BY <1>7 DEF Fixed64Bytes
<1>9. Fixed32Bytes = q
  BY <1>8 DEF Fixed32Bytes
<1>10. WordBits \div 2 = (GroupBits + 1) * q
  BY <1>7
<1>11. Word \in Nat /\ Word >= 2 /\ Word % 2 = 0
  BY <1>1
<1> QED BY <1>11, <1>3, <1>4, <1>5, <1>7, <1>8, <1>9, <1>10

-----------------------------------------------------------------------------
(* Sequences                                                               *)

\* The least element of SequencesExt is one.
LEMMA MinIs ==
  ASSUME NEW S, S \subseteq Nat, S # {}
  PROVE  Min(S) \in S /\ \A y \in S : Min(S) <= y
BY LeastElement DEF Min

\* What is left of a sequence behind n elements.
LEMMA DropIs ==
  ASSUME NEW S, NEW s \in Seq(S), NEW n \in 0 .. Len(s)
  PROVE  /\ Drop(s, n) \in Seq(S)
         /\ Len(Drop(s, n)) = Len(s) - n
         /\ \A i \in 1 .. Len(s) - n : Drop(s, n)[i] = s[n + i]
<1>1. n + 1 \in 1 .. Len(s) + 1 /\ Len(s) \in n + 1 - 1 .. Len(s) /\ n + 1 - 1 = n
  OBVIOUS
<1>2. Len(Drop(s, n)) = Len(s) - n
  BY <1>1 DEF Drop
<1>3. ASSUME NEW i \in 1 .. Len(s) - n PROVE Drop(s, n)[i] = s[n + i]
  BY <1>1 DEF Drop
<1>4. Drop(s, n) \in Seq(S)
  BY <1>1 DEF Drop
<1> QED BY <1>2, <1>3, <1>4

\* The first n elements of a sequence.
LEMMA TakeIs ==
  ASSUME NEW S, NEW s \in Seq(S), NEW n \in 0 .. Len(s)
  PROVE  /\ Take(s, n) \in Seq(S)
         /\ Len(Take(s, n)) = n
         /\ \A i \in 1 .. n : Take(s, n)[i] = s[i]
BY DEF Take

\* A prefix of a sequence.
Begins(s, t) == Len(s) <= Len(t) /\ \A i \in 1 .. Len(s) : s[i] = t[i]

LEMMA TakeBegins ==
  ASSUME NEW S, NEW s \in Seq(S), NEW n \in 0 .. Len(s)
  PROVE  Begins(Take(s, n), s)
BY TakeIs DEF Begins

\* Dropping elements of a sequence drops those of what it begins.
LEMMA DropBegins ==
  ASSUME NEW S, NEW s \in Seq(S), NEW t \in Seq(S), Begins(s, t), NEW n \in 0 .. Len(s)
  PROVE  Begins(Drop(s, n), Drop(t, n))
<1>1. n \in 0 .. Len(t) /\ Len(s) <= Len(t)
  BY DEF Begins
<1>2. Len(Drop(s, n)) <= Len(Drop(t, n))
  BY <1>1, DropIs
<1>3. ASSUME NEW i \in 1 .. Len(Drop(s, n)) PROVE Drop(s, n)[i] = Drop(t, n)[i]
  <2>1. i \in 1 .. Len(s) - n /\ i \in 1 .. Len(t) - n
    BY <1>1, DropIs
  <2>2. Drop(s, n)[i] = s[n + i] /\ Drop(t, n)[i] = t[n + i]
    BY <1>1, <2>1, DropIs
  <2>3. n + i \in 1 .. Len(s)
    BY <2>1
  <2> QED BY <2>2, <2>3 DEF Begins
<1> QED BY <1>2, <1>3 DEF Begins

\* Dropping twice is dropping once.
LEMMA DropDrop ==
  ASSUME NEW S, NEW s \in Seq(S), NEW m \in Nat, NEW n \in Nat, m + n <= Len(s)
  PROVE  Drop(Drop(s, m), n) = Drop(s, m + n)
<1>1. m \in 0 .. Len(s) /\ m + n \in 0 .. Len(s) /\ n \in 0 .. Len(s) - m
  OBVIOUS
<1>2. Drop(s, m) \in Seq(S) /\ Len(Drop(s, m)) = Len(s) - m
  BY <1>1, DropIs
<1>3. /\ Drop(Drop(s, m), n) \in Seq(S)
      /\ Len(Drop(Drop(s, m), n)) = Len(s) - m - n
      /\ \A i \in 1 .. Len(s) - m - n : Drop(Drop(s, m), n)[i] = Drop(s, m)[n + i]
  BY <1>1, <1>2, DropIs
<1>4. /\ Drop(s, m + n) \in Seq(S)
      /\ Len(Drop(s, m + n)) = Len(s) - (m + n)
      /\ \A i \in 1 .. Len(s) - (m + n) : Drop(s, m + n)[i] = s[m + n + i]
  BY <1>1, DropIs
<1>5. ASSUME NEW i \in 1 .. Len(s) - m - n
      PROVE  Drop(Drop(s, m), n)[i] = Drop(s, m + n)[i]
  <2>1. n + i \in 1 .. Len(s) - m
    BY <1>1
  <2>2. Drop(s, m)[n + i] = s[m + (n + i)]
    BY <1>1, <2>1, DropIs
  <2>3. m + (n + i) = m + n + i /\ i \in 1 .. Len(s) - (m + n)
    OBVIOUS
  <2> QED BY <1>3, <1>4, <2>2, <2>3
<1>6. Len(Drop(Drop(s, m), n)) = Len(Drop(s, m + n))
  <2>1. Len(s) \in Nat /\ Len(s) - m - n = Len(s) - (m + n)
    OBVIOUS
  <2> QED BY <1>3, <1>4, <2>1
<1> QED BY <1>3, <1>4, <1>5, <1>6, SeqEqual

-----------------------------------------------------------------------------
(* Numbers                                                                 *)

LEMMA ByteIs == Byte = 0 .. 2 * More - 1 /\ \A b \in Byte : b \in Nat
BY Widths DEF Byte

Ends(data) == {n \in 1 .. Len(data) : n <= MaxVarint /\ data[n] < More}

\* A varint ends at the first byte without the continuation bit, if that is
\* within MaxVarint bytes (decoder.go:206-220).
LEMMA VarintLenIs ==
  ASSUME NEW data \in Seq(Byte)
  PROVE  IF Ends(data) = {} THEN VarintLen(data) = 0
         ELSE /\ VarintLen(data) \in Ends(data)
              /\ \A n \in Ends(data) : VarintLen(data) <= n
<1>1. VarintLen(data) = IF Ends(data) = {} THEN 0 ELSE Min(Ends(data))
  BY DEF VarintLen, Ends
<1>2. Ends(data) \subseteq Nat
  BY DEF Ends
<1> QED BY <1>1, <1>2, MinIs

\* Its length is within the data.
LEMMA VarintLenType ==
  ASSUME NEW data \in Seq(Byte)
  PROVE  VarintLen(data) \in 0 .. Len(data) /\ VarintLen(data) <= MaxVarint
BY VarintLenIs, Widths DEF Ends

\* Bytes behind the end of a varint do not matter.
LEMMA VarintLenBegins ==
  ASSUME NEW data \in Seq(Byte), NEW whole \in Seq(Byte), Begins(data, whole),
         VarintLen(data) # 0
  PROVE  VarintLen(whole) = VarintLen(data)
<1> DEFINE n == VarintLen(data)
<1>1. n \in Ends(data) /\ \A k \in Ends(data) : n <= k
  BY VarintLenIs
<1>2. n \in Ends(whole)
  BY <1>1 DEF Ends, Begins
<1>3. ASSUME NEW k \in Ends(whole) PROVE n <= k
  <2> SUFFICES ASSUME k < n PROVE FALSE
    BY <1>1 DEF Ends
  <2>1. k \in Ends(data)
    BY <1>1 DEF Ends, Begins
  <2> QED BY <2>1, <1>1 DEF Ends
<1>4. VarintLen(whole) \in Ends(whole) /\ VarintLen(whole) <= n
  BY <1>2, VarintLenIs
<1>5. n <= VarintLen(whole)
  BY <1>3, <1>4
<1>6. n \in Nat /\ VarintLen(whole) \in Nat
  BY <1>1, <1>4 DEF Ends
<1> HIDE DEF n
<1>7. n = VarintLen(whole)
  BY <1>4, <1>5, <1>6
<1> QED BY <1>7 DEF n

\* The digits of a varint, added up.
VarintStep(data, u, i) ==
    (u + (data[i] % More) * Power(GroupBits * (i - 1))) % Word

LEMMA VarintStepType ==
  ASSUME NEW data \in Seq(Byte), NEW i \in 1 .. Len(data), NEW u \in Nat
  PROVE  VarintStep(data, u, i) \in 0 .. Word - 1
<1>1. data[i] \in Nat /\ data[i] % More \in Nat
  BY ByteIs, Widths
<1>2. Power(GroupBits * (i - 1)) \in Nat
  <2>1. GroupBits * (i - 1) \in Nat
    BY WidthAssumption
  <2> QED BY <2>1, PowerType
<1>3. (data[i] % More) * Power(GroupBits * (i - 1)) \in Nat
  BY <1>1, <1>2
<1>4. u + (data[i] % More) * Power(GroupBits * (i - 1)) \in Nat
  BY <1>3
<1> QED BY <1>4, Widths DEF VarintStep

\* VarintValue adds up the groups from the first one on.
LEMMA VarintValueIs ==
  ASSUME NEW data \in Seq(Byte), NEW n \in 0 .. Len(data)
  PROVE  \E u \in [0 .. n -> 0 .. Word - 1] :
           /\ VarintValue(data, n) = u[n]
           /\ u[0] = 0
           /\ \A i \in 1 .. n : u[i] = VarintStep(data, u[i - 1], i)
<1> DEFINE V == 0 .. Word - 1
           Def(g) == [i \in 0 .. n |-> IF i = 0 THEN 0 ELSE VarintStep(data, g[i - 1], i)]
           u == CHOOSE g : g = Def(g)
           F == [i \in 1 .. n |-> [v \in V |-> VarintStep(data, v, i)]]
<1>0. n \in Nat /\ V \subseteq Nat /\ 0 \in V
  BY Widths
<1>1. PICK g \in [0 .. n -> V] : g[0] = 0 /\ \A i \in 1 .. n : g[i] = F[i][g[i - 1]]
  <2>1. ASSUME NEW i \in 1 .. n, NEW v \in V PROVE VarintStep(data, v, i) \in V
    <3>1. i \in 1 .. Len(data) /\ v \in Nat
      BY <1>0
    <3> QED BY <3>1, VarintStepType
  <2>2. F \in Steps(n, V)
    BY <2>1 DEF Steps
  <2> HIDE DEF F, V
  <2>3. Iterates(F, n, 0, V) # {}
    BY <1>0, <2>2, Iteration
  <2> QED BY <2>3 DEF Iterates
<1>2. g = Def(g)
  <2>1. ASSUME NEW i \in 0 .. n
        PROVE  g[i] = IF i = 0 THEN 0 ELSE VarintStep(data, g[i - 1], i)
    <3>1. CASE i = 0
      BY <1>1, <3>1
    <3>2. CASE i # 0
      <4>1. g[i - 1] \in V /\ i \in 1 .. n
        BY <3>2, <1>1
      <4>2. g[i] = VarintStep(data, g[i - 1], i)
        BY <1>1, <4>1
      <4> QED BY <4>2, <3>2
    <3> QED BY <3>1, <3>2
  <2>2. g = [i \in 0 .. n |-> g[i]]
    BY <1>1
  <2> QED BY <2>1, <2>2
<1>3. u = Def(u)
  <2> HIDE DEF Def
  <2> QED BY <1>2
<1>4. VarintValue(data, n) = u[n]
  BY DEF VarintValue, VarintStep
<1> HIDE DEF u
<1>5. u[0] = 0 /\ \A i \in 1 .. n : u[i] = VarintStep(data, u[i - 1], i)
  BY <1>3
<1>6. DOMAIN u = 0 .. n /\ u = [i \in 0 .. n |-> u[i]]
  BY <1>3
<1>7. \A i \in 0 .. n : u[i] \in V
  <2> DEFINE T == {i \in 0 .. n : u[i] \in V}
  <2>1. 0 \in T
    BY <1>5, <1>0
  <2>2. ASSUME NEW i \in 0 .. n - 1, i \in T PROVE i + 1 \in T
    <3>1. i + 1 \in 1 .. Len(data) /\ u[i] \in Nat
      BY <2>2, <1>0
    <3>2. i + 1 \in 1 .. n /\ u[i + 1] = VarintStep(data, u[i + 1 - 1], i + 1) /\ i + 1 - 1 = i
      BY <1>5
    <3>3. VarintStep(data, u[i], i + 1) \in V
      BY <3>1, VarintStepType
    <3> QED BY <3>2, <3>3
  <2> HIDE DEF T
  <2>3. 0 .. n \subseteq T
    BY <2>1, <2>2, <1>0, SetInduction
  <2> QED BY <2>3 DEF T
<1> QED BY <1>4, <1>5, <1>6, <1>7

\* Bytes behind those of the number do not matter.
LEMMA VarintValueBegins ==
  ASSUME NEW data \in Seq(Byte), NEW whole \in Seq(Byte), Begins(data, whole),
         NEW n \in 0 .. Len(data)
  PROVE  VarintValue(whole, n) = VarintValue(data, n)
<1>0. n \in 0 .. Len(whole) /\ n \in Nat
  BY DEF Begins
<1>1. PICK u \in [0 .. n -> 0 .. Word - 1] :
           /\ VarintValue(data, n) = u[n]
           /\ u[0] = 0
           /\ \A i \in 1 .. n : u[i] = VarintStep(data, u[i - 1], i)
  BY VarintValueIs
<1>2. PICK w \in [0 .. n -> 0 .. Word - 1] :
           /\ VarintValue(whole, n) = w[n]
           /\ w[0] = 0
           /\ \A i \in 1 .. n : w[i] = VarintStep(whole, w[i - 1], i)
  BY <1>0, VarintValueIs
<1> DEFINE T == {i \in 0 .. n : u[i] = w[i]}
<1>3. 0 \in T
  BY <1>1, <1>2
<1>4. ASSUME NEW i \in 0 .. n - 1, i \in T PROVE i + 1 \in T
  <2>1. data[i + 1] = whole[i + 1]
    BY DEF Begins
  <2>2. VarintStep(data, u[i], i + 1) = VarintStep(whole, w[i], i + 1)
    BY <2>1, <1>4 DEF VarintStep
  <2>3. i + 1 \in 1 .. n /\ i + 1 - 1 = i
    OBVIOUS
  <2> QED BY <1>1, <1>2, <2>2, <2>3
<1> HIDE DEF T
<1>5. 0 .. n \subseteq T
  BY <1>0, <1>3, <1>4, SetInduction
<1> QED BY <1>1, <1>2, <1>5 DEF T

\* A varint is read as a word and a length.
LEMMA DecodeVarintType ==
  ASSUME NEW data \in Seq(Byte)
  PROVE  /\ decodeVarint(data).size = VarintLen(data)
         /\ decodeVarint(data).value \in 0 .. Word - 1
         /\ decodeVarint(data).size = 0 => decodeVarint(data).value = 0
<1>1. VarintLen(data) \in 0 .. Len(data)
  BY VarintLenType
<1>2. ASSUME NEW n \in 0 .. Len(data) PROVE VarintValue(data, n) \in 0 .. Word - 1
  <2>1. PICK u \in [0 .. n -> 0 .. Word - 1] : VarintValue(data, n) = u[n]
    BY VarintValueIs
  <2>2. n \in 0 .. n
    OBVIOUS
  <2> QED BY <2>1, <2>2
<1>3. VarintValue(data, 0) = 0
  BY VarintValueIs
<1> QED BY <1>1, <1>2, <1>3 DEF decodeVarint, SizedVarint

\* A varint at the start of the data is read the same in longer data.
LEMMA DecodeVarintBegins ==
  ASSUME NEW data \in Seq(Byte), NEW whole \in Seq(Byte), Begins(data, whole),
         VarintLen(data) # 0
  PROVE  decodeVarint(whole) = decodeVarint(data)
<1>1. VarintLen(data) \in 0 .. Len(data) /\ VarintLen(whole) = VarintLen(data)
  BY VarintLenType, VarintLenBegins
<1>2. VarintValue(whole, VarintLen(data)) = VarintValue(data, VarintLen(data))
  BY <1>1, VarintValueBegins
<1> QED BY <1>1, <1>2 DEF decodeVarint, SizedVarint

\* The digits of a fixed number, added up.
FixedStep(data, u, i) == u + data[i] * Power((GroupBits + 1) * (i - 1))

\* A digit more is a number.
LEMMA FixedStepType ==
  ASSUME NEW data \in Seq(Byte), NEW i \in 1 .. Len(data), NEW u \in Nat
  PROVE  FixedStep(data, u, i) \in Nat
<1>1. data[i] \in Nat
  <2>1. data[i] \in Byte
    OBVIOUS
  <2> QED BY <2>1, ByteIs
<1>2. Power((GroupBits + 1) * (i - 1)) \in Nat
  <2>1. (GroupBits + 1) * (i - 1) \in Nat
    BY WidthAssumption
  <2> QED BY <2>1, PowerType
<1>3. data[i] * Power((GroupBits + 1) * (i - 1)) \in Nat
  BY <1>1, <1>2
<1> QED BY <1>3 DEF FixedStep

\* LittleEndian adds up the bytes from the first one on.
LEMMA LittleEndianIs ==
  ASSUME NEW data \in Seq(Byte), NEW n \in 0 .. Len(data)
  PROVE  \E u \in [0 .. n -> Nat] :
           /\ LittleEndian(data, n) = u[n]
           /\ u[0] = 0
           /\ \A i \in 1 .. n : u[i] = FixedStep(data, u[i - 1], i)
<1> DEFINE Def(g) == [i \in 0 .. n |-> IF i = 0 THEN 0 ELSE FixedStep(data, g[i - 1], i)]
           u == CHOOSE g : g = Def(g)
           F == [i \in 1 .. n |-> [v \in Nat |-> FixedStep(data, v, i)]]
<1>0. n \in Nat
  OBVIOUS
<1>1. PICK g \in [0 .. n -> Nat] : g[0] = 0 /\ \A i \in 1 .. n : g[i] = F[i][g[i - 1]]
  <2>1. ASSUME NEW i \in 1 .. n, NEW v \in Nat PROVE FixedStep(data, v, i) \in Nat
    <3>1. i \in 1 .. Len(data)
      BY <1>0
    <3> QED BY <3>1, FixedStepType
  <2>2. F \in Steps(n, Nat)
    BY <2>1 DEF Steps
  <2> HIDE DEF F
  <2>3. Iterates(F, n, 0, Nat) # {}
    BY <1>0, <2>2, Iteration
  <2> QED BY <2>3 DEF Iterates
<1>2. g = Def(g)
  <2>1. ASSUME NEW i \in 0 .. n
        PROVE  g[i] = IF i = 0 THEN 0 ELSE FixedStep(data, g[i - 1], i)
    <3>1. CASE i = 0
      BY <1>1, <3>1
    <3>2. CASE i # 0
      <4>1. g[i - 1] \in Nat /\ i \in 1 .. n
        BY <3>2, <1>1
      <4>2. g[i] = FixedStep(data, g[i - 1], i)
        BY <1>1, <4>1
      <4> QED BY <4>2, <3>2
    <3> QED BY <3>1, <3>2
  <2>2. g = [i \in 0 .. n |-> g[i]]
    BY <1>1
  <2> QED BY <2>1, <2>2
<1>3. u = Def(u)
  <2> HIDE DEF Def
  <2> QED BY <1>2
<1>4. LittleEndian(data, n) = u[n]
  BY DEF LittleEndian, FixedStep
<1> HIDE DEF u
<1>5. u[0] = 0 /\ \A i \in 1 .. n : u[i] = FixedStep(data, u[i - 1], i)
  BY <1>3
<1>6. DOMAIN u = 0 .. n /\ u = [i \in 0 .. n |-> u[i]]
  BY <1>3
<1>7. \A i \in 0 .. n : u[i] \in Nat
  <2> DEFINE T == {i \in 0 .. n : u[i] \in Nat}
  <2>1. 0 \in T
    BY <1>5, <1>0
  <2>2. ASSUME NEW i \in 0 .. n - 1, i \in T PROVE i + 1 \in T
    <3>1. i + 1 \in 1 .. Len(data) /\ u[i] \in Nat
      BY <2>2, <1>0
    <3>2. i + 1 \in 1 .. n /\ u[i + 1] = FixedStep(data, u[i + 1 - 1], i + 1) /\ i + 1 - 1 = i
      BY <1>5
    <3>3. FixedStep(data, u[i], i + 1) \in Nat
      BY <3>1, FixedStepType
    <3> QED BY <3>2, <3>3
  <2> HIDE DEF T
  <2>3. 0 .. n \subseteq T
    BY <2>1, <2>2, <1>0, SetInduction
  <2> QED BY <2>3 DEF T
<1> QED BY <1>4, <1>5, <1>6, <1>7

\* Bytes behind those of the number do not matter.
LEMMA LittleEndianBegins ==
  ASSUME NEW data \in Seq(Byte), NEW whole \in Seq(Byte), Begins(data, whole),
         NEW n \in 0 .. Len(data)
  PROVE  /\ LittleEndian(whole, n) = LittleEndian(data, n)
         /\ LittleEndian(data, n) \in Nat
<1>0. n \in 0 .. Len(whole) /\ n \in Nat
  BY DEF Begins
<1>1. PICK u \in [0 .. n -> Nat] :
           /\ LittleEndian(data, n) = u[n]
           /\ u[0] = 0
           /\ \A i \in 1 .. n : u[i] = FixedStep(data, u[i - 1], i)
  BY LittleEndianIs
<1>2. PICK w \in [0 .. n -> Nat] :
           /\ LittleEndian(whole, n) = w[n]
           /\ w[0] = 0
           /\ \A i \in 1 .. n : w[i] = FixedStep(whole, w[i - 1], i)
  BY <1>0, LittleEndianIs
<1> DEFINE T == {i \in 0 .. n : u[i] = w[i]}
<1>3. 0 \in T
  BY <1>1, <1>2
<1>4. ASSUME NEW i \in 0 .. n - 1, i \in T PROVE i + 1 \in T
  <2>1. data[i + 1] = whole[i + 1]
    BY DEF Begins
  <2>2. FixedStep(data, u[i], i + 1) = FixedStep(whole, w[i], i + 1)
    BY <2>1, <1>4 DEF FixedStep
  <2>3. i + 1 \in 1 .. n /\ i + 1 - 1 = i
    OBVIOUS
  <2> QED BY <1>1, <1>2, <2>2, <2>3
<1> HIDE DEF T
<1>5. 0 .. n \subseteq T
  BY <1>0, <1>3, <1>4, SetInduction
<1>6. n \in T
  BY <1>0, <1>5
<1> QED BY <1>0, <1>1, <1>2, <1>6 DEF T

\* A product with one more factor.
LEMMA OneMore ==
  ASSUME NEW a \in Nat, NEW b \in Nat
  PROVE  a * (b + 1) = a * b + a /\ a * b \in Nat
OBVIOUS

\* n bytes hold less than 2 to the power of their bits.
LEMMA LittleEndianBound ==
  ASSUME NEW data \in Seq(Byte), NEW n \in 0 .. Len(data)
  PROVE  LittleEndian(data, n) \in 0 .. Power((GroupBits + 1) * n) - 1
<1> DEFINE w == GroupBits + 1
           P(i) == Power(w * i)
<1>0. w \in Nat /\ n \in Nat /\ w = GroupBits + 1
  BY WidthAssumption
<1>1. PICK u \in [0 .. n -> Nat] :
           /\ LittleEndian(data, n) = u[n]
           /\ u[0] = 0
           /\ \A i \in 1 .. n : u[i] = FixedStep(data, u[i - 1], i)
  BY LittleEndianIs
<1>2. Power(w) \in Nat /\ 2 * More = Power(w)
  BY <1>0, WidthAssumption, PowerNext, PowerType DEF More
<1> DEFINE T == {i \in 0 .. n : u[i] \in 0 .. P(i) - 1}
<1> HIDE DEF w
<1>3. 0 \in T
  <2>1. w * 0 = 0
    BY <1>0
  <2>2. P(0) = 1
    BY <2>1, PowerZero
  <2> QED BY <1>0, <1>1, <2>2
<1>4. ASSUME NEW i \in 0 .. n - 1, i \in T PROVE i + 1 \in T
  <2> DEFINE j == i + 1
             d == data[j]
             below == P(i)
             e == w * i
  <2>1. j \in 1 .. n /\ j - 1 = i /\ j \in 1 .. Len(data) /\ j \in Nat /\ i \in Nat
    BY <1>0
  <2>2. e \in Nat /\ w * j = e + w /\ below = Power(e)
    <3>1. w * (i + 1) = (w * i) + w /\ w * i \in Nat
      BY <1>0, <2>1, OneMore
    <3>2. below = Power(e)
      OBVIOUS
    <3> QED BY <3>1, <3>2
  <2>3. below \in Nat /\ Power(w * j) = below * Power(w)
    <3> HIDE DEF e, j
    <3> QED BY <1>0, <2>2, PowerSum, PowerType
  <2>4. d \in 0 .. Power(w) - 1
    <3>1. d \in Byte
      BY <2>1
    <3> QED BY <1>2, <3>1 DEF Byte
  <2>5. u[j] = u[i] + d * below
    <3>1. u[j] = FixedStep(data, u[i], j)
      BY <1>1, <2>1
    <3> QED BY <2>1, <3>1 DEF FixedStep, w
  <2>6. u[i] \in Nat /\ u[i] < below
    BY <1>4, <2>3
  <2> DEFINE x == u[i]
             q == Power(w)
             step == d * below
  <2> HIDE DEF j, d, below, x, q
  <2>7. d \in Nat /\ q \in Nat /\ d + 1 <= q /\ x \in Nat /\ x < below /\ below \in Nat
    BY <1>2, <2>3, <2>4, <2>6 DEF x, q
  <2>8. d * below + below <= q * below
    <3>1. d * below + below = (d + 1) * below
      BY <2>7
    <3>2. (d + 1) * below <= q * below
      BY <2>7
    <3> QED BY <3>1, <3>2
  <2>9. x + step < below * q /\ step \in Nat
    BY <2>7, <2>8
  <2>10. u[j] = x + step /\ Power(w * j) = below * q
    BY <2>3, <2>5 DEF x, q
  <2> HIDE DEF step
  <2>11. u[j] \in Nat /\ u[j] < Power(w * j)
    BY <2>7, <2>9, <2>10
  <2> QED BY <2>1, <2>11, <2>3, <1>2 DEF j
<1> HIDE DEF T
<1>5. 0 .. n \subseteq T
  BY <1>0, <1>3, <1>4, SetInduction
<1>6. n \in T
  BY <1>0, <1>5
<1> QED BY <1>0, <1>1, <1>6 DEF T

\* A fixed64 is a word, and a fixed32 half of one.
LEMMA FixedWidths ==
  ASSUME NEW data \in Seq(Byte)
  PROVE  /\ Fixed64Bytes <= Len(data) => LittleEndian(data, Fixed64Bytes) \in 0 .. Word - 1
         /\ Fixed32Bytes <= Len(data) => LittleEndian(data, Fixed32Bytes) \in 0 .. Half - 1
<1>1. ASSUME Fixed64Bytes <= Len(data) PROVE LittleEndian(data, Fixed64Bytes) \in 0 .. Word - 1
  <2>1. Fixed64Bytes \in 0 .. Len(data)
    BY <1>1, Widths
  <2> QED BY <2>1, LittleEndianBound, Widths DEF Word
<1>2. ASSUME Fixed32Bytes <= Len(data) PROVE LittleEndian(data, Fixed32Bytes) \in 0 .. Half - 1
  <2>1. Fixed32Bytes \in 0 .. Len(data)
    BY <1>2, Widths
  <2> QED BY <2>1, LittleEndianBound, Widths DEF Half
<1> QED BY <1>1, <1>2

-----------------------------------------------------------------------------

\* What an int holds that is not negative: no body is longer.
MaxInt == Word \div 2 - 1

\* Reading a word as a signed number takes off its range, if it is large.
LEMMA SignedIs ==
  /\ MaxInt \in Nat /\ Word = 2 * (MaxInt + 1)
  /\ \A x \in -(MaxInt + 1) .. Word - 1 :
       /\ Signed(x, Word) \in -(MaxInt + 1) .. MaxInt
       /\ Signed(x, Word) = IF x <= MaxInt THEN x ELSE x - Word
<1>1. MaxInt \in Nat /\ Word = 2 * (MaxInt + 1)
  BY Widths DEF MaxInt
<1>2. ASSUME NEW x \in -(MaxInt + 1) .. Word - 1
      PROVE  /\ Signed(x, Word) \in -(MaxInt + 1) .. MaxInt
             /\ Signed(x, Word) = IF x <= MaxInt THEN x ELSE x - Word
  <2>1. Word \div 2 = MaxInt + 1 /\ x \in Int
    BY <1>1, Widths DEF MaxInt
  <2>2. Signed(x, Word) = IF x % Word < MaxInt + 1 THEN x % Word ELSE (x % Word) - Word
    BY <2>1 DEF Signed
  <2>3. CASE x < 0
    <3>1. x % Word = x + Word
      BY <2>3, <1>1, <2>1
    <3> QED BY <3>1, <2>2, <2>3, <1>1
  <2>4. CASE x >= 0
    <3>1. x % Word = x
      BY <2>4, <1>1, <2>1
    <3> QED BY <3>1, <2>2, <2>4, <1>1
  <2> QED BY <2>3, <2>4, <2>1
<1> QED BY <1>1, <1>2

\* Bytes are read exactly if they are there.
LEMMA ReadBytesIs ==
  ASSUME NEW data \in Seq(Byte), NEW pos \in Nat, pos + Len(data) <= MaxInt,
         NEW n \in 0 .. Len(data), NEW length \in -(MaxInt + 1) .. MaxInt
  PROVE  LET read == ReadBytes(data, pos, n, length)
         IN  /\ read.status = "ok" <=> n # 0 /\ length >= 0 /\ n + length <= Len(data)
             /\ read.status = "ok" => read = Cut(data, n, length)
             /\ read.status = "panic" =>
                  n # 0 /\ (length < 0 \/ pos + n + length > MaxInt)
<1> DEFINE sum == pos + n + length
           read == ReadBytes(data, pos, n, length)
<1>1. MaxInt \in Nat /\ Word = 2 * (MaxInt + 1)
  BY SignedIs
<1>2. sum \in -(MaxInt + 1) .. Word - 1
  BY <1>1
<1>3. Signed(sum, Word) = IF sum <= MaxInt THEN sum ELSE sum - Word
  BY <1>2, SignedIs
<1>4. Failed.status = "error" /\ Panics.status = "panic" /\ Cut(data, n, length).status = "ok"
  BY DEF Failed, Panics, Cut, Read
<1>5. CASE n = 0
  <2>1. read = Failed
    BY <1>5 DEF ReadBytes
  <2> QED BY <1>4, <1>5, <2>1
<1>6. CASE n # 0 /\ Signed(sum, Word) > pos + Len(data)
  <2>0. n # 0 /\ ~ (Signed(sum, Word) < pos + n)
    BY <1>6, <1>3, <1>1
  <2>1. read = Failed
    BY <1>6, <2>0 DEF ReadBytes
  <2>2. ~ (length >= 0 /\ n + length <= Len(data))
    BY <1>6, <1>3, <1>1
  <2> QED BY <1>4, <1>6, <2>1, <2>2
<1>7. CASE n # 0 /\ ~ (Signed(sum, Word) > pos + Len(data)) /\ Signed(sum, Word) < pos + n
  <2>1. read = Panics
    BY <1>7 DEF ReadBytes
  <2>2. ~ (length >= 0 /\ n + length <= Len(data))
    BY <1>7, <1>3, <1>1
  <2>3. length < 0 \/ sum > MaxInt
    BY <1>7, <1>3, <1>1
  <2> QED BY <1>4, <1>7, <2>1, <2>2, <2>3
<1>8. CASE n # 0 /\ ~ (Signed(sum, Word) > pos + Len(data)) /\ ~ (Signed(sum, Word) < pos + n)
  <2>1. read = Cut(data, n, length)
    BY <1>8 DEF ReadBytes
  <2>2. length >= 0 /\ n + length <= Len(data)
    BY <1>8, <1>3, <1>1
  <2> QED BY <1>4, <1>8, <2>1, <2>2
<1> QED BY <1>5, <1>6, <1>7, <1>8

-----------------------------------------------------------------------------
(* Values                                                                  *)

Status == {"ok", "error", "panic"}

ValueType ==
    [varint : 0 .. Word - 1, fixed32 : 0 .. Half - 1, fixed64 : 0 .. Word - 1, bytes : Seq(Byte)]

FieldType == [num : 0 .. Half - 1, wire : 0 .. 7, value : ValueType]

ReadType == [status : Status, value : ValueType, size : Nat]

\* A part of the data, size bytes from n bytes on.
Part(data, n, size) == Take(Drop(data, n), size)

\* A part of the data is a sequence of bytes, of its size.
LEMMA PartIs ==
  ASSUME NEW data \in Seq(Byte), NEW n \in Nat, NEW size \in Nat, n + size <= Len(data)
  PROVE  /\ Part(data, n, size) \in Seq(Byte)
         /\ Len(Part(data, n, size)) = size
         /\ \A i \in 1 .. size : Part(data, n, size)[i] = data[n + i]
<1>1. n \in 0 .. Len(data)
  OBVIOUS
<1>2. Drop(data, n) \in Seq(Byte) /\ Len(Drop(data, n)) = Len(data) - n
  BY <1>1, DropIs
<1>3. size \in 0 .. Len(Drop(data, n))
  BY <1>2
<1>4. /\ Part(data, n, size) \in Seq(Byte)
      /\ Len(Part(data, n, size)) = size
      /\ \A i \in 1 .. size : Part(data, n, size)[i] = Drop(data, n)[i]
  BY <1>2, <1>3, TakeIs DEF Part
<1>5. ASSUME NEW i \in 1 .. size PROVE Part(data, n, size)[i] = data[n + i]
  <2>1. i \in 1 .. Len(data) - n
    OBVIOUS
  <2> QED BY <1>1, <1>4, <2>1, DropIs
<1> QED BY <1>4, <1>5

\* Outcomes without a value are outcomes.
LEMMA NoValueType ==
  NoValue \in ValueType /\ Failed \in ReadType /\ Panics \in ReadType
<1>1. NoValue \in ValueType
  <2>1. 0 \in 0 .. Word - 1 /\ 0 \in 0 .. Half - 1
    BY Widths
  <2> QED BY <2>1 DEF NoValue, ValueType
<1> QED BY <1>1 DEF Failed, Panics, ReadType, Status

\* A varint is read, or ends in an error.
LEMMA ReadVarintIs ==
  ASSUME NEW data \in Seq(Byte)
  PROVE  LET read == ReadVarint(decodeVarint(data))
         IN  /\ read \in ReadType
             /\ read.status \in {"ok", "error"}
             /\ read.status = "ok" <=> VarintLen(data) # 0
             /\ read.status = "ok" => read.size \in 1 .. Len(data)
<1> DEFINE v == decodeVarint(data)
<1>1. v.size = VarintLen(data) /\ v.value \in 0 .. Word - 1
  BY DecodeVarintType
<1>2. VarintLen(data) \in 0 .. Len(data)
  BY VarintLenType
<1> HIDE DEF v
<1>3. CASE v.size = 0
  <2>1. ReadVarint(v) = Failed
    BY <1>3 DEF ReadVarint
  <2> QED BY <1>1, <1>3, <2>1, NoValueType DEF Failed, v
<1>4. CASE v.size # 0
  <2> DEFINE value == [NoValue EXCEPT !.varint = v.value]
  <2>1. ReadVarint(v) = [status |-> "ok", value |-> value, size |-> v.size]
    BY <1>4 DEF ReadVarint, Read
  <2>2. value \in ValueType
    BY <1>1, NoValueType DEF ValueType
  <2> HIDE DEF value
  <2>3. v.size \in 1 .. Len(data) /\ v.size \in Nat
    BY <1>1, <1>2, <1>4
  <2> QED BY <1>1, <1>4, <2>1, <2>2, <2>3 DEF ReadType, Status, v
<1> QED BY <1>3, <1>4

\* A number of fixed size is read, or ends in an error.
LEMMA ReadFixedIs ==
  ASSUME NEW data \in Seq(Byte)
  PROVE  /\ ReadFixed64(data) \in ReadType
         /\ ReadFixed64(data).status = IF Len(data) < Fixed64Bytes THEN "error" ELSE "ok"
         /\ ReadFixed64(data).status = "ok" => ReadFixed64(data).size \in 1 .. Len(data)
         /\ ReadFixed32(data) \in ReadType
         /\ ReadFixed32(data).status = IF Len(data) < Fixed32Bytes THEN "error" ELSE "ok"
         /\ ReadFixed32(data).status = "ok" => ReadFixed32(data).size \in 1 .. Len(data)
<1>2. /\ ReadFixed64(data) \in ReadType
      /\ ReadFixed64(data).status = IF Len(data) < Fixed64Bytes THEN "error" ELSE "ok"
      /\ ReadFixed64(data).status = "ok" => ReadFixed64(data).size \in 1 .. Len(data)
  <2>1. CASE Len(data) < Fixed64Bytes
    <3>1. ReadFixed64(data) = Failed
      BY <2>1 DEF ReadFixed64
    <3> QED BY <2>1, <3>1, NoValueType DEF Failed
  <2>2. CASE ~ (Len(data) < Fixed64Bytes)
    <3> DEFINE v == LittleEndian(data, Fixed64Bytes)
               value == [NoValue EXCEPT !.fixed64 = v]
    <3>1. Fixed64Bytes \in 1 .. Len(data) /\ Fixed64Bytes \in 0 .. Len(data)
      BY <2>2, Widths
    <3>2. v \in 0 .. Word - 1
      BY <3>1, FixedWidths
    <3>3. ReadFixed64(data) = [status |-> "ok", value |-> value, size |-> Fixed64Bytes]
      BY <2>2 DEF ReadFixed64, Read
    <3> HIDE DEF v
    <3>4. value \in ValueType
      BY <3>2, NoValueType DEF ValueType
    <3> HIDE DEF value
    <3> QED BY <2>2, <3>1, <3>3, <3>4 DEF ReadType, Status
  <2> QED BY <2>1, <2>2
<1>3. /\ ReadFixed32(data) \in ReadType
      /\ ReadFixed32(data).status = IF Len(data) < Fixed32Bytes THEN "error" ELSE "ok"
      /\ ReadFixed32(data).status = "ok" => ReadFixed32(data).size \in 1 .. Len(data)
  <2>1. CASE Len(data) < Fixed32Bytes
    <3>1. ReadFixed32(data) = Failed
      BY <2>1 DEF ReadFixed32
    <3> QED BY <2>1, <3>1, NoValueType DEF Failed
  <2>2. CASE ~ (Len(data) < Fixed32Bytes)
    <3> DEFINE v == LittleEndian(data, Fixed32Bytes)
               value == [NoValue EXCEPT !.fixed32 = v]
    <3>1. Fixed32Bytes \in 1 .. Len(data) /\ Fixed32Bytes \in 0 .. Len(data)
      BY <2>2, Widths
    <3>2. v \in 0 .. Half - 1
      BY <3>1, FixedWidths
    <3>3. ReadFixed32(data) = [status |-> "ok", value |-> value, size |-> Fixed32Bytes]
      BY <2>2 DEF ReadFixed32, Read
    <3> HIDE DEF v
    <3>4. value \in ValueType
      BY <3>2, NoValueType DEF ValueType
    <3> HIDE DEF value
    <3> QED BY <2>2, <3>1, <3>3, <3>4 DEF ReadType, Status
  <2> QED BY <2>1, <2>2
<1> QED BY <1>2, <1>3

\* A length behind which bytes cannot be addressed.
HugeLength(data, pos) == decodeVarint(data).value + pos >= Word \div 2 - MaxVarint

LengthBytes(data, pos) ==
    ReadBytes(data, pos, VarintLen(data), Signed(decodeVarint(data).value, Word))

\* Bytes behind a length are within the data, and slicing the data fails at
\* run time only behind a huge length (decoder.go:74-85).
LEMMA LengthBytesIs ==
  ASSUME NEW data \in Seq(Byte), NEW pos \in Nat, pos + Len(data) <= MaxInt
  PROVE  LET read   == LengthBytes(data, pos)
             n      == VarintLen(data)
             length == Signed(decodeVarint(data).value, Word)
         IN  /\ n \in 0 .. Len(data) /\ length \in Int
             /\ read \in ReadType
             /\ read.status = "ok" <=> n # 0 /\ length >= 0 /\ n + length <= Len(data)
             /\ read.status = "ok" =>
                  /\ read.size \in 1 .. Len(data)
                  /\ length \in Nat /\ read.size = n + length
                  /\ read = Cut(data, n, length)
                  /\ read.value.bytes = Part(data, n, length)
             /\ read.status = "panic" => n # 0 /\ HugeLength(data, pos)
<1> DEFINE read   == LengthBytes(data, pos)
           n      == VarintLen(data)
           value  == decodeVarint(data).value
           length == Signed(value, Word)
<1>1. n \in 0 .. Len(data) /\ n <= MaxVarint /\ n \in Nat
  BY VarintLenType
<1>2. value \in 0 .. Word - 1
  BY DecodeVarintType
<1>3. MaxInt \in Nat /\ Word = 2 * (MaxInt + 1) /\ Word \div 2 = MaxInt + 1
  BY SignedIs, Widths DEF MaxInt
<1>4. /\ length \in -(MaxInt + 1) .. MaxInt
      /\ length = IF value <= MaxInt THEN value ELSE value - Word
  BY <1>2, <1>3, SignedIs
<1>5. read = ReadBytes(data, pos, n, length)
  BY DEF LengthBytes
<1> HIDE DEF n, length, read, value
<1>6. /\ read.status = "ok" <=> n # 0 /\ length >= 0 /\ n + length <= Len(data)
      /\ read.status = "ok" => read = Cut(data, n, length)
      /\ read.status = "panic" => n # 0 /\ (length < 0 \/ pos + n + length > MaxInt)
  BY <1>1, <1>4, <1>5, ReadBytesIs
<1>7. CASE read.status = "ok"
  <2>1. length \in Nat /\ n \in Nat /\ n # 0 /\ n + length <= Len(data)
    BY <1>1, <1>4, <1>6, <1>7
  <2>2. Part(data, n, length) \in Seq(Byte)
    BY <2>1, PartIs
  <2> DEFINE val == [NoValue EXCEPT !.bytes = Part(data, n, length)]
  <2>3. val \in ValueType /\ val.bytes = Part(data, n, length)
    BY <2>2, NoValueType DEF ValueType
  <2>4. read = [status |-> "ok", value |-> val, size |-> n + length]
    BY <1>6, <1>7 DEF Cut, Read, Part
  <2> HIDE DEF val
  <2>5. read \in ReadType
    BY <2>1, <2>3, <2>4 DEF ReadType, Status
  <2>6. n + length \in 1 .. Len(data)
    BY <2>1
  <2> QED BY <1>1, <1>6, <1>7, <2>1, <2>3, <2>4, <2>5, <2>6 DEF n, length, read, value
<1>8. CASE read.status # "ok"
  <2>1. read = Failed \/ read = Panics
    <3>1. read \in {Failed, Panics, Cut(data, n, length)}
      BY <1>5 DEF ReadBytes
    <3>2. Cut(data, n, length).status = "ok"
      BY DEF Cut, Read
    <3> QED BY <3>1, <3>2, <1>8
  <2>2. read \in ReadType
    BY <2>1, NoValueType
  <2>3. read.status = "panic" => value + pos >= Word \div 2 - MaxVarint
    <3> SUFFICES ASSUME read.status = "panic"
                 PROVE  value + pos >= Word \div 2 - MaxVarint
      OBVIOUS
    <3>1. CASE length < 0
      BY <3>1, <1>2, <1>3, <1>4, Widths
    <3>2. CASE pos + n + length > MaxInt
      <4>1. value >= length
        BY <1>2, <1>3, <1>4
      <4> QED BY <4>1, <3>2, <1>1, <1>2, <1>3, <1>4, Widths
    <3> QED BY <1>6, <3>1, <3>2
  <2> QED BY <1>1, <1>4, <1>6, <1>8, <2>2, <2>3 DEF HugeLength, n, length, read, value
<1> QED BY <1>7, <1>8

\* A value is read from the data's beginning; bytes are a part of the data, and
\* only a huge length panics.
ReadWithin(read, wire, data, pos) ==
    /\ read \in ReadType
    /\ read.status = "ok" => read.size \in 1 .. Len(data)
    /\ read.status = "ok" /\ wire = 2 =>
         \E n, size \in Nat :
           n + size <= Len(data) /\ read.value.bytes = Part(data, n, size)
    /\ read.status = "panic" => VarintLen(data) # 0 /\ HugeLength(data, pos)

\* A value of any wire type is within the data.
LEMMA ReadValueIs ==
  ASSUME NEW data \in Seq(Byte), NEW pos \in Nat, pos + Len(data) <= MaxInt,
         NEW wire \in Nat
  PROVE  ReadWithin(ReadValue(wire, data, pos), wire, data, pos)
<1> DEFINE read == ReadValue(wire, data, pos)
<1> SUFFICES /\ read \in ReadType
             /\ read.status = "ok" => read.size \in 1 .. Len(data)
             /\ read.status = "ok" /\ wire = 2 =>
                  \E n, size \in Nat :
                    n + size <= Len(data) /\ read.value.bytes = Part(data, n, size)
             /\ read.status = "panic" => VarintLen(data) # 0 /\ HugeLength(data, pos)
  BY DEF ReadWithin
<1>1. CASE wire = 0
  <2>1. read = ReadVarint(decodeVarint(data))
    BY <1>1 DEF ReadValue
  <2> QED BY <1>1, <2>1, ReadVarintIs
<1>2. CASE wire = 1
  <2>1. read = ReadFixed64(data)
    BY <1>2 DEF ReadValue
  <2> QED BY <1>2, <2>1, ReadFixedIs
<1>3. CASE wire = 5
  <2>1. read = ReadFixed32(data)
    BY <1>3 DEF ReadValue
  <2> QED BY <1>3, <2>1, ReadFixedIs
<1>4. CASE wire = 2
  <2>1. read = LengthBytes(data, pos)
    BY <1>4 DEF ReadValue, LengthBytes
  <2> HIDE DEF read
  <2>2. /\ read \in ReadType
        /\ read.status = "ok" => read.size \in 1 .. Len(data)
        /\ read.status = "panic" => VarintLen(data) # 0 /\ HugeLength(data, pos)
    BY <2>1, LengthBytesIs
  <2>3. ASSUME read.status = "ok"
        PROVE  \E n, size \in Nat :
                 n + size <= Len(data) /\ read.value.bytes = Part(data, n, size)
    <3> DEFINE n == VarintLen(data)
               size == Signed(decodeVarint(data).value, Word)
    <3>1. n \in Nat /\ size \in Nat /\ n + size <= Len(data)
          /\ read.value.bytes = Part(data, n, size)
      BY <2>1, <2>3, LengthBytesIs
    <3> HIDE DEF n, size
    <3> QED BY <3>1
  <2> QED BY <1>4, <2>2, <2>3 DEF read
<1>5. CASE wire \notin {0, 1, 2, 5}
  <2>1. read = Failed
    BY <1>5 DEF ReadValue
  <2> QED BY <1>5, <2>1, NoValueType DEF Failed
<1> QED BY <1>1, <1>2, <1>3, <1>4, <1>5

\* An int holds all positions of data that are at pos.
Fits(data, pos) == data \in Seq(Byte) /\ pos \in Nat /\ pos + Len(data) <= MaxInt

\* What can be read is read the same when more data follow, at any position.
LEMMA ReadValueBegins ==
  ASSUME NEW data, NEW p, Fits(data, p), NEW whole, NEW q, Fits(whole, q),
         Begins(data, whole), NEW wire, ReadValue(wire, data, p).status = "ok"
  PROVE  ReadValue(wire, whole, q) = ReadValue(wire, data, p)
<1>0. /\ data \in Seq(Byte) /\ p \in Nat /\ p + Len(data) <= MaxInt
      /\ whole \in Seq(Byte) /\ q \in Nat /\ q + Len(whole) <= MaxInt
      /\ Len(data) <= Len(whole)
  BY DEF Fits, Begins
<1>1. CASE wire = 0
  <2>1. /\ ReadValue(wire, data, p) = ReadVarint(decodeVarint(data))
        /\ ReadValue(wire, whole, q) = ReadVarint(decodeVarint(whole))
    BY <1>1 DEF ReadValue
  <2>2. VarintLen(data) # 0
    BY <1>0, <2>1, ReadVarintIs
  <2> QED BY <1>0, <2>1, <2>2, DecodeVarintBegins
<1>2. CASE wire = 1
  <2>1. /\ ReadValue(wire, data, p) = ReadFixed64(data)
        /\ ReadValue(wire, whole, q) = ReadFixed64(whole)
    BY <1>2 DEF ReadValue
  <2>2. ~ (Len(data) < Fixed64Bytes) /\ ~ (Len(whole) < Fixed64Bytes)
    BY <1>0, <2>1, ReadFixedIs, Widths
  <2>3. LittleEndian(whole, Fixed64Bytes) = LittleEndian(data, Fixed64Bytes)
    <3>1. Fixed64Bytes \in 0 .. Len(data)
      BY <2>2, Widths
    <3> QED BY <1>0, <3>1, LittleEndianBegins
  <2>4. ReadFixed64(whole) = ReadFixed64(data)
    BY <2>2, <2>3 DEF ReadFixed64
  <2> QED BY <2>1, <2>4
<1>3. CASE wire = 5
  <2>1. /\ ReadValue(wire, data, p) = ReadFixed32(data)
        /\ ReadValue(wire, whole, q) = ReadFixed32(whole)
    BY <1>3 DEF ReadValue
  <2>2. ~ (Len(data) < Fixed32Bytes) /\ ~ (Len(whole) < Fixed32Bytes)
    BY <1>0, <2>1, ReadFixedIs, Widths
  <2>3. LittleEndian(whole, Fixed32Bytes) = LittleEndian(data, Fixed32Bytes)
    <3>1. Fixed32Bytes \in 0 .. Len(data)
      BY <2>2, Widths
    <3> QED BY <1>0, <3>1, LittleEndianBegins
  <2>4. ReadFixed32(whole) = ReadFixed32(data)
    BY <2>2, <2>3 DEF ReadFixed32
  <2> QED BY <2>1, <2>4
<1>4. CASE wire = 2
  <2> DEFINE n == VarintLen(data)
             length == Signed(decodeVarint(data).value, Word)
  <2>1. /\ ReadValue(wire, data, p) = LengthBytes(data, p)
        /\ ReadValue(wire, whole, q) = LengthBytes(whole, q)
    BY <1>4 DEF ReadValue, LengthBytes
  <2>2. /\ n # 0 /\ length >= 0 /\ n + length <= Len(data) /\ length \in Nat
        /\ n \in 0 .. Len(data)
        /\ LengthBytes(data, p) = Cut(data, n, length)
    BY <1>0, <2>1, LengthBytesIs
  <2>3. VarintLen(whole) = n /\ decodeVarint(whole) = decodeVarint(data)
    BY <1>0, <2>2, VarintLenBegins, DecodeVarintBegins
  <2>4. Signed(decodeVarint(whole).value, Word) = length
    BY <2>3
  <2> HIDE DEF n, length
  <2>5. LengthBytes(whole, q).status = "ok"
    <3>1. n + length <= Len(whole)
      BY <1>0, <2>2
    <3> QED BY <1>0, <3>1, <2>2, <2>3, <2>4, LengthBytesIs
  <2>6. LengthBytes(whole, q) = Cut(whole, n, length)
    BY <1>0, <2>3, <2>4, <2>5, LengthBytesIs
  <2>7. Part(whole, n, length) = Part(data, n, length)
    <3>1. n \in Nat /\ n + length <= Len(data) /\ n + length <= Len(whole)
      BY <1>0, <2>2
    <3>2. /\ Part(data, n, length) \in Seq(Byte)
          /\ Len(Part(data, n, length)) = length
          /\ \A i \in 1 .. length : Part(data, n, length)[i] = data[n + i]
      BY <1>0, <2>2, <3>1, PartIs
    <3>3. /\ Part(whole, n, length) \in Seq(Byte)
          /\ Len(Part(whole, n, length)) = length
          /\ \A i \in 1 .. length : Part(whole, n, length)[i] = whole[n + i]
      BY <1>0, <2>2, <3>1, PartIs
    <3>4. \A i \in 1 .. length : data[n + i] = whole[n + i]
      BY <2>2, <3>1 DEF Begins
    <3>5. \A i \in 1 .. length : Part(whole, n, length)[i] = Part(data, n, length)[i]
      BY <3>2, <3>3, <3>4
    <3> QED BY <3>2, <3>3, <3>5, SeqEqual
  <2>8. Cut(whole, n, length) = Cut(data, n, length)
    BY <2>7 DEF Cut, Part
  <2> QED BY <2>1, <2>2, <2>6, <2>8
<1>5. CASE wire \notin {0, 1, 2, 5}
  <2>1. ReadValue(wire, data, p) = Failed
    BY <1>5 DEF ReadValue
  <2> QED BY <2>1 DEF Failed
<1> QED BY <1>1, <1>2, <1>3, <1>4, <1>5

-----------------------------------------------------------------------------
(* Fields                                                                  *)

FieldReadType == [status : Status, size : Nat, field : FieldType]

\* A part of what is left is a part of the data.
LEMMA PartOfDrop ==
  ASSUME NEW data \in Seq(Byte), NEW k \in Nat, NEW n \in Nat, NEW size \in Nat,
         k + n + size <= Len(data)
  PROVE  Part(Drop(data, k), n, size) = Part(data, k + n, size)
<1>1. Drop(Drop(data, k), n) = Drop(data, k + n)
  BY DropDrop
<1> QED BY <1>1 DEF Part

\* What FieldAt reads behind the tag.
BehindTag(data, pos) ==
    ReadValue(decodeVarint(data).value % 8, Drop(data, VarintLen(data)),
              pos + VarintLen(data))

\* A field has a tag, or is an error.
LEMMA FieldAtEither ==
  ASSUME NEW data \in Seq(Byte), NEW pos \in Nat, pos + Len(data) <= MaxInt
  PROVE  \/ /\ VarintLen(data) = 0
            /\ FieldAt(data, pos) = Tagged(0, 0, Failed)
         \/ /\ VarintLen(data) \in 1 .. Len(data)
            /\ FieldAt(data, pos) =
                 Tagged(decodeVarint(data).value, VarintLen(data), BehindTag(data, pos))
<1>1. decodeVarint(data).size = VarintLen(data) /\ VarintLen(data) \in 0 .. Len(data)
  BY DecodeVarintType, VarintLenType
<1> QED BY <1>1 DEF FieldAt, FieldBehind, BehindTag

\* What was read behind a tag is a field.
LEMMA TaggedType ==
  ASSUME NEW tag \in 0 .. Word - 1, NEW n \in Nat, NEW read \in ReadType
  PROVE  /\ Tagged(tag, n, read) \in FieldReadType
         /\ Tagged(tag, n, read).status = read.status
         /\ Tagged(tag, n, read).size = n + read.size
         /\ Tagged(tag, n, read).field.num = (tag \div 8) % Half
         /\ Tagged(tag, n, read).field.wire = tag % 8
         /\ Tagged(tag, n, read).field.value = read.value
<1>1. (tag \div 8) % Half \in 0 .. Half - 1 /\ tag % 8 \in 0 .. 7
  BY Widths
<1> DEFINE field == [num |-> (tag \div 8) % Half, wire |-> tag % 8, value |-> read.value]
<1>2. field \in FieldType
  BY <1>1 DEF FieldType, ReadType
<1>3. Tagged(tag, n, read) = [status |-> read.status, size |-> n + read.size, field |-> field]
  BY DEF Tagged
<1>4. /\ field.num = (tag \div 8) % Half /\ field.wire = tag % 8
      /\ field.value = read.value
  OBVIOUS
<1> HIDE DEF field
<1> QED BY <1>2, <1>3, <1>4 DEF FieldReadType, ReadType

\* A field takes at least a byte and not more than there are; bytes in it are a
\* part of the data, and only a huge length panics.
LEMMA FieldAtIs ==
  ASSUME NEW data \in Seq(Byte), NEW pos \in Nat, pos + Len(data) <= MaxInt
  PROVE  LET next == FieldAt(data, pos)
         IN  /\ next \in FieldReadType
             /\ next.status = "ok" => next.size \in 1 .. Len(data)
             /\ next.status = "ok" /\ next.field.wire = 2 =>
                  \E n, size \in Nat :
                    n + size <= Len(data) /\ next.field.value.bytes = Part(data, n, size)
             /\ next.status = "panic" =>
                  \E k \in 0 .. Len(data) :
                    VarintLen(Drop(data, k)) # 0 /\ HugeLength(Drop(data, k), pos + k)
<1> DEFINE next == FieldAt(data, pos)
           t == VarintLen(data)
           tag == decodeVarint(data).value
           read == BehindTag(data, pos)
           rest == Drop(data, t)
           wire == tag % 8
           from == pos + t
<1>1. CASE t = 0
  <2>1. next = Tagged(0, 0, Failed)
    BY <1>1, FieldAtEither
  <2>2. 0 \in 0 .. Word - 1
    BY Widths
  <2>3. next \in FieldReadType /\ next.status = "error"
    BY <2>1, <2>2, NoValueType, TaggedType DEF Failed
  <2> QED BY <2>3
<1>2. CASE t # 0
  <2>1. t \in 1 .. Len(data) /\ t \in Nat /\ next = Tagged(tag, t, read)
    BY <1>2, FieldAtEither
  <2>2. tag \in 0 .. Word - 1 /\ wire \in Nat
    BY DecodeVarintType
  <2>3. rest \in Seq(Byte) /\ Len(rest) = Len(data) - t
    BY <2>1, DropIs
  <2>4. from \in Nat /\ from + Len(rest) <= MaxInt
    BY <2>1, <2>3
  <2>5. read = ReadValue(wire, rest, from)
    BY DEF BehindTag
  <2> HIDE DEF t, tag, read, next, rest, wire, from
  <2>6. /\ read \in ReadType
        /\ read.status = "ok" => read.size \in 1 .. Len(rest)
        /\ read.status = "ok" /\ wire = 2 =>
             \E n, size \in Nat :
               n + size <= Len(rest) /\ read.value.bytes = Part(rest, n, size)
        /\ read.status = "panic" => VarintLen(rest) # 0 /\ HugeLength(rest, from)
    <3>1. ReadWithin(read, wire, rest, from)
      BY <2>2, <2>3, <2>4, <2>5, ReadValueIs
    <3> QED BY <3>1 DEF ReadWithin
  <2>7. /\ next \in FieldReadType
        /\ next.status = read.status
        /\ next.size = t + read.size
        /\ next.field.wire = wire
        /\ next.field.value = read.value
    BY <2>1, <2>2, <2>6, TaggedType DEF wire
  <2>8. next.status = "ok" => next.size \in 1 .. Len(data)
    BY <2>1, <2>3, <2>6, <2>7
  <2>9. ASSUME next.status = "ok", next.field.wire = 2
        PROVE  \E n, size \in Nat :
                 n + size <= Len(data) /\ next.field.value.bytes = Part(data, n, size)
    <3>1. PICK n \in Nat, size \in Nat :
             n + size <= Len(rest) /\ read.value.bytes = Part(rest, n, size)
      BY <2>6, <2>7, <2>9
    <3>2. t + n \in Nat /\ (t + n) + size <= Len(data) /\ t + n + size <= Len(data)
      BY <2>1, <2>3, <3>1
    <3>3. Part(rest, n, size) = Part(data, t + n, size)
      BY <2>1, <3>2, PartOfDrop DEF rest
    <3> QED BY <2>7, <3>1, <3>2, <3>3
  <2>10. ASSUME next.status = "panic"
         PROVE  \E k \in 0 .. Len(data) :
                  VarintLen(Drop(data, k)) # 0 /\ HugeLength(Drop(data, k), pos + k)
    BY <2>1, <2>6, <2>7, <2>10 DEF rest, from
  <2> QED BY <2>7, <2>8, <2>9, <2>10 DEF next
<1> QED BY <1>1, <1>2

\* A field that can be read is read the same when more data follow, and at any
\* position.
LEMMA FieldAtBegins ==
  ASSUME NEW data, NEW p, Fits(data, p), NEW whole, NEW q, Fits(whole, q),
         Begins(data, whole), FieldAt(data, p).status = "ok"
  PROVE  FieldAt(whole, q) = FieldAt(data, p)
<1>0. /\ data \in Seq(Byte) /\ p \in Nat /\ p + Len(data) <= MaxInt
      /\ whole \in Seq(Byte) /\ q \in Nat /\ q + Len(whole) <= MaxInt
      /\ Len(data) <= Len(whole)
  BY DEF Fits, Begins
<1> DEFINE t == VarintLen(data)
           tag == decodeVarint(data).value
<1>1. /\ t \in 1 .. Len(data) /\ t # 0
      /\ FieldAt(data, p) = Tagged(tag, t, BehindTag(data, p))
  <2>1. Tagged(0, 0, Failed).status = "error"
    BY DEF Tagged, Failed
  <2> QED BY <1>0, <2>1, FieldAtEither
<1>2. VarintLen(whole) = t /\ decodeVarint(whole).value = tag
  BY <1>0, <1>1, VarintLenBegins, DecodeVarintBegins
<1>3. FieldAt(whole, q) = Tagged(tag, t, BehindTag(whole, q))
  BY <1>0, <1>1, <1>2, FieldAtEither
<1> DEFINE wire == tag % 8
           short == Drop(data, t)
           long == Drop(whole, t)
           pp == p + t
           qq == q + t
<1>4. wire \in Nat
  BY <1>0, DecodeVarintType
<1>5. BehindTag(data, p) = ReadValue(wire, short, pp)
  BY DEF BehindTag
<1>6. BehindTag(whole, q) = ReadValue(wire, long, qq)
  BY <1>2 DEF BehindTag
<1>7. BehindTag(data, p).status = "ok"
  BY <1>1 DEF Tagged
<1> HIDE DEF t, tag
<1>8. t \in 0 .. Len(data) /\ t \in 0 .. Len(whole) /\ t \in Nat
  BY <1>0, <1>1 DEF Begins
<1>9. /\ short \in Seq(Byte) /\ Len(short) = Len(data) - t
      /\ long \in Seq(Byte) /\ Len(long) = Len(whole) - t
      /\ Begins(short, long)
  BY <1>0, <1>8, DropIs, DropBegins
<1>10. Fits(short, pp) /\ Fits(long, qq)
  BY <1>0, <1>8, <1>9 DEF Fits
<1> HIDE DEF wire, short, long, pp, qq
<1>11. BehindTag(whole, q) = BehindTag(data, p)
  <2>1. ReadValue(wire, short, pp).status = "ok"
    BY <1>5, <1>7
  <2>2. ReadValue(wire, long, qq) = ReadValue(wire, short, pp)
    BY <1>4, <1>9, <1>10, <2>1, ReadValueBegins
  <2> QED BY <1>5, <1>6, <2>2
<1> QED BY <1>1, <1>3, <1>11

-----------------------------------------------------------------------------
(* Messages                                                                *)

MessageType == [status : Status, fields : Seq(FieldType)]

Done == [status |-> "ok", fields |-> <<>>]

\* The message from a position on, given the messages from all later ones.
DecodeStep(data, g, pos) ==
    IF pos = Len(data)
    THEN Done
    ELSE LET next == FieldAt(Drop(data, pos), pos)
         IN  IF next.status = "ok"
             THEN Prepend(next.field, g[pos + next.size])
             ELSE [status |-> next.status, fields |-> <<>>]

\* A message with one field more.
LEMMA PrependIs ==
  ASSUME NEW field \in FieldType, NEW message \in MessageType
  PROVE  /\ Prepend(field, message) \in MessageType
         /\ Prepend(field, message).status = message.status
         /\ message.status = "ok" => Prepend(field, message).fields = <<field>> \o message.fields
<1>1. CASE message.status # "ok"
  BY <1>1 DEF Prepend
<1>2. CASE message.status = "ok"
  <2> DEFINE fields == <<field>> \o message.fields
  <2>1. <<field>> \in Seq(FieldType) /\ message.fields \in Seq(FieldType)
    BY DEF MessageType
  <2>2. fields \in Seq(FieldType)
    BY <2>1
  <2>3. Prepend(field, message) = [message EXCEPT !.fields = fields]
    BY <1>2 DEF Prepend
  <2>4. [message EXCEPT !.fields = fields].fields = fields
    BY DEF MessageType
  <2> HIDE DEF fields
  <2>5. /\ Prepend(field, message) \in MessageType
        /\ Prepend(field, message).status = message.status
    BY <2>2, <2>3 DEF MessageType
  <2> QED BY <2>3, <2>4, <2>5 DEF fields
<1> QED BY <1>1, <1>2

\* The field at a position before the end.
NextField(data, pos) == FieldAt(Drop(data, pos), pos)

\* The next field ends behind its start and within the data.
LEMMA NextFieldIs ==
  ASSUME NEW data \in Seq(Byte), Len(data) <= MaxInt, NEW pos \in 0 .. Len(data) - 1
  PROVE  /\ NextField(data, pos) \in FieldReadType
         /\ NextField(data, pos).status = "ok" =>
              pos + NextField(data, pos).size \in pos + 1 .. Len(data)
<1> DEFINE rest == Drop(data, pos)
<1>1. rest \in Seq(Byte) /\ Len(rest) = Len(data) - pos /\ pos \in Nat
  BY DropIs
<1> HIDE DEF rest
<1>2. pos + Len(rest) <= MaxInt
  BY <1>1
<1>3. /\ FieldAt(rest, pos) \in FieldReadType
      /\ FieldAt(rest, pos).status = "ok" => FieldAt(rest, pos).size \in 1 .. Len(rest)
  BY <1>1, <1>2, FieldAtIs
<1>4. NextField(data, pos) = FieldAt(rest, pos)
  BY DEF NextField, rest
<1> QED BY <1>1, <1>3, <1>4

\* The message from one position, from those of later ones, is a message.
LEMMA DecodeStepIs ==
  ASSUME NEW data \in Seq(Byte), Len(data) <= MaxInt, NEW pos \in 0 .. Len(data), NEW g,
         \A q \in pos + 1 .. Len(data) : g[q] \in MessageType
  PROVE  /\ DecodeStep(data, g, pos) \in MessageType
         /\ pos = Len(data) => DecodeStep(data, g, pos) = Done
         /\ pos # Len(data) =>
              LET next == NextField(data, pos)
              IN  IF next.status = "ok"
                  THEN /\ pos + next.size \in pos + 1 .. Len(data)
                       /\ g[pos + next.size] \in MessageType
                       /\ DecodeStep(data, g, pos) = Prepend(next.field, g[pos + next.size])
                  ELSE DecodeStep(data, g, pos) = [status |-> next.status, fields |-> <<>>]
<1>1. CASE pos = Len(data)
  <2>1. DecodeStep(data, g, pos) = Done
    BY <1>1 DEF DecodeStep
  <2>2. Done \in MessageType
    BY DEF Done, MessageType, Status
  <2> QED BY <1>1, <2>1, <2>2
<1>2. CASE pos # Len(data)
  <2> DEFINE next == NextField(data, pos)
  <2>1. pos \in 0 .. Len(data) - 1
    BY <1>2
  <2>2. next \in FieldReadType /\ next.status = "ok" => pos + next.size \in pos + 1 .. Len(data)
    BY <2>1, NextFieldIs
  <2>3. CASE next.status = "ok"
    <3> DEFINE later == pos + next.size
    <3>1. DecodeStep(data, g, pos) = Prepend(next.field, g[later])
      BY <1>2, <2>3 DEF DecodeStep, NextField
    <3>2. later \in pos + 1 .. Len(data)
      BY <2>1, <2>3, NextFieldIs
    <3>3. next.field \in FieldType
      BY <2>1, NextFieldIs DEF FieldReadType
    <3> HIDE DEF next, later
    <3>4. g[later] \in MessageType
      BY <3>2
    <3>5. Prepend(next.field, g[later]) \in MessageType
      BY <3>3, <3>4, PrependIs
    <3> QED BY <1>2, <2>3, <3>1, <3>2, <3>4, <3>5 DEF next, later
  <2>4. CASE next.status # "ok"
    <3> DEFINE none == [status |-> next.status, fields |-> <<>>]
    <3>1. DecodeStep(data, g, pos) = none
      BY <1>2, <2>4 DEF DecodeStep, NextField
    <3>2. next.status \in Status
      BY <2>1, NextFieldIs DEF FieldReadType
    <3>3. none \in MessageType
      BY <3>2 DEF MessageType
    <3> QED BY <1>2, <2>4, <3>1, <3>3
  <2> QED BY <2>3, <2>4
<1> QED BY <1>1, <1>2

\* The messages from all positions exist.
LEMMA DecodeExists ==
  ASSUME NEW data \in Seq(Byte), Len(data) <= MaxInt
  PROVE  \E g \in [0 .. Len(data) -> MessageType] :
           g = [pos \in 0 .. Len(data) |-> DecodeStep(data, g, pos)]
<1> DEFINE L == Len(data)
           From(g, k) == \A pos \in k .. L : g[pos] = DecodeStep(data, g, pos)
           T == {k \in 0 .. L : \E g \in [0 .. L -> MessageType] : From(g, k)}
<1>0. L \in Nat
  OBVIOUS
<1>1. L \in T
  <2> DEFINE g == [pos \in 0 .. L |-> Done]
  <2>1. g \in [0 .. L -> MessageType]
    BY DEF Done, MessageType, Status
  <2>2. DecodeStep(data, g, L) = Done
    BY DEF DecodeStep
  <2>3. From(g, L)
    BY <2>2
  <2> HIDE DEF g
  <2> QED BY <1>0, <2>1, <2>3
<1>2. ASSUME NEW k \in 0 .. L - 1, k + 1 \in T PROVE k \in T
  <2>1. PICK g \in [0 .. L -> MessageType] : From(g, k + 1)
    BY <1>2
  <2> DEFINE h == [g EXCEPT ![k] = DecodeStep(data, g, k)]
  <2>2. \A pos \in k + 1 .. L : g[pos] \in MessageType
    OBVIOUS
  <2>3. DecodeStep(data, g, k) \in MessageType
    BY <2>2, DecodeStepIs
  <2>4. h \in [0 .. L -> MessageType]
    BY <2>3
  <2>5. \A pos \in 0 .. L : h[pos] = IF pos = k THEN DecodeStep(data, g, k) ELSE g[pos]
    OBVIOUS
  <2> HIDE DEF h
  <2>6. ASSUME NEW pos \in k .. L PROVE DecodeStep(data, h, pos) = DecodeStep(data, g, pos)
    <3>1. CASE pos = L
      BY <3>1 DEF DecodeStep
    <3>2. CASE pos # L
      <4>1. pos \in 0 .. Len(data) - 1
        BY <3>2
      <4>2. NextField(data, pos).status = "ok" =>
              h[pos + NextField(data, pos).size] = g[pos + NextField(data, pos).size]
        BY <2>5, <4>1, NextFieldIs
      <4> QED BY <3>2, <4>2 DEF DecodeStep, NextField
    <3> QED BY <3>1, <3>2
  <2>7. From(h, k)
    <3> SUFFICES ASSUME NEW pos \in k .. L PROVE h[pos] = DecodeStep(data, h, pos)
      OBVIOUS
    <3>1. pos = k \/ pos \in k + 1 .. L
      OBVIOUS
    <3>2. h[pos] = DecodeStep(data, g, pos)
      BY <2>1, <2>5, <3>1
    <3> QED BY <2>6, <3>2
  <2> HIDE DEF From
  <2> QED BY <2>4, <2>7
<1>3. 0 \in T
  <2> HIDE DEF T
  <2>1. 0 .. L \subseteq T
    BY <1>0, <1>1, <1>2, DownwardSetInduction
  <2> QED BY <1>0, <2>1
<1>4. PICK g \in [0 .. L -> MessageType] : From(g, 0)
  BY <1>3
<1>5. g = [pos \in 0 .. L |-> g[pos]]
  OBVIOUS
<1>6. g = [pos \in 0 .. L |-> DecodeStep(data, g, pos)]
  BY <1>4, <1>5
<1> QED BY <1>4, <1>6

\* The messages from each position on, the first being all of it.
MessagesFrom(data, g) ==
    /\ g \in [0 .. Len(data) -> MessageType]
    /\ \A pos \in 0 .. Len(data) : g[pos] = DecodeStep(data, g, pos)
    /\ Decode(data) = g[0]

\* Decode is the message from the start, one of the messages from all
\* positions.
LEMMA DecodeIs ==
  ASSUME NEW data \in Seq(Byte), Len(data) <= MaxInt
  PROVE  \E g : MessagesFrom(data, g)
<1> DEFINE L == Len(data)
           Def(g) == [pos \in 0 .. L |-> DecodeStep(data, g, pos)]
           u == CHOOSE g : g = Def(g)
<1>0. L \in Nat
  OBVIOUS
<1>1. u = Def(u)
  <2>1. \E g : g = Def(g)
    BY DecodeExists
  <2> HIDE DEF Def
  <2> QED BY <2>1
<1>2. Decode(data) = u[0]
  BY DEF Decode, DecodeStep, Done
<1> HIDE DEF u
<1>3. \A pos \in 0 .. L : u[pos] = DecodeStep(data, u, pos)
  BY <1>1
<1>4. DOMAIN u = 0 .. L /\ u = [pos \in 0 .. L |-> u[pos]]
  BY <1>1
<1>5. \A pos \in 0 .. L : u[pos] \in MessageType
  <2> DEFINE T == {k \in 0 .. L : \A pos \in k .. L : u[pos] \in MessageType}
  <2>1. L \in T
    <3>1. DecodeStep(data, u, L) \in MessageType
      BY <1>0, DecodeStepIs
    <3> QED BY <1>0, <1>3, <3>1
  <2>2. ASSUME NEW k \in 0 .. L - 1, k + 1 \in T PROVE k \in T
    <3>1. \A pos \in k + 1 .. L : u[pos] \in MessageType
      BY <2>2
    <3>2. DecodeStep(data, u, k) \in MessageType
      BY <3>1, DecodeStepIs
    <3>3. \A pos \in k .. L : pos = k \/ pos \in k + 1 .. L
      OBVIOUS
    <3> QED BY <1>3, <3>1, <3>2, <3>3
  <2> HIDE DEF T
  <2>3. 0 \in T
    <3>1. 0 .. L \subseteq T
      BY <1>0, <2>1, <2>2, DownwardSetInduction
    <3> QED BY <1>0, <3>1
  <2> QED BY <2>3 DEF T
<1> QED BY <1>2, <1>3, <1>4, <1>5 DEF MessagesFrom

\* The equations of the messages from each position on.
LEMMA MessageFromIs ==
  ASSUME NEW data \in Seq(Byte), Len(data) <= MaxInt, NEW g, MessagesFrom(data, g),
         NEW pos \in 0 .. Len(data)
  PROVE  /\ g[pos] \in MessageType
         /\ pos = Len(data) => g[pos] = Done
         /\ pos # Len(data) =>
              LET next == NextField(data, pos)
              IN  IF next.status = "ok"
                  THEN /\ pos + next.size \in pos + 1 .. Len(data)
                       /\ g[pos + next.size] \in MessageType
                       /\ next.field \in FieldType /\ next.size \in Nat
                       /\ g[pos].status = g[pos + next.size].status
                       /\ g[pos].status = "ok" =>
                            g[pos].fields = <<next.field>> \o g[pos + next.size].fields
                  ELSE g[pos].status = next.status /\ g[pos].status # "ok"
<1>1. \A q \in 0 .. Len(data) : g[q] \in MessageType
  BY DEF MessagesFrom
<1>2. g[pos] = DecodeStep(data, g, pos)
  BY DEF MessagesFrom
<1>3. \A q \in pos + 1 .. Len(data) : g[q] \in MessageType
  BY <1>1
<1>4. pos = Len(data) => g[pos] = Done
  BY <1>2, <1>3, DecodeStepIs
<1>5. ASSUME pos # Len(data)
      PROVE  LET next == NextField(data, pos)
             IN  IF next.status = "ok"
                 THEN /\ pos + next.size \in pos + 1 .. Len(data)
                      /\ g[pos + next.size] \in MessageType
                      /\ next.field \in FieldType /\ next.size \in Nat
                      /\ g[pos].status = g[pos + next.size].status
                      /\ g[pos].status = "ok" =>
                           g[pos].fields = <<next.field>> \o g[pos + next.size].fields
                 ELSE g[pos].status = next.status /\ g[pos].status # "ok"
  <2> DEFINE next == NextField(data, pos)
             later == pos + next.size
  <2>1. CASE next.status = "ok"
    <3>1. /\ later \in pos + 1 .. Len(data)
          /\ g[later] \in MessageType
          /\ g[pos] = Prepend(next.field, g[later])
      BY <1>2, <1>3, <1>5, <2>1, DecodeStepIs
    <3>2. next.field \in FieldType /\ next.size \in Nat
      <4>1. pos \in 0 .. Len(data) - 1
        BY <1>5
      <4> QED BY <4>1, NextFieldIs DEF FieldReadType
    <3> HIDE DEF next, later
    <3>3. /\ g[pos].status = g[later].status
          /\ g[later].status = "ok" => g[pos].fields = <<next.field>> \o g[later].fields
      BY <3>1, <3>2, PrependIs
    <3> QED BY <2>1, <3>1, <3>2, <3>3 DEF next, later
  <2>2. CASE next.status # "ok"
    <3>1. g[pos] = [status |-> next.status, fields |-> <<>>]
      BY <1>2, <1>3, <1>5, <2>2, DecodeStepIs
    <3> QED BY <2>2, <3>1
  <2> QED BY <2>1, <2>2
<1> QED BY <1>1, <1>4, <1>5

\* Two messages that are both unreadable or the same.
Agree(a, b) == (a.status = "ok" <=> b.status = "ok") /\ (a.status = "ok" => a.fields = b.fields)

\* The next field of what is left of the data is that of the data.
LEMMA NextFieldShifted ==
  ASSUME NEW bytes \in Seq(Byte), Len(bytes) <= MaxInt, NEW cut \in 0 .. Len(bytes),
         NEW pos \in 0 .. Len(bytes) - cut - 1
  PROVE  LET a == NextField(Drop(bytes, cut), pos)
             w == NextField(bytes, cut + pos)
         IN  (a.status = "ok" <=> w.status = "ok") /\ (a.status = "ok" => a = w)
<1> DEFINE rest == Drop(bytes, cut + pos)
           place == cut + pos
<1>1. place \in 0 .. Len(bytes) /\ place \in Nat /\ pos \in Nat /\ cut \in Nat
      /\ cut + pos <= Len(bytes)
  OBVIOUS
<1>2. rest \in Seq(Byte) /\ Len(rest) = Len(bytes) - place
  BY <1>1, DropIs
<1>3. Drop(Drop(bytes, cut), pos) = rest
  BY <1>1, DropDrop
<1>4. Fits(rest, pos) /\ Fits(rest, place) /\ Begins(rest, rest)
  BY <1>1, <1>2, SignedIs DEF Begins, Fits
<1>5. /\ NextField(Drop(bytes, cut), pos) = FieldAt(rest, pos)
      /\ NextField(bytes, cut + pos) = FieldAt(rest, place)
  BY <1>3 DEF NextField
<1> HIDE DEF rest, place
<1>6. FieldAt(rest, pos).status = "ok" => FieldAt(rest, place) = FieldAt(rest, pos)
  BY <1>4, FieldAtBegins
<1>7. FieldAt(rest, place).status = "ok" => FieldAt(rest, pos) = FieldAt(rest, place)
  BY <1>4, FieldAtBegins
<1> QED BY <1>5, <1>6, <1>7

\* A field that can be read from the front of the data is read the same from
\* all of it.
LEMMA NextFieldInTake ==
  ASSUME NEW bytes \in Seq(Byte), Len(bytes) <= MaxInt, NEW cut \in 0 .. Len(bytes),
         NEW pos \in 0 .. cut - 1, NextField(Take(bytes, cut), pos).status = "ok"
  PROVE  NextField(bytes, pos) = NextField(Take(bytes, cut), pos)
<1> DEFINE short == Drop(Take(bytes, cut), pos)
           long == Drop(bytes, pos)
<1>1. /\ Take(bytes, cut) \in Seq(Byte) /\ Len(Take(bytes, cut)) = cut
      /\ Begins(Take(bytes, cut), bytes)
  BY TakeIs, TakeBegins
<1>2. pos \in 0 .. cut /\ pos \in 0 .. Len(bytes) /\ pos \in Nat
  OBVIOUS
<1>3. short \in Seq(Byte) /\ Len(short) = cut - pos
  BY <1>1, <1>2, DropIs
<1>4. long \in Seq(Byte) /\ Len(long) = Len(bytes) - pos
  BY <1>2, DropIs
<1>5. Begins(short, long)
  BY <1>1, <1>2, DropBegins
<1>6. Fits(short, pos) /\ Fits(long, pos)
  BY <1>2, <1>3, <1>4, SignedIs DEF Fits
<1>7. /\ NextField(Take(bytes, cut), pos) = FieldAt(short, pos)
      /\ NextField(bytes, pos) = FieldAt(long, pos)
  BY DEF NextField
<1> HIDE DEF short, long
<1>8. FieldAt(long, pos) = FieldAt(short, pos)
  BY <1>5, <1>6, <1>7, FieldAtBegins
<1> QED BY <1>7, <1>8

\* The messages from a place on are those of the data without what is before it.
LEMMA MessageFromShifted ==
  ASSUME NEW bytes \in Seq(Byte), Len(bytes) <= MaxInt, NEW cut \in 0 .. Len(bytes),
         NEW ga, MessagesFrom(Drop(bytes, cut), ga), NEW gw, MessagesFrom(bytes, gw)
  PROVE  \A pos \in 0 .. Len(bytes) - cut : Agree(ga[pos], gw[cut + pos])
<1> DEFINE after == Drop(bytes, cut)
           L == Len(bytes) - cut
           T == {k \in 0 .. L : \A pos \in k .. L : Agree(ga[pos], gw[cut + pos])}
<1>1. after \in Seq(Byte) /\ Len(after) = L /\ L \in Nat /\ Len(after) <= MaxInt
      /\ MessagesFrom(after, ga)
  BY DropIs, SignedIs
<1> HIDE DEF after
<1>2. L \in T
  <2>1. ga[L] = Done
    <3>1. Len(after) \in 0 .. Len(after)
      BY <1>1
    <3>2. ga[Len(after)] = Done
      BY <1>1, <3>1, MessageFromIs
    <3> QED BY <1>1, <3>2
  <2>2. gw[cut + L] = Done
    <3>1. cut + L = Len(bytes) /\ Len(bytes) \in 0 .. Len(bytes)
      OBVIOUS
    <3> QED BY <3>1, MessageFromIs
  <2> QED BY <1>1, <2>1, <2>2 DEF Agree
<1>3. ASSUME NEW k \in 0 .. L - 1, k + 1 \in T PROVE k \in T
  <2>1. Agree(ga[k], gw[cut + k])
    <3> DEFINE a == NextField(after, k)
               w == NextField(bytes, cut + k)
    <3>1. (a.status = "ok" <=> w.status = "ok") /\ (a.status = "ok" => a = w)
      BY NextFieldShifted DEF after
    <3>2. /\ k \in 0 .. Len(after) /\ k # Len(after)
          /\ cut + k \in 0 .. Len(bytes) /\ cut + k # Len(bytes)
      BY <1>1
    <3>3. IF a.status = "ok"
          THEN /\ a.size \in Nat /\ k + a.size \in k + 1 .. L
               /\ ga[k + a.size] \in MessageType
               /\ ga[k].status = ga[k + a.size].status
               /\ ga[k].status = "ok" => ga[k].fields = <<a.field>> \o ga[k + a.size].fields
          ELSE ga[k].status # "ok"
      BY <1>1, <3>2, MessageFromIs
    <3>4. IF w.status = "ok"
          THEN /\ cut + k + w.size \in cut + k + 1 .. Len(bytes)
               /\ gw[cut + k].status = gw[cut + k + w.size].status
               /\ gw[cut + k].status = "ok" =>
                    gw[cut + k].fields = <<w.field>> \o gw[cut + k + w.size].fields
          ELSE gw[cut + k].status # "ok"
      BY <3>2, MessageFromIs
    <3> HIDE DEF a, w
    <3>5. CASE a.status = "ok"
      <4>1. cut + k + w.size = cut + (k + a.size)
        BY <3>1, <3>3, <3>5
      <4>2. Agree(ga[k + a.size], gw[cut + (k + a.size)])
        BY <1>3, <3>3, <3>5
      <4> QED BY <3>1, <3>3, <3>4, <3>5, <4>1, <4>2 DEF Agree
    <3>6. CASE a.status # "ok"
      BY <3>1, <3>3, <3>4, <3>6 DEF Agree
    <3> QED BY <3>5, <3>6
  <2>2. \A pos \in k .. L : pos = k \/ pos \in k + 1 .. L
    OBVIOUS
  <2>3. \A pos \in k + 1 .. L : Agree(ga[pos], gw[cut + pos])
    BY <1>3
  <2>4. \A pos \in k .. L : Agree(ga[pos], gw[cut + pos])
    BY <2>1, <2>2, <2>3
  <2> QED BY <2>4
<1>4. 0 .. L \subseteq T
  <2> HIDE DEF T
  <2> QED BY <1>1, <1>2, <1>3, DownwardSetInduction
<1>5. 0 \in T
  <2> HIDE DEF T
  <2> QED BY <1>1, <1>4
<1> QED BY <1>5

\* Concatenation is associative.
LEMMA Regrouped ==
  \A x, y, z \in Seq(FieldType) : (x \o y) \o z = x \o (y \o z)
BY ConcatAssociative

\* A readable part of the data is followed by what is read behind it.
LEMMA DecodeComposes ==
  ASSUME NEW bytes \in Seq(Byte), Len(bytes) <= MaxInt, NEW cut \in 0 .. Len(bytes),
         Decode(Take(bytes, cut)).status = "ok"
  PROVE  LET before == Decode(Take(bytes, cut))
             after  == Decode(Drop(bytes, cut))
             whole  == Decode(bytes)
         IN  /\ whole.status = "ok" <=> after.status = "ok"
             /\ whole.status = "ok" => whole.fields = before.fields \o after.fields
<1> DEFINE front == Take(bytes, cut)
           back == Drop(bytes, cut)
<1>1. front \in Seq(Byte) /\ Len(front) = cut /\ Len(front) <= MaxInt /\ cut \in Nat
  BY TakeIs, SignedIs
<1>2. back \in Seq(Byte) /\ Len(back) = Len(bytes) - cut /\ Len(back) <= MaxInt
  BY DropIs, SignedIs
<1>3. PICK gb : MessagesFrom(front, gb)
  BY <1>1, DecodeIs
<1>4. PICK ga : MessagesFrom(back, ga)
  BY <1>2, DecodeIs
<1>5. PICK gw : MessagesFrom(bytes, gw)
  BY DecodeIs
<1>6. Agree(ga[0], gw[cut])
  <2>1. 0 \in 0 .. Len(bytes) - cut /\ cut + 0 = cut
    BY <1>1
  <2> QED BY <1>4, <1>5, <2>1, MessageFromShifted
<1>7. Decode(front) = gb[0] /\ Decode(back) = ga[0] /\ Decode(bytes) = gw[0]
  BY <1>3, <1>4, <1>5 DEF MessagesFrom
<1>8. Decode(front).status = "ok"
  OBVIOUS
<1>9. \A pos \in 0 .. cut : gb[pos] \in MessageType
  BY <1>1, <1>3 DEF MessagesFrom
<1>10. \A pos \in 0 .. Len(bytes) : gw[pos] \in MessageType
  BY <1>5 DEF MessagesFrom
<1>11. cut \in 0 .. Len(bytes)
  OBVIOUS
<1> HIDE DEF front, back
<1> DEFINE Joins(pos) ==
             gb[pos].status = "ok" =>
               /\ gw[pos].status = "ok" <=> gw[cut].status = "ok"
               /\ gw[pos].status = "ok" => gw[pos].fields = gb[pos].fields \o gw[cut].fields
           T == {k \in 0 .. cut : \A pos \in k .. cut : Joins(pos)}
<1>12. cut \in T
  <2>1. gb[cut] = Done
    <3>1. Len(front) \in 0 .. Len(front)
      BY <1>1
    <3>2. gb[Len(front)] = Done
      BY <1>1, <1>3, <3>1, MessageFromIs
    <3> QED BY <1>1, <3>2
  <2>2. gw[cut].fields \in Seq(FieldType)
    BY <1>10, <1>11 DEF MessageType
  <2>3. <<>> \o gw[cut].fields = gw[cut].fields
    BY <2>2, ConcatEmptySeq
  <2>4. Joins(cut)
    <3>1. gb[cut].fields = <<>>
      BY <2>1 DEF Done
    <3> QED BY <2>3, <3>1
  <2> HIDE DEF Joins
  <2> QED BY <1>1, <2>4
<1>13. ASSUME NEW k \in 0 .. cut - 1, k + 1 \in T PROVE k \in T
  <2>1. Joins(k)
    <3> SUFFICES ASSUME gb[k].status = "ok" PROVE Joins(k)
      OBVIOUS
    <3> DEFINE b == NextField(front, k)
               w == NextField(bytes, k)
               later == k + b.size
    <3>1. k \in 0 .. Len(front) /\ k # Len(front) /\ k \in 0 .. Len(bytes) /\ k # Len(bytes)
      BY <1>1, <1>11
    <3>2. /\ b.status = "ok"
          /\ later \in k + 1 .. cut
          /\ b.field \in FieldType
          /\ gb[k].status = gb[later].status
          /\ gb[k].fields = <<b.field>> \o gb[later].fields
      BY <1>1, <1>3, <3>1, MessageFromIs
    <3>3. w = b
      BY <3>2, NextFieldInTake DEF front
    <3>4. /\ gw[k].status = gw[later].status
          /\ gw[k].status = "ok" => gw[k].fields = <<b.field>> \o gw[later].fields
      <4>1. IF w.status = "ok"
            THEN /\ gw[k].status = gw[k + w.size].status
                 /\ gw[k].status = "ok" => gw[k].fields = <<w.field>> \o gw[k + w.size].fields
            ELSE gw[k].status # "ok"
        BY <1>5, <3>1, MessageFromIs
      <4> HIDE DEF b, w
      <4> QED BY <3>2, <3>3, <4>1
    <3> HIDE DEF b, w, later
    <3>5. later \in 0 .. cut /\ Joins(later)
      <4>1. later \in k + 1 .. cut /\ k + 1 \in 0 .. cut
        BY <3>2
      <4>2. \A pos \in k + 1 .. cut : Joins(pos)
        BY <1>13
      <4> HIDE DEF Joins, T
      <4> QED BY <4>1, <4>2
    <3>6. /\ <<b.field>> \in Seq(FieldType)
          /\ gb[later].fields \in Seq(FieldType)
          /\ gw[cut].fields \in Seq(FieldType)
      BY <1>9, <1>10, <1>11, <3>2, <3>5 DEF MessageType
    <3>7. (<<b.field>> \o gb[later].fields) \o gw[cut].fields
            = <<b.field>> \o (gb[later].fields \o gw[cut].fields)
      <4> DEFINE x == <<b.field>>
                 y == gb[later].fields
                 z == gw[cut].fields
      <4>1. x \in Seq(FieldType) /\ y \in Seq(FieldType) /\ z \in Seq(FieldType)
        BY <3>6
      <4> HIDE DEF x, y, z
      <4>2. (x \o y) \o z = x \o (y \o z)
        BY <4>1, Regrouped
      <4> QED BY <4>2 DEF x, y, z
    <3> QED BY <3>2, <3>4, <3>5, <3>7
  <2>2. \A pos \in k .. cut : pos = k \/ pos \in k + 1 .. cut
    OBVIOUS
  <2>3. \A pos \in k + 1 .. cut : Joins(pos)
    BY <1>13
  <2> HIDE DEF Joins
  <2>4. \A pos \in k .. cut : Joins(pos)
    BY <2>1, <2>2, <2>3
  <2> QED BY <2>4
<1>14. Joins(0)
  <2>1. 0 \in 0 .. cut /\ cut \in Nat
    BY <1>1
  <2> HIDE DEF T
  <2>2. 0 .. cut \subseteq T
    BY <2>1, <1>12, <1>13, DownwardSetInduction
  <2>3. 0 \in T
    BY <2>1, <2>2
  <2> QED BY <2>1, <2>3 DEF T
<1> QED BY <1>6, <1>7, <1>8, <1>14 DEF Agree, front, back

-----------------------------------------------------------------------------
(* Selected elements                                                       *)

SelectStep(s, chosen, v, i) == IF i \in chosen THEN Append(v, s[i]) ELSE v

\* Selected goes through a sequence from its start.
Selections(s, chosen, S, u) ==
    /\ u \in [0 .. Len(s) -> Seq(S)]
    /\ u[0] = <<>>
    /\ \A i \in 1 .. Len(s) : u[i] = SelectStep(s, chosen, u[i - 1], i)
    /\ Selected(s, chosen) = u[Len(s)]

\* The chosen elements are in S.
ChosenIn(s, chosen, S) == \A i \in 1 .. Len(s) : i \in chosen => s[i] \in S

\* Selected goes through the sequence as Selections says.
LEMMA SelectedIs ==
  ASSUME NEW R, NEW s \in Seq(R), NEW chosen, NEW S, ChosenIn(s, chosen, S)
  PROVE  \E u : Selections(s, chosen, S, u)
<1> USE DEF ChosenIn
<1> DEFINE n == Len(s)
           V == Seq(S)
           Def(g) == [i \in 0 .. n |-> IF i = 0 THEN <<>>
                                       ELSE IF i \in chosen THEN Append(g[i - 1], s[i])
                                                            ELSE g[i - 1]]
           u == CHOOSE g : g = Def(g)
           F == [i \in 1 .. n |-> [v \in V |-> SelectStep(s, chosen, v, i)]]
<1>0. n \in Nat /\ <<>> \in V
  OBVIOUS
<1>1. PICK g \in [0 .. n -> V] : g[0] = <<>> /\ \A i \in 1 .. n : g[i] = F[i][g[i - 1]]
  <2>1. ASSUME NEW i \in 1 .. n, NEW v \in V PROVE SelectStep(s, chosen, v, i) \in V
    BY DEF SelectStep
  <2>2. F \in Steps(n, V)
    BY <2>1 DEF Steps
  <2> DEFINE c == <<>>
  <2>3. c \in V
    OBVIOUS
  <2> HIDE DEF F, V, c
  <2>4. Iterates(F, n, c, V) # {}
    BY <1>0, <2>2, <2>3, Iteration
  <2> QED BY <2>4 DEF Iterates, c
<1>2. g = Def(g)
  <2>1. ASSUME NEW i \in 0 .. n PROVE g[i] = Def(g)[i]
    <3>1. CASE i = 0
      BY <1>1, <3>1
    <3>2. CASE i # 0
      <4>1. g[i - 1] \in V /\ i \in 1 .. n
        BY <3>2
      <4>2. g[i] = SelectStep(s, chosen, g[i - 1], i)
        BY <1>1, <4>1
      <4> QED BY <4>2, <3>2 DEF SelectStep
    <3> QED BY <3>1, <3>2
  <2>2. g = [i \in 0 .. n |-> g[i]]
    OBVIOUS
  <2> QED BY <2>1, <2>2
<1>3. u = Def(u)
  <2> HIDE DEF Def
  <2> QED BY <1>2
<1>4. Selected(s, chosen) = u[n]
  BY DEF Selected
<1> HIDE DEF u
<1>5. u[0] = <<>> /\ \A i \in 1 .. n : u[i] = SelectStep(s, chosen, u[i - 1], i)
  <2>1. u[0] = <<>>
    <3>1. 0 \in 0 .. n
      BY <1>0
    <3> QED BY <1>3, <3>1
  <2>2. ASSUME NEW i \in 1 .. n PROVE u[i] = SelectStep(s, chosen, u[i - 1], i)
    <3>1. i \in 0 .. n /\ i # 0
      OBVIOUS
    <3>2. u[i] = Def(u)[i]
      BY <1>3
    <3>3. Def(u)[i] = SelectStep(s, chosen, u[i - 1], i)
      BY <3>1 DEF SelectStep
    <3> QED BY <3>2, <3>3
  <2> QED BY <2>1, <2>2
<1>6. DOMAIN u = 0 .. n /\ u = [i \in 0 .. n |-> u[i]]
  BY <1>3
<1>7. \A i \in 0 .. n : u[i] \in V
  <2> DEFINE T == {i \in 0 .. n : u[i] \in V}
  <2>1. 0 \in T
    <3>1. 0 \in 0 .. n
      BY <1>0
    <3>2. u[0] \in V
      <4> HIDE DEF V
      <4> QED BY <1>5, <1>0
    <3> QED BY <3>1, <3>2
  <2>2. ASSUME NEW i \in 0 .. n - 1, i \in T PROVE i + 1 \in T
    <3>1. i + 1 \in 1 .. n /\ u[i + 1] = SelectStep(s, chosen, u[i + 1 - 1], i + 1) /\ i + 1 - 1 = i
      BY <1>5
    <3>2. SelectStep(s, chosen, u[i], i + 1) \in V
      BY <2>2, <3>1 DEF SelectStep
    <3> QED BY <3>1, <3>2
  <2> HIDE DEF T
  <2>3. 0 .. n \subseteq T
    BY <2>1, <2>2, <1>0, SetInduction
  <2> QED BY <2>3 DEF T
<1> QED BY <1>4, <1>5, <1>6, <1>7 DEF Selections

\* Selected elements are those of the sequence.
LEMMA SelectedType ==
  ASSUME NEW R, NEW s \in Seq(R), NEW chosen, NEW S,
         ChosenIn(s, chosen, S)
  PROVE  Selected(s, chosen) \in Seq(S)
<1>1. PICK u : Selections(s, chosen, S, u)
  BY SelectedIs
<1>2. Len(s) \in 0 .. Len(s)
  OBVIOUS
<1> QED BY <1>1, <1>2 DEF Selections

\* What is selected depends on the elements in front of the place only.
LEMMA SelectedNext ==
  ASSUME NEW R, NEW s \in Seq(R), NEW chosen, NEW k \in 0 .. Len(s) - 1
  PROVE  Selected(Take(s, k + 1), chosen)
           = SelectStep(s, chosen, Selected(Take(s, k), chosen), k + 1)
<1> DEFINE m == k + 1
           short == Take(s, k)
           long == Take(s, m)
<1>1. k \in 0 .. Len(s) /\ m \in 0 .. Len(s) /\ k \in Nat /\ m \in 1 .. m /\ m - 1 = k
  OBVIOUS
<1>2. /\ short \in Seq(R) /\ Len(short) = k
      /\ long \in Seq(R) /\ Len(long) = m
  BY <1>1, TakeIs
<1>3. /\ \A i \in 1 .. k : short[i] = s[i]
      /\ \A i \in 1 .. m : long[i] = s[i]
  BY <1>1, TakeIs
<1> HIDE DEF short, long, m
<1>4. PICK u : Selections(short, chosen, R, u)
  <2>1. ChosenIn(short, chosen, R)
    BY <1>2 DEF ChosenIn
  <2> QED BY <1>2, <2>1, SelectedIs
<1>5. PICK w : Selections(long, chosen, R, w)
  <2>1. ChosenIn(long, chosen, R)
    BY <1>2 DEF ChosenIn
  <2> QED BY <1>2, <2>1, SelectedIs
<1> DEFINE T == {i \in 0 .. k : u[i] = w[i]}
<1>6. 0 \in T
  BY <1>1, <1>4, <1>5 DEF Selections
<1>7. ASSUME NEW i \in 0 .. k - 1, i \in T PROVE i + 1 \in T
  <2> DEFINE j == i + 1
  <2>1. j \in 1 .. k /\ j \in 1 .. m /\ j - 1 = i
    BY <1>1 DEF m
  <2>2. short[j] = long[j]
    BY <1>3, <2>1
  <2>3. u[j] = SelectStep(short, chosen, u[j - 1], j)
    BY <1>2, <1>4, <2>1 DEF Selections
  <2>4. w[j] = SelectStep(long, chosen, w[j - 1], j)
    BY <1>2, <1>5, <2>1 DEF Selections
  <2>5. u[j] = w[j]
    BY <1>7, <2>1, <2>2, <2>3, <2>4 DEF SelectStep
  <2> QED BY <2>1, <2>5
<1>8. k \in T
  <2> HIDE DEF T
  <2>1. 0 .. k \subseteq T
    BY <1>1, <1>6, <1>7, SetInduction
  <2> QED BY <1>1, <2>1
<1>9. Selected(short, chosen) = u[k] /\ Selected(long, chosen) = w[m]
  BY <1>2, <1>4, <1>5 DEF Selections
<1>10. w[m] = SelectStep(long, chosen, w[k], m) /\ long[m] = s[m]
  BY <1>1, <1>2, <1>3, <1>5 DEF Selections
<1>11. SelectStep(long, chosen, w[k], m) = SelectStep(s, chosen, w[k], m)
  BY <1>10 DEF SelectStep
<1>12. Selected(long, chosen) = SelectStep(s, chosen, Selected(short, chosen), m)
  BY <1>8, <1>9, <1>10, <1>11
<1> QED BY <1>12 DEF short, long, m

\* All elements, and none.
LEMMA TakeAll ==
  ASSUME NEW R, NEW s \in Seq(R)
  PROVE  Take(s, Len(s)) = s /\ Take(s, 0) = <<>>
<1>1. Len(s) \in 0 .. Len(s) /\ 0 \in 0 .. Len(s)
  OBVIOUS
<1>2. Take(s, Len(s)) = s
  <2>1. /\ Take(s, Len(s)) \in Seq(R) /\ Len(Take(s, Len(s))) = Len(s)
        /\ \A i \in 1 .. Len(s) : Take(s, Len(s))[i] = s[i]
    BY <1>1, TakeIs
  <2> QED BY <2>1, SeqEqual
<1>3. Take(s, 0) = <<>>
  BY <1>1, TakeIs, EmptySeq
<1> QED BY <1>2, <1>3

\* Nothing can be selected of the empty sequence.
LEMMA SelectedNone ==
  ASSUME NEW chosen
  PROVE  Selected(<<>>, chosen) = <<>>
<1> DEFINE s == <<>>
<1>1. s \in Seq({}) /\ Len(s) = 0
  OBVIOUS
<1> HIDE DEF s
<1>2. PICK u : Selections(s, chosen, {}, u)
  <2>1. ChosenIn(s, chosen, {})
    BY <1>1 DEF ChosenIn
  <2> QED BY <1>1, <2>1, SelectedIs
<1>3. Selected(s, chosen) = <<>>
  BY <1>1, <1>2 DEF Selections
<1> QED BY <1>3 DEF s

-----------------------------------------------------------------------------
(* What a message is made of                                               *)

\* A varint at a place of the data is a length that cannot be addressed.
HugeAt(data, k) == VarintLen(Drop(data, k)) # 0 /\ HugeLength(Drop(data, k), k)

HugeWithin(data) == \E k \in 0 .. Len(data) : HugeAt(data, k)

IsPart(bytes, data) ==
    \E n, size \in Nat : n + size <= Len(data) /\ bytes = Part(data, n, size)

\* Fields whose bytes, if they hold bytes, are a part of the data.
FieldsOf(data) == {f \in FieldType : f.wire = 2 => IsPart(f.value.bytes, data)}

\* The next field holds bytes of the data, and fails at run time only behind
\* a huge length.
LEMMA NextFieldOf ==
  ASSUME NEW data \in Seq(Byte), Len(data) <= MaxInt, NEW pos \in 0 .. Len(data) - 1
  PROVE  /\ NextField(data, pos).status = "ok" => NextField(data, pos).field \in FieldsOf(data)
         /\ NextField(data, pos).status = "panic" => HugeWithin(data)
<1> DEFINE rest == Drop(data, pos)
           next == FieldAt(rest, pos)
<1>1. rest \in Seq(Byte) /\ Len(rest) = Len(data) - pos /\ pos \in Nat
  BY DropIs
<1>2. next = NextField(data, pos)
  BY DEF NextField
<1>3. pos + Len(rest) <= MaxInt
  BY <1>1
<1> HIDE DEF rest, next
<1>4. /\ next \in FieldReadType
      /\ next.status = "ok" /\ next.field.wire = 2 =>
           \E n, size \in Nat :
             n + size <= Len(rest) /\ next.field.value.bytes = Part(rest, n, size)
      /\ next.status = "panic" =>
           \E k \in 0 .. Len(rest) :
             VarintLen(Drop(rest, k)) # 0 /\ HugeLength(Drop(rest, k), pos + k)
  BY <1>1, <1>3, FieldAtIs DEF next
<1>5. ASSUME next.status = "ok" PROVE next.field \in FieldsOf(data)
  <2>1. next.field \in FieldType
    BY <1>4 DEF FieldReadType
  <2>2. ASSUME next.field.wire = 2 PROVE IsPart(next.field.value.bytes, data)
    <3>1. PICK n \in Nat, size \in Nat :
             n + size <= Len(rest) /\ next.field.value.bytes = Part(rest, n, size)
      BY <1>4, <1>5, <2>2
    <3> DEFINE from == pos + n
    <3>2. from \in Nat /\ from + size <= Len(data)
      BY <1>1, <3>1
    <3>3. Part(rest, n, size) = Part(data, from, size)
      BY <1>1, <3>2, PartOfDrop DEF rest
    <3> HIDE DEF from
    <3> QED BY <3>1, <3>2, <3>3 DEF IsPart
  <2> QED BY <2>1, <2>2 DEF FieldsOf
<1>6. ASSUME next.status = "panic" PROVE HugeWithin(data)
  <2>1. PICK k \in 0 .. Len(rest) :
           VarintLen(Drop(rest, k)) # 0 /\ HugeLength(Drop(rest, k), pos + k)
    BY <1>4, <1>6
  <2> DEFINE at == pos + k
  <2>2. at \in 0 .. Len(data) /\ k \in Nat /\ pos + k <= Len(data)
    BY <1>1
  <2>3. Drop(rest, k) = Drop(data, at)
    BY <1>1, <2>2, DropDrop DEF rest
  <2>4. HugeAt(data, at)
    BY <2>1, <2>3 DEF HugeAt
  <2> HIDE DEF at
  <2> QED BY <2>2, <2>4 DEF HugeWithin
<1> QED BY <1>2, <1>5, <1>6

\* Bytes that were decoded are a part of what they were decoded from, and
\* decoding fails at run time only on a length that is huge.
LEMMA DecodedFields ==
  ASSUME NEW data \in Seq(Byte), Len(data) <= MaxInt
  PROVE  /\ Decode(data) \in MessageType
         /\ Decode(data).status = "ok" => Decode(data).fields \in Seq(FieldsOf(data))
         /\ Decode(data).status = "panic" => HugeWithin(data)
<1> DEFINE L == Len(data)
           M == {m \in MessageType : /\ m.status = "ok" => m.fields \in Seq(FieldsOf(data))
                                     /\ m.status = "panic" => HugeWithin(data)}
<1>0. L \in Nat /\ L \in 0 .. L /\ 0 \in 0 .. L
  OBVIOUS
<1>1. PICK g : MessagesFrom(data, g)
  BY DecodeIs
<1> DEFINE T == {k \in 0 .. L : \A pos \in k .. L : g[pos] \in M}
<1>2. L \in T
  <2>1. g[L] = Done /\ g[L] \in MessageType
    BY <1>0, <1>1, MessageFromIs
  <2>2. g[L] \in M
    <3>1. <<>> \in Seq(FieldsOf(data))
      OBVIOUS
    <3>2. g[L].status = "ok" /\ g[L].fields = <<>>
      BY <2>1 DEF Done
    <3> QED BY <2>1, <3>1, <3>2
  <2> HIDE DEF M
  <2> QED BY <1>0, <2>2
<1>3. ASSUME NEW k \in 0 .. L - 1, k + 1 \in T PROVE k \in T
  <2> DEFINE next == NextField(data, k)
             later == k + next.size
  <2>1. k \in 0 .. Len(data) /\ k # Len(data) /\ k \in 0 .. Len(data) - 1
    OBVIOUS
  <2>2. /\ g[k] \in MessageType
        /\ IF next.status = "ok"
           THEN /\ later \in k + 1 .. L
                /\ g[k].status = g[later].status
                /\ g[k].status = "ok" => g[k].fields = <<next.field>> \o g[later].fields
           ELSE g[k].status = next.status /\ g[k].status # "ok"
    BY <1>1, <2>1, MessageFromIs
  <2>3. /\ next.status = "ok" => next.field \in FieldsOf(data)
        /\ next.status = "panic" => HugeWithin(data)
    BY <2>1, NextFieldOf
  <2> HIDE DEF next, later
  <2>4. \A pos \in k + 1 .. L : g[pos] \in M
    <3> HIDE DEF M
    <3> QED BY <1>3
  <2>5. g[k] \in M
    <3>1. CASE next.status = "ok"
      <4>1. g[later] \in M
        <5> HIDE DEF M
        <5> QED BY <2>2, <2>4, <3>1
      <4>2. ASSUME g[k].status = "ok" PROVE g[k].fields \in Seq(FieldsOf(data))
        <5> DEFINE S == FieldsOf(data)
                   rest == g[later].fields
        <5>1. rest \in Seq(S) /\ next.field \in S /\ g[k].fields = <<next.field>> \o rest
          BY <2>2, <2>3, <3>1, <4>1, <4>2
        <5> HIDE DEF S, rest
        <5>2. <<next.field>> \o rest \in Seq(S)
          BY <5>1
        <5> QED BY <5>1, <5>2 DEF S
      <4> QED BY <2>2, <3>1, <4>1, <4>2
    <3>2. CASE next.status # "ok"
      BY <2>2, <2>3, <3>2
    <3> QED BY <3>1, <3>2
  <2>6. \A pos \in k .. L : pos = k \/ pos \in k + 1 .. L
    OBVIOUS
  <2> HIDE DEF M
  <2>7. \A pos \in k .. L : g[pos] \in M
    BY <2>4, <2>5, <2>6
  <2> QED BY <2>1, <2>7
<1>4. g[0] \in M
  <2> HIDE DEF T
  <2>1. 0 .. L \subseteq T
    BY <1>0, <1>2, <1>3, DownwardSetInduction
  <2>2. 0 \in T
    BY <1>0, <2>1
  <2> HIDE DEF M
  <2> QED BY <1>0, <2>2 DEF T
<1> QED BY <1>1, <1>4 DEF MessagesFrom

\* A huge length within a part of the data is one of the data.
LEMMA HugeInPart ==
  ASSUME NEW data \in Seq(Byte), NEW n \in Nat, NEW size \in Nat, n + size <= Len(data),
         HugeWithin(Part(data, n, size))
  PROVE  HugeWithin(data)
<1> DEFINE part == Part(data, n, size)
<1>1. part \in Seq(Byte) /\ Len(part) = size /\ \A i \in 1 .. size : part[i] = data[n + i]
  BY PartIs
<1>2. PICK k \in 0 .. Len(part) : HugeAt(part, k)
  BY DEF HugeWithin
<1> DEFINE at == n + k
           short == Drop(part, k)
           long == Drop(data, at)
<1> HIDE DEF part
<1>3. k \in 0 .. size /\ k \in Nat /\ at \in 0 .. Len(data) /\ at = n + k
  BY <1>1
<1>4. /\ short \in Seq(Byte) /\ Len(short) = size - k
      /\ \A i \in 1 .. size - k : short[i] = part[k + i]
  <2>1. part \in Seq(Byte) /\ Len(part) = size /\ k \in 0 .. Len(part)
    BY <1>1
  <2>2. /\ short \in Seq(Byte) /\ Len(short) = Len(part) - k
        /\ \A i \in 1 .. Len(part) - k : short[i] = part[k + i]
    BY <2>1, DropIs
  <2> HIDE DEF short
  <2> QED BY <2>1, <2>2
<1>5. /\ long \in Seq(Byte) /\ Len(long) = Len(data) - at
      /\ \A i \in 1 .. Len(data) - at : long[i] = data[at + i]
  BY <1>3, DropIs
<1>6. VarintLen(short) # 0 /\ HugeLength(short, k)
  BY <1>2 DEF HugeAt
<1> HIDE DEF short, long, at
<1>7. Begins(short, long)
  <2>1. Len(short) <= Len(long)
    BY <1>3, <1>4, <1>5
  <2>2. ASSUME NEW i \in 1 .. Len(short) PROVE short[i] = long[i]
    <3>1. i \in 1 .. size - k /\ k + i \in 1 .. size /\ i \in 1 .. Len(data) - at
      BY <1>3, <1>4
    <3>2. short[i] = part[k + i] /\ part[k + i] = data[n + (k + i)] /\ long[i] = data[at + i]
      BY <1>1, <1>4, <1>5, <3>1
    <3>3. n + (k + i) = at + i
      BY <1>3
    <3> QED BY <3>2, <3>3
  <2> QED BY <2>1, <2>2 DEF Begins
<1>8. VarintLen(long) # 0 /\ decodeVarint(long).value = decodeVarint(short).value
  BY <1>4, <1>5, <1>6, <1>7, VarintLenBegins, DecodeVarintBegins
<1>9. decodeVarint(short).value \in Nat
  BY <1>4, DecodeVarintType, Widths
<1>10. HugeLength(long, at)
  BY <1>3, <1>6, <1>8, <1>9, Widths DEF HugeLength
<1>11. HugeAt(data, at)
  BY <1>8, <1>10 DEF HugeAt, long
<1> QED BY <1>3, <1>11 DEF HugeWithin

\* Decoding the fields of a number fails at run time only on a huge length.
LEMMA RepeatedPanics ==
  ASSUME NEW data \in Seq(Byte), Len(data) <= MaxInt, NEW num,
         DecodeRepeated(data, num).status = "panic"
  PROVE  HugeWithin(data)
<1> DEFINE outer == Decode(data)
           places == {i \in DOMAIN outer.fields :
                        outer.fields[i].num = num /\ outer.fields[i].wire = 2}
           picked == Selected(outer.fields, places)
           inner == [i \in DOMAIN picked |-> Decode(picked[i].value.bytes)]
           S == {f \in FieldsOf(data) : f.wire = 2}
<1>1. /\ outer \in MessageType
      /\ outer.status = "ok" => outer.fields \in Seq(FieldsOf(data))
      /\ outer.status = "panic" => HugeWithin(data)
  BY DecodedFields
<1>2. DecodeRepeated(data, num) = IF outer.status = "ok" THEN Collect(inner)
                                  ELSE [status |-> outer.status, messages |-> <<>>]
  BY DEF DecodeRepeated, Embedded
<1>3. CASE outer.status # "ok"
  BY <1>1, <1>2, <1>3
<1>4. CASE outer.status = "ok"
  <2>1. picked \in Seq(S)
    <3> DEFINE fields == outer.fields
               R == FieldsOf(data)
    <3>1. fields \in Seq(R)
      BY <1>1, <1>4
    <3>2. ChosenIn(fields, places, S)
      <4> SUFFICES ASSUME NEW i \in 1 .. Len(fields), i \in places PROVE fields[i] \in S
        BY DEF ChosenIn
      <4>1. fields[i] \in R
        <5> HIDE DEF R, fields
        <5> QED BY <3>1
      <4>2. fields[i].wire = 2
        OBVIOUS
      <4> QED BY <4>1, <4>2
    <3> HIDE DEF fields, R, places, S
    <3>3. Selected(fields, places) \in Seq(S)
      BY <3>1, <3>2, SelectedType
    <3> QED BY <3>3 DEF fields
  <2> HIDE DEF picked
  <2>2. ASSUME NEW i \in DOMAIN picked PROVE IsPart(picked[i].value.bytes, data)
    <3>1. picked[i] \in S
      <4> HIDE DEF S
      <4> QED BY <2>1
    <3> QED BY <3>1 DEF FieldsOf
  <2> DEFINE bad == {i \in DOMAIN inner : inner[i].status # "ok"}
  <2>3. Collect(inner).status = "panic"
    BY <1>2, <1>4
  <2>4. Collect(inner) = IF bad = {}
          THEN [status |-> "ok", messages |-> [i \in DOMAIN inner |-> inner[i].fields]]
          ELSE [status |-> inner[Min(bad)].status, messages |-> <<>>]
    BY DEF Collect
  <2>5. bad # {} /\ inner[Min(bad)].status = "panic"
    <3> HIDE DEF bad, inner
    <3> QED BY <2>3, <2>4
  <2>6. bad \subseteq Nat /\ DOMAIN inner = DOMAIN picked
    <3>1. DOMAIN picked = 1 .. Len(picked) /\ DOMAIN picked \subseteq Nat
      <4> HIDE DEF S
      <4> QED BY <2>1
    <3>2. DOMAIN inner = DOMAIN picked
      OBVIOUS
    <3> QED BY <3>1, <3>2
  <2>7. Min(bad) \in DOMAIN picked
    <3>1. bad \subseteq DOMAIN picked
      BY <2>6
    <3> HIDE DEF bad
    <3> QED BY <2>5, <2>6, <3>1, MinIs
  <2> DEFINE m == Min(bad)
  <2> HIDE DEF bad
  <2>8. inner[m].status = "panic" /\ m \in DOMAIN picked
    BY <2>5, <2>7
  <2> HIDE DEF m
  <2>9. Decode(picked[m].value.bytes).status = "panic"
    BY <2>8
  <2>10. PICK n \in Nat, size \in Nat :
            n + size <= Len(data) /\ picked[m].value.bytes = Part(data, n, size)
    BY <2>2, <2>8 DEF IsPart
  <2> DEFINE part == Part(data, n, size)
  <2>11. part \in Seq(Byte) /\ Len(part) <= MaxInt
    <3>1. part \in Seq(Byte) /\ Len(part) = size
      BY <2>10, PartIs
    <3> QED BY <3>1, <2>10, SignedIs
  <2>12. HugeWithin(part)
    <3>1. Decode(part).status = "panic"
      BY <2>9, <2>10
    <3> HIDE DEF part
    <3> QED BY <2>11, <3>1, DecodedFields
  <2> QED BY <2>10, <2>12, HugeInPart
<1> QED BY <1>3, <1>4

-----------------------------------------------------------------------------
(* What is encoded is decoded                                              *)

\* The remainder of a number in its only division with rest.
LEMMA Remainder ==
  ASSUME NEW d \in Nat \ {0}, NEW q \in Nat, NEW r \in 0 .. d - 1
  PROVE  (d * q + r) % d = r
<1> DEFINE n == d * q + r
           k == n \div d
<1>1. n \in Nat /\ k \in Nat
  OBVIOUS
<1>2. n = d * k + (n % d) /\ (n % d) \in 0 .. d - 1
  OBVIOUS
<1>3. n = d * q + r
  OBVIOUS
<1> HIDE DEF n, k
<1>4. d * (k - q) = r - (n % d)
  BY <1>1, <1>2, <1>3
<1>5. k - q = 0
  BY <1>1, <1>2, <1>4
<1>6. k = q
  BY <1>1, <1>5
<1>7. n % d = r
  BY <1>1, <1>2, <1>3, <1>6
<1> QED BY <1>7 DEF n

\* A number by its last digit and the digits before that.
LEMMA Digits ==
  ASSUME NEW n \in Nat, NEW p \in Nat \ {0}, NEW m \in Nat \ {0}
  PROVE  n % (p * m) = (n % p) + ((n \div p) % m) * p
<1> DEFINE q == n \div p
           r == n % p
           qq == q \div m
           rr == q % m
<1>1. q \in Nat /\ r \in 0 .. p - 1 /\ n = p * q + r
  OBVIOUS
<1>2. qq \in Nat /\ rr \in 0 .. m - 1 /\ q = m * qq + rr
  <2> HIDE DEF q
  <2> QED BY <1>1
<1> DEFINE low == r + rr * p
<1> HIDE DEF q, r, qq, rr
<1>3. n = (p * m) * qq + low
  BY <1>1, <1>2
<1>4. low \in 0 .. p * m - 1
  <2>1. rr * p <= (m - 1) * p
    BY <1>2
  <2>2. (m - 1) * p = p * m - p
    OBVIOUS
  <2>3. rr * p \in Nat
    BY <1>2
  <2> QED BY <1>1, <2>1, <2>2, <2>3
<1> DEFINE pm == p * m
<1>5. pm \in Nat \ {0}
  OBVIOUS
<1> HIDE DEF pm, low
<1>6. n % pm = low
  <2>1. n = pm * qq + low /\ low \in 0 .. pm - 1
    BY <1>3, <1>4 DEF pm
  <2> QED BY <1>2, <1>5, <2>1, Remainder
<1> QED BY <1>6 DEF pm, low, q, r, rr

\* A group of bits more.
LEMMA PowerGroup ==
  ASSUME NEW i \in Nat \ {0}, NEW w \in Nat
  PROVE  /\ w * (i - 1) \in Nat
         /\ w * i \in Nat
         /\ Power(w * (i - 1)) \in Nat \ {0}
         /\ Power(w * i) = Power(w * (i - 1)) * Power(w)
         /\ Power(w) \in Nat \ {0}
<1> DEFINE a == w * (i - 1)
<1>1. a \in Nat /\ a + w = w * i
  OBVIOUS
<1>2. Power(a) \in Nat \ {0} /\ Power(w) \in Nat \ {0}
  BY <1>1, PowerType
<1>3. Power(a + w) = Power(a) * Power(w)
  <2> HIDE DEF a
  <2> QED BY <1>1, PowerSum
<1>4. w * i \in Nat
  BY <1>1
<1> QED BY <1>1, <1>2, <1>3, <1>4

\* How many bytes the encoding of a number has.
VarintSize(n) == Min({k \in 1 .. MaxVarint : n < Power(GroupBits * k)})

\* Every word has a varint of at most MaxVarint bytes, and a shortest one.
LEMMA VarintSizeIs ==
  ASSUME NEW n \in 0 .. Word - 1
  PROVE  VarintSize(n) \in 1 .. MaxVarint /\ n < Power(GroupBits * VarintSize(n))
<1> DEFINE S == {k \in 1 .. MaxVarint : n < Power(GroupBits * k)}
           most == GroupBits * MaxVarint
<1>1. MaxVarint \in Nat /\ MaxVarint >= 1
  BY Widths
<1>2. most \in Nat /\ WordBits \in Nat /\ WordBits <= most
  BY WidthAssumption DEF MaxVarint
<1>3. n < Power(most)
  <2> HIDE DEF most
  <2>1. Word <= Power(most) /\ Power(most) \in Nat
    BY <1>2, PowerMonotone, PowerType DEF Word
  <2> QED BY <2>1, Widths
<1>4. MaxVarint \in S
  BY <1>1, <1>3
<1>5. S \subseteq Nat /\ S # {}
  BY <1>4
<1>6. Min(S) \in S
  <2> HIDE DEF S
  <2> QED BY <1>5, MinIs
<1> QED BY <1>6 DEF VarintSize

\* The encoding of a word: all bytes but the last have the continuation bit.
LEMMA EncodeVarintIs ==
  ASSUME NEW n \in 0 .. Word - 1
  PROVE  /\ EncodeVarint(n) \in Seq(Byte)
         /\ Len(EncodeVarint(n)) = VarintSize(n)
         /\ \A i \in 1 .. VarintSize(n) :
              /\ EncodeVarint(n)[i] % More = (n \div Power(GroupBits * (i - 1))) % More
              /\ EncodeVarint(n)[i] < More <=> i = VarintSize(n)
<1> DEFINE size == VarintSize(n)
           digit(i) == (n \div Power(GroupBits * (i - 1))) % More
           e == [i \in 1 .. size |-> digit(i) + (IF i < size THEN More ELSE 0)]
<1>1. EncodeVarint(n) = e
  BY DEF EncodeVarint, VarintSize
<1>2. size \in Nat /\ n \in Nat
  BY VarintSizeIs, Widths
<1>3. ASSUME NEW i \in 1 .. size PROVE digit(i) \in 0 .. More - 1
  <2> DEFINE p == Power(GroupBits * (i - 1))
  <2>1. p \in Nat \ {0}
    BY <1>2, PowerGroup, WidthAssumption
  <2> HIDE DEF p
  <2>2. n \div p \in Nat
    BY <1>2, <2>1
  <2>3. (n \div p) % More \in 0 .. More - 1
    BY <2>2, Widths
  <2> QED BY <2>3 DEF p
<1> HIDE DEF digit, size
<1>4. ASSUME NEW i \in 1 .. size
      PROVE  e[i] \in Byte /\ e[i] % More = digit(i) /\ (e[i] < More <=> i = size)
  <2>1. e[i] = digit(i) + (IF i < size THEN More ELSE 0)
    OBVIOUS
  <2> HIDE DEF e
  <2>2. digit(i) \in 0 .. More - 1 /\ More \in Nat /\ More >= 8
    BY <1>3, Widths
  <2>3. i < size \/ i = size
    BY <1>2
  <2> QED BY <1>2, <2>1, <2>2, <2>3, ByteIs
<1>5. e \in Seq(Byte) /\ Len(e) = size
  <2>1. \A i \in 1 .. size : e[i] \in Byte
    BY <1>4
  <2>2. e \in [1 .. size -> Byte]
    BY <2>1
  <2> HIDE DEF e
  <2> QED BY <1>2, <2>2
<1> QED BY <1>1, <1>4, <1>5 DEF digit, size

\* A number that was encoded is the first that is decoded.
LEMMA VarintRoundTrip ==
  ASSUME NEW n \in 0 .. Word - 1, NEW data \in Seq(Byte), Begins(EncodeVarint(n), data)
  PROVE  /\ VarintLen(data) = Len(EncodeVarint(n))
         /\ decodeVarint(data).value = n
         /\ Len(EncodeVarint(n)) \in 1 .. MaxVarint
<1> DEFINE e == EncodeVarint(n)
           size == VarintSize(n)
<1>1. /\ e \in Seq(Byte) /\ Len(e) = size
      /\ \A i \in 1 .. size :
           /\ e[i] % More = (n \div Power(GroupBits * (i - 1))) % More
           /\ e[i] < More <=> i = size
  BY EncodeVarintIs
<1>2. size \in 1 .. MaxVarint /\ n < Power(GroupBits * size) /\ size \in Nat /\ n \in Nat
  BY VarintSizeIs, Widths
<1> HIDE DEF e, size
<1>3. Ends(e) = {size}
  BY <1>1, <1>2 DEF Ends
<1>4. VarintLen(e) = size
  BY <1>1, <1>3, VarintLenIs
<1>5. VarintValue(e, size) = n
  <2>1. PICK u \in [0 .. size -> 0 .. Word - 1] :
           /\ VarintValue(e, size) = u[size]
           /\ u[0] = 0
           /\ \A i \in 1 .. size : u[i] = VarintStep(e, u[i - 1], i)
    <3>1. size \in 0 .. Len(e)
      BY <1>1, <1>2
    <3> QED BY <1>1, <3>1, VarintValueIs
  <2> DEFINE T == {i \in 0 .. size : u[i] = n % Power(GroupBits * i)}
  <2>2. 0 \in T
    <3>1. GroupBits * 0 = 0
      BY WidthAssumption
    <3>2. n % Power(GroupBits * 0) = 0
      BY <1>2, <3>1, PowerZero
    <3> QED BY <1>2, <2>1, <3>2
  <2>3. ASSUME NEW i \in 0 .. size - 1, i \in T PROVE i + 1 \in T
    <3> DEFINE j == i + 1
               p == Power(GroupBits * (j - 1))
    <3>1. j \in 1 .. size /\ j \in Nat \ {0} /\ j - 1 = i
      BY <1>2
    <3> HIDE DEF j
    <3>2. p \in Nat \ {0} /\ Power(GroupBits * j) = p * More /\ More \in Nat \ {0}
      BY <3>1, PowerGroup, WidthAssumption DEF More
    <3>3. u[j] = VarintStep(e, u[i], j)
      BY <2>1, <3>1
    <3>4. u[i] = n % p
      BY <2>3, <3>1
    <3>5. e[j] % More = (n \div p) % More
      BY <1>1, <3>1
    <3>6. VarintStep(e, u[i], j) = (u[i] + (e[j] % More) * p) % Word
      BY DEF VarintStep
    <3> HIDE DEF p
    <3>7. VarintStep(e, u[i], j) = ((n % p) + ((n \div p) % More) * p) % Word
      BY <3>4, <3>5, <3>6
    <3>8. n % (p * More) = (n % p) + ((n \div p) % More) * p
      BY <1>2, <3>2, Digits
    <3> DEFINE pm == p * More
    <3>9. pm \in Nat \ {0}
      BY <3>2
    <3> HIDE DEF pm
    <3>10. n % pm \in 0 .. n
      BY <1>2, <3>9
    <3>11. (n % pm) % Word = n % pm
      <4> DEFINE v == n % pm
      <4>1. v \in 0 .. Word - 1
        BY <1>2, <3>10, Widths
      <4> HIDE DEF v
      <4>2. v % Word = v
        BY <4>1, Widths
      <4> QED BY <4>2 DEF v
    <3>12. u[j] = n % pm
      BY <3>3, <3>7, <3>8, <3>11 DEF pm
    <3> QED BY <3>1, <3>2, <3>12 DEF pm, j
  <2>4. size \in T
    <3> HIDE DEF T
    <3>1. 0 .. size \subseteq T
      BY <1>2, <2>2, <2>3, SetInduction
    <3> QED BY <1>2, <3>1
  <2>5. n % Power(GroupBits * size) = n
    <3> DEFINE p == Power(GroupBits * size)
    <3>1. p \in Nat \ {0}
      <4>1. GroupBits * size \in Nat
        BY <1>2, WidthAssumption
      <4> QED BY <4>1, PowerType
    <3>2. n < p
      BY <1>2
    <3> HIDE DEF p
    <3>3. n % p = n
      BY <1>2, <3>1, <3>2
    <3> QED BY <3>3 DEF p
  <2> QED BY <2>1, <2>4, <2>5
<1>6. decodeVarint(e).value = n
  BY <1>4, <1>5 DEF decodeVarint, SizedVarint
<1>7. VarintLen(e) # 0 /\ Begins(e, data)
  BY <1>2, <1>4 DEF e
<1>8. VarintLen(data) = VarintLen(e) /\ decodeVarint(data) = decodeVarint(e)
  BY <1>1, <1>7, VarintLenBegins, DecodeVarintBegins
<1> QED BY <1>1, <1>2, <1>4, <1>6, <1>8 DEF e

\* The types by field number (telemetry_proto.go:23-33).
LEMMA TypeOfIs ==
  /\ DOMAIN TypeOf = 2 .. 8
  /\ TypeOf[2] = "float" /\ TypeOf[3] = "double" /\ TypeOf[4] = "int32"
  /\ TypeOf[5] = "int64" /\ TypeOf[6] = "uint32" /\ TypeOf[7] = "uint64"
  /\ TypeOf[8] = "bool"
BY DEF TypeOf

\* The field number of a type.
NumOf(type) == CHOOSE k \in DOMAIN TypeOf : TypeOf[k] = type

\* The field numbers by type.
LEMMA NumOfIs ==
  /\ NumOf("float") = 2 /\ NumOf("double") = 3 /\ NumOf("int32") = 4
  /\ NumOf("int64") = 5 /\ NumOf("uint32") = 6 /\ NumOf("uint64") = 7
  /\ NumOf("bool") = 8
<1>1. \A k \in DOMAIN TypeOf : k \in {2, 3, 4, 5, 6, 7, 8}
  BY TypeOfIs
<1> QED BY <1>1, TypeOfIs DEF NumOf

\* The encoding of a number of fixed size has that size.
LEMMA EncodeFixedIs ==
  ASSUME NEW size \in Nat, NEW n \in Nat
  PROVE  /\ EncodeFixed(n, size) \in Seq(Byte)
         /\ Len(EncodeFixed(n, size)) = size
         /\ \A i \in 1 .. size :
              EncodeFixed(n, size)[i] = (n \div Power((GroupBits + 1) * (i - 1))) % (2 * More)
<1> DEFINE digit(i) == (n \div Power((GroupBits + 1) * (i - 1))) % (2 * More)
           e == [i \in 1 .. size |-> digit(i)]
<1>1. EncodeFixed(n, size) = e
  BY DEF EncodeFixed
<1>2. ASSUME NEW i \in 1 .. size PROVE digit(i) \in Byte
  <2> DEFINE w == GroupBits + 1
             p == Power(w * (i - 1))
  <2>1. p \in Nat \ {0}
    <3>1. w \in Nat
      BY WidthAssumption
    <3> HIDE DEF w
    <3> QED BY <3>1, PowerGroup
  <2>2. digit(i) = (n \div p) % (2 * More)
    OBVIOUS
  <2> HIDE DEF p, digit
  <2>3. n \div p \in Nat
    BY <2>1
  <2> QED BY <2>2, <2>3, Widths, ByteIs
<1>3. \A i \in 1 .. size : e[i] = digit(i)
  OBVIOUS
<1>4. e \in [1 .. size -> Byte]
  <2> HIDE DEF digit
  <2> QED BY <1>2
<1>5. e \in Seq(Byte) /\ Len(e) = size
  <2> HIDE DEF e
  <2> QED BY <1>4
<1> QED BY <1>1, <1>3, <1>5

\* A fixed number that was encoded is decoded.
LEMMA FixedRoundTrip ==
  ASSUME NEW size \in Nat, NEW n \in Nat, n < Power((GroupBits + 1) * size)
  PROVE  LittleEndian(EncodeFixed(n, size), size) = n
<1> DEFINE e == EncodeFixed(n, size)
           w == GroupBits + 1
           base == 2 * More
<1>1. /\ e \in Seq(Byte) /\ Len(e) = size
      /\ \A i \in 1 .. size : e[i] = (n \div Power(w * (i - 1))) % base
  BY EncodeFixedIs
<1>2. w \in Nat /\ n < Power(w * size)
  BY WidthAssumption
<1>3. base = Power(w)
  BY PowerNext, WidthAssumption DEF More
<1>4. \A i \in Nat : \A u : FixedStep(e, u, i) = u + e[i] * Power(w * (i - 1))
  BY DEF FixedStep
<1> HIDE DEF e, w, base
<1>5. PICK u \in [0 .. size -> Nat] :
         /\ LittleEndian(e, size) = u[size]
         /\ u[0] = 0
         /\ \A i \in 1 .. size : u[i] = FixedStep(e, u[i - 1], i)
  <2>1. size \in 0 .. Len(e)
    BY <1>1
  <2>2. \E u \in [0 .. size -> Nat] :
           /\ LittleEndian(e, size) = u[size]
           /\ u[0] = 0
           /\ \A i \in 1 .. size : u[i] = FixedStep(e, u[i - 1], i)
    BY <1>1, <2>1, LittleEndianIs
  <2> QED BY <2>2
<1> DEFINE T == {i \in 0 .. size : u[i] = n % Power(w * i)}
<1>6. 0 \in T
  <2>1. w * 0 = 0
    BY <1>2
  <2>2. n % Power(w * 0) = 0
    BY <2>1, PowerZero
  <2> QED BY <1>5, <2>2
<1>7. ASSUME NEW i \in 0 .. size - 1, i \in T PROVE i + 1 \in T
  <2> DEFINE j == i + 1
             p == Power(w * (j - 1))
  <2>1. j \in 1 .. size /\ j \in Nat \ {0} /\ j - 1 = i
    OBVIOUS
  <2> HIDE DEF j
  <2>2. p \in Nat \ {0} /\ Power(w * j) = p * base /\ base \in Nat \ {0}
    BY <1>2, <1>3, <2>1, PowerGroup
  <2>3. u[j] = FixedStep(e, u[i], j)
    BY <1>5, <2>1
  <2>4. u[i] = n % p
    BY <1>7, <2>1
  <2>5. e[j] = (n \div p) % base
    BY <1>1, <2>1
  <2>6. FixedStep(e, u[i], j) = u[i] + e[j] * p
    BY <1>4, <2>1
  <2> HIDE DEF p
  <2>7. n % (p * base) = (n % p) + ((n \div p) % base) * p
    BY <2>2, Digits
  <2>8. u[j] = n % (p * base)
    BY <2>3, <2>4, <2>5, <2>6, <2>7
  <2> QED BY <2>1, <2>2, <2>8 DEF j
<1>8. size \in T
  <2> HIDE DEF T
  <2>1. 0 .. size \subseteq T
    BY <1>6, <1>7, SetInduction
  <2> QED BY <2>1
<1>9. n % Power(w * size) = n
  <2> DEFINE p == Power(w * size)
  <2>1. p \in Nat \ {0}
    <3>1. w * size \in Nat
      BY <1>2
    <3> QED BY <3>1, PowerType
  <2>2. n < p
    BY <1>2
  <2> HIDE DEF p
  <2>3. n % p = n
    BY <2>1, <2>2
  <2> QED BY <2>3 DEF p
<1> QED BY <1>5, <1>8, <1>9 DEF e

\* Half a word has at least four bits.
LEMMA NarrowWidths ==
  /\ Half >= 16 /\ Word = Half * Half /\ Word >= 256
  /\ Half % 2 = 0
<1>1. /\ WordBits \div 2 \in Nat /\ WordBits \div 2 >= 4
      /\ (WordBits \div 2) + (WordBits \div 2) = WordBits
  <2> DEFINE w == GroupBits + 1
  <2>1. w \in Nat /\ w >= 4
    BY WidthAssumption
  <2> HIDE DEF w
  <2>2. w * Fixed32Bytes \in Nat /\ w * Fixed32Bytes >= 4
    BY <2>1, Widths
  <2>3. WordBits = w * (2 * Fixed32Bytes) /\ WordBits \div 2 = w * Fixed32Bytes
    BY Widths DEF w
  <2>4. w * (2 * Fixed32Bytes) = w * Fixed32Bytes + w * Fixed32Bytes
    BY <2>1, Widths
  <2> QED BY <2>2, <2>3, <2>4
<1>2. Power(4) = 16
  <2>1. Power(1) = 2
    BY PowerZero, PowerNext
  <2>2. Power(2) = 4
    BY <2>1, PowerNext
  <2>3. Power(3) = 8
    BY <2>2, PowerNext
  <2> QED BY <2>3, PowerNext
<1> DEFINE h == WordBits \div 2
<1>3. h \in Nat /\ h >= 4 /\ h + h = WordBits /\ Half = Power(h) /\ Word = Power(h + h)
  BY <1>1 DEF Half, Word
<1> HIDE DEF h
<1>4. Half >= 16 /\ Half \in Nat
  BY <1>2, <1>3, PowerMonotone, PowerType
<1>5. Word = Half * Half
  BY <1>3, PowerSum
<1>6. Half % 2 = 0
  <2> DEFINE k == h - 1
  <2>1. k \in Nat /\ k + 1 = h
    BY <1>3
  <2> HIDE DEF k
  <2>2. Half = 2 * Power(k) /\ Power(k) \in Nat
    BY <1>3, <2>1, PowerNext, PowerType
  <2> QED BY <2>2
<1>7. Word >= 256
  BY <1>4, <1>5
<1> QED BY <1>4, <1>5, <1>6, <1>7

\* The tag of a small field number is the word it was made of.
LEMMA TagIs ==
  ASSUME NEW num \in 1 .. 8, NEW wire \in 0 .. 7
  PROVE  /\ num * 8 + wire \in 0 .. Word - 1
         /\ ((num * 8 + wire) \div 8) % Half = num
         /\ (num * 8 + wire) % 8 = wire
<1>1. num * 8 + wire \in 0 .. 71 /\ num \in 0 .. Half - 1
  BY NarrowWidths, Widths
<1>2. (num * 8 + wire) \div 8 = num /\ (num * 8 + wire) % 8 = wire
  OBVIOUS
<1>3. num % Half = num
  BY <1>1, Widths
<1> QED BY <1>1, <1>2, <1>3, NarrowWidths, Widths

\* Two sequences, put together and taken apart.
LEMMA ConcatIs ==
  ASSUME NEW S, NEW x \in Seq(S), NEW y \in Seq(S)
  PROVE  /\ x \o y \in Seq(S)
         /\ Len(x \o y) = Len(x) + Len(y)
         /\ Take(x \o y, Len(x)) = x
         /\ Drop(x \o y, Len(x)) = y
         /\ Begins(x, x \o y)
<1> DEFINE z == x \o y
           n == Len(x)
<1>1. /\ z \in Seq(S) /\ Len(z) = n + Len(y) /\ n \in Nat /\ Len(y) \in Nat
      /\ \A i \in 1 .. n : z[i] = x[i]
      /\ \A i \in 1 .. Len(y) : z[n + i] = y[i]
  OBVIOUS
<1>2. n \in 0 .. Len(z)
  BY <1>1
<1> HIDE DEF z
<1>3. Take(z, n) = x
  <2>1. /\ Take(z, n) \in Seq(S) /\ Len(Take(z, n)) = n
        /\ \A i \in 1 .. n : Take(z, n)[i] = z[i]
    BY <1>1, <1>2, TakeIs
  <2> QED BY <1>1, <2>1, SeqEqual
<1>4. Drop(z, n) = y
  <2>1. /\ Drop(z, n) \in Seq(S) /\ Len(Drop(z, n)) = Len(z) - n
        /\ \A i \in 1 .. Len(z) - n : Drop(z, n)[i] = z[n + i]
    BY <1>1, <1>2, DropIs
  <2>2. Len(z) - n = Len(y)
    BY <1>1
  <2> QED BY <1>1, <2>1, <2>2, SeqEqual
<1>5. Begins(x, z)
  BY <1>1 DEF Begins
<1> QED BY <1>1, <1>3, <1>4, <1>5 DEF z

\* The empty body is the message without fields.
LEMMA DecodeNothing ==
  Decode(<<>>) = Done
<1> DEFINE data == <<>>
<1>1. data \in Seq(Byte) /\ Len(data) = 0
  OBVIOUS
<1> HIDE DEF data
<1>2. Len(data) <= MaxInt
  BY <1>1, SignedIs
<1>3. PICK g : MessagesFrom(data, g)
  BY <1>1, <1>2, DecodeIs
<1>4. 0 \in 0 .. Len(data)
  BY <1>1
<1>5. g[0] = Done
  BY <1>1, <1>2, <1>3, <1>4, MessageFromIs
<1> QED BY <1>3, <1>5 DEF MessagesFrom, data

\* The data are those of a message with the fields.
Holds(data, fields) ==
    /\ data \in Seq(Byte) /\ Len(data) <= MaxInt
    /\ Decode(data).status = "ok" /\ Decode(data).fields = fields
    /\ fields \in Seq(FieldType)

\* So it holds no fields.
LEMMA NothingHolds == Holds(<<>>, <<>>)
<1>1. <<>> \in Seq(Byte) /\ <<>> \in Seq(FieldType) /\ Len(<<>>) = 0
  OBVIOUS
<1> QED BY <1>1, DecodeNothing, SignedIs DEF Holds, Done

\* One message after the other.
LEMMA Joined ==
  ASSUME NEW x, NEW y, NEW f, NEW g, Holds(x, f), Holds(y, g), Len(x \o y) <= MaxInt
  PROVE  Holds(x \o y, f \o g)
<1> DEFINE z == x \o y
           n == Len(x)
<1>1. x \in Seq(Byte) /\ y \in Seq(Byte) /\ f \in Seq(FieldType) /\ g \in Seq(FieldType)
  BY DEF Holds
<1>2. z \in Seq(Byte) /\ Len(z) = n + Len(y) /\ Take(z, n) = x /\ Drop(z, n) = y
  BY <1>1, ConcatIs
<1>3. n \in 0 .. Len(z) /\ Len(z) <= MaxInt
  BY <1>1, <1>2
<1> HIDE DEF z, n
<1>4. Decode(Take(z, n)).status = "ok"
  BY <1>2 DEF Holds
<1>5. /\ Decode(z).status = "ok" <=> Decode(y).status = "ok"
      /\ Decode(z).status = "ok" => Decode(z).fields = Decode(x).fields \o Decode(y).fields
  <2>1. /\ Decode(z).status = "ok" <=> Decode(Drop(z, n)).status = "ok"
        /\ Decode(z).status = "ok" =>
             Decode(z).fields = Decode(Take(z, n)).fields \o Decode(Drop(z, n)).fields
    BY <1>2, <1>3, <1>4, DecodeComposes
  <2> QED BY <1>2, <2>1
<1>6. f \o g \in Seq(FieldType)
  <2> DEFINE S == FieldType
  <2>1. f \in Seq(S) /\ g \in Seq(S)
    BY <1>1
  <2> HIDE DEF S
  <2>2. f \o g \in Seq(S)
    BY <2>1
  <2> QED BY <2>2 DEF S
<1>7. Decode(z).status = "ok" /\ Decode(z).fields = f \o g
  BY <1>5 DEF Holds
<1>8. Holds(z, f \o g)
  BY <1>2, <1>3, <1>6, <1>7 DEF Holds
<1> QED BY <1>8 DEF z

\* What follows a tag of the wire type, and nothing else, is read.
Reads(wire, payload, value) ==
    /\ payload \in Seq(Byte) /\ value \in ValueType
    /\ \A pos \in Nat : pos + Len(payload) <= MaxInt =>
         ReadValue(wire, payload, pos) = Read(value, Len(payload))

\* A tag and a value behind it are a message of one field.
LEMMA FieldHolds ==
  ASSUME NEW num \in 1 .. 8, NEW wire \in 0 .. 7, NEW payload, NEW value,
         Reads(wire, payload, value),
         Len(EncodeTag(num, wire) \o payload) <= MaxInt
  PROVE  Holds(EncodeTag(num, wire) \o payload,
               <<[num |-> num, wire |-> wire, value |-> value]>>)
<1> DEFINE tag == num * 8 + wire
           front == EncodeVarint(tag)
           data == front \o payload
           t == Len(front)
           field == [num |-> num, wire |-> wire, value |-> value]
<1>1. /\ tag \in 0 .. Word - 1
      /\ (tag \div 8) % Half = num /\ tag % 8 = wire
  BY TagIs
<1>2. EncodeTag(num, wire) = front
  BY DEF EncodeTag
<1> HIDE DEF tag
<1>3. front \in Seq(Byte) /\ payload \in Seq(Byte) /\ value \in ValueType
  BY <1>1, EncodeVarintIs DEF Reads
<1> HIDE DEF front
<1>4. /\ data \in Seq(Byte) /\ Len(data) = t + Len(payload) /\ t \in Nat
      /\ Len(payload) \in Nat /\ Drop(data, t) = payload /\ Begins(front, data)
  BY <1>3, ConcatIs
<1>5. Len(data) <= MaxInt
  BY <1>2
<1> HIDE DEF data, t
<1>6. VarintLen(data) = t /\ decodeVarint(data).value = tag /\ t >= 1 /\ t \in 1 .. Len(data)
  <2>1. VarintLen(data) = Len(EncodeVarint(tag)) /\ decodeVarint(data).value = tag
        /\ Len(EncodeVarint(tag)) \in 1 .. MaxVarint
    BY <1>1, <1>4, VarintRoundTrip DEF front
  <2> QED BY <1>4, <2>1, Widths DEF front, t
<1>7. BehindTag(data, 0) = Read(value, Len(payload))
  <2>1. BehindTag(data, 0) = ReadValue(wire, payload, 0 + t)
    BY <1>1, <1>4, <1>6 DEF BehindTag
  <2>2. 0 + t \in Nat /\ 0 + t + Len(payload) <= MaxInt
    BY <1>4, <1>5
  <2> QED BY <2>1, <2>2 DEF Reads
<1>8. FieldAt(data, 0) = [status |-> "ok", size |-> Len(data), field |-> field]
  <2>1. 0 + Len(data) <= MaxInt
    BY <1>4, <1>5
  <2>2. FieldAt(data, 0) = Tagged(tag, t, Read(value, Len(payload)))
    <3>1. \/ VarintLen(data) = 0
          \/ FieldAt(data, 0) = Tagged(decodeVarint(data).value, VarintLen(data),
                                       BehindTag(data, 0))
      <4> DEFINE pos == 0
      <4>1. pos \in Nat /\ pos + Len(data) <= MaxInt
        BY <2>1
      <4> HIDE DEF pos
      <4>2. \/ VarintLen(data) = 0
            \/ FieldAt(data, pos) = Tagged(decodeVarint(data).value, VarintLen(data),
                                           BehindTag(data, pos))
        BY <1>4, <4>1, FieldAtEither
      <4> QED BY <4>2 DEF pos
    <3> QED BY <1>6, <1>7, <3>1
  <2> QED BY <1>1, <1>4, <2>2 DEF Tagged, Read
<1>9. NextField(data, 0) = FieldAt(data, 0)
  <2>1. Drop(data, 0) = data
    <3>1. 0 \in 0 .. Len(data)
      BY <1>4
    <3>2. /\ Drop(data, 0) \in Seq(Byte) /\ Len(Drop(data, 0)) = Len(data) - 0
          /\ \A i \in 1 .. Len(data) - 0 : Drop(data, 0)[i] = data[0 + i]
      BY <1>4, <3>1, DropIs
    <3>3. \A i \in 1 .. Len(data) : Drop(data, 0)[i] = data[i]
      BY <1>4, <3>2
    <3> QED BY <1>4, <3>2, <3>3, SeqEqual
  <2> QED BY <2>1 DEF NextField
<1>10. PICK g : MessagesFrom(data, g)
  BY <1>4, <1>5, DecodeIs
<1>11. /\ Len(data) \in 0 .. Len(data) /\ 0 \in 0 .. Len(data)
       /\ 0 # Len(data) /\ 0 + Len(data) = Len(data)
  BY <1>4, <1>6
<1>12. g[Len(data)] = Done
  BY <1>4, <1>5, <1>10, <1>11, MessageFromIs
<1>13. /\ g[0].status = g[0 + NextField(data, 0).size].status
       /\ g[0].status = "ok" =>
            g[0].fields = <<NextField(data, 0).field>> \o g[0 + NextField(data, 0).size].fields
  <2>1. NextField(data, 0).status = "ok"
    BY <1>8, <1>9
  <2> QED BY <1>4, <1>5, <1>10, <1>11, <2>1, MessageFromIs
<1>14. field \in FieldType
  <2>1. num \in 0 .. Half - 1
    BY NarrowWidths, Widths
  <2> QED BY <1>3, <2>1 DEF FieldType
<1>15. NextField(data, 0).size = Len(data) /\ NextField(data, 0).field = field
  BY <1>8, <1>9
<1> HIDE DEF field
<1>16. g[0].status = "ok" /\ g[0].fields = <<field>> \o <<>>
  BY <1>11, <1>12, <1>13, <1>15 DEF Done
<1>17. <<field>> \o <<>> = <<field>> /\ <<field>> \in Seq(FieldType)
  BY <1>14, ConcatEmptySeq
<1>18. Holds(data, <<field>>)
  BY <1>4, <1>5, <1>10, <1>16, <1>17 DEF Holds, MessagesFrom
<1> QED BY <1>2, <1>18 DEF data, field

Varint(n) == [NoValue EXCEPT !.varint = n]
Fixed32(n) == [NoValue EXCEPT !.fixed32 = n]
Fixed64(n) == [NoValue EXCEPT !.fixed64 = n]
Bytes(d) == [NoValue EXCEPT !.bytes = d]

\* A value keeps what was put into the place of its wire type.
LEMMA PlacesIs ==
  /\ \A n \in 0 .. Word - 1 : Varint(n) \in ValueType /\ Varint(n).varint = n
  /\ \A n \in 0 .. Half - 1 : Fixed32(n) \in ValueType /\ Fixed32(n).fixed32 = n
  /\ \A n \in 0 .. Word - 1 : Fixed64(n) \in ValueType /\ Fixed64(n).fixed64 = n
  /\ \A d \in Seq(Byte) : Bytes(d) \in ValueType /\ Bytes(d).bytes = d
<1>1. NoValue \in ValueType
  BY NoValueType
<1>2. \A n \in 0 .. Word - 1 : Varint(n) \in ValueType /\ Varint(n).varint = n
  BY <1>1 DEF ValueType, Varint
<1>3. \A n \in 0 .. Half - 1 : Fixed32(n) \in ValueType /\ Fixed32(n).fixed32 = n
  BY <1>1 DEF ValueType, Fixed32
<1>4. \A n \in 0 .. Word - 1 : Fixed64(n) \in ValueType /\ Fixed64(n).fixed64 = n
  BY <1>1 DEF ValueType, Fixed64
<1>5. \A d \in Seq(Byte) : Bytes(d) \in ValueType /\ Bytes(d).bytes = d
  BY <1>1 DEF ValueType, Bytes
<1> QED BY <1>2, <1>3, <1>4, <1>5

\* A varint that was encoded is read.
LEMMA ReadsVarint ==
  ASSUME NEW n \in 0 .. Word - 1
  PROVE  Reads(0, EncodeVarint(n), Varint(n))
<1> DEFINE e == EncodeVarint(n)
<1>1. e \in Seq(Byte) /\ Len(e) \in Nat
  BY EncodeVarintIs
<1>2. VarintLen(e) = Len(e) /\ decodeVarint(e).value = n /\ Len(e) # 0
  <2>1. Begins(e, e)
    BY <1>1 DEF Begins
  <2> QED BY <1>1, <2>1, VarintRoundTrip, Widths
<1>3. decodeVarint(e).size = Len(e)
  BY <1>1, <1>2, DecodeVarintType
<1> HIDE DEF e
<1>4. \A pos \in Nat : ReadValue(0, e, pos) = ReadVarint(decodeVarint(e))
  BY DEF ReadValue
<1>5. ReadVarint(decodeVarint(e)) = Read(Varint(n), Len(e))
  BY <1>2, <1>3 DEF ReadVarint, Varint
<1> QED BY <1>1, <1>4, <1>5, PlacesIs DEF Reads, e

\* Numbers of fixed size that were encoded are read.
LEMMA ReadsFixed ==
  /\ \A n \in 0 .. Half - 1 : Reads(5, EncodeFixed(n, Fixed32Bytes), Fixed32(n))
  /\ \A n \in 0 .. Word - 1 : Reads(1, EncodeFixed(n, Fixed64Bytes), Fixed64(n))
<1>1. ASSUME NEW n \in 0 .. Half - 1
      PROVE  Reads(5, EncodeFixed(n, Fixed32Bytes), Fixed32(n))
  <2> DEFINE e == EncodeFixed(n, Fixed32Bytes)
  <2>1. n \in Nat /\ Fixed32Bytes \in Nat /\ n < Power((GroupBits + 1) * Fixed32Bytes)
    BY Widths DEF Half
  <2>2. e \in Seq(Byte) /\ Len(e) = Fixed32Bytes /\ LittleEndian(e, Fixed32Bytes) = n
    BY <2>1, EncodeFixedIs, FixedRoundTrip
  <2> HIDE DEF e
  <2>3. \A pos \in Nat : ReadValue(5, e, pos) = ReadFixed32(e)
    BY DEF ReadValue
  <2>4. ReadFixed32(e) = Read(Fixed32(n), Len(e))
    BY <2>1, <2>2 DEF ReadFixed32, Fixed32
  <2> QED BY <2>1, <2>2, <2>3, <2>4, PlacesIs DEF Reads, e
<1>2. ASSUME NEW n \in 0 .. Word - 1
      PROVE  Reads(1, EncodeFixed(n, Fixed64Bytes), Fixed64(n))
  <2> DEFINE e == EncodeFixed(n, Fixed64Bytes)
  <2>1. n \in Nat /\ Fixed64Bytes \in Nat /\ n < Power((GroupBits + 1) * Fixed64Bytes)
    BY Widths DEF Word
  <2>2. e \in Seq(Byte) /\ Len(e) = Fixed64Bytes /\ LittleEndian(e, Fixed64Bytes) = n
    BY <2>1, EncodeFixedIs, FixedRoundTrip
  <2> HIDE DEF e
  <2>3. \A pos \in Nat : ReadValue(1, e, pos) = ReadFixed64(e)
    BY DEF ReadValue
  <2>4. ReadFixed64(e) = Read(Fixed64(n), Len(e))
    BY <2>1, <2>2 DEF ReadFixed64, Fixed64
  <2> QED BY <2>1, <2>2, <2>3, <2>4, PlacesIs DEF Reads, e
<1> QED BY <1>1, <1>2

\* Bytes that were encoded behind their length are read.
LEMMA ReadsBytes ==
  ASSUME NEW d \in Seq(Byte), Len(EncodeVarint(Len(d)) \o d) <= MaxInt, Len(d) <= MaxInt
  PROVE  Reads(2, EncodeVarint(Len(d)) \o d, Bytes(d))
<1> DEFINE e == EncodeVarint(Len(d))
           data == e \o d
           n == Len(e)
           length == Len(d)
<1>1. length \in 0 .. Word - 1 /\ length \in 0 .. MaxInt
  BY SignedIs
<1>2. e \in Seq(Byte) /\ n \in Nat
  BY <1>1, EncodeVarintIs
<1>3. /\ data \in Seq(Byte) /\ Len(data) = n + length /\ Drop(data, n) = d /\ Begins(e, data)
  BY <1>2, ConcatIs
<1>4. VarintLen(data) = n /\ decodeVarint(data).value = length /\ n # 0
  <2> HIDE DEF length, data, n
  <2>1. /\ VarintLen(data) = Len(EncodeVarint(length)) /\ decodeVarint(data).value = length
        /\ Len(EncodeVarint(length)) \in 1 .. MaxVarint
    <3>1. Begins(EncodeVarint(length), data)
      BY <1>3 DEF length
    <3> QED BY <1>1, <1>3, <3>1, VarintRoundTrip
  <2> QED BY <2>1, Widths DEF n, length
<1>5. Signed(length, Word) = length
  <2>1. length \in -(MaxInt + 1) .. Word - 1
    BY <1>1, SignedIs
  <2>2. Signed(length, Word) = IF length <= MaxInt THEN length ELSE length - Word
    <3> HIDE DEF length
    <3> QED BY <2>1, SignedIs
  <2> QED BY <2>2
<1> HIDE DEF data, n, e
<1>6. ASSUME NEW pos \in Nat, pos + Len(data) <= MaxInt
      PROVE  ReadValue(2, data, pos) = Read(Bytes(d), Len(data))
  <2>1. ReadValue(2, data, pos) = LengthBytes(data, pos)
    BY DEF ReadValue, LengthBytes
  <2>2. LengthBytes(data, pos).status = "ok"
    <3> DEFINE size == Signed(decodeVarint(data).value, Word)
    <3>1. LengthBytes(data, pos).status = "ok" <=>
             VarintLen(data) # 0 /\ size >= 0 /\ VarintLen(data) + size <= Len(data)
      BY <1>3, <1>6, LengthBytesIs
    <3>2. size = length
      BY <1>4, <1>5
    <3> HIDE DEF size
    <3> QED BY <1>1, <1>3, <1>4, <3>1, <3>2
  <2>3. LengthBytes(data, pos) = Cut(data, n, length)
    BY <1>3, <1>4, <1>5, <1>6, <2>2, LengthBytesIs
  <2>4. Take(d, Len(d)) = d
    BY TakeAll
  <2> QED BY <1>3, <2>1, <2>3, <2>4 DEF Cut, Bytes
<1>7. Reads(2, data, Bytes(d))
  BY <1>3, <1>6, PlacesIs DEF Reads
<1> QED BY <1>7 DEF data, e

-----------------------------------------------------------------------------
(* Measurements                                                            *)

\* The field of a value that is not nil.
ValueField(v) ==
    [num   |-> NumOf(v.type),
     wire  |-> CASE v.type = "float"  -> 5
                 [] v.type = "double" -> 1
                 [] OTHER             -> 0,
     value |-> CASE v.type = "float"  -> Fixed32(v.n)
                 [] v.type = "double" -> Fixed64(v.n)
                 [] OTHER             -> Varint(v.n % Word)]

EncodedValue(v) ==
    CASE v.type = "nil"    -> <<>>
      [] v.type = "float"  -> EncodeTag(NumOf(v.type), 5) \o EncodeFixed(v.n, Fixed32Bytes)
      [] v.type = "double" -> EncodeTag(NumOf(v.type), 1) \o EncodeFixed(v.n, Fixed64Bytes)
      [] OTHER -> EncodeTag(NumOf(v.type), 0) \o EncodeVarint(v.n % Word)

EncodedId(id) == IF id = 0 THEN <<>> ELSE EncodeTag(1, 0) \o EncodeVarint(id)

\* A measurement is encoded as its id and its value.
LEMMA EncodeMeasurementIs ==
  ASSUME NEW m
  PROVE  EncodeMeasurement(m) = EncodedId(m.id) \o EncodedValue(m.value)
BY DEF EncodeMeasurement, EncodedId, EncodedValue, NumOf

\* The values by their types.
LEMMA ValueIs ==
  ASSUME NEW v \in Value
  PROVE  /\ v = [type |-> v.type, n |-> v.n] /\ v.n \in Int
         /\ v.type = "nil" <=> v = Nil
         /\ \/ v.type = "nil"
            \/ v.type = "float" /\ v.n \in 0 .. Half - 1
            \/ v.type = "double" /\ v.n \in 0 .. Word - 1
            \/ v.type = "int32" /\ v.n \in -(Half \div 2) .. Half \div 2 - 1
            \/ v.type = "int64" /\ v.n \in -(Word \div 2) .. Word \div 2 - 1
            \/ v.type = "uint32" /\ v.n \in 0 .. Half - 1
            \/ v.type = "uint64" /\ v.n \in 0 .. Word - 1
            \/ v.type = "bool" /\ v.n \in {0, 1}
<1>1. CASE v \in [type : {"float", "uint32"}, n : 0 .. Half - 1]
  BY <1>1, Widths DEF Nil
<1>2. CASE v \in [type : {"double", "uint64"}, n : 0 .. Word - 1]
  BY <1>2, Widths DEF Nil
<1>3. CASE v \in [type : {"int32"}, n : -(Half \div 2) .. Half \div 2 - 1]
  BY <1>3, Widths DEF Nil
<1>4. CASE v \in [type : {"int64"}, n : -(Word \div 2) .. Word \div 2 - 1]
  BY <1>4, Widths DEF Nil
<1>5. CASE v \in [type : {"bool"}, n : {0, 1}]
  BY <1>5 DEF Nil
<1>6. CASE v = Nil
  BY <1>6 DEF Nil
<1> QED BY <1>1, <1>2, <1>3, <1>4, <1>5, <1>6 DEF Value

\* A number of half a word, read as a signed one.
LEMMA SignedHalf ==
  ASSUME NEW x \in 0 .. Half - 1
  PROVE  Signed(x, Half) = IF x < Half \div 2 THEN x ELSE x - Half
<1>1. x % Half = x
  BY Widths
<1> QED BY <1>1 DEF Signed

\* A number of the lower half of the word, sign-extended to a word and cut to
\* the half again.
LEMMA NarrowRoundTrip ==
  ASSUME NEW n \in -(Half \div 2) .. Half \div 2 - 1
  PROVE  /\ n % Word \in 0 .. Word - 1
         /\ Signed(n % Word, Half) = n
<1>1. /\ Half \in Nat /\ Half >= 16 /\ Half % 2 = 0 /\ Word = Half * Half
      /\ Word \in Nat /\ Word >= 256 /\ Half \div 2 \in Nat /\ Half = 2 * (Half \div 2)
  BY Widths, NarrowWidths
<1> DEFINE h == Half \div 2
           x == n % Word
           low == IF n < 0 THEN n + Half ELSE n
<1>2. h \in Nat /\ Half = 2 * h /\ n \in Int /\ n >= -h /\ n < h
  BY <1>1
<1>3. h < Half /\ Half <= Word
  <2>1. Half * Half >= Half * 1
    BY <1>1
  <2> QED BY <1>1, <1>2, <2>1
<1>4. low \in 0 .. Half - 1
  BY <1>1, <1>2, <1>3
<1>5. x \in 0 .. Word - 1
  BY <1>1, <1>2
<1>6. x = IF n < 0 THEN n + Word ELSE n
  <2>1. CASE n < 0
    BY <2>1, <1>1, <1>2, <1>3
  <2>2. CASE n >= 0
    BY <2>2, <1>1, <1>2, <1>3
  <2> QED BY <2>1, <2>2, <1>2
<1> HIDE DEF h, x
<1>7. x % Half = low
  <2>1. CASE n < 0
    <3> DEFINE q == Half - 1
    <3>1. x = Half * q + low /\ q \in Nat
      BY <2>1, <1>1, <1>6
    <3> HIDE DEF q, low
    <3>2. Half \in Nat \ {0}
      BY <1>1
    <3> QED BY <1>4, <3>1, <3>2, Remainder
  <2>2. CASE n >= 0
    <3>1. x = low /\ x \in 0 .. Half - 1
      BY <1>2, <1>4, <1>6, <2>2
    <3> QED BY <3>1, <1>1
  <2> QED BY <1>2, <2>1, <2>2
<1>8. Signed(x, Half) = IF low < h THEN low ELSE low - Half
  BY <1>7 DEF Signed, h
<1>9. Signed(x, Half) = n
  BY <1>2, <1>8
<1> QED BY <1>5, <1>9 DEF x

\* The same for a signed number of a whole word.
LEMMA WideRoundTrip ==
  ASSUME NEW n \in -(Word \div 2) .. Word \div 2 - 1
  PROVE  /\ n % Word \in 0 .. Word - 1
         /\ Signed(n % Word, Word) = n
<1>1. MaxInt \in Nat /\ Word = 2 * (MaxInt + 1) /\ Word \div 2 = MaxInt + 1
  BY SignedIs, Widths DEF MaxInt
<1> DEFINE x == n % Word
<1>2. n \in Int /\ n >= -(MaxInt + 1) /\ n <= MaxInt
  BY <1>1
<1>3. x = IF n < 0 THEN n + Word ELSE n
  <2>1. CASE n < 0
    BY <2>1, <1>1, <1>2
  <2>2. CASE n >= 0
    BY <2>2, <1>1, <1>2
  <2> QED BY <2>1, <2>2, <1>2
<1>4. x \in 0 .. Word - 1
  BY <1>1, <1>2, <1>3
<1> HIDE DEF x
<1>5. Signed(x, Word) = IF x <= MaxInt THEN x ELSE x - Word
  <2>1. x \in -(MaxInt + 1) .. Word - 1
    BY <1>1, <1>4
  <2> QED BY <2>1, SignedIs
<1>6. Signed(x, Word) = n
  BY <1>1, <1>2, <1>3, <1>5
<1> QED BY <1>4, <1>6 DEF x

\* Words are not cut.
LEMMA ModWord ==
  ASSUME NEW n \in 0 .. Word - 1
  PROVE  n % Word = n
BY Widths

\* Nor are halves of them.
LEMMA ModHalf ==
  ASSUME NEW n \in 0 .. Half - 1
  PROVE  n % Half = n /\ n \in 0 .. Word - 1 /\ n % Word = n
<1>1. n % Half = n
  BY Widths
<1>2. n \in 0 .. Word - 1
  <2>1. Half * Half >= Half * 1
    BY NarrowWidths, Widths
  <2> QED BY <2>1, NarrowWidths, Widths
<1> QED BY <1>1, <1>2, ModWord

\* A value is understood as it was meant.
LEMMA InterpretIs ==
  ASSUME NEW v \in Value, v # Nil
  PROVE  /\ Interpret(ValueField(v)) = v
         /\ ValueField(v).num \in 2 .. 8
         /\ v.type \notin {"float", "double"} => v.n % Word \in 0 .. Word - 1
<1> DEFINE f == ValueField(v)
<1>1. v = [type |-> v.type, n |-> v.n] /\ v.n \in Int
  BY ValueIs
<1>2. CASE v.type = "float" /\ v.n \in 0 .. Half - 1
  <2>1. f.num = 2 /\ f.value = Fixed32(v.n)
    BY <1>2, NumOfIs DEF ValueField
  <2>2. f.value.fixed32 = v.n
    BY <2>1, <1>2, PlacesIs, Widths
  <2> HIDE DEF f
  <2>3. Interpret(f) = [type |-> "float", n |-> v.n]
    BY <2>1, <2>2, TypeOfIs DEF Interpret
  <2> QED BY <1>1, <1>2, <2>1, <2>3 DEF f
<1>3. CASE v.type = "double" /\ v.n \in 0 .. Word - 1
  <2>1. f.num = 3 /\ f.value = Fixed64(v.n)
    BY <1>3, NumOfIs DEF ValueField
  <2>2. f.value.fixed64 = v.n
    BY <2>1, <1>3, PlacesIs, Widths
  <2> HIDE DEF f
  <2>3. Interpret(f) = [type |-> "double", n |-> v.n]
    BY <2>1, <2>2, TypeOfIs DEF Interpret
  <2> QED BY <1>1, <1>3, <2>1, <2>3 DEF f
<1>4. ASSUME v.type \notin {"float", "double"}, v.n % Word \in 0 .. Word - 1
      PROVE  f.num = NumOf(v.type) /\ f.value.varint = v.n % Word
  <2>1. f.num = NumOf(v.type) /\ f.value = Varint(v.n % Word)
    BY <1>4 DEF ValueField
  <2> HIDE DEF f
  <2> QED BY <2>1, <1>4, PlacesIs
<1> HIDE DEF f
<1>5. CASE v.type = "int32" /\ v.n \in -(Half \div 2) .. Half \div 2 - 1
  <2>1. v.n % Word \in 0 .. Word - 1 /\ Signed(v.n % Word, Half) = v.n
    BY <1>5, NarrowRoundTrip
  <2>2. f.num = 4 /\ f.value.varint = v.n % Word
    BY <1>4, <1>5, <2>1, NumOfIs
  <2>3. Interpret(f) = [type |-> "int32", n |-> v.n]
    BY <2>1, <2>2, TypeOfIs DEF Interpret
  <2> QED BY <1>1, <1>5, <2>1, <2>2, <2>3 DEF f
<1>6. CASE v.type = "int64" /\ v.n \in -(Word \div 2) .. Word \div 2 - 1
  <2>1. v.n % Word \in 0 .. Word - 1 /\ Signed(v.n % Word, Word) = v.n
    BY <1>6, WideRoundTrip
  <2>2. f.num = 5 /\ f.value.varint = v.n % Word
    BY <1>4, <1>6, <2>1, NumOfIs
  <2>3. Interpret(f) = [type |-> "int64", n |-> v.n]
    BY <2>1, <2>2, TypeOfIs DEF Interpret
  <2> QED BY <1>1, <1>6, <2>1, <2>2, <2>3 DEF f
<1>7. CASE v.type = "uint32" /\ v.n \in 0 .. Half - 1
  <2>1. v.n % Word = v.n /\ v.n % Word \in 0 .. Word - 1 /\ v.n % Half = v.n
    BY <1>7, ModHalf
  <2>2. f.num = 6 /\ f.value.varint = v.n
    BY <1>4, <1>7, <2>1, NumOfIs
  <2>3. Interpret(f) = [type |-> "uint32", n |-> v.n]
    BY <2>1, <2>2, TypeOfIs DEF Interpret
  <2> QED BY <1>1, <1>7, <2>1, <2>2, <2>3 DEF f
<1>8. CASE v.type = "uint64" /\ v.n \in 0 .. Word - 1
  <2>1. v.n % Word = v.n /\ v.n % Word \in 0 .. Word - 1
    BY <1>8, ModWord
  <2>2. f.num = 7 /\ f.value.varint = v.n
    BY <1>4, <1>8, <2>1, NumOfIs
  <2>3. Interpret(f) = [type |-> "uint64", n |-> v.n]
    BY <2>1, <2>2, TypeOfIs DEF Interpret
  <2> QED BY <1>1, <1>8, <2>1, <2>2, <2>3 DEF f
<1>9. CASE v.type = "bool" /\ v.n \in {0, 1}
  <2>1. v.n % Word = v.n /\ v.n % Word \in 0 .. Word - 1
    <3>1. v.n \in 0 .. Word - 1
      BY <1>9, NarrowWidths, Widths
    <3> QED BY <3>1, ModWord
  <2>2. f.num = 8 /\ f.value.varint = v.n
    BY <1>4, <1>9, <2>1, NumOfIs
  <2>3. Interpret(f) = [type |-> "bool", n |-> v.n]
    BY <1>9, <2>1, <2>2, TypeOfIs DEF Interpret
  <2> QED BY <1>1, <1>9, <2>1, <2>2, <2>3 DEF f
<1>10. v.type # "nil"
  BY ValueIs
<1> QED BY <1>2, <1>3, <1>5, <1>6, <1>7, <1>8, <1>9, <1>10, ValueIs

\* The encodings of an id and of a value are bytes.
LEMMA EncodedTypes ==
  /\ \A num \in 1 .. 8, wire \in 0 .. 7 : EncodeTag(num, wire) \in Seq(Byte)
  /\ \A n \in 0 .. Word - 1 : EncodeVarint(n) \in Seq(Byte)
<1>1. ASSUME NEW num \in 1 .. 8, NEW wire \in 0 .. 7 PROVE EncodeTag(num, wire) \in Seq(Byte)
  <2> DEFINE tag == num * 8 + wire
  <2>1. tag \in 0 .. Word - 1
    BY TagIs
  <2>2. EncodeTag(num, wire) = EncodeVarint(tag)
    BY DEF EncodeTag
  <2> HIDE DEF tag
  <2> QED BY <2>1, <2>2, EncodeVarintIs
<1>2. ASSUME NEW n \in 0 .. Word - 1 PROVE EncodeVarint(n) \in Seq(Byte)
  BY EncodeVarintIs
<1> QED BY <1>1, <1>2

IdField(id) == [num |-> 1, wire |-> 0, value |-> Varint(id)]

IdFields(id) == IF id = 0 THEN <<>> ELSE <<IdField(id)>>

ValueFields(v) == IF v = Nil THEN <<>> ELSE <<ValueField(v)>>

\* The encoding of an id holds the id field, unless the id is zero.
LEMMA EncodedIdIs ==
  ASSUME NEW id \in 0 .. Half - 1
  PROVE  /\ EncodedId(id) \in Seq(Byte)
         /\ Len(EncodedId(id)) <= MaxInt => Holds(EncodedId(id), IdFields(id))
<1>1. CASE id = 0
  <2>1. EncodedId(id) = <<>> /\ IdFields(id) = <<>>
    BY <1>1 DEF EncodedId, IdFields
  <2>2. <<>> \in Seq(Byte)
    OBVIOUS
  <2> QED BY <2>1, <2>2, NothingHolds
<1>2. CASE id # 0
  <2> DEFINE tag == EncodeTag(1, 0)
             payload == EncodeVarint(id)
             value == Varint(id)
  <2>1. /\ EncodedId(id) = tag \o payload
        /\ IdFields(id) = <<[num |-> 1, wire |-> 0, value |-> value]>>
    BY <1>2 DEF EncodedId, IdFields, IdField
  <2>2. id \in 0 .. Word - 1
    BY ModHalf
  <2>3. tag \in Seq(Byte) /\ payload \in Seq(Byte)
    BY <2>2, EncodedTypes
  <2>4. Reads(0, payload, value)
    BY <2>2, ReadsVarint
  <2>5. Len(tag \o payload) <= MaxInt =>
          Holds(tag \o payload, <<[num |-> 1, wire |-> 0, value |-> value]>>)
    <3> HIDE DEF payload, value
    <3> QED BY <2>4, FieldHolds
  <2> HIDE DEF tag, payload, value
  <2>6. tag \o payload \in Seq(Byte)
    BY <2>3
  <2> QED BY <2>1, <2>5, <2>6
<1> QED BY <1>1, <1>2

\* The encoding of a value holds its field.
LEMMA EncodedValueIs ==
  ASSUME NEW v \in Value
  PROVE  /\ EncodedValue(v) \in Seq(Byte)
         /\ Len(EncodedValue(v)) <= MaxInt => Holds(EncodedValue(v), ValueFields(v))
<1>1. CASE v = Nil
  <2>1. EncodedValue(v) = <<>> /\ ValueFields(v) = <<>>
    BY <1>1 DEF EncodedValue, ValueFields, Nil
  <2>2. <<>> \in Seq(Byte)
    OBVIOUS
  <2> QED BY <2>1, <2>2, NothingHolds
<1>2. CASE v # Nil
  <2> DEFINE num == NumOf(v.type)
             wire == ValueField(v).wire
             value == ValueField(v).value
  <2>1. num \in 1 .. 8
    <3>1. ValueField(v).num \in 2 .. 8
      BY <1>2, InterpretIs
    <3> QED BY <3>1 DEF ValueField
  <2>2. ValueFields(v) = <<[num |-> num, wire |-> wire, value |-> value]>>
    BY <1>2 DEF ValueFields, ValueField
  <2>3. wire \in 0 .. 7
    BY DEF ValueField
  <2>4. v.type # "nil"
    BY <1>2, ValueIs
  <2>5. PICK payload : EncodedValue(v) = EncodeTag(num, wire) \o payload
                         /\ Reads(wire, payload, value)
    <3>1. CASE v.type = "float"
      <4> DEFINE p == EncodeFixed(v.n, Fixed32Bytes)
      <4>1. wire = 5 /\ value = Fixed32(v.n)
        BY <3>1 DEF ValueField
      <4>2. EncodedValue(v) = EncodeTag(num, wire) \o p
        BY <3>1, <4>1 DEF EncodedValue
      <4>3. Reads(wire, p, value)
        BY <3>1, <4>1, ValueIs, ReadsFixed
      <4> QED BY <4>2, <4>3
    <3>2. CASE v.type = "double"
      <4> DEFINE p == EncodeFixed(v.n, Fixed64Bytes)
      <4>1. wire = 1 /\ value = Fixed64(v.n)
        BY <3>2 DEF ValueField
      <4>2. EncodedValue(v) = EncodeTag(num, wire) \o p
        BY <3>2, <4>1 DEF EncodedValue
      <4>3. Reads(wire, p, value)
        BY <3>2, <4>1, ValueIs, ReadsFixed
      <4> QED BY <4>2, <4>3
    <3>3. CASE v.type \notin {"float", "double"}
      <4> DEFINE n == v.n % Word
                 p == EncodeVarint(n)
      <4>1. wire = 0 /\ value = Varint(n)
        BY <3>3 DEF ValueField
      <4>2. EncodedValue(v) = EncodeTag(num, wire) \o p
        BY <2>4, <3>3, <4>1 DEF EncodedValue
      <4>3. n \in 0 .. Word - 1
        BY <1>2, <3>3, InterpretIs
      <4>4. Reads(wire, p, value)
        <5> HIDE DEF n, wire, value
        <5> QED BY <4>1, <4>3, ReadsVarint
      <4> QED BY <4>2, <4>4
    <3> QED BY <3>1, <3>2, <3>3
  <2> HIDE DEF num, wire, value
  <2>6. payload \in Seq(Byte)
    BY <2>5 DEF Reads
  <2>7. EncodeTag(num, wire) \o payload \in Seq(Byte)
    <3>1. EncodeTag(num, wire) \in Seq(Byte)
      BY <2>1, <2>3, EncodedTypes
    <3> QED BY <2>6, <3>1
  <2> QED BY <2>1, <2>2, <2>3, <2>5, <2>7, FieldHolds
<1> QED BY <1>1, <1>2

\* The least element of a set of one.
LEMMA MinOfOne ==
  ASSUME NEW n \in Nat
  PROVE  Min({n}) = n
<1>1. {n} \subseteq Nat /\ {n} # {}
  OBVIOUS
<1> QED BY <1>1, MinIs

\* A sequence of two elements.
LEMMA TwoElements ==
  ASSUME NEW a, NEW b
  PROVE  <<a>> \o <<b>> = <<a, b>>
<1> DEFINE S == {a, b}
<1>1. <<a>> \in Seq(S) /\ <<b>> \in Seq(S) /\ <<a, b>> \in Seq(S)
  OBVIOUS
<1>2. <<a>> \o <<b>> \in Seq(S) /\ Len(<<a>> \o <<b>>) = 2
  BY <1>1
<1>3. (<<a>> \o <<b>>)[1] = a /\ (<<a>> \o <<b>>)[2] = b
  BY <1>1
<1> DEFINE x == <<a>> \o <<b>>
           y == <<a, b>>
<1>4. /\ x \in Seq(S) /\ y \in Seq(S) /\ Len(x) = 2 /\ Len(y) = 2
      /\ x[1] = a /\ x[2] = b /\ y[1] = a /\ y[2] = b
  BY <1>1, <1>2, <1>3
<1> HIDE DEF x, y, S
<1>5. \A i \in 1 .. Len(x) : x[i] = y[i]
  BY <1>4
<1>6. x = y
  BY <1>4, <1>5, SeqEqual
<1> QED BY <1>6 DEF x, y

\* The fields of a measurement are read as the measurement, whether or not
\* they start with an id.
LEMMA MeasurementFields ==
  ASSUME NEW m \in Measurement
  PROVE  MeasurementOf(IdFields(m.id) \o ValueFields(m.value)) = m
<1> DEFINE id == m.id
           v == m.value
           msg == IdFields(id) \o ValueFields(v)
           ids == {i \in DOMAIN msg : msg[i].num = 1}
           values == {i \in DOMAIN msg : msg[i].num \in DOMAIN TypeOf}
<1> SUFFICES MeasurementOf(msg) = m
  OBVIOUS
<1>1. id \in 0 .. Half - 1 /\ v \in Value /\ m = [id |-> id, value |-> v]
  BY DEF Measurement
<1>2. MeasurementOf(msg) =
        [id    |-> IF ids = {} THEN 0 ELSE msg[Min(ids)].value.varint % Half,
         value |-> IF values = {} THEN Nil ELSE Interpret(msg[Min(values)])]
  BY DEF MeasurementOf
<1> DEFINE x == IdField(id)
           y == ValueField(v)
<1>3. x.num = 1 /\ x.value.varint = id /\ id % Half = id
  <2>1. x.num = 1 /\ x.value = Varint(id)
    BY DEF IdField
  <2>2. id \in 0 .. Word - 1 /\ id % Half = id
    BY <1>1, ModHalf
  <2> HIDE DEF x, id
  <2> QED BY <2>1, <2>2, PlacesIs
<1>4. v # Nil => y.num \in 2 .. 8 /\ Interpret(y) = v
  <2> HIDE DEF v
  <2> QED BY <1>1, InterpretIs DEF y
<1>5. DOMAIN TypeOf = 2 .. 8
  BY TypeOfIs
<1>6. IdFields(id) = (IF id = 0 THEN <<>> ELSE <<x>>)
       /\ ValueFields(v) = (IF v = Nil THEN <<>> ELSE <<y>>)
  BY DEF IdFields, ValueFields
<1> HIDE DEF x, y, id, v
<1>7. CASE id = 0 /\ v = Nil
  <2>1. msg = <<>>
    BY <1>6, <1>7
  <2>2. ids = {} /\ values = {}
    BY <2>1
  <2> HIDE DEF ids, values, msg
  <2> QED BY <1>1, <1>2, <1>7, <2>2
<1>8. CASE id = 0 /\ v # Nil
  <2>1. msg = <<y>>
    BY <1>6, <1>8
  <2>2. DOMAIN msg = {1} /\ msg[1] = y
    BY <2>1
  <2> HIDE DEF msg
  <2>3. ids = {} /\ values = {1}
    BY <1>4, <1>5, <1>8, <2>2
  <2> HIDE DEF ids, values
  <2> QED BY <1>1, <1>2, <1>4, <1>8, <2>2, <2>3, MinOfOne
<1>9. CASE id # 0 /\ v = Nil
  <2>1. msg = <<x>>
    BY <1>6, <1>9
  <2>2. DOMAIN msg = {1} /\ msg[1] = x
    BY <2>1
  <2> HIDE DEF msg
  <2>3. ids = {1} /\ values = {}
    BY <1>3, <1>5, <1>9, <2>2
  <2> HIDE DEF ids, values
  <2> QED BY <1>1, <1>2, <1>3, <1>9, <2>2, <2>3, MinOfOne
<1>10. CASE id # 0 /\ v # Nil
  <2>1. msg = <<x, y>>
    <3>1. msg = <<x>> \o <<y>>
      BY <1>6, <1>10
    <3> QED BY <3>1, TwoElements
  <2>2. DOMAIN msg = {1, 2} /\ msg[1] = x /\ msg[2] = y
    BY <2>1
  <2> HIDE DEF msg
  <2>3. ids = {1} /\ values = {2}
    BY <1>3, <1>4, <1>5, <1>10, <2>2
  <2> HIDE DEF ids, values
  <2> QED BY <1>1, <1>2, <1>3, <1>4, <1>10, <2>2, <2>3, MinOfOne
<1> QED BY <1>7, <1>8, <1>9, <1>10

\* The encoding of a measurement is a sequence of bytes.
LEMMA EncodeMeasurementType ==
  ASSUME NEW m \in Measurement
  PROVE  EncodeMeasurement(m) \in Seq(Byte)
<1>1. m.id \in 0 .. Half - 1 /\ m.value \in Value
  BY DEF Measurement
<1>2. EncodedId(m.id) \in Seq(Byte) /\ EncodedValue(m.value) \in Seq(Byte)
  BY <1>1, EncodedIdIs, EncodedValueIs
<1>3. EncodedId(m.id) \o EncodedValue(m.value) \in Seq(Byte)
  BY <1>2
<1> QED BY <1>3, EncodeMeasurementIs

\* A measurement that was encoded is decoded.
LEMMA MeasurementRoundTrip ==
  ASSUME NEW m \in Measurement, Len(EncodeMeasurement(m)) <= MaxInt
  PROVE  /\ Decode(EncodeMeasurement(m)).status = "ok"
         /\ MeasurementOf(Decode(EncodeMeasurement(m)).fields) = m
<1> DEFINE x == EncodedId(m.id)
           y == EncodedValue(m.value)
<1>1. m.id \in 0 .. Half - 1 /\ m.value \in Value
  BY DEF Measurement
<1>2. x \in Seq(Byte) /\ y \in Seq(Byte) /\ EncodeMeasurement(m) = x \o y
  BY <1>1, EncodedIdIs, EncodedValueIs, EncodeMeasurementIs
<1>3. Len(x) <= MaxInt => Holds(x, IdFields(m.id))
  BY <1>1, EncodedIdIs
<1>4. Len(y) <= MaxInt => Holds(y, ValueFields(m.value))
  BY <1>1, EncodedValueIs
<1> HIDE DEF x, y
<1>5. Len(x) <= MaxInt /\ Len(y) <= MaxInt /\ Len(x \o y) <= MaxInt
  <2>1. Len(x \o y) = Len(x) + Len(y) /\ Len(x) \in Nat /\ Len(y) \in Nat
    BY <1>2
  <2> QED BY <1>2, <2>1, SignedIs
<1>6. Holds(x \o y, IdFields(m.id) \o ValueFields(m.value))
  BY <1>3, <1>4, <1>5, Joined
<1> QED BY <1>2, <1>6, MeasurementFields DEF Holds

\* The first k + 1 elements.
LEMMA AppendTake ==
  ASSUME NEW R, NEW s \in Seq(R), NEW k \in 0 .. Len(s) - 1
  PROVE  Append(Take(s, k), s[k + 1]) = Take(s, k + 1)
<1> DEFINE m == k + 1
           x == Append(Take(s, k), s[m])
           y == Take(s, m)
<1>1. k \in 0 .. Len(s) /\ m \in 1 .. Len(s) /\ m \in 0 .. Len(s) /\ k \in Nat /\ m = k + 1
  OBVIOUS
<1> HIDE DEF m
<1>2. /\ Take(s, k) \in Seq(R) /\ Len(Take(s, k)) = k
      /\ \A i \in 1 .. k : Take(s, k)[i] = s[i]
  BY <1>1, TakeIs
<1>3. y \in Seq(R) /\ Len(y) = m /\ \A i \in 1 .. m : y[i] = s[i]
  BY <1>1, TakeIs
<1>4. s[m] \in R
  BY <1>1
<1>5. x \in Seq(R) /\ Len(x) = m /\ x[m] = s[m] /\ \A i \in 1 .. k : x[i] = s[i]
  BY <1>1, <1>2, <1>4
<1> HIDE DEF x, y
<1>6. \A i \in 1 .. m : x[i] = y[i]
  <2>1. \A i \in 1 .. m : i = m \/ i \in 1 .. k
    BY <1>1
  <2> QED BY <1>1, <1>3, <1>5, <2>1
<1>7. x = y
  BY <1>3, <1>5, <1>6, SeqEqual
<1> QED BY <1>7 DEF x, y, m

\* If all are chosen, all are selected.
LEMMA SelectedAll ==
  ASSUME NEW R, NEW s \in Seq(R), NEW chosen, \A i \in 1 .. Len(s) : i \in chosen
  PROVE  Selected(s, chosen) = s
<1> DEFINE n == Len(s)
           T == {i \in 0 .. n : Selected(Take(s, i), chosen) = Take(s, i)}
<1>1. Take(s, n) = s /\ Take(s, 0) = <<>> /\ n \in Nat
  BY TakeAll
<1>2. 0 \in T
  <2>1. Selected(<<>>, chosen) = <<>>
    BY SelectedNone
  <2> QED BY <1>1, <2>1
<1>3. ASSUME NEW i \in 0 .. n - 1, i \in T PROVE i + 1 \in T
  <2>1. Selected(Take(s, i + 1), chosen)
          = SelectStep(s, chosen, Selected(Take(s, i), chosen), i + 1)
    BY SelectedNext
  <2>2. i + 1 \in chosen /\ Selected(Take(s, i), chosen) = Take(s, i) /\ i + 1 \in 0 .. n
    BY <1>3
  <2>3. Append(Take(s, i), s[i + 1]) = Take(s, i + 1)
    BY AppendTake
  <2> QED BY <2>1, <2>2, <2>3 DEF SelectStep
<1>4. n \in T
  <2> HIDE DEF T
  <2>1. 0 .. n \subseteq T
    BY <1>1, <1>2, <1>3, SetInduction
  <2> QED BY <1>1, <2>1
<1> QED BY <1>1, <1>4

-----------------------------------------------------------------------------
(* The length of a measurement                                             *)

\* A word addresses more bytes than it has bits.
LEMMA PowerGrows ==
  ASSUME NEW n \in Nat, n >= 8
  PROVE  Power(n) >= 2 * (4 * n + 1)
<1> DEFINE k == n - 8
           T == {i \in 0 .. k : Power(i + 8) >= 2 * (4 * (i + 8) + 1)}
<1>1. k \in Nat /\ k + 8 = n
  OBVIOUS
<1> HIDE DEF k
<1>2. 0 \in T
  <2>1. Power(4) = 16
    <3>1. Power(1) = 2
      BY PowerZero, PowerNext
    <3>2. Power(2) = 4
      BY <3>1, PowerNext
    <3>3. Power(3) = 8
      BY <3>2, PowerNext
    <3> QED BY <3>3, PowerNext
  <2>2. Power(8) = 256
    <3>1. Power(4 + 4) = Power(4) * Power(4)
      BY PowerSum
    <3> QED BY <2>1, <3>1
  <2> QED BY <1>1, <2>2
<1>3. ASSUME NEW i \in 0 .. k - 1, i \in T PROVE i + 1 \in T
  <2> DEFINE j == i + 8
  <2>1. j \in Nat /\ i + 1 + 8 = j + 1 /\ j >= 8
    OBVIOUS
  <2>2. Power(j) >= 2 * (4 * j + 1)
    BY <1>3
  <2> HIDE DEF j
  <2>3. Power(j + 1) = 2 * Power(j) /\ Power(j) \in Nat
    BY <2>1, PowerNext, PowerType
  <2>4. Power(j + 1) >= 2 * (4 * (j + 1) + 1)
    BY <2>1, <2>2, <2>3
  <2>5. i + 1 + 8 = j + 1 /\ i + 1 \in 0 .. k
    BY <1>1, <2>1
  <2>6. Power(i + 1 + 8) >= 2 * (4 * (i + 1 + 8) + 1)
    BY <2>4, <2>5
  <2> QED BY <2>5, <2>6
<1>4. k \in T
  <2> HIDE DEF T
  <2>1. 0 .. k \subseteq T
    BY <1>1, <1>2, <1>3, SetInduction
  <2> QED BY <1>1, <2>1
<1> QED BY <1>1, <1>4

\* The longest measurement is short enough for an int.
LEMMA SmallWidths ==
  /\ MaxVarint <= WordBits /\ Fixed64Bytes <= WordBits /\ Fixed32Bytes <= WordBits
  /\ WordBits \in Nat /\ 4 * WordBits <= MaxInt
<1>1. WordBits \in Nat \ {0} /\ GroupBits \in Nat /\ GroupBits >= 3
  BY WidthAssumption
<1>2. MaxVarint <= WordBits
  <2> DEFINE q == (WordBits + GroupBits - 1) \div GroupBits
  <2>1. q \in Nat /\ GroupBits * q <= WordBits + GroupBits - 1
    BY <1>1
  <2>2. q = MaxVarint
    BY DEF MaxVarint
  <2> HIDE DEF q
  <2>3. q <= WordBits
    <3> SUFFICES ASSUME q >= WordBits + 1 PROVE FALSE
      BY <1>1, <2>1
    <3>1. GroupBits * q >= GroupBits * (WordBits + 1)
      BY <1>1, <2>1
    <3>2. GroupBits * (WordBits + 1) = GroupBits * WordBits + GroupBits
      BY <1>1
    <3>3. GroupBits * WordBits >= WordBits
      BY <1>1
    <3> QED BY <1>1, <2>1, <3>1, <3>2, <3>3
  <2> QED BY <2>2, <2>3
<1>3. WordBits >= 8 /\ Fixed64Bytes <= WordBits
  <2> DEFINE w == GroupBits + 1
  <2>1. /\ w \in Nat /\ w >= 4 /\ WordBits = w * Fixed64Bytes
        /\ Fixed64Bytes >= 2 /\ Fixed64Bytes \in Nat
    BY <1>1, Widths
  <2> HIDE DEF w
  <2>2. w * Fixed64Bytes >= 4 * Fixed64Bytes
    BY <2>1
  <2> QED BY <2>1, <2>2
<1>4. Word >= 2 * (4 * WordBits + 1)
  BY <1>1, <1>3, PowerGrows DEF Word
<1> QED BY <1>1, <1>2, <1>3, <1>4, Widths, SignedIs

\* A varint has at most MaxVarint bytes.
LEMMA VarintLength ==
  /\ \A n \in 0 .. Word - 1 :
       EncodeVarint(n) \in Seq(Byte) /\ Len(EncodeVarint(n)) <= WordBits
  /\ \A num \in 1 .. 8, wire \in 0 .. 7 :
       EncodeTag(num, wire) \in Seq(Byte) /\ Len(EncodeTag(num, wire)) <= WordBits
<1>1. ASSUME NEW n \in 0 .. Word - 1
      PROVE  EncodeVarint(n) \in Seq(Byte) /\ Len(EncodeVarint(n)) <= WordBits
  <2>1. Len(EncodeVarint(n)) \in 1 .. MaxVarint
    BY EncodeVarintIs, VarintSizeIs
  <2> QED BY <2>1, EncodeVarintIs, SmallWidths, Widths
<1>2. ASSUME NEW num \in 1 .. 8, NEW wire \in 0 .. 7
      PROVE  EncodeTag(num, wire) \in Seq(Byte) /\ Len(EncodeTag(num, wire)) <= WordBits
  <2> DEFINE tag == num * 8 + wire
  <2>1. tag \in 0 .. Word - 1
    BY TagIs
  <2>2. EncodeTag(num, wire) = EncodeVarint(tag)
    BY DEF EncodeTag
  <2> HIDE DEF tag
  <2> QED BY <1>1, <2>1, <2>2
<1> QED BY <1>1, <1>2

\* Two short sequences.
LEMMA ShortConcat ==
  ASSUME NEW x \in Seq(Byte), NEW y \in Seq(Byte), NEW k \in Nat, NEW l \in Nat,
         Len(x) <= k, Len(y) <= l
  PROVE  x \o y \in Seq(Byte) /\ Len(x \o y) <= k + l
<1>1. x \o y \in Seq(Byte) /\ Len(x \o y) = Len(x) + Len(y)
  BY ConcatIs
<1> QED BY <1>1

\* The length of a value.
LEMMA EncodedValueLength ==
  ASSUME NEW v \in Value
  PROVE  EncodedValue(v) \in Seq(Byte) /\ Len(EncodedValue(v)) <= 2 * WordBits
<1>0. WordBits \in Nat
  BY SmallWidths
<1>1. CASE v = Nil
  <2>1. EncodedValue(v) = <<>>
    BY <1>1 DEF EncodedValue, Nil
  <2>2. <<>> \in Seq(Byte) /\ Len(<<>>) = 0
    OBVIOUS
  <2> QED BY <1>0, <2>1, <2>2
<1>2. CASE v # Nil
  <2> DEFINE num == NumOf(v.type)
             wire == ValueField(v).wire
             tag == EncodeTag(num, wire)
  <2>1. tag \in Seq(Byte) /\ Len(tag) <= WordBits
    <3>1. ValueField(v).num \in 2 .. 8
      BY <1>2, InterpretIs
    <3>2. num \in 1 .. 8 /\ wire \in 0 .. 7
      BY <3>1 DEF ValueField
    <3> QED BY <3>2, VarintLength
  <2>2. PICK p \in Seq(Byte) : EncodedValue(v) = tag \o p /\ Len(p) <= WordBits
    <3>1. CASE v.type = "float"
      <4> DEFINE p == EncodeFixed(v.n, Fixed32Bytes)
      <4>1. wire = 5
        BY <3>1 DEF ValueField
      <4>2. EncodedValue(v) = tag \o p
        BY <3>1, <4>1 DEF EncodedValue
      <4>3. p \in Seq(Byte) /\ Len(p) <= WordBits
        <5>1. v.n \in Nat /\ Fixed32Bytes \in Nat
          BY <3>1, ValueIs, Widths
        <5> QED BY <5>1, EncodeFixedIs, SmallWidths
      <4> QED BY <4>2, <4>3
    <3>2. CASE v.type = "double"
      <4> DEFINE p == EncodeFixed(v.n, Fixed64Bytes)
      <4>1. wire = 1
        BY <3>2 DEF ValueField
      <4>2. EncodedValue(v) = tag \o p
        BY <3>2, <4>1 DEF EncodedValue
      <4>3. p \in Seq(Byte) /\ Len(p) <= WordBits
        <5>1. v.n \in Nat /\ Fixed64Bytes \in Nat
          BY <3>2, ValueIs, Widths
        <5> QED BY <5>1, EncodeFixedIs, SmallWidths
      <4> QED BY <4>2, <4>3
    <3>3. CASE v.type \notin {"float", "double"}
      <4> DEFINE n == v.n % Word
                 p == EncodeVarint(n)
      <4>1. wire = 0 /\ v.type # "nil"
        BY <1>2, <3>3, ValueIs DEF ValueField
      <4>2. EncodedValue(v) = tag \o p
        BY <3>3, <4>1 DEF EncodedValue
      <4>3. n \in 0 .. Word - 1
        BY <1>2, <3>3, InterpretIs
      <4>4. p \in Seq(Byte) /\ Len(p) <= WordBits
        <5> HIDE DEF n
        <5> QED BY <4>3, VarintLength
      <4> QED BY <4>2, <4>4
    <3> QED BY <3>1, <3>2, <3>3
  <2> HIDE DEF tag
  <2>3. tag \o p \in Seq(Byte) /\ Len(tag \o p) <= WordBits + WordBits
    BY <1>0, <2>1, <2>2, ShortConcat
  <2> QED BY <1>0, <2>2, <2>3
<1> QED BY <1>1, <1>2

\* An int holds the length of every measurement.
LEMMA MeasurementLength ==
  ASSUME NEW m \in Measurement
  PROVE  Len(EncodeMeasurement(m)) <= MaxInt
<1> DEFINE x == EncodedId(m.id)
           y == EncodedValue(m.value)
<1>0. WordBits \in Nat /\ 4 * WordBits <= MaxInt /\ MaxInt \in Nat
  BY SmallWidths, SignedIs
<1>1. x \in Seq(Byte) /\ Len(x) <= 2 * WordBits
  <2>1. m.id \in 0 .. Word - 1
    BY ModHalf DEF Measurement
  <2>2. CASE m.id = 0
    <3>1. x = <<>>
      BY <2>2 DEF EncodedId
    <3>2. <<>> \in Seq(Byte) /\ Len(<<>>) = 0
      OBVIOUS
    <3> QED BY <1>0, <3>1, <3>2
  <2>3. CASE m.id # 0
    <3> DEFINE tag == EncodeTag(1, 0)
               p == EncodeVarint(m.id)
    <3>1. x = tag \o p
      BY <2>3 DEF EncodedId
    <3>2. tag \in Seq(Byte) /\ Len(tag) <= WordBits /\ p \in Seq(Byte) /\ Len(p) <= WordBits
      <4> DEFINE n == m.id
      <4>1. n \in 0 .. Word - 1
        BY <2>1
      <4> HIDE DEF n
      <4>2. EncodeVarint(n) \in Seq(Byte) /\ Len(EncodeVarint(n)) <= WordBits
        BY <4>1, VarintLength
      <4>3. tag \in Seq(Byte) /\ Len(tag) <= WordBits
        BY VarintLength
      <4> QED BY <4>2, <4>3 DEF n
    <3> HIDE DEF tag, p, x
    <3>3. tag \o p \in Seq(Byte) /\ Len(tag \o p) <= WordBits + WordBits
      BY <1>0, <3>2, ShortConcat
    <3> QED BY <1>0, <3>1, <3>3
  <2> QED BY <2>2, <2>3
<1>2. y \in Seq(Byte) /\ Len(y) <= 2 * WordBits
  <2>1. m.value \in Value
    BY DEF Measurement
  <2> QED BY <2>1, EncodedValueLength
<1> HIDE DEF x, y
<1>3. Len(x \o y) <= 2 * WordBits + 2 * WordBits
  <2> DEFINE k == 2 * WordBits
  <2>1. k \in Nat
    BY <1>0
  <2> HIDE DEF k
  <2>2. Len(x) <= k /\ Len(y) <= k
    BY <1>1, <1>2 DEF k
  <2>3. Len(x \o y) <= k + k
    BY <1>1, <1>2, <2>1, <2>2, ShortConcat
  <2> QED BY <2>3 DEF k
<1>4. EncodeMeasurement(m) = x \o y
  BY EncodeMeasurementIs DEF x, y
<1>5. Len(x \o y) \in Nat
  BY <1>1, <1>2
<1> QED BY <1>0, <1>3, <1>4, <1>5

\* The bytes of one measurement in a batch.
Entry(m) == EncodeBytes(1, EncodeMeasurement(m))

EntryField(m) == [num |-> 1, wire |-> 2, value |-> Bytes(EncodeMeasurement(m))]

\* An entry of a batch is bytes, and holds the measurement as its bytes.
LEMMA EntryIs ==
  ASSUME NEW m \in Measurement
  PROVE  /\ Entry(m) \in Seq(Byte)
         /\ Len(EncodeMeasurement(m)) <= Len(Entry(m))
         /\ Len(Entry(m)) <= MaxInt => Holds(Entry(m), <<EntryField(m)>>)
         /\ EntryField(m) \in FieldType
<1> DEFINE d == EncodeMeasurement(m)
           tag == EncodeTag(1, 2)
           length == EncodeVarint(Len(d))
           payload == length \o d
           n == Len(d)
           value == Bytes(d)
<1>1. d \in Seq(Byte)
  BY EncodeMeasurementType
<1>2. n \in 0 .. Word - 1 /\ tag \in Seq(Byte) /\ n \in Nat
  <2>1. n \in 0 .. Word - 1 /\ n \in Nat
    <3> HIDE DEF d
    <3> QED BY <1>1, MeasurementLength, SignedIs DEF d
  <2>2. tag \in Seq(Byte)
    BY EncodedTypes
  <2> QED BY <2>1, <2>2
<1>3. length \in Seq(Byte)
  <2> HIDE DEF n
  <2>1. EncodeVarint(n) \in Seq(Byte)
    BY <1>2, EncodedTypes
  <2> QED BY <2>1 DEF n
<1>4. Entry(m) = (tag \o length) \o d
  BY DEF Entry, EncodeBytes
<1>5. value \in ValueType
  <2> HIDE DEF d
  <2> QED BY <1>1, PlacesIs
<1>6. n <= MaxInt
  BY MeasurementLength
<1>7. Len(payload) <= MaxInt => Reads(2, payload, value)
  <2> HIDE DEF d
  <2> QED BY <1>1, <1>6, ReadsBytes
<1>8. EntryField(m) = [num |-> 1, wire |-> 2, value |-> value]
  BY DEF EntryField
<1>9. EntryField(m) \in FieldType
  <2>1. 1 \in 0 .. Half - 1
    BY NarrowWidths, Widths
  <2> HIDE DEF value
  <2> QED BY <1>5, <1>8, <2>1 DEF FieldType
<1> HIDE DEF d, tag, length, value
<1>10. payload \in Seq(Byte) /\ Len(payload) = Len(length) + n /\ Len(length) \in Nat
  BY <1>1, <1>3
<1>11. (tag \o length) \o d = tag \o payload
  BY <1>1, <1>2, <1>3, Regrouped
<1> HIDE DEF payload, n
<1>12. tag \o payload \in Seq(Byte) /\ Len(tag \o payload) = Len(tag) + Len(payload)
       /\ Len(tag) \in Nat /\ Len(payload) \in Nat
  BY <1>2, <1>10
<1>13. n <= Len(tag \o payload) /\ Len(payload) <= Len(tag \o payload)
  BY <1>2, <1>10, <1>12
<1>14. ASSUME Len(tag \o payload) <= MaxInt
       PROVE  Holds(tag \o payload, <<EntryField(m)>>)
  <2>1. Reads(2, payload, value)
    BY <1>7, <1>12, <1>13, <1>14, SignedIs
  <2> QED BY <1>8, <1>14, <2>1, FieldHolds DEF tag
<1> QED BY <1>4, <1>9, <1>11, <1>12, <1>13, <1>14 DEF d, n

Encodings(batch, u) ==
    /\ u \in [0 .. Len(batch) -> Seq(Byte)]
    /\ u[0] = <<>>
    /\ \A i \in 1 .. Len(batch) : u[i] = u[i - 1] \o Entry(batch[i])
    /\ Encode(batch) = u[Len(batch)]

\* Encode goes through the batch as Encodings says.
LEMMA EncodingsExist ==
  ASSUME NEW batch \in Seq(Measurement)
  PROVE  \E u : Encodings(batch, u)
<1> DEFINE n == Len(batch)
           V == Seq(Byte)
           Def(g) == [i \in 0 .. n |-> IF i = 0 THEN <<>> ELSE g[i - 1] \o Entry(batch[i])]
           u == CHOOSE g : g = Def(g)
           F == [i \in 1 .. n |-> [v \in V |-> v \o Entry(batch[i])]]
<1>0. n \in Nat /\ <<>> \in V
  OBVIOUS
<1>1. ASSUME NEW i \in 1 .. n, NEW v \in V PROVE v \o Entry(batch[i]) \in V
  <2>1. batch[i] \in Measurement
    OBVIOUS
  <2>2. Entry(batch[i]) \in Seq(Byte)
    BY <2>1, EntryIs
  <2> QED BY <2>2
<1>2. PICK g \in [0 .. n -> V] : g[0] = <<>> /\ \A i \in 1 .. n : g[i] = F[i][g[i - 1]]
  <2>2. F \in Steps(n, V)
    BY <1>1 DEF Steps
  <2> DEFINE c == <<>>
  <2>3. c \in V
    OBVIOUS
  <2> HIDE DEF F, V, c
  <2>4. Iterates(F, n, c, V) # {}
    BY <1>0, <2>2, <2>3, Iteration
  <2> QED BY <2>4 DEF Iterates, c
<1>3. g = Def(g)
  <2>1. ASSUME NEW i \in 0 .. n PROVE g[i] = Def(g)[i]
    <3>1. CASE i = 0
      BY <1>2, <3>1
    <3>2. CASE i # 0
      <4>1. g[i - 1] \in V /\ i \in 1 .. n
        BY <3>2
      <4>2. g[i] = g[i - 1] \o Entry(batch[i])
        BY <1>2, <4>1
      <4> QED BY <4>2, <3>2
    <3> QED BY <3>1, <3>2
  <2>2. g = [i \in 0 .. n |-> g[i]]
    OBVIOUS
  <2> QED BY <2>1, <2>2
<1>4. u = Def(u)
  <2> HIDE DEF Def
  <2> QED BY <1>3
<1>5. Encode(batch) = u[n]
  BY DEF Encode, Entry
<1> HIDE DEF u
<1>6. u[0] = <<>>
  <2>1. 0 \in 0 .. n
    BY <1>0
  <2> QED BY <1>4, <2>1
<1>7. ASSUME NEW i \in 1 .. n PROVE u[i] = u[i - 1] \o Entry(batch[i])
  <2>1. i \in 0 .. n /\ i # 0
    OBVIOUS
  <2>2. u[i] = Def(u)[i]
    BY <1>4
  <2> QED BY <2>1, <2>2
<1>8. DOMAIN u = 0 .. n /\ u = [i \in 0 .. n |-> u[i]]
  BY <1>4
<1>9. \A i \in 0 .. n : u[i] \in V
  <2> DEFINE T == {i \in 0 .. n : u[i] \in V}
  <2>1. 0 \in T
    <3>1. 0 \in 0 .. n
      BY <1>0
    <3>2. u[0] \in V
      <4> HIDE DEF V
      <4> QED BY <1>6, <1>0
    <3> QED BY <3>1, <3>2
  <2>2. ASSUME NEW i \in 0 .. n - 1, i \in T PROVE i + 1 \in T
    <3> DEFINE j == i + 1
    <3>1. j \in 1 .. n /\ j \in 0 .. n /\ j - 1 = i
      BY <1>0
    <3> HIDE DEF j
    <3>2. u[j] = u[i] \o Entry(batch[j])
      BY <1>7, <3>1
    <3>3. u[i] \o Entry(batch[j]) \in V
      BY <1>1, <2>2, <3>1
    <3> QED BY <3>1, <3>2, <3>3 DEF j
  <2> HIDE DEF T
  <2>3. 0 .. n \subseteq T
    BY <2>1, <2>2, <1>0, SetInduction
  <2> QED BY <2>3 DEF T
<1> QED BY <1>5, <1>6, <1>7, <1>8, <1>9 DEF Encodings

\* The encoding of a batch is a sequence of bytes.
LEMMA EncodeType ==
  ASSUME NEW batch \in Seq(Measurement)
  PROVE  Encode(batch) \in Seq(Byte)
<1>1. PICK u : Encodings(batch, u)
  BY EncodingsExist
<1>2. Len(batch) \in 0 .. Len(batch)
  OBVIOUS
<1> QED BY <1>1, <1>2 DEF Encodings

\* The fields of the first measurements of a batch.
EntryFields(batch, k) == [i \in 1 .. k |-> EntryField(batch[i])]

\* A sequence with one more element.
LEMMA ConcatLast ==
  ASSUME NEW S, NEW x \in Seq(S), NEW f \in S
  PROVE  /\ x \o <<f>> \in Seq(S) /\ Len(x \o <<f>>) = Len(x) + 1
         /\ (x \o <<f>>)[Len(x) + 1] = f
         /\ \A i \in 1 .. Len(x) : (x \o <<f>>)[i] = x[i]
OBVIOUS

\* One more measurement is one more field.
LEMMA EntryFieldsNext ==
  ASSUME NEW batch \in Seq(Measurement), NEW k \in 1 .. Len(batch)
  PROVE  EntryFields(batch, k) = EntryFields(batch, k - 1) \o <<EntryField(batch[k])>>
<1> DEFINE f == EntryField(batch[k])
           x == EntryFields(batch, k - 1)
           y == <<f>>
           z == EntryFields(batch, k)
           S == FieldType
<1>1. ASSUME NEW i \in 1 .. Len(batch) PROVE EntryField(batch[i]) \in FieldType
  <2>1. batch[i] \in Measurement
    OBVIOUS
  <2> QED BY <2>1, EntryIs
<1>2. k \in Nat /\ k - 1 \in Nat /\ k \in 1 .. k
  OBVIOUS
<1>3. /\ x \in Seq(S) /\ Len(x) = k - 1
      /\ \A i \in 1 .. k - 1 : x[i] = EntryField(batch[i])
  <2>1. x \in [1 .. k - 1 -> S]
    BY <1>1 DEF EntryFields
  <2>2. \A i \in 1 .. k - 1 : x[i] = EntryField(batch[i])
    BY DEF EntryFields
  <2> HIDE DEF x, S
  <2> QED BY <1>2, <2>1, <2>2
<1>4. /\ z \in Seq(S) /\ Len(z) = k
      /\ \A i \in 1 .. k : z[i] = EntryField(batch[i])
  <2>1. z \in [1 .. k -> S]
    BY <1>1 DEF EntryFields
  <2>2. \A i \in 1 .. k : z[i] = EntryField(batch[i])
    BY DEF EntryFields
  <2> HIDE DEF z, S
  <2> QED BY <1>2, <2>1, <2>2
<1>5. f \in S
  BY <1>1
<1> HIDE DEF x, z, S, f
<1>6. /\ x \o y \in Seq(S) /\ Len(x \o y) = k /\ (x \o y)[k] = f
      /\ \A i \in 1 .. k - 1 : (x \o y)[i] = x[i]
  <2>1. Len(x) + 1 = k
    BY <1>2, <1>3
  <2> QED BY <1>3, <1>5, <2>1, ConcatLast
<1> DEFINE w == x \o y
<1> HIDE DEF w, y
<1>7. \A i \in 1 .. k : w[i] = z[i]
  <2>1. \A i \in 1 .. k : i = k \/ i \in 1 .. k - 1
    OBVIOUS
  <2> QED BY <1>2, <1>3, <1>4, <1>6, <2>1 DEF w, f
<1>8. w = z
  BY <1>4, <1>6, <1>7, SeqEqual DEF w
<1> QED BY <1>8 DEF w, x, y, z, f

\* Decoding what was encoded gives a field for every measurement.
LEMMA BatchHolds ==
  ASSUME NEW batch \in Seq(Measurement), Len(Encode(batch)) <= MaxInt
  PROVE  Holds(Encode(batch), EntryFields(batch, Len(batch)))
<1> DEFINE n == Len(batch)
<1>1. PICK u : Encodings(batch, u)
  BY EncodingsExist
<1>2. /\ \A i \in 0 .. n : u[i] \in Seq(Byte)
      /\ u[0] = <<>> /\ u[n] = Encode(batch) /\ n \in Nat
      /\ \A i \in 1 .. n : u[i] = u[i - 1] \o Entry(batch[i])
  <2>1. n \in Nat
    OBVIOUS
  <2> HIDE DEF n
  <2>2. u \in [0 .. n -> Seq(Byte)] /\ u[n] = Encode(batch)
    BY <1>1 DEF Encodings, n
  <2>3. u[0] = <<>> /\ \A i \in 1 .. n : u[i] = u[i - 1] \o Entry(batch[i])
    BY <1>1 DEF Encodings, n
  <2> QED BY <2>1, <2>2, <2>3
<1>3. ASSUME NEW i \in 1 .. n
      PROVE  /\ Entry(batch[i]) \in Seq(Byte)
             /\ Len(u[i]) = Len(u[i - 1]) + Len(Entry(batch[i]))
             /\ Len(u[i - 1]) \in Nat /\ Len(Entry(batch[i])) \in Nat
             /\ Len(Entry(batch[i])) <= MaxInt => Holds(Entry(batch[i]), <<EntryField(batch[i])>>)
  <2>1. i - 1 \in 0 .. n
    OBVIOUS
  <2>2. u[i - 1] \in Seq(Byte) /\ u[i] = u[i - 1] \o Entry(batch[i])
    BY <1>2, <2>1
  <2>3. batch[i] \in Measurement
    OBVIOUS
  <2>4. /\ Entry(batch[i]) \in Seq(Byte)
        /\ Len(Entry(batch[i])) <= MaxInt => Holds(Entry(batch[i]), <<EntryField(batch[i])>>)
    BY <2>3, EntryIs
  <2> QED BY <2>2, <2>4
<1> HIDE DEF n
<1> DEFINE S == {i \in 0 .. n : Len(u[i]) <= MaxInt}
           T == {i \in 0 .. n : Holds(u[i], EntryFields(batch, i))}
<1>4. 0 .. n \subseteq S
  <2>1. n \in S
    BY <1>2
  <2>2. ASSUME NEW i \in 0 .. n - 1, i + 1 \in S PROVE i \in S
    <3> DEFINE j == i + 1
    <3>1. j \in 1 .. n /\ j - 1 = i /\ i \in 0 .. n
      BY <1>2
    <3>2. Len(u[j]) <= MaxInt
      BY <2>2
    <3> HIDE DEF j
    <3>3. /\ Len(u[j]) = Len(u[i]) + Len(Entry(batch[j]))
          /\ Len(u[i]) \in Nat /\ Len(Entry(batch[j])) \in Nat
      BY <1>3, <3>1
    <3>4. MaxInt \in Nat
      BY SignedIs
    <3> DEFINE a == Len(u[i])
               b == Len(u[j])
               c == Len(Entry(batch[j]))
    <3>5. b = a + c /\ a \in Nat /\ c \in Nat /\ b <= MaxInt
      BY <3>2, <3>3
    <3> HIDE DEF a, b, c
    <3>6. a <= MaxInt
      BY <3>4, <3>5
    <3> QED BY <3>1, <3>6 DEF a
  <2> HIDE DEF S
  <2> QED BY <1>2, <2>1, <2>2, DownwardSetInduction
<1>5. 0 \in T
  <2>1. EntryFields(batch, 0) = <<>>
    BY DEF EntryFields
  <2> QED BY <1>2, <2>1, NothingHolds
<1>6. ASSUME NEW i \in 0 .. n - 1, i \in T PROVE i + 1 \in T
  <2> DEFINE j == i + 1
             e == Entry(batch[j])
             f == <<EntryField(batch[j])>>
  <2>1. j \in 1 .. n /\ j - 1 = i /\ i \in 0 .. n /\ j \in 0 .. n
    BY <1>2
  <2> HIDE DEF j
  <2>2. Len(u[j]) <= MaxInt
    BY <1>4, <2>1
  <2>3. u[j] = u[i] \o e
    BY <1>2, <2>1
  <2>4. Len(e) <= MaxInt
    <3>1. /\ Len(u[j]) = Len(u[i]) + Len(e)
          /\ Len(u[i]) \in Nat /\ Len(e) \in Nat
      BY <1>3, <2>1
    <3>2. MaxInt \in Nat
      BY SignedIs
    <3> HIDE DEF e
    <3> QED BY <2>2, <3>1, <3>2
  <2>5. Holds(e, f)
    BY <1>3, <2>1, <2>4
  <2>6. EntryFields(batch, j) = EntryFields(batch, i) \o f
    <3>1. j \in 1 .. Len(batch)
      BY <2>1 DEF n
    <3> QED BY <2>1, <3>1, EntryFieldsNext
  <2>7. Holds(u[i], EntryFields(batch, i))
    BY <1>6
  <2> HIDE DEF e, f
  <2>8. Holds(u[j], EntryFields(batch, j))
    BY <2>2, <2>3, <2>5, <2>6, <2>7, Joined
  <2> QED BY <2>1, <2>8 DEF j
<1>7. n \in T
  <2> HIDE DEF T
  <2>1. 0 .. n \subseteq T
    BY <1>2, <1>5, <1>6, SetInduction
  <2> QED BY <1>2, <2>1
<1> QED BY <1>2, <1>7 DEF n

\* A batch that was encoded is decoded.
LEMMA BatchRoundTrip ==
  ASSUME NEW batch \in Seq(Measurement), Len(Encode(batch)) <= MaxInt
  PROVE  decodeMeasurementBatch(Encode(batch)) = [status |-> "ok", measurements |-> batch]
<1> DEFINE n == Len(batch)
           data == Encode(batch)
           outer == Decode(data)
           fields == EntryFields(batch, n)
           places == {i \in DOMAIN outer.fields :
                        outer.fields[i].num = 1 /\ outer.fields[i].wire = 2}
           picked == Selected(outer.fields, places)
           inner == [i \in DOMAIN picked |-> Decode(picked[i].value.bytes)]
           messages == [i \in DOMAIN inner |-> inner[i].fields]
<1>1. /\ outer.status = "ok" /\ outer.fields = fields
      /\ fields \in Seq(FieldType)
  BY BatchHolds DEF Holds
<1>2. n \in Nat /\ \A i \in 1 .. n : batch[i] \in Measurement
  OBVIOUS
<1>3. /\ DOMAIN fields = 1 .. n /\ Len(fields) = n
      /\ \A i \in 1 .. n : fields[i] = EntryField(batch[i])
  <2>1. DOMAIN fields = 1 .. n /\ \A i \in 1 .. n : fields[i] = EntryField(batch[i])
    BY DEF EntryFields
  <2> HIDE DEF fields, n
  <2> QED BY <1>1, <1>2, <2>1
<1>4. DecodeRepeated(data, 1) = Collect(inner)
  BY <1>1 DEF DecodeRepeated, Embedded
<1> HIDE DEF outer, fields, n
<1>5. picked = fields
  <2>1. \A i \in 1 .. n : fields[i].num = 1 /\ fields[i].wire = 2
    BY <1>3 DEF EntryField
  <2>2. \A i \in 1 .. Len(fields) : i \in places
    BY <1>1, <1>3, <2>1
  <2> HIDE DEF places
  <2>3. Selected(fields, places) = fields
    BY <1>1, <2>2, SelectedAll
  <2> QED BY <1>1, <2>3
<1> HIDE DEF picked
<1>6. ASSUME NEW i \in 1 .. n
      PROVE  inner[i].status = "ok" /\ MeasurementOf(inner[i].fields) = batch[i]
  <2> DEFINE m == batch[i]
             bytes == EncodeMeasurement(m)
  <2>1. m \in Measurement
    BY <1>2
  <2>2. picked[i].value = Bytes(bytes)
    BY <1>3, <1>5 DEF EntryField
  <2>3. bytes \in Seq(Byte)
    <3> HIDE DEF m
    <3> QED BY <2>1, EncodeMeasurementType
  <2>4. picked[i].value.bytes = bytes
    <3> HIDE DEF bytes
    <3> QED BY <2>2, <2>3, PlacesIs
  <2>5. inner[i] = Decode(bytes)
    BY <1>3, <1>5, <2>4
  <2>6. Decode(bytes).status = "ok" /\ MeasurementOf(Decode(bytes).fields) = m
    <3> HIDE DEF m
    <3> QED BY <2>1, MeasurementLength, MeasurementRoundTrip
  <2> QED BY <2>5, <2>6
<1>7. DOMAIN inner = 1 .. n
  BY <1>3, <1>5
<1> HIDE DEF inner
<1>8. Collect(inner) = [status |-> "ok", messages |-> messages]
  <2>1. {i \in DOMAIN inner : inner[i].status # "ok"} = {}
    BY <1>6, <1>7
  <2> QED BY <2>1 DEF Collect
<1>9. DOMAIN messages = 1 .. n /\ \A i \in 1 .. n : messages[i] = inner[i].fields
  BY <1>7
<1> HIDE DEF messages
<1>10. decodeMeasurementBatch(data)
         = [status |-> "ok",
            measurements |-> [i \in DOMAIN messages |-> MeasurementOf(messages[i])]]
  BY <1>4, <1>8 DEF decodeMeasurementBatch, Measured
<1>11. [i \in DOMAIN messages |-> MeasurementOf(messages[i])] = batch
  <2>1. [i \in DOMAIN messages |-> MeasurementOf(messages[i])] = [i \in 1 .. n |-> batch[i]]
    BY <1>6, <1>9
  <2>2. batch = [i \in 1 .. n |-> batch[i]]
    BY DEF n
  <2> QED BY <2>1, <2>2
<1> QED BY <1>10, <1>11

-----------------------------------------------------------------------------
(* Rounding                                                                *)

\* The absolute value is a number.
LEMMA AbsIs ==
  ASSUME NEW n \in Int
  PROVE  Abs(n) \in Nat /\ Abs(-n) = Abs(n) /\ (n >= 0 => Abs(n) = n)
BY DEF Abs

\* A unit of the last place of a number.
UnitOf(a, u) ==
    /\ a < Power(MantissaBits) * u
    /\ u = 1 \/ Power(MantissaBits - 1) * u <= a

\* Every number has a unit of the last place.
LEMMA UnitExists ==
  ASSUME NEW a \in Nat, a <= Word
  PROVE  \E u \in {Power(e) : e \in 0 .. WordBits} : UnitOf(a, u)
<1> DEFINE S == {e \in 0 .. WordBits : a < Power(MantissaBits) * Power(e)}
<1>0. /\ MantissaBits \in Nat /\ MantissaBits >= 1 /\ MantissaBits - 1 \in Nat
      /\ WordBits \in Nat
      /\ Power(MantissaBits) \in Nat /\ Power(MantissaBits) = 2 * Power(MantissaBits - 1)
      /\ Power(MantissaBits - 1) \in Nat /\ Power(MantissaBits - 1) >= 1
  <2>1. MantissaBits \in 1 .. WordBits - 1 /\ WordBits \in Nat
    BY IngestAssumption, WidthAssumption
  <2> DEFINE k == MantissaBits - 1
  <2>2. k \in Nat /\ k + 1 = MantissaBits /\ MantissaBits \in Nat
    BY <2>1
  <2>3. Power(k) \in Nat /\ Power(k) >= 1 /\ Power(MantissaBits) = 2 * Power(k)
    <3> HIDE DEF k
    <3> QED BY <2>2, PowerNext, PowerType
  <2> QED BY <2>1, <2>2, <2>3
<1>1. WordBits \in S
  <2>1. Power(WordBits) \in Nat /\ Power(WordBits) >= 1 /\ a <= Power(WordBits)
    BY <1>0, PowerType DEF Word
  <2>2. Power(MantissaBits) * Power(WordBits) >= 2 * Power(WordBits)
    BY <1>0, <2>1
  <2>3. a < Power(MantissaBits) * Power(WordBits)
    BY <1>0, <2>1, <2>2
  <2> QED BY <1>0, <2>3
<1>2. PICK e \in S : \A k \in S : e <= k
  <2>1. S \subseteq Nat /\ S # {}
    BY <1>1
  <2> HIDE DEF S
  <2> QED BY <2>1, LeastElement
<1>3. e \in 0 .. WordBits /\ a < Power(MantissaBits) * Power(e) /\ e \in Nat
  BY <1>2
<1>4. CASE e = 0
  BY <1>3, <1>4, PowerZero DEF UnitOf
<1>5. CASE e # 0
  <2> DEFINE d == e - 1
  <2>1. d \in 0 .. WordBits /\ d \in Nat /\ d + 1 = e /\ d < e
    BY <1>3, <1>5, <1>0
  <2>2. d \notin S
    BY <1>2, <2>1
  <2>3. ~ (a < Power(MantissaBits) * Power(d))
    BY <2>1, <2>2
  <2> HIDE DEF d
  <2>4. Power(e) = 2 * Power(d) /\ Power(d) \in Nat
    BY <2>1, PowerNext, PowerType
  <2>5. Power(MantissaBits) * Power(d) = Power(MantissaBits - 1) * Power(e)
    BY <1>0, <2>4
  <2>6. Power(MantissaBits - 1) * Power(e) \in Nat
    BY <1>0, <2>4
  <2>7. Power(MantissaBits - 1) * Power(e) <= a
    BY <2>3, <2>5, <2>6
  <2> QED BY <1>3, <2>7 DEF UnitOf
<1> QED BY <1>4, <1>5

\* The nearest multiple of a unit.
Near(a, u) ==
    LET down == a \div u
        rest == 2 * (a % u)
    IN  IF rest > u \/ (rest = u /\ down % 2 = 1) THEN down + 1 ELSE down

\* The nearest multiple of a unit is off by half a unit at most.
LEMMA NearIs ==
  ASSUME NEW a \in Nat, NEW u \in Nat \ {0}
  PROVE  /\ Near(a, u) \in Nat
         /\ 2 * Abs(Near(a, u) * u - a) <= u
         /\ u = 1 => Near(a, u) * u = a
<1> DEFINE down == a \div u
           rest == a % u
           near == Near(a, u)
<1>1. down \in Nat /\ rest \in 0 .. u - 1 /\ a = u * down + rest
  OBVIOUS
<1>2. near = IF 2 * rest > u \/ (2 * rest = u /\ down % 2 = 1) THEN down + 1 ELSE down
  BY DEF Near
<1> HIDE DEF down, rest, near
<1>3. near \in Nat /\ ((near = down /\ 2 * rest <= u) \/ (near = down + 1 /\ 2 * rest >= u))
  BY <1>1, <1>2
<1>4. near * u - a = IF near = down THEN -rest ELSE u - rest
  <2>1. down * u = u * down /\ (down + 1) * u = u * down + u
    BY <1>1
  <2> QED BY <1>1, <1>3, <2>1
<1>5. 2 * Abs(near * u - a) <= u
  BY <1>1, <1>3, <1>4 DEF Abs
<1>6. u = 1 => near * u = a
  BY <1>1, <1>3, <1>4
<1> QED BY <1>3, <1>5, <1>6 DEF near

\* Rounding to a float64 is off by half a unit of the last place at most.
LEMMA RoundedIs ==
  ASSUME NEW n \in Int, Abs(n) <= Word
  PROVE  /\ Rounded(n) \in Int
         /\ Abs(Rounded(n) - n) * Power(MantissaBits) <= Abs(n)
<1> DEFINE a == Abs(n)
           U == {Power(e) : e \in 0 .. WordBits}
           u == CHOOSE x \in U : UnitOf(a, x)
           near == Near(a, u)
<1>1. a \in Nat /\ a = IF n < 0 THEN -n ELSE n
  BY AbsIs DEF Abs
<1>2. u \in U /\ UnitOf(a, u)
  <2> HIDE DEF a
  <2>1. \E x \in U : UnitOf(a, x)
    BY <1>1, UnitExists DEF a
  <2> QED BY <2>1
<1>3. u \in Nat \ {0}
  <2> HIDE DEF u
  <2>1. PICK e \in 0 .. WordBits : u = Power(e)
    BY <1>2
  <2> QED BY <2>1, PowerType
<1>4. Rounded(n) = IF n < 0 THEN -(near * u) ELSE near * u
  BY DEF Rounded, Near, UnitOf
<1>5. near \in Nat /\ 2 * Abs(near * u - a) <= u /\ (u = 1 => near * u = a)
  <2> HIDE DEF a, u
  <2> QED BY <1>1, <1>3, NearIs
<1> HIDE DEF a, u, near
<1> DEFINE product == near * u
           off == Abs(product - a)
<1>6. product \in Nat /\ off \in Nat /\ 2 * off <= u /\ (u = 1 => product = a)
  BY <1>1, <1>3, <1>5, AbsIs
<1>7. Rounded(n) = IF n < 0 THEN -product ELSE product
  BY <1>4
<1>8. off = IF product - a < 0 THEN a - product ELSE product - a
  BY <1>1, <1>6 DEF Abs
<1> HIDE DEF product, off
<1>9. Rounded(n) \in Int /\ Abs(Rounded(n) - n) = off
  BY <1>1, <1>6, <1>7, <1>8 DEF Abs
<1>10. MantissaBits - 1 \in Nat /\ (MantissaBits - 1) + 1 = MantissaBits
  BY IngestAssumption, WidthAssumption
<1> DEFINE p == Power(MantissaBits - 1)
<1>11. p \in Nat /\ Power(MantissaBits) = 2 * p
  <2> DEFINE k == MantissaBits - 1
  <2>1. k \in Nat /\ k + 1 = MantissaBits
    BY <1>10
  <2> HIDE DEF k
  <2>2. Power(k) \in Nat /\ Power(MantissaBits) = 2 * Power(k)
    BY <2>1, PowerNext, PowerType
  <2> QED BY <2>2 DEF k
<1>12. u = 1 \/ p * u <= a
  BY <1>2 DEF UnitOf
<1> HIDE DEF p
<1>13. off * (2 * p) <= a
  <2>1. CASE u = 1
    <3>1. off = 0
      BY <1>6, <1>8, <1>1, <2>1
    <3> QED BY <1>1, <1>11, <3>1
  <2>2. CASE p * u <= a
    <3>1. off * (2 * p) = (2 * off) * p
      BY <1>6, <1>11
    <3>2. (2 * off) * p <= u * p
      BY <1>3, <1>6, <1>11
    <3> QED BY <1>1, <1>3, <1>6, <1>11, <2>2, <3>1, <3>2
  <2> QED BY <1>12, <2>1, <2>2
<1> QED BY <1>9, <1>11, <1>13 DEF a

-----------------------------------------------------------------------------
(* What is decoded, whatever the bytes are                                 *)

\* A signed number is within its range.
LEMMA SignedType ==
  ASSUME NEW x \in 0 .. Word - 1
  PROVE  /\ Signed(x, Half) \in -(Half \div 2) .. Half \div 2 - 1
         /\ Signed(x, Word) \in -(Word \div 2) .. Word \div 2 - 1
<1>1. ASSUME NEW range \in Nat, range >= 2, range % 2 = 0
      PROVE  Signed(x, range) \in -(range \div 2) .. range \div 2 - 1
  <2> DEFINE low == x % range
             h == range \div 2
  <2>1. low \in 0 .. range - 1 /\ h \in Nat /\ range = 2 * h
    BY <1>1, Widths
  <2>2. Signed(x, range) = IF low < h THEN low ELSE low - range
    BY DEF Signed
  <2> HIDE DEF low, h
  <2>3. Signed(x, range) \in -h .. h - 1
    BY <2>1, <2>2
  <2> QED BY <2>3 DEF h
<1>2. Half \in Nat /\ Half >= 2 /\ Half % 2 = 0 /\ Word \in Nat /\ Word >= 2 /\ Word % 2 = 0
  BY Widths, NarrowWidths
<1> QED BY <1>1, <1>2

\* A field of a value is read as a value (decoder.go:151-183).
LEMMA InterpretType ==
  ASSUME NEW f \in FieldType, f.num \in 2 .. 8
  PROVE  Interpret(f) \in Value
<1> DEFINE v == f.value
<1>1. /\ v.varint \in 0 .. Word - 1 /\ v.fixed32 \in 0 .. Half - 1
      /\ v.fixed64 \in 0 .. Word - 1
  BY DEF FieldType, ValueType
<1>2. f.num \in {2, 3, 4, 5, 6, 7, 8}
  OBVIOUS
<1> HIDE DEF v
<1>3. CASE f.num = 2
  <2>1. Interpret(f) = [type |-> "float", n |-> v.fixed32]
    BY <1>3, TypeOfIs DEF Interpret, v
  <2> QED BY <2>1, <1>1 DEF Value
<1>4. CASE f.num = 3
  <2>1. Interpret(f) = [type |-> "double", n |-> v.fixed64]
    BY <1>4, TypeOfIs DEF Interpret, v
  <2> QED BY <2>1, <1>1 DEF Value
<1>5. CASE f.num = 4
  <2> DEFINE n == Signed(v.varint, Half)
  <2>1. Interpret(f) = [type |-> "int32", n |-> n]
    BY <1>5, TypeOfIs DEF Interpret, v
  <2>2. n \in -(Half \div 2) .. Half \div 2 - 1
    BY <1>1, SignedType
  <2> HIDE DEF n
  <2> QED BY <2>1, <2>2 DEF Value
<1>6. CASE f.num = 5
  <2> DEFINE n == Signed(v.varint, Word)
  <2>1. Interpret(f) = [type |-> "int64", n |-> n]
    BY <1>6, TypeOfIs DEF Interpret, v
  <2>2. n \in -(Word \div 2) .. Word \div 2 - 1
    BY <1>1, SignedType
  <2> HIDE DEF n
  <2> QED BY <2>1, <2>2 DEF Value
<1>7. CASE f.num = 6
  <2> DEFINE n == v.varint % Half
  <2>1. Interpret(f) = [type |-> "uint32", n |-> n]
    BY <1>7, TypeOfIs DEF Interpret, v
  <2>2. n \in 0 .. Half - 1
    BY <1>1, Widths
  <2> HIDE DEF n
  <2> QED BY <2>1, <2>2 DEF Value
<1>8. CASE f.num = 7
  <2>1. Interpret(f) = [type |-> "uint64", n |-> v.varint]
    BY <1>8, TypeOfIs DEF Interpret, v
  <2> QED BY <2>1, <1>1 DEF Value
<1>9. CASE f.num = 8
  <2> DEFINE n == IF v.varint = 0 THEN 0 ELSE 1
  <2>1. Interpret(f) = [type |-> "bool", n |-> n]
    BY <1>9, TypeOfIs DEF Interpret, v
  <2>2. n \in {0, 1}
    OBVIOUS
  <2> HIDE DEF n
  <2> QED BY <2>1, <2>2 DEF Value
<1> QED BY <1>2, <1>3, <1>4, <1>5, <1>6, <1>7, <1>8, <1>9

\* Any message is read as a measurement (telemetry_proto.go:46-79).
LEMMA MeasurementType ==
  ASSUME NEW msg \in Seq(FieldType)
  PROVE  MeasurementOf(msg) \in Measurement
<1> DEFINE ids == {i \in DOMAIN msg : msg[i].num = 1}
           values == {i \in DOMAIN msg : msg[i].num \in DOMAIN TypeOf}
           id == IF ids = {} THEN 0 ELSE msg[Min(ids)].value.varint % Half
           value == IF values = {} THEN Nil ELSE Interpret(msg[Min(values)])
<1>1. MeasurementOf(msg) = [id |-> id, value |-> value]
  BY DEF MeasurementOf
<1>2. DOMAIN msg = 1 .. Len(msg) /\ DOMAIN msg \subseteq Nat
      /\ \A i \in DOMAIN msg : msg[i] \in FieldType
  OBVIOUS
<1>3. id \in 0 .. Half - 1
  <2>1. CASE ids = {}
    BY <2>1, Widths
  <2>2. CASE ids # {}
    <3> DEFINE m == Min(ids)
    <3>1. ids \subseteq Nat
      BY <1>2
    <3>2. m \in ids
      <4> HIDE DEF ids
      <4> QED BY <2>2, <3>1, MinIs
    <3>3. msg[m] \in FieldType
      BY <1>2, <3>2
    <3> HIDE DEF m
    <3>4. msg[m].value.varint \in Nat
      BY <3>3, Widths DEF FieldType, ValueType
    <3>5. id = msg[m].value.varint % Half
      BY <2>2 DEF m
    <3> QED BY <3>4, <3>5, Widths
  <2> QED BY <2>1, <2>2
<1>4. value \in Value
  <2>1. CASE values = {}
    BY <2>1 DEF Value
  <2>2. CASE values # {}
    <3> DEFINE m == Min(values)
    <3>1. values \subseteq Nat
      BY <1>2
    <3>2. m \in values
      <4> HIDE DEF values
      <4> QED BY <2>2, <3>1, MinIs
    <3>3. msg[m] \in FieldType /\ msg[m].num \in 2 .. 8
      BY <1>2, <3>2, TypeOfIs
    <3> HIDE DEF m
    <3>4. Interpret(msg[m]) \in Value
      BY <3>3, InterpretType
    <3> QED BY <2>2, <3>4 DEF m
  <2> QED BY <2>1, <2>2
<1> HIDE DEF id, value
<1> QED BY <1>1, <1>3, <1>4 DEF Measurement

\* Messages that are collected are typed if each of them is.
LEMMA CollectType ==
  ASSUME NEW R, NEW picked \in Seq(R), NEW inner,
         DOMAIN inner = 1 .. Len(picked),
         \A i \in 1 .. Len(picked) : inner[i] \in MessageType
  PROVE  Collect(inner).status \in Status /\ Collect(inner).messages \in Seq(Seq(FieldType))
<1> DEFINE bad == {i \in DOMAIN inner : inner[i].status # "ok"}
           V == Seq(FieldType)
           messages == [i \in DOMAIN inner |-> inner[i].fields]
<1>1. \A i \in DOMAIN inner : inner[i].fields \in V /\ inner[i].status \in Status
  BY DEF MessageType
<1>2. messages \in Seq(V) /\ <<>> \in Seq(V)
  <2> HIDE DEF V
  <2>1. Len(picked) \in Nat
    OBVIOUS
  <2> QED BY <1>1, <2>1
<1>3. Collect(inner) = IF bad = {}
          THEN [status |-> "ok", messages |-> messages]
          ELSE [status |-> inner[Min(bad)].status, messages |-> <<>>]
  BY DEF Collect
<1>4. CASE bad = {}
  <2> HIDE DEF V, messages
  <2> QED BY <1>2, <1>3, <1>4 DEF Status, V
<1>5. CASE bad # {}
  <2>1. bad \subseteq Nat
    OBVIOUS
  <2>2. Min(bad) \in bad
    <3> HIDE DEF bad
    <3> QED BY <1>5, <2>1, MinIs
  <2>3. inner[Min(bad)].status \in Status
    BY <1>1, <2>2
  <2> HIDE DEF bad, V, messages
  <2> QED BY <1>2, <1>3, <1>5, <2>3 DEF V
<1> QED BY <1>4, <1>5

\* Whatever the bytes are, what is decoded is a sequence of measurements.
LEMMA DecodedType ==
  ASSUME NEW data \in Seq(Byte), Len(data) <= MaxInt
  PROVE  /\ decodeMeasurementBatch(data).status \in Status
         /\ decodeMeasurementBatch(data).measurements \in Seq(Measurement)
<1> DEFINE outer == Decode(data)
           fields == outer.fields
           places == {i \in DOMAIN outer.fields :
                        outer.fields[i].num = 1 /\ outer.fields[i].wire = 2}
           picked == Selected(outer.fields, places)
           inner == [i \in DOMAIN picked |-> Decode(picked[i].value.bytes)]
           decoded == DecodeRepeated(data, 1)
           V == Seq(FieldType)
           R == FieldsOf(data)
<1>1. /\ outer.status \in Status
      /\ outer.status = "ok" => fields \in Seq(R)
  BY DecodedFields DEF MessageType
<1>2. decoded = IF outer.status = "ok" THEN Collect(inner)
                ELSE [status |-> outer.status, messages |-> <<>>]
  BY DEF DecodeRepeated, Embedded
<1>3. decoded.status \in Status /\ decoded.messages \in Seq(V)
  <2>1. CASE outer.status # "ok"
    <3>1. <<>> \in Seq(V)
      <4> HIDE DEF V
      <4> QED OBVIOUS
    <3> HIDE DEF outer, V, decoded
    <3> QED BY <1>1, <1>2, <2>1, <3>1
  <2>2. CASE outer.status = "ok"
    <3> DEFINE S == {f \in R : f.wire = 2}
    <3>1. picked \in Seq(S)
      <4>1. fields \in Seq(R)
        BY <1>1, <2>2
      <4>2. ChosenIn(fields, places, S)
        <5> SUFFICES ASSUME NEW i \in 1 .. Len(fields), i \in places PROVE fields[i] \in S
          BY DEF ChosenIn
        <5>1. fields[i] \in R
          <6> HIDE DEF R, fields
          <6> QED BY <4>1
        <5>2. fields[i].wire = 2
          OBVIOUS
        <5> QED BY <5>1, <5>2
      <4> HIDE DEF fields, R, places, S
      <4>3. Selected(fields, places) \in Seq(S)
        BY <4>1, <4>2, SelectedType
      <4> QED BY <4>3 DEF fields
    <3> HIDE DEF picked
    <3>2. DOMAIN inner = 1 .. Len(picked)
      <4> HIDE DEF S
      <4> QED BY <3>1
    <3>3. ASSUME NEW i \in 1 .. Len(picked) PROVE inner[i] \in MessageType
      <4>1. picked[i] \in S
        <5> HIDE DEF S
        <5> QED BY <3>1
      <4> DEFINE bytes == picked[i].value.bytes
      <4>2. PICK n \in Nat, size \in Nat :
               n + size <= Len(data) /\ bytes = Part(data, n, size)
        BY <4>1 DEF FieldsOf, IsPart
      <4>3. bytes \in Seq(Byte) /\ Len(bytes) <= MaxInt
        <5>1. Part(data, n, size) \in Seq(Byte) /\ Len(Part(data, n, size)) = size
          BY <4>2, PartIs
        <5> QED BY <4>2, <5>1, SignedIs
      <4>4. inner[i] = Decode(bytes)
        BY <3>2
      <4> HIDE DEF bytes
      <4> QED BY <4>3, <4>4, DecodedFields
    <3> HIDE DEF inner, S
    <3>4. Collect(inner).status \in Status /\ Collect(inner).messages \in Seq(V)
      BY <3>1, <3>2, <3>3, CollectType
    <3> QED BY <1>2, <2>2, <3>4
  <2> QED BY <2>1, <2>2
<1>4. decodeMeasurementBatch(data)
        = [status |-> decoded.status,
           measurements |-> [i \in DOMAIN decoded.messages |->
                               MeasurementOf(decoded.messages[i])]]
  BY DEF decodeMeasurementBatch, Measured
<1> DEFINE messages == decoded.messages
           measurements == [i \in DOMAIN messages |-> MeasurementOf(messages[i])]
<1>5. measurements \in Seq(Measurement)
  <2> HIDE DEF messages
  <2>1. messages \in Seq(V)
    BY <1>3 DEF messages
  <2>2. /\ DOMAIN messages = 1 .. Len(messages) /\ Len(messages) \in Nat
        /\ \A i \in DOMAIN messages : messages[i] \in V
    <3> HIDE DEF V
    <3> QED BY <2>1
  <2>3. \A i \in DOMAIN messages : MeasurementOf(messages[i]) \in Measurement
    BY <2>2, MeasurementType
  <2> QED BY <2>2, <2>3
<1> HIDE DEF decoded, measurements
<1> QED BY <1>3, <1>4, <1>5 DEF measurements

-----------------------------------------------------------------------------
(* The invariant of a request                                              *)

\* The schemas that are stored and read are those that UploadSchema lets in.
SchemasAccepted ==
    \A S \in {schema, used} : S # {} => S \in Uploads /\ Accepted(S)

\* A body is a string or the encoding of the batch that was sent.
BodyRead == \A batch \in source : body = Encode(batch)

Decoded == {"stamp", "save", "ok"}

NamesRead == pc \in Decoded => names \in IdToMeta(used)

PanicDecoded == pc = "panic" => decodeMeasurementBatch(body).status = "panic"

NothingYet ==
    pc \notin {"save", "ok"} => saved = <<>> /\ failures = 0

AllIsTodo == pc = "stamp" => \A batch \in source : todo = batch

\* The places of a batch whose measurements are to be saved.
Kept(batch) == {i \in DOMAIN batch : ~ Skipped(batch[i])}

FirstStamp(batch) ==
    LET stamps == {i \in DOMAIN batch : IsStamp(batch[i])}
    IN  IF stamps = {} THEN <<>> ELSE StampOf(batch[Min(stamps)].value)

\* A document and the measurement that it holds.
Holder(doc, m) ==
    /\ doc.id = m.id
    /\ m.value # Nil
    /\ doc.value = toFloat64(m.value)

\* What every document of the request is, at any time.
DocumentRight(doc) ==
    /\ doc.id \in DOMAIN names
    /\ doc.name = names[doc.id]
    /\ doc.name # Stamped
    /\ doc.at = stamp
    /\ \A batch \in source : \E j \in DOMAIN batch : Holder(doc, batch[j])

DocumentsRight ==
    pc \in {"save", "ok"} => \A i \in DOMAIN saved : DocumentRight(saved[i])

\* The first k measurements of the batch are dealt with.
DealtWith(batch, k) ==
    LET kept == Selected(Take(batch, k), Kept(batch))
    IN  /\ todo = Drop(batch, k)
        /\ Len(saved) + failures = Len(kept)
        /\ failures = 0 => \A i \in DOMAIN saved : Holder(saved[i], kept[i])

Progress ==
    pc \in {"save", "ok"} =>
        /\ pc = "ok" => todo = <<>>
        /\ \A batch \in source :
             /\ stamp = FirstStamp(batch)
             /\ \E k \in 0 .. Len(batch) : DealtWith(batch, k)

IInv ==
    /\ TypeOK
    /\ SchemasAccepted
    /\ BodyRead
    /\ NamesRead
    /\ PanicDecoded
    /\ NothingYet
    /\ AllIsTodo
    /\ DocumentsRight
    /\ Progress

-----------------------------------------------------------------------------
(* What the actions need to know                                           *)

\* The bound on the length of bodies is that of an int.
LEMMA HalfWord == Word \div 2 = MaxInt + 1 /\ MaxInt \in Nat
BY SignedIs, Widths DEF MaxInt

\* The length of the body is an int.
LEMMA BodyFits ==
  ASSUME TypeOK
  PROVE  body \in Seq(Byte) /\ Len(body) <= MaxInt
<1>1. body \in Seq(Byte) /\ Len(body) < Word \div 2
  BY DEF TypeOK
<1> QED BY <1>1, HalfWord

\* A batch that is sent is read as it is.
LEMMA BatchIs ==
  ASSUME NEW batch \in Batches
  PROVE  /\ batch \in Seq(Measurement)
         /\ Encode(batch) \in Seq(Byte) /\ Len(Encode(batch)) < Word \div 2
         /\ decodeMeasurementBatch(Encode(batch)) = [status |-> "ok", measurements |-> batch]
<1>1. batch \in Seq(Measurement) /\ Len(Encode(batch)) < Word \div 2
  BY BodyAssumption
<1>2. Encode(batch) \in Seq(Byte)
  BY <1>1, EncodeType
<1>3. Len(Encode(batch)) <= MaxInt
  BY <1>1, <1>2, HalfWord
<1> QED BY <1>1, <1>2, <1>3, BatchRoundTrip

\* The number of any value is within a word.
LEMMA ValueAbs ==
  ASSUME NEW v \in Value
  PROVE  v.n \in Int /\ Abs(v.n) <= Word /\ v.n \in -(MaxInt + 1) .. Word - 1
<1>1. /\ Half \in Nat /\ Half >= 1 /\ Half <= Word /\ Word \in Nat /\ Word >= 2
      /\ Word \div 2 = MaxInt + 1 /\ Word = 2 * (MaxInt + 1) /\ MaxInt \in Nat
      /\ Half \div 2 \in Nat /\ Half \div 2 <= MaxInt + 1 /\ Half % 2 = 0
  <2>1. Half * Half >= Half * 1
    BY NarrowWidths, Widths
  <2>2. /\ Half \in Nat /\ Half >= 1 /\ Half <= Word /\ Word \in Nat /\ Word >= 2
        /\ Half % 2 = 0
    BY <2>1, NarrowWidths, Widths
  <2>3. Word \div 2 = MaxInt + 1 /\ Word = 2 * (MaxInt + 1) /\ MaxInt \in Nat
    BY HalfWord, SignedIs
  <2> QED BY <2>2, <2>3
<1>2. \/ v.n \in 0 .. Word - 1
      \/ v.n \in -(MaxInt + 1) .. MaxInt
  <2>1. v.type = "nil" => v.n = 0
    BY ValueIs DEF Nil
  <2> QED BY <1>1, <2>1, ValueIs
<1> DEFINE n == v.n
<1> HIDE DEF n
<1>3. (n \in 0 .. Word - 1 \/ n \in -(MaxInt + 1) .. MaxInt) =>
         n \in Int /\ Abs(n) <= Word /\ n \in -(MaxInt + 1) .. Word - 1
  BY <1>1 DEF Abs
<1> QED BY <1>2, <1>3 DEF n

\* What is stored is a float64 (telemetry_proto.go:229-253).
LEMMA StoredType ==
  ASSUME NEW v \in Value
  PROVE  toFloat64(v) \in Stored
<1>1. CASE v.type \in {"float", "double"}
  <2>1. /\ v = [type |-> v.type, n |-> v.n]
        /\ \/ v.type = "float" /\ v.n \in 0 .. Half - 1
           \/ v.type = "double" /\ v.n \in 0 .. Word - 1
    BY <1>1, ValueIs
  <2>2. v \in Stored
    BY <2>1 DEF Stored
  <2> QED BY <1>1, <2>2 DEF toFloat64
<1>2. CASE v.type \notin {"float", "double"}
  <2> DEFINE n == Rounded(v.n)
  <2>1. n \in Int
    BY ValueAbs, RoundedIs
  <2>2. toFloat64(v) = [type |-> "number", n |-> n]
    BY <1>2 DEF toFloat64
  <2> HIDE DEF n
  <2> QED BY <2>1, <2>2 DEF Stored
<1> QED BY <1>1, <1>2

\* A document's value says what was sent.
LEMMA StoredRepresents ==
  ASSUME NEW v \in Value
  PROVE  Represents(toFloat64(v), v)
<1>1. CASE v.type \in {"float", "double"}
  BY <1>1 DEF toFloat64, Represents
<1>2. CASE v.type \notin {"float", "double"}
  <2>1. Abs(Rounded(v.n) - v.n) * Power(MantissaBits) <= Abs(v.n)
    BY ValueAbs, RoundedIs
  <2>2. toFloat64(v).n = Rounded(v.n)
    BY <1>2 DEF toFloat64
  <2> QED BY <1>2, <2>1, <2>2 DEF Represents
<1> QED BY <1>1, <1>2

\* Sequences of one element and of none.
LEMMA ShortSeqs ==
  ASSUME NEW S, NEW x \in S
  PROVE  /\ <<>> \in Seq(S) /\ Len(<<>>) <= 1
         /\ <<x>> \in Seq(S) /\ Len(<<x>>) <= 1
OBVIOUS

\* A timestamp is a time or none (telemetry_proto.go:131-147).
LEMMA StampType ==
  ASSUME NEW v \in Value
  PROVE  StampOf(v) \in Seq(Time) /\ Len(StampOf(v)) <= 1
<1> DEFINE n == Signed(v.n, Word)
<1>1. n \in Time
  BY ValueAbs, SignedIs, HalfWord DEF Time
<1> DEFINE stamps == StampOf(v)
<1>2. stamps = <<>> \/ stamps = <<n>>
  BY DEF StampOf
<1> HIDE DEF n, stamps
<1>3. /\ <<>> \in Seq(Time) /\ Len(<<>>) <= 1
      /\ <<n>> \in Seq(Time) /\ Len(<<n>>) <= 1
  BY <1>1, ShortSeqs
<1>4. stamps \in Seq(Time) /\ Len(stamps) <= 1
  BY <1>2, <1>3, Zenon
<1> QED BY <1>4 DEF stamps

\* A time that is sent is the time that is read.
LEMMA StampIs ==
  ASSUME NEW v \in Value
  PROVE  StampOf(v) = TimeSent(v)
<1> DEFINE n == v.n
<1>1. n \in -(MaxInt + 1) .. Word - 1
  BY ValueAbs
<1> HIDE DEF n
<1>2. Signed(n, Word) = IF n <= MaxInt THEN n ELSE n - Word
  BY <1>1, SignedIs
<1>3. n <= MaxInt <=> n < Word \div 2
  BY <1>1, HalfWord
<1>4. Signed(n, Word) = IF n < Word \div 2 THEN n ELSE n - Word
  BY <1>2, <1>3
<1> QED BY <1>4 DEF StampOf, TimeSent, n

\* What is kept depends on the names only.
LEMMA KeptSame ==
  ASSUME names' = names
  PROVE  /\ \A batch : Kept(batch)' = Kept(batch)
         /\ \A batch : FirstStamp(batch)' = FirstStamp(batch)
         /\ \A m : Skipped(m)' = Skipped(m)
BY DEF Kept, Skipped, Known, IsStamp, FirstStamp

\* The current measurement is one, and so are those behind it.
LEMMA CurrentType ==
  ASSUME TypeOK, todo # <<>>
  PROVE  /\ Current \in Measurement
         /\ Current.id \in 0 .. Half - 1 /\ Current.value \in Value
         /\ Tail(todo) \in Seq(Measurement)
<1>1. todo \in Seq(Measurement)
  BY DEF TypeOK
<1>2. Head(todo) \in Measurement /\ Tail(todo) \in Seq(Measurement)
  BY <1>1
<1> QED BY <1>2 DEF Current, Measurement

\* What is left of a batch starts with the measurement at the next place.
LEMMA DropNext ==
  ASSUME NEW R, NEW s \in Seq(R), NEW k \in 0 .. Len(s), Drop(s, k) # <<>>
  PROVE  /\ k \in 0 .. Len(s) - 1
         /\ Head(Drop(s, k)) = s[k + 1]
         /\ Tail(Drop(s, k)) = Drop(s, k + 1)
<1> DEFINE rest == Drop(s, k)
           n == Len(s)
<1>1. /\ rest \in Seq(R) /\ Len(rest) = n - k /\ n \in Nat /\ k \in Nat
      /\ \A i \in 1 .. n - k : rest[i] = s[k + i]
  BY DropIs
<1> HIDE DEF rest
<1>2. k \in 0 .. n - 1
  <2>1. Len(rest) # 0
    BY <1>1 DEF rest
  <2> QED BY <1>1, <2>1
<1>3. Head(rest) = s[k + 1]
  <2>1. Head(rest) = rest[1] /\ 1 \in 1 .. n - k
    BY <1>1, <1>2
  <2> QED BY <1>1, <2>1
<1> DEFINE m == k + 1
           t == Tail(rest)
           u == Drop(s, m)
<1>4. m \in 0 .. n /\ m \in Nat /\ m = k + 1
  BY <1>2
<1>5. u \in Seq(R) /\ Len(u) = n - m /\ \A i \in 1 .. n - m : u[i] = s[m + i]
  <2> HIDE DEF m
  <2> QED BY <1>4, DropIs
<1>6. /\ t \in Seq(R) /\ Len(t) = n - m
      /\ \A i \in 1 .. n - m : t[i] = rest[i + 1] /\ i + 1 \in 1 .. n - k
  BY <1>1, <1>2
<1>7. \A i \in 1 .. n - m : t[i] = u[i]
  <2>1. ASSUME NEW i \in 1 .. n - m PROVE t[i] = u[i]
    <3> DEFINE j == i + 1
    <3>1. j \in 1 .. n - k /\ k + j = m + i /\ t[i] = rest[j]
      BY <1>1, <1>4, <1>6
    <3>2. rest[j] = s[k + j]
      <4> HIDE DEF j
      <4> QED BY <1>1, <3>1
    <3> HIDE DEF t, u, m, j
    <3> QED BY <1>5, <3>1, <3>2
  <2> QED BY <2>1
<1> HIDE DEF t, u, m
<1>8. t = u
  BY <1>5, <1>6, <1>7, SeqEqual
<1> QED BY <1>2, <1>3, <1>8 DEF t, u, m, rest

\* Kept measurements are measurements.
LEMMA KeptType ==
  ASSUME NEW batch \in Seq(Measurement), NEW k \in 0 .. Len(batch), NEW chosen
  PROVE  Selected(Take(batch, k), chosen) \in Seq(Measurement)
<1> DEFINE s == Take(batch, k)
<1>1. s \in Seq(Measurement)
  BY TakeIs
<1> HIDE DEF s
<1>2. ChosenIn(s, chosen, Measurement)
  BY <1>1 DEF ChosenIn
<1> QED BY <1>1, <1>2, SelectedType DEF s

\* The next measurement is passed over, fails or becomes a document.
Advances ==
    /\ todo # <<>>
    /\ todo' = Tail(todo)
    /\ names' = names
    /\ \/ /\ Skipped(Current)
          /\ saved' = saved /\ failures' = failures
       \/ /\ ~ Skipped(Current)
          /\ saved' = saved /\ failures' = failures + 1
       \/ /\ ~ Skipped(Current)
          /\ failures' = failures
          /\ \E doc \in Document :
               saved' = Append(saved, doc) /\ Holder(doc, Current)

\* When the next measurement is done, one more of the batch is dealt with.
LEMMA DealtNext ==
  ASSUME TypeOK, NEW batch \in Seq(Measurement), NEW k \in 0 .. Len(batch),
         DealtWith(batch, k), Advances
  PROVE  \E j \in 0 .. Len(batch) : DealtWith(batch, j)'
<1> DEFINE K == Kept(batch)
           j == k + 1
           kept == Selected(Take(batch, k), K)
           next == Selected(Take(batch, j), K)
           m == batch[j]
<1>1. k \in 0 .. Len(batch) - 1 /\ Current = m /\ todo' = Drop(batch, j)
  <2>1. todo = Drop(batch, k) /\ todo # <<>> /\ todo' = Tail(todo)
    BY DEF DealtWith, Advances
  <2> QED BY <2>1, DropNext DEF Current
<1>2. j \in 0 .. Len(batch) /\ j \in DOMAIN batch /\ m \in Measurement
  BY <1>1
<1>3. Len(saved) + failures = Len(kept)
      /\ (failures = 0 => \A i \in DOMAIN saved : Holder(saved[i], kept[i]))
  BY DEF DealtWith
<1>4. kept \in Seq(Measurement)
  BY KeptType
<1>5. next = SelectStep(batch, K, kept, j)
  <2> HIDE DEF K
  <2> QED BY <1>1, SelectedNext
<1>6. j \in K <=> ~ Skipped(m)
  BY <1>2 DEF Kept
<1>7. Kept(batch)' = K
  BY KeptSame DEF Advances
<1>8. saved \in Seq(Document) /\ failures \in Nat
  BY DEF TypeOK
<1> HIDE DEF K, kept, next, m, j
<1>9. SUFFICES /\ Len(saved') + failures' = Len(next)
               /\ failures' = 0 => \A i \in DOMAIN saved' : Holder(saved'[i], next[i])
  <2>1. todo' = Drop(batch, j) /\ j \in 0 .. Len(batch)
    BY <1>1, <1>2
  <2>2. next = Selected(Take(batch, j), Kept(batch)')
    BY <1>7 DEF next
  <2>3. DealtWith(batch, j)' <=>
          /\ todo' = Drop(batch, j)
          /\ Len(saved') + failures' = Len(next)
          /\ failures' = 0 => \A i \in DOMAIN saved' : Holder(saved'[i], next[i])
    BY <2>2 DEF DealtWith
  <2> QED BY <2>1, <2>3
<1>10. CASE Skipped(Current) /\ saved' = saved /\ failures' = failures
  <2>1. next = kept
    BY <1>1, <1>5, <1>6, <1>10 DEF SelectStep
  <2> QED BY <1>3, <1>10, <2>1
<1>11. CASE ~ Skipped(Current)
  <2>1. next = Append(kept, m)
    BY <1>1, <1>5, <1>6, <1>11 DEF SelectStep, m
  <2>2. /\ Len(next) = Len(kept) + 1 /\ next[Len(kept) + 1] = m
        /\ \A i \in 1 .. Len(kept) : next[i] = kept[i]
    BY <1>2, <1>4, <2>1
  <2>3. Len(kept) \in Nat /\ Len(saved) \in Nat
    BY <1>4, <1>8
  <2>4. CASE saved' = saved /\ failures' = failures + 1
    BY <1>3, <1>8, <2>2, <2>3, <2>4
  <2>5. CASE failures' = failures /\ \E doc \in Document :
                saved' = Append(saved, doc) /\ Holder(doc, Current)
    <3>1. PICK doc \in Document : saved' = Append(saved, doc) /\ Holder(doc, Current)
      BY <2>5
    <3>2. /\ saved' \in Seq(Document) /\ Len(saved') = Len(saved) + 1
          /\ saved'[Len(saved) + 1] = doc /\ DOMAIN saved' = 1 .. Len(saved) + 1
          /\ \A i \in 1 .. Len(saved) : saved'[i] = saved[i]
      BY <1>8, <3>1
    <3>3. Len(saved') + failures' = Len(next)
      <4> DEFINE a == Len(saved)
                 b == Len(kept)
      <4>1. a + failures = b /\ a \in Nat /\ b \in Nat /\ failures \in Nat
        BY <1>3, <1>8, <2>3
      <4>2. Len(saved') = a + 1 /\ Len(next) = b + 1 /\ failures' = failures
        BY <2>2, <2>5, <3>2
      <4> HIDE DEF a, b
      <4> QED BY <4>1, <4>2
    <3>4. ASSUME failures' = 0, NEW i \in DOMAIN saved'
          PROVE  Holder(saved'[i], next[i])
      <4>1. failures = 0 /\ Len(saved) = Len(kept)
        BY <1>3, <2>3, <2>5, <3>4
      <4>2. CASE i = Len(saved) + 1
        BY <1>1, <2>2, <3>1, <3>2, <4>1, <4>2
      <4>3. CASE i # Len(saved) + 1
        <5>1. i \in 1 .. Len(saved) /\ i \in DOMAIN saved
          BY <1>8, <2>3, <3>2, <3>4, <4>3
        <5>2. saved'[i] = saved[i] /\ next[i] = kept[i]
          BY <2>2, <3>2, <4>1, <5>1
        <5> QED BY <1>3, <4>1, <5>1, <5>2
      <4> QED BY <4>2, <4>3
    <3> QED BY <3>3, <3>4
  <2> QED BY <1>11, <2>4, <2>5 DEF Advances
<1> QED BY <1>10, <1>11 DEF Advances

-----------------------------------------------------------------------------
(* The actions                                                             *)

\* The names by id are those of the schema (telemetry_proto.go:120-124).
LEMMA NamesIs ==
  ASSUME NEW S, S \subseteq Meta, NEW f \in IdToMeta(S)
  PROVE  /\ DOMAIN f \subseteq 0 .. Half - 1
         /\ \A id \in DOMAIN f : f[id] \in Names /\ [id |-> id, name |-> f[id]] \in S
<1>1. \A id \in DOMAIN f : [id |-> id, name |-> f[id]] \in S
  BY DEF IdToMeta
<1>2. \A id \in DOMAIN f : [id |-> id, name |-> f[id]] \in Meta
  BY <1>1
<1>3. \A id \in DOMAIN f : id \in 0 .. Half - 1 /\ f[id] \in Names
  BY <1>2 DEF Meta
<1> QED BY <1>1, <1>3

\* It holds at first.
LEMMA InvInitially == Init => IInv
<1> SUFFICES ASSUME Init PROVE IInv
  OBVIOUS
<1> USE DEF Init
<1>1. TypeOK
  <2>1. \A S : <<>> \in Seq(S)
    OBVIOUS
  <2>2. Len(<<>>) = 0 /\ DOMAIN <<>> = {}
    OBVIOUS
  <2>3. 0 < Word \div 2
    BY HalfWord
  <2> QED BY <2>1, <2>2, <2>3 DEF TypeOK
<1>2. SchemasAccepted /\ BodyRead /\ NamesRead /\ PanicDecoded /\ NothingYet /\ AllIsTodo
  BY DEF SchemasAccepted, BodyRead, NamesRead, PanicDecoded, NothingYet, AllIsTodo, Decoded
<1>3. DocumentsRight /\ Progress
  BY DEF DocumentsRight, Progress
<1> QED BY <1>1, <1>2, <1>3 DEF IInv

\* Whatever else is not touched by a step stays as it was.
LEMMA RequestSame ==
  ASSUME UNCHANGED request
  PROVE  /\ BodyRead => BodyRead'
         /\ NamesRead => NamesRead'
         /\ PanicDecoded => PanicDecoded'
         /\ NothingYet => NothingYet'
         /\ AllIsTodo => AllIsTodo'
         /\ DocumentsRight => DocumentsRight'
         /\ Progress => Progress'
<1>1. /\ pc' = pc /\ names' = names /\ todo' = todo /\ stamp' = stamp /\ saved' = saved
      /\ used' = used /\ body' = body /\ source' = source /\ failures' = failures
  BY DEF request
<1>2. /\ BodyRead => BodyRead'
      /\ NamesRead => NamesRead'
      /\ PanicDecoded => PanicDecoded'
      /\ NothingYet => NothingYet'
      /\ AllIsTodo => AllIsTodo'
  BY <1>1 DEF BodyRead, NamesRead, PanicDecoded, NothingYet, AllIsTodo
<1>3. DocumentsRight => DocumentsRight'
  BY <1>1 DEF DocumentsRight, DocumentRight
<1>4. \A batch, k : DealtWith(batch, k)' <=> DealtWith(batch, k)
  BY <1>1, KeptSame DEF DealtWith
<1>5. Progress => Progress'
  BY <1>1, <1>4, KeptSame DEF Progress
<1> QED BY <1>2, <1>3, <1>5

\* An upload replaces the stored schema and leaves the request alone
\* (schemas.go:49-83).
LEMMA UploadInv ==
  ASSUME IInv, NEW u \in Uploads, Upload(u)
  PROVE  IInv'
<1>1. UNCHANGED request /\ schema' = u /\ Accepted(u)
  BY DEF Upload
<1>2. TypeOK'
  <2>1. u \subseteq Meta
    BY IngestAssumption
  <2> QED BY <1>1, <2>1 DEF TypeOK, request, IInv
<1>3. SchemasAccepted'
  <2>1. used' = used
    BY <1>1 DEF request
  <2> QED BY <1>1, <2>1 DEF SchemasAccepted, IInv
<1> QED BY <1>1, <1>2, <1>3, RequestSame DEF IInv

\* A request takes its schema.
LEMMA ReceiveInv ==
  ASSUME IInv, Receive
  PROVE  IInv'
<1> USE DEF Receive, IInv
<1>1. TypeOK'
  BY DEF TypeOK
<1>2. SchemasAccepted' /\ BodyRead' /\ NamesRead' /\ PanicDecoded' /\ AllIsTodo'
  BY DEF SchemasAccepted, BodyRead, NamesRead, PanicDecoded, AllIsTodo, Decoded
<1>3. NothingYet' /\ DocumentsRight' /\ Progress'
  BY DEF NothingYet, DocumentsRight, Progress
<1> QED BY <1>1, <1>2, <1>3

\* What is read has a length, and what was sent is what is read.
LEMMA ReadBodyInv ==
  ASSUME IInv, NEW data, NEW batches, ReadBody(data, batches),
         data \in Seq(Byte), Len(data) < Word \div 2, batches \subseteq Batches,
         \A batch \in batches : data = Encode(batch)
  PROVE  IInv'
<1> DEFINE decoded == decodeMeasurementBatch(data)
<1>1. /\ pc = "body" /\ body' = data /\ source' = batches
      /\ schema' = schema /\ stamp' = stamp /\ saved' = saved /\ used' = used
      /\ failures' = failures
      /\ IF decoded.status = "ok"
         THEN pc' = "stamp" /\ todo' = decoded.measurements /\ names' \in IdToMeta(used)
         ELSE pc' = decoded.status /\ todo' = todo /\ names' = names
  BY DEF ReadBody
<1>2. decoded.status \in Status /\ decoded.measurements \in Seq(Measurement)
  <2>1. Len(data) <= MaxInt
    BY HalfWord
  <2> QED BY <2>1, DecodedType
<1>3. \A batch \in batches : decoded = [status |-> "ok", measurements |-> batch]
  BY BatchIs
<1> HIDE DEF decoded
<1>4. TypeOK
  BY DEF IInv
<1>5. TypeOK'
  <2>1. /\ schema' \subseteq Meta /\ used' \subseteq Meta
        /\ stamp' \in Seq(Time) /\ Len(stamp') <= 1
        /\ saved' \in Seq(Document) /\ failures' \in Nat
        /\ body' \in Seq(Byte) /\ Len(body') < Word \div 2
        /\ source' \subseteq Batches
    BY <1>1, <1>4 DEF TypeOK
  <2>2. /\ pc' \in {"idle", "body", "stamp", "save", "ok", "error", "panic"}
        /\ todo' \in Seq(Measurement)
    BY <1>1, <1>2, <1>4 DEF TypeOK, Status
  <2>3. /\ DOMAIN names' \subseteq 0 .. Half - 1
        /\ \A id \in DOMAIN names' : names'[id] \in Names
    <3>1. CASE names' \in IdToMeta(used)
      BY <3>1, <1>4, NamesIs DEF TypeOK
    <3>2. CASE names' = names
      BY <3>2, <1>4 DEF TypeOK
    <3> QED BY <1>1, <3>1, <3>2
  <2> QED BY <2>1, <2>2, <2>3 DEF TypeOK
<1>6. SchemasAccepted'
  BY <1>1 DEF SchemasAccepted, IInv
<1>7. BodyRead'
  BY <1>1 DEF BodyRead
<1>8. NamesRead'
  BY <1>1, <1>2 DEF NamesRead, Decoded, Status
<1>9. PanicDecoded'
  BY <1>1 DEF PanicDecoded, decoded
<1>10. NothingYet'
  BY <1>1 DEF NothingYet, IInv
<1>11. AllIsTodo'
  BY <1>1, <1>2, <1>3 DEF AllIsTodo, Status
<1>12. DocumentsRight' /\ Progress'
  BY <1>1, <1>2 DEF DocumentsRight, Progress, Status
<1> QED BY <1>5, <1>6, <1>7, <1>8, <1>9, <1>10, <1>11, <1>12 DEF IInv

\* Dropping nothing leaves everything.
LEMMA DropNothing ==
  ASSUME NEW R, NEW s \in Seq(R)
  PROVE  Drop(s, 0) = s
<1>1. 0 \in 0 .. Len(s)
  OBVIOUS
<1> DEFINE d == Drop(s, 0)
<1>2. d \in Seq(R) /\ Len(d) = Len(s) /\ \A i \in 1 .. Len(s) : d[i] = s[i]
  <2>1. d \in Seq(R) /\ Len(d) = Len(s) - 0 /\ \A i \in 1 .. Len(s) - 0 : d[i] = s[0 + i]
    BY <1>1, DropIs
  <2> QED BY <2>1
<1> HIDE DEF d
<1>3. d = s
  BY <1>2, SeqEqual
<1> QED BY <1>3 DEF d

\* Nothing is read of a body that breaks off.
LEMMA BodyFailedInv ==
  ASSUME IInv, BodyFailed
  PROVE  IInv'
<1> USE DEF BodyFailed, IInv
<1>1. TypeOK'
  BY DEF TypeOK
<1>2. SchemasAccepted' /\ BodyRead' /\ NamesRead' /\ PanicDecoded' /\ AllIsTodo'
  BY DEF SchemasAccepted, BodyRead, NamesRead, PanicDecoded, AllIsTodo, Decoded
<1>3. NothingYet' /\ DocumentsRight' /\ Progress'
  BY DEF NothingYet, DocumentsRight, Progress
<1> QED BY <1>1, <1>2, <1>3

\* The timestamp is found, before anything is saved.
LEMMA FindStampInv ==
  ASSUME IInv, FindStamp
  PROVE  IInv'
<1> DEFINE stamps == {i \in DOMAIN todo : IsStamp(todo[i])}
<1>1. /\ pc = "stamp" /\ pc' = "save"
      /\ stamp' = IF stamps = {} THEN <<>> ELSE StampOf(todo[Min(stamps)].value)
      /\ UNCHANGED <<schema, names, todo, saved, used, body, source, failures>>
  BY DEF FindStamp
<1>2. todo \in Seq(Measurement) /\ TypeOK
  BY DEF TypeOK, IInv
<1>3. TypeOK'
  <2>1. stamp' \in Seq(Time) /\ Len(stamp') <= 1
    <3>1. CASE stamps = {}
      <4>1. <<>> \in Seq(Time) /\ Len(<<>>) <= 1
        OBVIOUS
      <4>2. stamp' = <<>>
        BY <1>1, <3>1
      <4> QED BY <4>1, <4>2, Zenon
    <3>2. CASE stamps # {}
      <4> DEFINE m == Min(stamps)
      <4>1. stamps \subseteq Nat /\ stamps \subseteq DOMAIN todo
        BY <1>2
      <4>2. m \in DOMAIN todo
        <5> HIDE DEF stamps
        <5> QED BY <3>2, <4>1, MinIs
      <4>3. todo[m] \in Measurement
        <5> HIDE DEF m
        <5> QED BY <1>2, <4>2
      <4>4. todo[m].value \in Value
        <5> HIDE DEF m
        <5> QED BY <4>3 DEF Measurement
      <4>5. stamp' = StampOf(todo[m].value)
        BY <1>1, <3>2
      <4> HIDE DEF m
      <4> QED BY <4>4, <4>5, StampType
    <3> QED BY <3>1, <3>2
  <2> QED BY <1>1, <1>2, <2>1 DEF TypeOK
<1>4. SchemasAccepted' /\ BodyRead' /\ NamesRead' /\ PanicDecoded' /\ AllIsTodo' /\ NothingYet'
  BY <1>1 DEF SchemasAccepted, BodyRead, NamesRead, PanicDecoded, AllIsTodo, NothingYet,
              Decoded, IInv
<1>5. saved' = <<>> /\ failures' = 0 /\ saved = <<>> /\ failures = 0
  BY <1>1 DEF NothingYet, IInv
<1>6. DocumentsRight'
  <2>1. DOMAIN saved' = {}
    BY <1>5
  <2> QED BY <2>1 DEF DocumentsRight
<1>7. ASSUME NEW batch \in source
      PROVE  stamp' = FirstStamp(batch)' /\ DealtWith(batch, 0)' /\ 0 \in 0 .. Len(batch)
  <2>1. todo = batch
    BY <1>1 DEF AllIsTodo, IInv
  <2>2. stamp' = FirstStamp(batch)
    BY <1>1, <2>1 DEF FirstStamp
  <2>3. stamp' = FirstStamp(batch)'
    BY <1>1, <2>2, KeptSame
  <2>4. batch \in Seq(Measurement)
    BY <1>2, <2>1
  <2>5. Drop(batch, 0) = batch
    BY <2>4, DropNothing
  <2>6. Selected(Take(batch, 0), Kept(batch)') = <<>>
    BY <2>4, TakeAll, SelectedNone
  <2>7. /\ todo' = Drop(batch, 0)
        /\ Len(saved') + failures' = Len(<<>>)
        /\ DOMAIN saved' = {}
    BY <1>1, <1>5, <2>1, <2>5
  <2>8. DealtWith(batch, 0)'
    BY <2>6, <2>7 DEF DealtWith
  <2> QED BY <2>3, <2>4, <2>8
<1>8. Progress'
  <2>1. source' = source /\ pc' = "save"
    BY <1>1
  <2> QED BY <1>7, <2>1 DEF Progress
<1> QED BY <1>3, <1>4, <1>6, <1>8 DEF IInv

\* Of a batch that is being dealt with, the current measurement is a part.
LEMMA CurrentOf ==
  ASSUME NEW batch \in Seq(Measurement), NEW k \in 0 .. Len(batch),
         DealtWith(batch, k), todo # <<>>
  PROVE  \E j \in DOMAIN batch : batch[j] = Current
<1>1. todo = Drop(batch, k)
  BY DEF DealtWith
<1>2. k \in 0 .. Len(batch) - 1 /\ Current = batch[k + 1]
  BY <1>1, DropNext DEF Current
<1> DEFINE j == k + 1
<1>3. j \in DOMAIN batch
  BY <1>2
<1> QED BY <1>2, <1>3

\* What a step to the next measurement has in common, whatever becomes of
\* that measurement.
LEMMA AdvanceInv ==
  ASSUME IInv, pc = "save", Advances, UNCHANGED <<schema, pc, stamp, used, body, source>>,
         TypeOK', DocumentsRight'
  PROVE  IInv'
<1>1. /\ schema' = schema /\ pc' = pc /\ stamp' = stamp /\ used' = used
      /\ body' = body /\ source' = source /\ names' = names
  BY DEF Advances
<1>2. SchemasAccepted' /\ BodyRead' /\ NamesRead' /\ PanicDecoded' /\ NothingYet' /\ AllIsTodo'
  BY <1>1 DEF SchemasAccepted, BodyRead, NamesRead, PanicDecoded, NothingYet, AllIsTodo,
              Decoded, IInv
<1>3. Progress'
  <2>1. ASSUME NEW batch \in source
        PROVE  stamp' = FirstStamp(batch)' /\ \E k \in 0 .. Len(batch) : DealtWith(batch, k)'
    <3>1. TypeOK /\ Progress
      BY DEF IInv
    <3>2. batch \in Seq(Measurement)
      BY <3>1, BatchIs DEF TypeOK
    <3>3. stamp = FirstStamp(batch)
      BY <3>1 DEF Progress
    <3>4. PICK k \in 0 .. Len(batch) : DealtWith(batch, k)
      BY <3>1 DEF Progress
    <3>5. \E j \in 0 .. Len(batch) : DealtWith(batch, j)'
      BY <3>1, <3>2, <3>4, DealtNext
    <3> QED BY <1>1, <3>3, <3>5, KeptSame
  <2> QED BY <1>1, <2>1 DEF Progress
<1> QED BY <1>2, <1>3 DEF IInv

\* A measurement is passed over.
LEMMA SkipInv ==
  ASSUME IInv, Skip
  PROVE  IInv'
<1>1. /\ pc = "save" /\ todo # <<>> /\ Skipped(Current) /\ todo' = Tail(todo)
      /\ UNCHANGED <<schema, pc, names, stamp, saved, used, body, source, failures>>
  BY DEF Skip
<1>2. TypeOK'
  <2>1. TypeOK /\ Tail(todo) \in Seq(Measurement)
    BY <1>1, CurrentType DEF IInv
  <2> QED BY <1>1, <2>1 DEF TypeOK
<1>3. DocumentsRight'
  BY <1>1 DEF DocumentsRight, DocumentRight, IInv
<1>4. Advances
  BY <1>1 DEF Advances
<1> QED BY <1>1, <1>2, <1>3, <1>4, AdvanceInv

\* A save fails.
LEMMA SaveFailedInv ==
  ASSUME IInv, SaveFailed
  PROVE  IInv'
<1>1. /\ pc = "save" /\ todo # <<>> /\ ~ Skipped(Current) /\ todo' = Tail(todo)
      /\ failures' = failures + 1
      /\ UNCHANGED <<schema, pc, names, stamp, saved, used, body, source>>
  BY DEF SaveFailed
<1>2. TypeOK'
  <2>1. TypeOK /\ Tail(todo) \in Seq(Measurement)
    BY <1>1, CurrentType DEF IInv
  <2>2. failures' \in Nat
    BY <1>1, <2>1 DEF TypeOK
  <2> QED BY <1>1, <2>1, <2>2 DEF TypeOK
<1>3. DocumentsRight'
  BY <1>1 DEF DocumentsRight, DocumentRight, IInv
<1>4. Advances
  BY <1>1 DEF Advances
<1> QED BY <1>1, <1>2, <1>3, <1>4, AdvanceInv

\* A document is stored: it holds the current measurement.
LEMMA SaveInv ==
  ASSUME IInv, Save
  PROVE  IInv'
<1> DEFINE doc == [id |-> Current.id, name |-> names[Current.id],
                   value |-> toFloat64(Current.value), at |-> stamp]
<1>1. /\ pc = "save" /\ todo # <<>> /\ ~ Skipped(Current) /\ todo' = Tail(todo)
      /\ saved' = Append(saved, doc)
      /\ UNCHANGED <<schema, pc, names, stamp, used, body, source, failures>>
  BY DEF Save
<1>2. TypeOK /\ DocumentsRight /\ Progress
  BY DEF IInv
<1>3. /\ Current.id \in 0 .. Half - 1 /\ Current.value \in Value
      /\ Tail(todo) \in Seq(Measurement)
  BY <1>1, <1>2, CurrentType
<1>4. /\ Current.id \in DOMAIN names /\ names[Current.id] # Stamped
      /\ Current.value # Nil
  BY <1>1 DEF Skipped, IsStamp, Known
<1>5. doc \in Document
  <2>1. names[Current.id] \in Names /\ stamp \in Seq(Time)
    BY <1>2, <1>4 DEF TypeOK
  <2>2. toFloat64(Current.value) \in Stored
    BY <1>3, StoredType
  <2> QED BY <1>3, <2>1, <2>2 DEF Document
<1>6. /\ doc.id = Current.id /\ doc.name = names[doc.id] /\ doc.at = stamp
      /\ Holder(doc, Current)
  BY <1>4 DEF Holder
<1> HIDE DEF doc
<1>7. saved \in Seq(Document)
  BY <1>2 DEF TypeOK
<1>8. /\ saved' \in Seq(Document) /\ DOMAIN saved' = 1 .. Len(saved) + 1
      /\ saved'[Len(saved) + 1] = doc /\ Len(saved) \in Nat
      /\ \A i \in 1 .. Len(saved) : saved'[i] = saved[i] /\ i \in DOMAIN saved
  BY <1>1, <1>5, <1>7
<1>9. TypeOK'
  BY <1>1, <1>2, <1>3, <1>8 DEF TypeOK
<1>10. DocumentsRight'
  <2>1. DocumentRight(doc)
    <3>1. ASSUME NEW batch \in source PROVE \E j \in DOMAIN batch : Holder(doc, batch[j])
      <4>1. batch \in Seq(Measurement)
        BY <1>2, BatchIs DEF TypeOK
      <4>2. PICK k \in 0 .. Len(batch) : DealtWith(batch, k)
        BY <1>1, <1>2 DEF Progress
      <4>3. PICK j \in DOMAIN batch : batch[j] = Current
        BY <1>1, <4>1, <4>2, CurrentOf
      <4> QED BY <1>6, <4>3
    <3> QED BY <1>4, <1>6, <3>1 DEF DocumentRight
  <2>2. ASSUME NEW i \in DOMAIN saved' PROVE DocumentRight(saved'[i])
    <3>1. CASE i = Len(saved) + 1
      BY <1>8, <2>1, <3>1
    <3>2. CASE i # Len(saved) + 1
      <4>1. i \in 1 .. Len(saved)
        BY <1>8, <3>2
      <4>2. saved'[i] = saved[i] /\ i \in DOMAIN saved
        BY <1>8, <4>1
      <4> QED BY <1>1, <1>2, <4>2 DEF DocumentsRight
    <3> QED BY <3>1, <3>2
  <2>3. \A d : DocumentRight(d)' <=> DocumentRight(d)
    BY <1>1 DEF DocumentRight
  <2>4. \A i \in DOMAIN saved' : DocumentRight(saved[i])'
    <3> SUFFICES ASSUME NEW i \in DOMAIN saved' PROVE DocumentRight(saved[i])'
      OBVIOUS
    <3>1. DocumentRight(saved'[i])
      BY <2>2
    <3> QED BY <1>1, <3>1 DEF DocumentRight
  <2> QED BY <2>4 DEF DocumentsRight
<1>11. Advances
  BY <1>1, <1>5, <1>6 DEF Advances
<1> QED BY <1>1, <1>9, <1>10, <1>11, AdvanceInv

\* The request is answered.
LEMMA AnswerInv ==
  ASSUME IInv, Answer
  PROVE  IInv'
<1>1. /\ pc = "save" /\ pc' = "ok" /\ todo = <<>>
      /\ UNCHANGED <<schema, names, todo, stamp, saved, used, body, source, failures>>
  BY DEF Answer
<1>2. TypeOK'
  BY <1>1 DEF TypeOK, IInv
<1>3. SchemasAccepted' /\ BodyRead' /\ NamesRead' /\ PanicDecoded' /\ NothingYet' /\ AllIsTodo'
  BY <1>1 DEF SchemasAccepted, BodyRead, NamesRead, PanicDecoded, NothingYet, AllIsTodo,
              Decoded, IInv
<1>4. DocumentsRight'
  BY <1>1 DEF DocumentsRight, DocumentRight, IInv
<1>5. \A batch, k : DealtWith(batch, k)' <=> DealtWith(batch, k)
  BY <1>1, KeptSame DEF DealtWith
<1>6. Progress'
  BY <1>1, <1>5, KeptSame DEF Progress, IInv
<1> QED BY <1>2, <1>3, <1>4, <1>6 DEF IInv

\* The next request starts afresh.
LEMMA FinishInv ==
  ASSUME IInv, Finish
  PROVE  IInv'
<1>1. /\ pc' = "idle" /\ names' = <<>> /\ todo' = <<>> /\ stamp' = <<>> /\ saved' = <<>>
      /\ used' = {} /\ body' = <<>> /\ source' = {} /\ failures' = 0 /\ schema' = schema
  BY DEF Finish
<1>2. TypeOK'
  <2>1. \A S : <<>> \in Seq(S)
    OBVIOUS
  <2>2. Len(<<>>) = 0 /\ DOMAIN <<>> = {}
    OBVIOUS
  <2>3. 0 < Word \div 2
    BY HalfWord
  <2> QED BY <1>1, <2>1, <2>2, <2>3 DEF TypeOK, IInv
<1>3. SchemasAccepted' /\ BodyRead' /\ NamesRead' /\ PanicDecoded' /\ NothingYet' /\ AllIsTodo'
  BY <1>1 DEF SchemasAccepted, BodyRead, NamesRead, PanicDecoded, NothingYet, AllIsTodo,
              Decoded, IInv
<1>4. DocumentsRight' /\ Progress'
  BY <1>1 DEF DocumentsRight, Progress
<1> QED BY <1>2, <1>3, <1>4 DEF IInv

\* It is kept by every step.
LEMMA InvPreserved == IInv /\ [Next]_vars => IInv'
<1> SUFFICES ASSUME IInv, [Next]_vars PROVE IInv'
  OBVIOUS
<1>1. CASE \E u \in Uploads : Upload(u)
  BY <1>1, UploadInv
<1>2. CASE Receive
  BY <1>2, ReceiveInv
<1>3. CASE \E batch \in Batches : ReadBody(Encode(batch), {batch})
  <2>1. PICK batch \in Batches : ReadBody(Encode(batch), {batch})
    BY <1>3
  <2> DEFINE data == Encode(batch)
             batches == {batch}
  <2>2. /\ data \in Seq(Byte) /\ Len(data) < Word \div 2 /\ batches \subseteq Batches
        /\ \A b \in batches : data = Encode(b)
    BY BatchIs
  <2>3. ReadBody(data, batches)
    BY <2>1
  <2> HIDE DEF data, batches
  <2> QED BY <2>2, <2>3, ReadBodyInv
<1>4. CASE \E data \in Strings : ReadBody(data, {})
  <2>1. PICK data \in Strings : ReadBody(data, {})
    BY <1>4
  <2>2. data \in Seq(Byte) /\ Len(data) < Word \div 2
    BY BodyAssumption
  <2> QED BY <2>1, <2>2, ReadBodyInv
<1>5. CASE FindStamp
  BY <1>5, FindStampInv
<1>6. CASE Skip
  BY <1>6, SkipInv
<1>7. CASE Save
  BY <1>7, SaveInv
<1>8. CASE SaveFailed
  BY <1>8, SaveFailedInv
<1>9. CASE Answer
  BY <1>9, AnswerInv
<1>10. CASE Finish
  BY <1>10, FinishInv
<1>11. CASE UNCHANGED vars
  <2>1. UNCHANGED request /\ schema' = schema
    BY <1>11 DEF vars, request
  <2>2. TypeOK' /\ SchemasAccepted'
    BY <2>1 DEF TypeOK, SchemasAccepted, request, IInv
  <2> QED BY <2>1, <2>2, RequestSame DEF IInv
<1>12. CASE BodyFailed
  BY <1>12, BodyFailedInv
<1> QED BY <1>1, <1>2, <1>3, <1>4, <1>5, <1>6, <1>7, <1>8, <1>9, <1>10, <1>11, <1>12 DEF Next

\* What is known of a request holds at any time.
THEOREM IngestInvariant == Spec => []IInv
<1>1. Init => IInv
  BY InvInitially
<1>2. IInv /\ [Next]_vars => IInv'
  BY InvPreserved
<1> QED BY <1>1, <1>2, PTL DEF Spec

-----------------------------------------------------------------------------
(* What is promised                                                        *)

\* Whatever the bytes of a body are, what is decoded from them and stored is
\* within the widths of its type (decoder.go:151-220,
\* telemetry_proto.go:36-79 and 131-188).
THEOREM IngestTypes == Spec => []TypeOK
<1>1. IInv => TypeOK
  BY DEF IInv
<1> QED BY <1>1, IngestInvariant, PTL

\* A body that is cut between two fields is read as its two parts, and what
\* can be read of its front is read the same in the whole, for bodies of any
\* length and words of any width (decoder.go:46-98).
THEOREM DecodingComposes == Spec => []DecodeIsCompositional
<1>1. IInv => DecodeIsCompositional
  <2> SUFFICES ASSUME IInv, NEW cut \in 0 .. Len(body)
               PROVE  Continues(Decode(Take(body, cut)), Decode(Drop(body, cut)), Decode(body))
    BY DEF DecodeIsCompositional
  <2>1. body \in Seq(Byte) /\ Len(body) <= MaxInt
    BY BodyFits DEF IInv
  <2> QED BY <2>1, DecodeComposes DEF Continues
<1> QED BY <1>1, IngestInvariant, PTL

\* Every batch is read as it was sent, for every measurement, batch and width
\* of words (telemetry_proto.go:36-79, decoder.go:151-183 and 206-219).
THEOREM BatchesRead == Spec => []BatchesAreRead
<1>1. IInv => BatchesAreRead
  <2> SUFFICES ASSUME IInv, NEW batch \in source
               PROVE  decodeMeasurementBatch(body) = [status |-> "ok", measurements |-> batch]
    BY DEF BatchesAreRead
  <2>1. body = Encode(batch) /\ batch \in Batches
    BY DEF IInv, BodyRead, TypeOK
  <2> QED BY <2>1, BatchIs
<1> QED BY <1>1, IngestInvariant, PTL

\* Decoding fails at run time only on a length that does not fit an int
\* together with its position (decoder.go:80).
THEOREM PanicsOnHugeLengths == Spec => []PanicNeedsHugeLength
<1>1. IInv => PanicNeedsHugeLength
  <2> SUFFICES ASSUME IInv, pc = "panic"
               PROVE  \E pos \in 0 .. Len(body) :
                        decodeVarint(Drop(body, pos)).value + pos >= Word \div 2 - MaxVarint
    BY DEF PanicNeedsHugeLength
  <2>1. body \in Seq(Byte) /\ Len(body) <= MaxInt
    BY BodyFits DEF IInv
  <2>2. DecodeRepeated(body, 1).status = "panic"
    BY DEF IInv, PanicDecoded, decodeMeasurementBatch, Measured
  <2>3. HugeWithin(body)
    BY <2>1, <2>2, RepeatedPanics
  <2> QED BY <2>3 DEF HugeWithin, HugeAt, HugeLength
<1> QED BY <1>1, IngestInvariant, PTL

\* Measurements of one request with one id are stored under one name, even if
\* the schema repeats the id (telemetry_proto.go:121-124).
THEOREM IdsAreNamedOnce == Spec => []OneNamePerId
<1>1. IInv => OneNamePerId
  <2> SUFFICES ASSUME IInv, NEW i \in DOMAIN saved, NEW j \in DOMAIN saved,
                      saved[i].id = saved[j].id
               PROVE  saved[i].name = saved[j].name
    BY DEF OneNamePerId
  <2>1. pc \in {"save", "ok"}
    <3>1. saved # <<>>
      OBVIOUS
    <3> QED BY <3>1 DEF IInv, NothingYet
  <2>2. DocumentRight(saved[i]) /\ DocumentRight(saved[j])
    BY <2>1 DEF IInv, DocumentsRight
  <2> QED BY <2>2 DEF DocumentRight
<1> QED BY <1>1, IngestInvariant, PTL

\* What is stored was sent under its id, is a measurement of the schema that
\* the request has read, whatever was uploaded meanwhile, and is off by the
\* rounding of a float64 at most (telemetry_proto.go:120-124 and 156-188,
\* schemas.go:54).
THEOREM DocumentsAreOfTheSchema == Spec => []StoredUnderItsId
<1>1. IInv => StoredUnderItsId
  <2> SUFFICES ASSUME IInv, NEW i \in DOMAIN saved
               PROVE  /\ [id |-> saved[i].id, name |-> saved[i].name] \in used
                      /\ saved[i].name # Stamped
                      /\ saved[i].id # 0
                      /\ \A batch \in source : \E j \in DOMAIN batch :
                           /\ batch[j].id = saved[i].id
                           /\ Represents(saved[i].value, batch[j].value)
    BY DEF StoredUnderItsId
  <2> DEFINE doc == saved[i]
  <2>1. pc \in {"save", "ok"}
    <3>1. saved # <<>>
      OBVIOUS
    <3> QED BY <3>1 DEF IInv, NothingYet
  <2>2. DocumentRight(doc)
    BY <2>1 DEF IInv, DocumentsRight
  <2> HIDE DEF doc
  <2>3. used \subseteq Meta /\ names \in IdToMeta(used) /\ TypeOK
    BY <2>1 DEF IInv, TypeOK, NamesRead, Decoded
  <2>4. [id |-> doc.id, name |-> doc.name] \in used
    BY <2>2, <2>3, NamesIs DEF DocumentRight
  <2>5. doc.id # 0
    <3>1. Accepted(used)
      BY <2>4 DEF IInv, SchemasAccepted
    <3> QED BY <2>4, <3>1 DEF Accepted
  <2>6. ASSUME NEW batch \in source
        PROVE  \E j \in DOMAIN batch :
                 batch[j].id = doc.id /\ Represents(doc.value, batch[j].value)
    <3>1. PICK j \in DOMAIN batch : Holder(doc, batch[j])
      BY <2>2 DEF DocumentRight
    <3>2. batch[j].value \in Value
      <4>1. batch \in Seq(Measurement)
        BY <2>3, BatchIs DEF TypeOK
      <4>2. batch[j] \in Measurement
        BY <4>1
      <4> QED BY <4>2 DEF Measurement
    <3>3. Represents(doc.value, batch[j].value)
      BY <3>1, <3>2, StoredRepresents DEF Holder
    <3> QED BY <3>1, <3>3 DEF Holder
  <2> QED BY <2>2, <2>4, <2>5, <2>6 DEF DocumentRight, doc
<1> QED BY <1>1, IngestInvariant, PTL

-----------------------------------------------------------------------------
(* A batch that is served                                                  *)

Ids(S) == {meta.id : meta \in S}

Timed == {meta \in used : meta.name = Stamped}

\* Where a schema names each id once, names are those of the schema.
LEMMA NamesOfSchema ==
  ASSUME names \in IdToMeta(used), used \subseteq Meta, NoRepeatedId(used)
  PROVE  /\ \A m \in Measurement : IsStamp(m) <=> m.id \in Ids(Timed)
         /\ \A m \in Measurement :
              ~ Skipped(m) <=> m.id \in Ids(used \ Timed) /\ m.value # Nil
<1>1. DOMAIN names = Ids(used)
  BY DEF IdToMeta, Ids
<1>2. \A id \in DOMAIN names : [id |-> id, name |-> names[id]] \in used
  BY NamesIs
<1>3. ASSUME NEW meta \in used PROVE meta.id \in DOMAIN names /\ names[meta.id] = meta.name
  <2>1. meta.id \in DOMAIN names
    BY <1>1 DEF Ids
  <2>2. [id |-> meta.id, name |-> names[meta.id]] \in used
    BY <1>2, <2>1
  <2>3. [id |-> meta.id, name |-> names[meta.id]] = meta
    BY <2>2 DEF NoRepeatedId
  <2> QED BY <2>1, <2>3
<1>4. ASSUME NEW id PROVE (id \in DOMAIN names /\ names[id] = Stamped) <=> id \in Ids(Timed)
  <2>1. ASSUME id \in DOMAIN names, names[id] = Stamped PROVE id \in Ids(Timed)
    <3> DEFINE meta == [id |-> id, name |-> names[id]]
    <3>1. meta \in Timed /\ meta.id = id
      BY <1>2, <2>1 DEF Timed
    <3> QED BY <3>1 DEF Ids
  <2>2. ASSUME id \in Ids(Timed) PROVE id \in DOMAIN names /\ names[id] = Stamped
    <3>1. PICK meta \in Timed : meta.id = id
      BY <2>2 DEF Ids
    <3> QED BY <1>3, <3>1 DEF Timed
  <2> QED BY <2>1, <2>2
<1>5. ASSUME NEW id
      PROVE (id \in DOMAIN names /\ names[id] # Stamped) <=> id \in Ids(used \ Timed)
  <2>1. ASSUME id \in DOMAIN names, names[id] # Stamped PROVE id \in Ids(used \ Timed)
    <3> DEFINE meta == [id |-> id, name |-> names[id]]
    <3>1. meta \in used \ Timed /\ meta.id = id
      BY <1>2, <2>1 DEF Timed
    <3> QED BY <3>1 DEF Ids
  <2>2. ASSUME id \in Ids(used \ Timed) PROVE id \in DOMAIN names /\ names[id] # Stamped
    <3>1. PICK meta \in used \ Timed : meta.id = id
      BY <2>2 DEF Ids
    <3> QED BY <1>3, <3>1 DEF Timed
  <2> QED BY <2>1, <2>2
<1> QED BY <1>4, <1>5 DEF IsStamp, Known, Skipped

\* When a request is answered, every measurement that its schema knows is
\* stored or has failed, in the order in which it was sent and at the time of
\* the first timestamp that was sent (telemetry_proto.go:131-192).
THEOREM BatchesAreServed == Spec => []BatchIsServed
<1>1. IInv => BatchIsServed
  <2> SUFFICES ASSUME IInv, pc = "ok", NoRepeatedId(used), NEW batch \in source
               PROVE  LET ids(S) == {meta.id : meta \in S}
                          timed  == {meta \in used : meta.name = Stamped}
                          stamps == {i \in DOMAIN batch : batch[i].id \in ids(timed)}
                          wanted == Selected(batch, {i \in DOMAIN batch :
                                                       /\ batch[i].id \in ids(used \ timed)
                                                       /\ batch[i].value # Nil})
                      IN  /\ Len(saved) + failures = Len(wanted)
                          /\ failures = 0 => \A i \in DOMAIN saved :
                               Represents(saved[i].value, wanted[i].value)
                          /\ \A i \in DOMAIN saved :
                               saved[i].at = IF stamps = {} THEN <<>>
                                             ELSE TimeSent(batch[Min(stamps)].value)
    BY DEF BatchIsServed
  <2> DEFINE stamps == {i \in DOMAIN batch : batch[i].id \in Ids(Timed)}
             places == {i \in DOMAIN batch :
                          batch[i].id \in Ids(used \ Timed) /\ batch[i].value # Nil}
             wanted == Selected(batch, places)
             first == batch[Min(stamps)].value
  <2>1. SUFFICES /\ Len(saved) + failures = Len(wanted)
                 /\ failures = 0 => \A i \in DOMAIN saved :
                      Represents(saved[i].value, wanted[i].value)
                 /\ \A i \in DOMAIN saved :
                      saved[i].at = IF stamps = {} THEN <<>> ELSE TimeSent(first)
    BY DEF Ids, Timed
  <2>2. TypeOK /\ NamesRead /\ DocumentsRight /\ Progress
    BY DEF IInv
  <2>3. batch \in Seq(Measurement) /\ \A i \in DOMAIN batch : batch[i] \in Measurement
    <3>1. batch \in Seq(Measurement)
      BY <2>2, BatchIs DEF TypeOK
    <3> QED BY <3>1
  <2>4. /\ \A m \in Measurement : IsStamp(m) <=> m.id \in Ids(Timed)
        /\ \A m \in Measurement :
             ~ Skipped(m) <=> m.id \in Ids(used \ Timed) /\ m.value # Nil
    BY <2>2, NamesOfSchema DEF TypeOK, NamesRead, Decoded
  <2>5. Kept(batch) = places
    BY <2>3, <2>4 DEF Kept
  <2>6. {i \in DOMAIN batch : IsStamp(batch[i])} = stamps
    BY <2>3, <2>4
  <2>7. stamp = IF stamps = {} THEN <<>> ELSE StampOf(first)
    BY <2>2, <2>6 DEF Progress, FirstStamp
  <2>8. todo = <<>> /\ \E k \in 0 .. Len(batch) : DealtWith(batch, k)
    BY <2>2 DEF Progress
  <2>9. PICK k \in 0 .. Len(batch) : DealtWith(batch, k)
    BY <2>8
  <2>10. Take(batch, k) = batch
    <3>1. Drop(batch, k) = <<>>
      BY <2>8, <2>9 DEF DealtWith
    <3>2. Len(Drop(batch, k)) = Len(batch) - k /\ Len(batch) \in Nat
      BY <2>3, DropIs
    <3>3. k = Len(batch)
      <4>1. Len(<<>>) = 0
        OBVIOUS
      <4> QED BY <3>1, <3>2, <4>1
    <3> QED BY <2>3, <3>3, TakeAll
  <2>11. /\ Len(saved) + failures = Len(wanted)
         /\ failures = 0 => \A i \in DOMAIN saved : Holder(saved[i], wanted[i])
    BY <2>5, <2>9, <2>10 DEF DealtWith
  <2>12. wanted \in Seq(Measurement)
    <3> HIDE DEF places
    <3>1. Len(batch) \in 0 .. Len(batch) /\ Take(batch, Len(batch)) = batch
      BY <2>3, TakeAll
    <3>2. Selected(Take(batch, Len(batch)), places) \in Seq(Measurement)
      BY <2>3, <3>1, KeptType
    <3> QED BY <3>1, <3>2
  <2>13. ASSUME failures = 0, NEW i \in DOMAIN saved
         PROVE  Represents(saved[i].value, wanted[i].value)
    <3> HIDE DEF wanted
    <3>1. saved \in Seq(Document) /\ Len(saved) \in Nat
      BY <2>2 DEF TypeOK
    <3>2. i \in 1 .. Len(wanted)
      BY <2>11, <2>13, <3>1
    <3>3. wanted[i] \in Measurement
      BY <2>12, <3>2
    <3>4. wanted[i].value \in Value
      BY <3>3 DEF Measurement
    <3>5. saved[i].value = toFloat64(wanted[i].value)
      BY <2>11, <2>13 DEF Holder
    <3> QED BY <3>4, <3>5, StoredRepresents
  <2>14. ASSUME NEW i \in DOMAIN saved
         PROVE  saved[i].at = IF stamps = {} THEN <<>> ELSE TimeSent(first)
    <3>1. saved[i].at = stamp
      BY <2>2 DEF DocumentsRight, DocumentRight
    <3>2. CASE stamps = {}
      BY <2>7, <3>1, <3>2
    <3>3. CASE stamps # {}
      <4> DEFINE m == Min(stamps)
      <4>1. stamps \subseteq Nat /\ stamps \subseteq DOMAIN batch
        BY <2>3
      <4>2. m \in DOMAIN batch
        <5> HIDE DEF stamps
        <5> QED BY <3>3, <4>1, MinIs
      <4>3. batch[m] \in Measurement
        <5> HIDE DEF m
        <5> QED BY <2>3, <4>2
      <4>4. first \in Value
        <5>1. batch[m].value \in Value
          <6> HIDE DEF m
          <6> QED BY <4>3 DEF Measurement
        <5> QED BY <5>1
      <4> HIDE DEF first, stamps
      <4>5. stamp = StampOf(first)
        BY <2>7, <3>3
      <4> QED BY <3>1, <3>3, <4>4, <4>5, StampIs
    <3> QED BY <3>2, <3>3
  <2> HIDE DEF wanted, stamps, first
  <2> QED BY <2>11, <2>13, <2>14
<1> QED BY <1>1, IngestInvariant, PTL

=============================================================================
