-------------------------- MODULE MqttFramingProofs --------------------------
(***************************************************************************)
(* Proofs about MqttFraming, for every base, packets of any length, and    *)
(* every way of cutting the stream into segments.                          *)
(***************************************************************************)
EXTENDS MqttFraming, SequenceTheorems, WellFoundedInduction, TLAPS

(* Induction: a set of numbers that is not empty has a least one.          *)
LEMMA LeastNumber ==
  ASSUME NEW T, T \subseteq Nat, T # {}
  PROVE  \E x \in T : \A y \in T : x <= y
<1> DEFINE R == OpToRel(<, Nat)
<1>1. \A x, y \in Nat : x < y => <<x, y>> \in R
  BY DEF OpToRel
<1>2. IsWellFoundedOn(R, Nat)
  BY NatLessThanWellFounded
<1> HIDE DEF R
<1>3. PICK x \in T : \A y \in T : ~ (<<y, x>> \in R)
  BY <1>2, WFMin
<1>4. ASSUME NEW y \in T PROVE x <= y
  <2>1. x \in Nat /\ y \in Nat /\ ~ (y < x)
    BY <1>1, <1>3
  <2> QED
    BY <2>1
<1> QED
  BY <1>4

LEMMA Division ==
  ASSUME NEW n \in Nat
  PROVE  /\ n \div Base \in Nat
         /\ n % Base \in 0 .. Base - 1
         /\ n = Base * (n \div Base) + (n % Base)
         /\ n \div Base > 0 => n \div Base < n
<1> DEFINE q == n \div Base
           r == n % Base
<1>1. n = Base * q + r /\ q \in Int /\ r \in 0 .. Base - 1 /\ Base \in Nat /\ Base > 1
  BY BytesAssumption
<1> HIDE DEF q, r
<1>2. q >= 0
  <2>1. ASSUME q <= -1 PROVE FALSE
    <3>1. Base * q <= Base * (-1)
      BY <1>1, <2>1
    <3> QED
      BY <1>1, <3>1
  <2> QED
    BY <1>1, <2>1
<1>3. q > 0 => q < n
  <2>1. ASSUME q > 0 PROVE Base * q >= 2 * q
    BY <1>1, <2>1
  <2> QED
    BY <1>1, <2>1
<1>4. q \in Nat
  BY <1>1, <1>2
<1> QED
  BY <1>1, <1>3, <1>4 DEF q, r

-----------------------------------------------------------------------------
(* The recursive function Encode: its equation has a solution, and so does *)
(* what it says.                                                           *)

\* The right-hand side of its equation, rest being the value for n \div Base.
Turn(n, rest) ==
  IF n \div Base > 0 THEN <<LengthByte(n % Base, n \div Base)>> \o rest
  ELSE <<LengthByte(n % Base, n \div Base)>>

LEMMA ByteWritten ==
  ASSUME NEW n \in Nat
  PROVE  LET b == LengthByte(n % Base, n \div Base)
         IN  b \in Byte /\ Digit(b) = n % Base /\ (More(b) <=> n \div Base > 0)
<1> DEFINE q == n \div Base
           r == n % Base
<1>1. q \in Nat /\ r \in 0 .. Base - 1 /\ Base \in Nat /\ Base > 1
  BY Division, BytesAssumption
<1> HIDE DEF q, r
<1>2. r % Base = r /\ (r + Base) % Base = r
  BY <1>1
<1> SUFFICES LET b == LengthByte(r, q)
             IN  b \in Byte /\ Digit(b) = r /\ (More(b) <=> q > 0)
  BY DEF q, r
<1>3. CASE q > 0
  BY <1>1, <1>2, <1>3 DEF LengthByte, Byte, Digit, More
<1>4. CASE ~ (q > 0)
  BY <1>1, <1>2, <1>4 DEF LengthByte, Byte, Digit, More
<1> QED
  BY <1>3, <1>4

LEMMA TurnType ==
  ASSUME NEW n \in Nat, NEW rest, n \div Base > 0 => rest \in Seq(Byte)
  PROVE  Turn(n, rest) \in Seq(Byte)
<1>1. LengthByte(n % Base, n \div Base) \in Byte
  BY ByteWritten
<1> QED
  BY <1>1 DEF Turn

\* A solution for the numbers up to m.
Solves(g, m) == g \in [0 .. m -> Seq(Byte)] /\ \A n \in 0 .. m : g[n] = Turn(n, g[n \div Base])

LEMMA SolvesOnce ==
  ASSUME NEW l \in Nat, NEW m \in Nat, NEW g, NEW h, Solves(g, l), Solves(h, m),
         NEW n \in Nat, n <= l, n <= m
  PROVE  g[n] = h[n]
<1> DEFINE T == {k \in Nat : k <= l /\ k <= m /\ g[k] # h[k]}
<1>1. ASSUME T # {} PROVE FALSE
  <2>1. T \subseteq Nat
    OBVIOUS
  <2> HIDE DEF T
  <2>2. PICK k \in T : \A j \in T : k <= j
    BY <1>1, <2>1, LeastNumber
  <2>3. k \in Nat /\ k \in 0 .. l /\ k \in 0 .. m /\ g[k] # h[k]
    BY <2>2 DEF T
  <2>4. g[k] = Turn(k, g[k \div Base]) /\ h[k] = Turn(k, h[k \div Base])
    BY <2>3 DEF Solves
  <2>5. CASE k \div Base > 0
    <3>1. k \div Base \in Nat /\ k \div Base < k
      BY <2>3, <2>5, Division
    <3>2. k \div Base \notin T
      BY <2>2, <2>3, <3>1
    <3>3. g[k \div Base] = h[k \div Base]
      BY <2>3, <3>1, <3>2 DEF T
    <3> QED
      BY <2>3, <2>4, <3>3
  <2>6. CASE ~ (k \div Base > 0)
    BY <2>3, <2>4, <2>6 DEF Turn
  <2> QED
    BY <2>5, <2>6
<1> QED
  BY <1>1

LEMMA Solvable == \A m \in Nat : \E g : Solves(g, m)
<1> DEFINE T == {m \in Nat : ~ \E g : Solves(g, m)}
<1>1. ASSUME T # {} PROVE FALSE
  <2>1. T \subseteq Nat
    OBVIOUS
  <2> HIDE DEF T
  <2>2. PICK m \in T : \A j \in T : m <= j
    BY <1>1, <2>1, LeastNumber
  <2>3. m \in Nat /\ ~ \E g : Solves(g, m)
    BY <2>2 DEF T
  <2>4. CASE m = 0
    <3> DEFINE g == [n \in 0 .. 0 |-> Turn(0, <<>>)]
    <3>1. 0 \div Base = 0
      BY BytesAssumption
    <3>2. Turn(0, <<>>) \in Seq(Byte)
      <4>1. <<>> \in Seq(Byte)
        OBVIOUS
      <4> QED
        BY <4>1, TurnType
    <3>3. g \in [0 .. 0 -> Seq(Byte)] /\ g[0] = Turn(0, <<>>)
      BY <3>2
    <3>4. Turn(0, <<>>) = Turn(0, g[0 \div Base])
      BY <3>1 DEF Turn
    <3> HIDE DEF g
    <3>5. \A n \in 0 .. 0 : n = 0
      OBVIOUS
    <3>6. Solves(g, 0)
      BY <3>3, <3>4, <3>5 DEF Solves
    <3> QED
      BY <2>3, <2>4, <3>6
  <2>5. CASE m # 0
    <3>1. m - 1 \in Nat /\ m - 1 \notin T
      BY <2>2, <2>3, <2>5
    <3>2. PICK g : Solves(g, m - 1)
      BY <3>1 DEF T
    <3> DEFINE h == [n \in 0 .. m |-> IF n = m THEN Turn(m, g[m \div Base]) ELSE g[n]]
    <3>3. m \div Base \in Nat /\ (m \div Base > 0 => m \div Base < m)
      BY <2>3, Division
    <3>4. \A n \in 0 .. m - 1 : h[n] = g[n] /\ g[n] \in Seq(Byte) /\ g[n] = Turn(n, g[n \div Base])
      BY <2>3, <3>2 DEF Solves
    <3>5. Turn(m, g[m \div Base]) \in Seq(Byte)
      <4>1. m \div Base > 0 => m \div Base \in 0 .. m - 1
        BY <2>3, <3>3
      <4>2. m \div Base > 0 => g[m \div Base] \in Seq(Byte)
        BY <3>4, <4>1
      <4> QED
        BY <2>3, <4>2, TurnType
    <3>6. h[m] = Turn(m, g[m \div Base])
      BY <2>3
    <3>7. h \in [0 .. m -> Seq(Byte)]
      <4>1. ASSUME NEW n \in 0 .. m
            PROVE  (IF n = m THEN Turn(m, g[m \div Base]) ELSE g[n]) \in Seq(Byte)
        <5>1. n # m => n \in 0 .. m - 1
          BY <2>3
        <5>2. n # m => g[n] \in Seq(Byte)
          BY <3>2, <5>1 DEF Solves
        <5> QED
          BY <3>5, <5>2
      <4> QED
        BY <4>1
    <3> HIDE DEF h
    <3>8. ASSUME NEW n \in 0 .. m PROVE h[n] = Turn(n, h[n \div Base])
      <4>1. n \in Nat /\ n \div Base \in Nat /\ (n \div Base > 0 => n \div Base < n)
        BY Division
      <4>2. h[n] = Turn(n, g[n \div Base])
        BY <2>3, <3>4, <3>6
      <4>3. CASE n \div Base > 0
        <5>1. n \div Base \in 0 .. m - 1
          BY <2>3, <4>1, <4>3
        <5> QED
          BY <3>4, <4>2, <5>1
      <4>4. CASE ~ (n \div Base > 0)
        BY <4>2, <4>4 DEF Turn
      <4> QED
        BY <4>3, <4>4
    <3> QED
      BY <2>3, <3>7, <3>8 DEF Solves
  <2> QED
    BY <2>4, <2>5
<1> QED
  BY <1>1

LEMMA EncodeIs ==
  /\ Encode \in [Nat -> Seq(Byte)]
  /\ \A n \in Nat : Encode[n] = Turn(n, Encode[n \div Base])
<1>1. Encode = CHOOSE f : f = [n \in Nat |-> Turn(n, f[n \div Base])]
  BY DEF Encode, Turn
<1> DEFINE G(m) == CHOOSE g : Solves(g, m)
           F == [n \in Nat |-> G(n)[n]]
<1>2. \A m \in Nat : Solves(G(m), m)
  BY Solvable
<1> HIDE DEF G
<1>3. \A n \in Nat : F[n] = G(n)[n]
  OBVIOUS
<1>4. F \in [Nat -> Seq(Byte)]
  BY <1>2 DEF Solves
<1> HIDE DEF F
<1>5. ASSUME NEW n \in Nat PROVE F[n] = Turn(n, F[n \div Base])
  <2>1. G(n)[n] = Turn(n, G(n)[n \div Base])
    BY <1>2 DEF Solves
  <2>2. n \div Base \in Nat /\ (n \div Base > 0 => n \div Base < n)
    BY Division
  <2>3. CASE n \div Base > 0
    <3>1. G(n)[n \div Base] = G(n \div Base)[n \div Base]
      BY <1>2, <2>2, <2>3, SolvesOnce
    <3> QED
      BY <1>3, <2>1, <2>2, <3>1
  <2>4. CASE ~ (n \div Base > 0)
    BY <1>3, <2>1, <2>4 DEF Turn
  <2> QED
    BY <2>3, <2>4
<1>6. F = [n \in Nat |-> Turn(n, F[n \div Base])]
  BY <1>4, <1>5
<1>7. Encode = [n \in Nat |-> Turn(n, Encode[n \div Base])]
  BY <1>1, <1>6
<1> DEFINE T == {n \in Nat : Encode[n] \notin Seq(Byte)}
<1>8. \A n \in Nat : Encode[n] = Turn(n, Encode[n \div Base])
  BY <1>7
<1>9. ASSUME T # {} PROVE FALSE
  <2>1. T \subseteq Nat
    OBVIOUS
  <2> HIDE DEF T
  <2>2. PICK n \in T : \A j \in T : n <= j
    BY <1>9, <2>1, LeastNumber
  <2>3. n \in Nat /\ Encode[n] \notin Seq(Byte)
    BY <2>2 DEF T
  <2>4. n \div Base \in Nat /\ (n \div Base > 0 => n \div Base < n)
    BY <2>3, Division
  <2>5. n \div Base > 0 => n \div Base \notin T
    BY <2>2, <2>3, <2>4
  <2>6. n \div Base > 0 => Encode[n \div Base] \in Seq(Byte)
    BY <2>4, <2>5 DEF T
  <2> QED
    BY <1>8, <2>3, <2>6, TurnType
<1>10. \A n \in Nat : Encode[n] \in Seq(Byte)
  BY <1>9
<1>11. Encode \in [Nat -> Seq(Byte)]
  BY <1>7, <1>10
<1> QED
  BY <1>8, <1>11

-----------------------------------------------------------------------------
(* What the length field says.                                             *)

\* e is the field for n: q has the quotients, each with the digit the byte before
\* carries; a top bit stands exactly where something is left.
IsCode(n, e, q) ==
  /\ e \in Seq(Byte) /\ Len(e) >= 1
  /\ q \in [0 .. Len(e) -> Nat]
  /\ q[0] = n
  /\ \A i \in 1 .. Len(e) : q[i - 1] = Base * q[i] + Digit(e[i]) /\ (More(e[i]) <=> i < Len(e))
  /\ q[Len(e)] = 0
  /\ \A i \in 1 .. Len(e) - 1 : q[i] > 0

LEMMA CodeOne ==
  ASSUME NEW n \in Nat, ~ (n \div Base > 0)
  PROVE  IsCode(n, Encode[n], [i \in 0 .. 1 |-> IF i = 0 THEN n ELSE 0])
<1> DEFINE q == [i \in 0 .. 1 |-> IF i = 0 THEN n ELSE 0]
           b == LengthByte(n % Base, n \div Base)
<1>1. n \div Base = 0 /\ n = Base * 0 + (n % Base)
  BY Division, BytesAssumption
<1>2. b \in Byte /\ Digit(b) = n % Base /\ ~ More(b)
  BY <1>1, ByteWritten
<1>3. q \in [0 .. 1 -> Nat] /\ q[0] = n /\ q[1] = 0
  OBVIOUS
<1>4. Encode[n] = <<b>>
  BY EncodeIs DEF Turn
<1> HIDE DEF b, q
<1> DEFINE e == Encode[n]
<1>5. e \in Seq(Byte) /\ Len(e) = 1 /\ e[1] = b
  BY <1>2, <1>4
<1> HIDE DEF e
<1>6. \A i \in 1 .. 1 : q[i - 1] = Base * q[i] + Digit(e[i]) /\ (More(e[i]) <=> i < 1)
  BY <1>1, <1>2, <1>3, <1>5
<1>7. IsCode(n, e, q)
  BY <1>3, <1>5, <1>6 DEF IsCode
<1> QED
  BY <1>7 DEF e, q

LEMMA CodeMore ==
  ASSUME NEW n \in Nat, n \div Base > 0, NEW q, IsCode(n \div Base, Encode[n \div Base], q)
  PROVE  IsCode(n, Encode[n],
                [i \in 0 .. Len(Encode[n \div Base]) + 1 |-> IF i = 0 THEN n ELSE q[i - 1]])
<1> DEFINE m == n \div Base
           b == LengthByte(n % Base, m)
           d == Encode[m]
           e == Encode[n]
           p == [i \in 0 .. Len(d) + 1 |-> IF i = 0 THEN n ELSE q[i - 1]]
<1>1. m \in Nat /\ m > 0 /\ n = Base * m + (n % Base)
  BY Division
<1>2. b \in Byte /\ Digit(b) = n % Base /\ More(b)
  BY ByteWritten
<1>3. e = <<b>> \o d
  BY EncodeIs DEF Turn
<1> HIDE DEF b, d, e, m
<1>4. /\ d \in Seq(Byte) /\ Len(d) \in Nat /\ Len(d) >= 1
      /\ q \in [0 .. Len(d) -> Nat] /\ q[0] = m /\ q[Len(d)] = 0
      /\ \A i \in 1 .. Len(d) : q[i - 1] = Base * q[i] + Digit(d[i]) /\ (More(d[i]) <=> i < Len(d))
      /\ \A i \in 1 .. Len(d) - 1 : q[i] > 0
  BY DEF IsCode, d, m
<1>5. /\ e \in Seq(Byte) /\ Len(e) = Len(d) + 1 /\ e[1] = b
      /\ \A i \in 2 .. Len(e) : e[i] = d[i - 1]
  BY <1>2, <1>3, <1>4
<1>6. /\ p \in [0 .. Len(e) -> Nat] /\ p[0] = n
      /\ \A i \in 1 .. Len(e) : p[i] = q[i - 1]
  BY <1>4, <1>5
<1> HIDE DEF p
<1>7. ASSUME NEW i \in 1 .. Len(e)
      PROVE  p[i - 1] = Base * p[i] + Digit(e[i]) /\ (More(e[i]) <=> i < Len(e))
  <2>1. CASE i = 1
    BY <1>1, <1>2, <1>4, <1>5, <1>6, <2>1
  <2>2. CASE i # 1
    <3>1. i - 1 \in 1 .. Len(d) /\ i - 1 \in 1 .. Len(e) /\ i \in 2 .. Len(e)
      BY <1>4, <1>5, <2>2
    <3>2. p[i - 1] = q[(i - 1) - 1] /\ p[i] = q[i - 1] /\ e[i] = d[i - 1]
      BY <1>5, <1>6, <3>1
    <3>3. i - 1 < Len(d) <=> i < Len(e)
      BY <1>4, <1>5
    <3> QED
      BY <1>4, <3>1, <3>2, <3>3
  <2> QED
    BY <2>1, <2>2
<1>8. p[Len(e)] = 0
  BY <1>4, <1>5, <1>6
<1>9. ASSUME NEW i \in 1 .. Len(e) - 1 PROVE p[i] > 0
  <2>1. CASE i = 1
    BY <1>1, <1>4, <1>5, <1>6, <2>1
  <2>2. CASE i # 1
    <3>1. i - 1 \in 1 .. Len(d) - 1 /\ i \in 1 .. Len(e)
      BY <1>4, <1>5, <2>2
    <3> QED
      BY <1>4, <1>6, <3>1
  <2> QED
    BY <2>1, <2>2
<1>10. IsCode(n, e, p)
  BY <1>4, <1>5, <1>6, <1>7, <1>8, <1>9 DEF IsCode
<1> QED
  BY <1>10 DEF e, p, d, m

LEMMA Code == \A n \in Nat : \E q : IsCode(n, Encode[n], q)
<1> DEFINE T == {n \in Nat : ~ \E q : IsCode(n, Encode[n], q)}
<1>1. ASSUME T # {} PROVE FALSE
  <2>1. T \subseteq Nat
    OBVIOUS
  <2> HIDE DEF T
  <2>2. PICK n \in T : \A j \in T : n <= j
    BY <1>1, <2>1, LeastNumber
  <2>3. n \in Nat /\ ~ \E q : IsCode(n, Encode[n], q)
    BY <2>2 DEF T
  <2>4. CASE ~ (n \div Base > 0)
    BY <2>3, <2>4, CodeOne
  <2>5. CASE n \div Base > 0
    <3>1. n \div Base \in Nat /\ n \div Base < n
      BY <2>3, <2>5, Division
    <3>2. n \div Base \notin T
      BY <2>2, <2>3, <3>1
    <3>3. PICK q : IsCode(n \div Base, Encode[n \div Base], q)
      BY <3>1, <3>2 DEF T
    <3>4. IsCode(n, Encode[n],
                 [i \in 0 .. Len(Encode[n \div Base]) + 1 |-> IF i = 0 THEN n ELSE q[i - 1]])
      BY <2>3, <2>5, <3>3, CodeMore
    <3> QED
      BY <2>3, <3>4
  <2> QED
    BY <2>4, <2>5
<1> QED
  BY <1>1

-----------------------------------------------------------------------------
(* Types.                                                                  *)

\* The two parts of a sequence.
LEMMA Cut ==
  ASSUME NEW S, NEW t \in Seq(S), NEW k \in 0 .. Len(t)
  PROVE  /\ SubSeq(t, 1, k) \in Seq(S) /\ Len(SubSeq(t, 1, k)) = k
         /\ \A i \in 1 .. k : SubSeq(t, 1, k)[i] = t[i]
         /\ SubSeq(t, k + 1, Len(t)) \in Seq(S) /\ Len(SubSeq(t, k + 1, Len(t))) = Len(t) - k
         /\ \A i \in 1 .. Len(t) - k : SubSeq(t, k + 1, Len(t))[i] = t[k + i]
<1>1. Len(t) \in Nat /\ \A i \in 1 .. Len(t) : t[i] \in S
  OBVIOUS
<1>2. /\ SubSeq(t, 1, k) \in Seq(S)
      /\ Len(SubSeq(t, 1, k)) = IF 1 <= k THEN k - 1 + 1 ELSE 0
      /\ \A i \in 1 .. k - 1 + 1 : SubSeq(t, 1, k)[i] = t[1 + i - 1]
  BY <1>1, SubSeqProperties
<1>3. /\ SubSeq(t, k + 1, Len(t)) \in Seq(S)
      /\ Len(SubSeq(t, k + 1, Len(t))) = IF k + 1 <= Len(t) THEN Len(t) - (k + 1) + 1 ELSE 0
      /\ \A i \in 1 .. Len(t) - (k + 1) + 1 : SubSeq(t, k + 1, Len(t))[i] = t[(k + 1) + i - 1]
  BY <1>1, SubSeqProperties
<1>4. \A i \in 1 .. k : SubSeq(t, 1, k)[i] = t[i]
  BY <1>2
<1>5. \A i \in 1 .. Len(t) - k : SubSeq(t, k + 1, Len(t))[i] = t[k + i]
  BY <1>1, <1>3
<1>6. Len(SubSeq(t, 1, k)) = k /\ Len(SubSeq(t, k + 1, Len(t))) = Len(t) - k
  BY <1>1, <1>2, <1>3
<1> QED
  BY <1>2, <1>3, <1>4, <1>5, <1>6

LEMMA TailIs ==
  ASSUME NEW S, NEW t \in Seq(S), t # <<>>
  PROVE  Tail(t) = SubSeq(t, 1 + 1, Len(t)) /\ Head(t) = t[1] /\ Len(t) \in Nat /\ Len(t) >= 1
<1>1. 1 + 1 = 2 /\ Len(t) \in Nat /\ Len(t) >= 1
  OBVIOUS
<1>2. Tail(t) = SubSeq(t, 2, Len(t)) /\ Head(t) = t[1]
  BY HeadTailProperties, TailIsSubSeq
<1> QED
  BY <1>1, <1>2

LEMMA Powers ==
  \A k \in 0 .. MaxLenBytes : Power[k] \in Nat /\ Power[k] >= 1 /\ Power[k] <= Power[MaxLenBytes]
<1>1. ASSUME NEW k \in 0 .. MaxLenBytes - 1, Power[k] >= 1
      PROVE  Power[k + 1] \in Nat /\ Power[k + 1] >= Power[k] /\ Power[k + 1] >= 1
  <2>1. Power[k] \in Nat /\ Power[k + 1] = Power[k] * Base
    BY PowerAssumption, BytesAssumption
  <2>2. Power[k] * Base >= Power[k] * 1 /\ Power[k] * Base \in Nat
    BY <2>1, BytesAssumption
  <2> QED
    BY <1>1, <2>1, <2>2
<1>2. Power[0] = 1 /\ MaxLenBytes \in {1, 2, 3, 4}
  BY PowerAssumption, BytesAssumption
<1>3. Power[1] >= 1 /\ Power[1] >= Power[0] /\ Power[1] \in Nat
  BY <1>1, <1>2
<1>4. MaxLenBytes >= 2 => Power[2] >= 1 /\ Power[2] >= Power[1] /\ Power[2] \in Nat
  BY <1>1, <1>2, <1>3
<1>5. MaxLenBytes >= 3 => Power[3] >= 1 /\ Power[3] >= Power[2] /\ Power[3] \in Nat
  BY <1>1, <1>2, <1>4
<1>6. MaxLenBytes >= 4 => Power[4] >= 1 /\ Power[4] >= Power[3] /\ Power[4] \in Nat
  BY <1>1, <1>2, <1>5
<1>7. ASSUME NEW k \in 0 .. MaxLenBytes
      PROVE  Power[k] \in Nat /\ Power[k] >= 1 /\ Power[k] <= Power[MaxLenBytes]
  <2>1. k \in {0, 1, 2, 3, 4} /\ k <= MaxLenBytes
    BY <1>2
  <2>2. Power[k] \in Nat /\ Power[k] >= 1
    BY <1>2, <1>3, <1>4, <1>5, <1>6, <2>1
  <2>3. CASE MaxLenBytes = 1
    BY <1>2, <1>3, <2>1, <2>2, <2>3
  <2>4. CASE MaxLenBytes = 2
    BY <1>2, <1>3, <1>4, <2>1, <2>2, <2>4
  <2>5. CASE MaxLenBytes = 3
    BY <1>2, <1>3, <1>4, <1>5, <2>1, <2>2, <2>5
  <2>6. CASE MaxLenBytes = 4
    BY <1>2, <1>3, <1>4, <1>5, <1>6, <2>1, <2>2, <2>6
  <2> QED
    BY <1>2, <2>3, <2>4, <2>5, <2>6
<1> QED
  BY <1>7

\* TypeOK becomes inductive with what the digits read so far can make and with
\* what the buffer has.
TypeInv ==
  /\ TypeOK
  /\ pc = "len" => value < Power[len] /\ body = <<>>
  /\ pc = "body" => Len(body) < value

LEMMA ByteType == 0 \in Byte /\ Byte \subseteq Nat /\ \A c \in Byte : Digit(c) \in 0 .. Base - 1
BY BytesAssumption DEF Byte, Digit

LEMMA BytesType ==
  ASSUME NEW p \in Packet
  PROVE  /\ p = [head |-> p.head, body |-> p.body] /\ p.head \in Byte
         /\ p.body \in Seq(Byte) /\ Len(p.body) \in Nat
         /\ Encode[Len(p.body)] \in Seq(Byte) /\ Len(Encode[Len(p.body)]) \in Nat
         /\ Len(Encode[Len(p.body)]) >= 1
         /\ Bytes(p) \in Seq(Byte)
         /\ Len(Bytes(p)) = 1 + Len(Encode[Len(p.body)]) + Len(p.body)
         /\ Bytes(p)[1] = p.head
         /\ \A i \in 1 .. Len(Encode[Len(p.body)]) : Bytes(p)[1 + i] = Encode[Len(p.body)][i]
         /\ \A i \in 1 .. Len(p.body) :
              Bytes(p)[1 + Len(Encode[Len(p.body)]) + i] = p.body[i]
<1>1. p \in [head : Byte, body : Seq(Byte)]
  BY FramingAssumption
<1>2. /\ p = [head |-> p.head, body |-> p.body] /\ p.head \in Byte
      /\ p.body \in Seq(Byte) /\ Len(p.body) \in Nat
  BY <1>1
<1> DEFINE e == Encode[Len(p.body)]
<1>3. e \in Seq(Byte)
  BY <1>2, EncodeIs
<1>4. Len(e) >= 1
  <2>1. PICK q : IsCode(Len(p.body), Encode[Len(p.body)], q)
    BY <1>2, Code
  <2> QED
    BY <2>1 DEF IsCode
<1>5. Bytes(p) = <<p.head>> \o e \o p.body
  BY DEF Bytes
<1> HIDE DEF e
<1> DEFINE b == p.body
           h == p.head
           z == <<h>> \o e
<1>6. z \in Seq(Byte) /\ Len(z) = 1 + Len(e) /\ z[1] = h /\ \A i \in 1 .. Len(e) : z[1 + i] = e[i]
  BY <1>2, <1>3
<1>7. Bytes(p) = z \o b
  BY <1>5
<1> HIDE DEF z, b
<1>8. /\ z \o b \in Seq(Byte) /\ Len(z \o b) = Len(z) + Len(b)
      /\ \A i \in 1 .. Len(z) : (z \o b)[i] = z[i]
      /\ \A i \in 1 .. Len(b) : (z \o b)[Len(z) + i] = b[i]
  BY <1>2, <1>6 DEF b
<1>9. \A i \in 1 .. Len(e) : Bytes(p)[1 + i] = e[i]
  <2> SUFFICES ASSUME NEW i \in 1 .. Len(e) PROVE (z \o b)[1 + i] = e[i]
    BY <1>7
  <2>1. 1 + i \in 1 .. Len(z)
    BY <1>3, <1>6
  <2> QED
    BY <1>6, <1>8, <2>1
<1>10. Bytes(p)[1] = h
  <2>1. 1 \in 1 .. Len(z)
    BY <1>3, <1>6
  <2> QED
    BY <1>6, <1>7, <1>8, <2>1
<1>11. \A i \in 1 .. Len(b) : Bytes(p)[1 + Len(e) + i] = b[i]
  BY <1>6, <1>7, <1>8
<1>12. Bytes(p) \in Seq(Byte) /\ Len(Bytes(p)) = 1 + Len(e) + Len(b)
  BY <1>6, <1>7, <1>8
<1> QED
  BY <1>2, <1>3, <1>4, <1>9, <1>10, <1>11, <1>12 DEF e, b

LEMMA BytesLen ==
  ASSUME NEW p \in Packet
  PROVE  /\ Bytes(p) \in Seq(Byte) /\ Len(Bytes(p)) \in Nat /\ Len(Bytes(p)) >= 2
         /\ Len(p.body) \in Nat /\ Len(Bytes(p)) >= Len(p.body)
<1>1. /\ Bytes(p) \in Seq(Byte) /\ Len(p.body) \in Nat
      /\ Len(Encode[Len(p.body)]) \in Nat /\ Len(Encode[Len(p.body)]) >= 1
      /\ Len(Bytes(p)) = 1 + Len(Encode[Len(p.body)]) + Len(p.body)
  BY BytesType
<1> DEFINE e == Len(Encode[Len(p.body)])
           c == Len(p.body)
           b == Len(Bytes(p))
<1>2. e \in Nat /\ e >= 1 /\ c \in Nat /\ b = 1 + e + c
  BY <1>1
<1> HIDE DEF e, c, b
<1>3. b \in Nat /\ b >= 2 /\ b >= c
  BY <1>2
<1> QED
  BY <1>1, <1>3 DEF b, c

LEMMA FieldLen ==
  ASSUME NEW p \in Packet
  PROVE  0 < Len(Encode[Len(p.body)])
<1>1. Len(Encode[Len(p.body)]) \in Nat /\ Len(Encode[Len(p.body)]) >= 1
  BY BytesType
<1> QED
  BY <1>1

LEMMA InitTypes == Init => TypeInv
<1> SUFFICES ASSUME Init PROVE TypeInv
  OBVIOUS
<1>1. 0 \in 0 .. Power[MaxLenBytes] - 1 /\ 0 \in 0 .. MaxLenBytes
  BY Powers, BytesAssumption
<1>2. Len(sent) <= MaxPackets /\ sent \in Seq(Packet)
  BY FramingAssumption DEF Init
<1>3. /\ mode \in Modes /\ wire = <<>> /\ rx = <<>> /\ fin = FALSE /\ pc = "head" /\ head \in Byte
      /\ len \in 0 .. MaxLenBytes /\ value \in 0 .. Power[MaxLenBytes] - 1 /\ body = <<>> /\ read = <<>>
      /\ failed = FALSE /\ ignored = FALSE
  BY <1>1, ByteType DEF Init
<1>4. /\ wire \in Seq([bytes : Seq(Byte), body : Nat]) /\ rx \in Seq(Byte) /\ body \in Seq(Byte)
      /\ read \in Seq([head : Byte, body : Seq(Byte)])
  BY <1>3
<1>5. TypeOK
  BY <1>2, <1>3, <1>4 DEF TypeOK
<1> QED
  BY <1>3, <1>5 DEF TypeInv

\* What a call that ends or goes on to the body leaves.
LEMMA SizedTypes ==
  ASSUME TypeInv, NEW v \in 0 .. Power[MaxLenBytes] - 1, Sized(v), pc = "len",
         UNCHANGED <<head, body>>, value' = v
  PROVE  /\ pc' \in {"head", "body"}
         /\ pc' = "body" => Len(body') < value'
         /\ read' \in Seq([head : Byte, body : Seq(Byte)])
         /\ failed' \in BOOLEAN
<1>1. [head |-> head, body |-> <<>>] \in [head : Byte, body : Seq(Byte)]
  <2>1. <<>> \in Seq(Byte) /\ head \in Byte
    BY DEF TypeInv, TypeOK
  <2> QED
    BY <2>1
<1>2. read \in Seq([head : Byte, body : Seq(Byte)]) /\ failed \in BOOLEAN /\ body = <<>>
  BY DEF TypeInv, TypeOK
<1>3. CASE Fail
  BY <1>2, <1>3 DEF Fail
<1>4. CASE Return([head |-> head, body |-> <<>>])
  BY <1>1, <1>2, <1>4 DEF Return
<1>5. CASE v > 0 /\ pc' = "body" /\ UNCHANGED <<read, failed>>
  BY <1>2, <1>5
<1> QED
  BY <1>3, <1>4, <1>5 DEF Sized

LEMMA TypeStep == TypeInv /\ [Next]_vars => TypeInv'
<1> SUFFICES ASSUME TypeInv, [Next]_vars PROVE TypeInv'
  OBVIOUS
<1> USE DEF TypeInv
<1>0. rx \in Seq(Byte) /\ Len(rx) \in Nat /\ body \in Seq(Byte) /\ Len(body) \in Nat /\ value \in Nat
  BY Powers, BytesAssumption DEF TypeOK
<1>1. CASE UNCHANGED vars
  BY <1>1 DEF vars, TypeOK
<1>2. CASE Send
  <2>1. PICK p \in Packet :
          /\ sent' = Append(sent, p)
          /\ wire' = Append(wire, [bytes |-> Bytes(p), body |-> Len(p.body)])
    BY <1>2 DEF Send
  <2>2. [bytes |-> Bytes(p), body |-> Len(p.body)] \in [bytes : Seq(Byte), body : Nat]
    BY BytesType
  <2>3. sent' \in Seq(Packet) /\ Len(sent') <= MaxPackets
    BY <1>2, <2>1, FramingAssumption DEF Send, TypeOK
  <2>4. wire' \in Seq([bytes : Seq(Byte), body : Nat])
    BY <2>1, <2>2 DEF TypeOK
  <2> QED
    BY <1>2, <2>3, <2>4 DEF Send, TypeOK, reader
<1>3. CASE Arrive
  <2> DEFINE R == [bytes : Seq(Byte), body : Nat]
             first == Head(wire)
             n == Len(first.bytes)
  <2>1. wire # <<>> /\ wire \in Seq(R)
    BY <1>3 DEF Arrive, TypeOK
  <2>2. Head(wire) = wire[1] /\ 1 \in 1 .. Len(wire)
    BY <2>1
  <2>3. first \in R /\ Tail(wire) \in Seq(R)
    BY <2>1, HeadTailProperties
  <2>4. first.bytes \in Seq(Byte) /\ first.body \in Nat /\ n \in Nat
    BY <2>3
  <2>5. PICK k \in 1 .. n :
          /\ rx' = rx \o SubSeq(first.bytes, 1, k)
          /\ wire' = IF n - k = 0 THEN Tail(wire)
                     ELSE [wire EXCEPT ![1].bytes = SubSeq(@, k + 1, Len(@))]
    BY <1>3 DEF Arrive
  <2>6. /\ SubSeq(first.bytes, 1, k) \in Seq(Byte)
        /\ SubSeq(first.bytes, k + 1, n) \in Seq(Byte)
    <3>1. k \in 0 .. Len(first.bytes)
      BY <2>4
    <3> QED
      BY <2>4, <3>1, Cut
  <2>7. rx' \in Seq(Byte)
    BY <1>0, <2>5, <2>6
  <2>8. wire' \in Seq(R)
    <3> DEFINE r == [first EXCEPT !.bytes = SubSeq(first.bytes, k + 1, n)]
    <3>1. r \in R
      BY <2>3, <2>6
    <3>2. wire' = Tail(wire) \/ wire' = [wire EXCEPT ![1] = r]
      BY <2>2, <2>5
    <3> HIDE DEF r, R
    <3>3. CASE wire' = Tail(wire)
      BY <2>3, <3>3
    <3>4. CASE wire' = [wire EXCEPT ![1] = r]
      BY <2>1, <2>2, <3>1, <3>4, ExceptSeq
    <3> QED
      BY <3>2, <3>3, <3>4
  <2> QED
    BY <1>3, <2>7, <2>8 DEF Arrive, TypeOK, reader
<1>4. CASE Break
  BY <1>4 DEF Break, TypeOK, reader
<1>5. CASE ReadHead
  <2>1. Head(rx) \in Byte /\ Tail(rx) \in Seq(Byte)
    BY <1>0, <1>5, HeadTailProperties DEF ReadHead
  <2>2. 0 \in 0 .. Power[MaxLenBytes] - 1 /\ 0 \in 0 .. MaxLenBytes /\ 0 < Power[0]
    BY Powers, BytesAssumption
  <2> QED
    BY <1>5, <2>1, <2>2 DEF ReadHead, TypeOK
<1>6. CASE ReadLength
  <2>0. Head(rx) \in Byte /\ Tail(rx) \in Seq(Byte)
    BY <1>0, <1>6, HeadTailProperties DEF ReadLength
  <2>1. /\ len \in 0 .. MaxLenBytes - 1 /\ len' = len + 1 /\ len' \in 0 .. MaxLenBytes
        /\ value' = value + Digit(Head(rx)) * Power[len] /\ value < Power[len] /\ value \in Nat
        /\ rx' \in Seq(Byte) /\ pc = "len" /\ body = <<>>
    BY <1>0, <1>6, <2>0, BytesAssumption DEF ReadLength, TypeOK
  <2>2. value' \in Nat /\ value' < Power[len']
    <3> DEFINE d == Digit(Head(rx))
               w == Power[len]
    <3>1. d \in 0 .. Base - 1
      <4>1. \A c \in Byte : Digit(c) \in 0 .. Base - 1
        BY ByteType
      <4> QED
        BY <2>0, <4>1
    <3>2. w \in Nat /\ Power[len + 1] = w * Base
      <4>1. len \in 0 .. MaxLenBytes
        BY <2>1, BytesAssumption
      <4> QED
        BY <2>1, <4>1, PowerAssumption
    <3>3. value' = value + d * w /\ value < w
      BY <2>1
    <3> HIDE DEF d, w
    <3>4. Base \in Nat
      BY BytesAssumption
    <3>5. d * w <= (Base - 1) * w /\ d * w \in Nat /\ (Base - 1) * w = w * Base - w /\ w * Base \in Nat
      BY <3>1, <3>2, <3>4
    <3> QED
      BY <2>1, <3>2, <3>3, <3>5
  <2>3. value' \in 0 .. Power[MaxLenBytes] - 1
    <3>1. Power[len'] \in Nat /\ Power[len'] <= Power[MaxLenBytes] /\ Power[MaxLenBytes] \in Nat
      BY <2>1, Powers, BytesAssumption
    <3> QED
      BY <2>2, <3>1
  <2>4. UNCHANGED <<mode, sent, wire, fin, head, body, ignored>>
    BY <1>6 DEF ReadLength
  <2>5. CASE More(Head(rx)) /\ UNCHANGED <<pc, read, failed>>
    BY <2>1, <2>2, <2>3, <2>4, <2>5 DEF TypeOK
  <2>6. CASE Sized(value')
    BY <2>1, <2>3, <2>4, <2>6, SizedTypes DEF TypeOK
  <2> QED
    BY <1>6, <2>5, <2>6 DEF ReadLength
<1>7. CASE LengthFails
  <2>1. UNCHANGED <<mode, sent, wire, rx, fin, head, len, value, body>> /\ pc = "len"
    BY <1>7 DEF LengthFails, stream
  <2>2. CASE Fail /\ UNCHANGED ignored
    BY <2>1, <2>2 DEF Fail, TypeOK
  <2>3. CASE Sized(value) /\ ignored' = TRUE
    <3>1. value \in 0 .. Power[MaxLenBytes] - 1
      BY DEF TypeOK
    <3> QED
      BY <2>1, <2>3, <3>1, SizedTypes DEF TypeOK
  <2> QED
    BY <1>7, <2>2, <2>3 DEF LengthFails
<1>8. ASSUME body' \in Seq(Byte), rx' \in Seq(Byte),
             UNCHANGED <<mode, sent, wire, fin, head, len, value, ignored>>,
             \/ Return([head |-> head, body |-> body'])
             \/ pc = "body" /\ Len(body') < value /\ UNCHANGED <<pc, read, failed>>
             \/ Fail
      PROVE  TypeInv'
  <2>1. [head |-> head, body |-> body'] \in [head : Byte, body : Seq(Byte)]
    BY <1>8 DEF TypeOK
  <2>2. CASE Return([head |-> head, body |-> body'])
    BY <1>8, <2>1, <2>2 DEF Return, TypeOK
  <2>3. CASE pc = "body" /\ Len(body') < value /\ UNCHANGED <<pc, read, failed>>
    BY <1>8, <2>3 DEF TypeOK
  <2>4. CASE Fail
    BY <1>8, <2>4 DEF Fail, TypeOK
  <2> QED
    BY <1>8, <2>2, <2>3, <2>4
<1>9. CASE ReadBody
  <2>1. PICK k \in 0 .. Len(rx) : body' = SubSeq(rx, 1, k) /\ rx' = SubSeq(rx, k + 1, Len(rx))
    <3>1. (IF value < Len(rx) THEN value ELSE Len(rx)) \in 0 .. Len(rx)
      BY <1>0
    <3> QED
      BY <1>9, <3>1 DEF ReadBody
  <2>2. body' \in Seq(Byte) /\ rx' \in Seq(Byte)
    BY <1>0, <2>1, Cut
  <2> QED
    BY <1>8, <1>9, <2>2 DEF ReadBody
<1>10. CASE ReadBodyPart
  <2>1. PICK k \in 0 .. Len(rx) : body' = body \o SubSeq(rx, 1, k) /\ rx' = SubSeq(rx, k + 1, Len(rx))
    <3>1. (IF value - Len(body) < Len(rx) THEN value - Len(body) ELSE Len(rx)) \in 0 .. Len(rx)
      BY <1>0, <1>10 DEF ReadBodyPart
    <3> QED
      BY <1>10, <3>1 DEF ReadBodyPart
  <2>2. SubSeq(rx, 1, k) \in Seq(Byte) /\ rx' \in Seq(Byte)
    BY <1>0, <2>1, Cut
  <2>3. body' \in Seq(Byte)
    BY <1>0, <2>1, <2>2
  <2> QED
    BY <1>8, <1>10, <2>2, <2>3 DEF ReadBodyPart
<1>11. CASE BodyFails
  <2>1. UNCHANGED <<mode, sent, wire, rx, fin, head, len, value, body, ignored>> /\ Fail
    BY <1>11 DEF BodyFails, stream
  <2> QED
    BY <2>1 DEF Fail, TypeOK
<1> QED
  BY <1>1, <1>2, <1>3, <1>4, <1>5, <1>6, <1>7, <1>9, <1>10, <1>11 DEF Next, Reader

-----------------------------------------------------------------------------
(* Where the bytes come from. A place in the stream is a packet sent and a *)
(* byte of it; the place after the last byte of a packet is the first byte *)
(* of the next one.                                                        *)

NextPacket(s, p, k) == IF k < Len(Bytes(s[p])) THEN p ELSE p + 1
NextByte(s, p, k) == IF k < Len(Bytes(s[p])) THEN k + 1 ELSE 1

\* Byte i of r stands at the place P[i], K[i] of the packets s, without a gap; the entry
\* after the last one is the place where r ends.
Flow(P, K, s, r) ==
  /\ P \in [1 .. Len(r) + 1 -> Nat] /\ K \in [1 .. Len(r) + 1 -> Nat]
  /\ \A i \in 1 .. Len(r) :
       /\ P[i] \in 1 .. Len(s) /\ K[i] \in 1 .. Len(Bytes(s[P[i]]))
       /\ r[i] = Bytes(s[P[i]])[K[i]]
       /\ P[i + 1] = NextPacket(s, P[i], K[i]) /\ K[i + 1] = NextByte(s, P[i], K[i])

\* Another packet at the end of the stream.
LEMMA FlowSend ==
  ASSUME NEW s \in Seq(Packet), NEW r \in Seq(Byte), NEW P, NEW K, Flow(P, K, s, r), NEW x \in Packet
  PROVE  Flow(P, K, Append(s, x), r)
<1> DEFINE t == Append(s, x)
<1>1. Len(t) = Len(s) + 1 /\ (\A i \in 1 .. Len(s) : t[i] = s[i]) /\ Len(s) \in Nat
  OBVIOUS
<1> HIDE DEF t
<1>2. ASSUME NEW i \in 1 .. Len(r)
      PROVE  /\ P[i] \in 1 .. Len(t) /\ K[i] \in 1 .. Len(Bytes(t[P[i]]))
             /\ r[i] = Bytes(t[P[i]])[K[i]]
             /\ P[i + 1] = NextPacket(t, P[i], K[i]) /\ K[i + 1] = NextByte(t, P[i], K[i])
  <2>1. /\ P[i] \in 1 .. Len(s) /\ K[i] \in 1 .. Len(Bytes(s[P[i]]))
        /\ r[i] = Bytes(s[P[i]])[K[i]]
        /\ P[i + 1] = NextPacket(s, P[i], K[i]) /\ K[i + 1] = NextByte(s, P[i], K[i])
    BY DEF Flow
  <2>2. t[P[i]] = s[P[i]] /\ P[i] \in 1 .. Len(t)
    BY <1>1, <2>1
  <2> QED
    BY <2>1, <2>2 DEF NextPacket, NextByte
<1> QED
  BY <1>2 DEF Flow, t

\* The first k bytes taken.
LEMMA FlowTake ==
  ASSUME NEW s, NEW r \in Seq(Byte), NEW P, NEW K, Flow(P, K, s, r), NEW k \in 0 .. Len(r)
  PROVE  Flow([i \in 1 .. Len(r) - k + 1 |-> P[k + i]], [i \in 1 .. Len(r) - k + 1 |-> K[k + i]],
              s, SubSeq(r, k + 1, Len(r)))
<1> DEFINE t == SubSeq(r, k + 1, Len(r))
           n == Len(r) - k
           Q == [i \in 1 .. n + 1 |-> P[k + i]]
           L == [i \in 1 .. n + 1 |-> K[k + i]]
<1>1. n \in Nat /\ Len(r) \in Nat /\ Len(t) = n /\ \A i \in 1 .. n : t[i] = r[k + i]
  BY Cut
<1>2. \A i \in 1 .. n + 1 : Q[i] = P[k + i] /\ L[i] = K[k + i]
  OBVIOUS
<1>3. Q \in [1 .. n + 1 -> Nat] /\ L \in [1 .. n + 1 -> Nat]
  <2>1. \A i \in 1 .. n + 1 : k + i \in 1 .. Len(r) + 1
    BY <1>1
  <2> QED
    BY <2>1 DEF Flow
<1> HIDE DEF t, Q, L
<1>4. ASSUME NEW i \in 1 .. n
      PROVE  /\ Q[i] \in 1 .. Len(s) /\ L[i] \in 1 .. Len(Bytes(s[Q[i]]))
             /\ t[i] = Bytes(s[Q[i]])[L[i]]
             /\ Q[i + 1] = NextPacket(s, Q[i], L[i]) /\ L[i + 1] = NextByte(s, Q[i], L[i])
  <2>1. k + i \in 1 .. Len(r) /\ i \in 1 .. n + 1 /\ i + 1 \in 1 .. n + 1 /\ k + (i + 1) = (k + i) + 1
    BY <1>1
  <2>2. Q[i] = P[k + i] /\ L[i] = K[k + i] /\ Q[i + 1] = P[(k + i) + 1] /\ L[i + 1] = K[(k + i) + 1]
    BY <1>2, <2>1
  <2> HIDE DEF n
  <2>3. t[i] = r[k + i]
    BY <1>1
  <2> QED
    BY <2>1, <2>2, <2>3 DEF Flow
<1> QED
  BY <1>1, <1>3, <1>4 DEF Flow, Q, L, t

\* t goes on where r ends, at p, k, and stays in the packet p.
GoesOn(P, K, s, r, t, p, k) ==
  /\ r \in Seq(Byte) /\ t \in Seq(Byte) /\ t # <<>> /\ Bytes(s[p]) \in Seq(Byte)
  /\ p \in 1 .. Len(s) /\ k \in Nat /\ k >= 1
  /\ P[Len(r) + 1] = p /\ K[Len(r) + 1] = k /\ k + Len(t) <= Len(Bytes(s[p])) + 1
  /\ \A j \in 1 .. Len(t) : t[j] = Bytes(s[p])[k + j - 1]

\* Bytes of one packet put behind.
LEMMA FlowAdd ==
  ASSUME NEW s, NEW r, NEW t, NEW P, NEW K, NEW p, NEW k, Flow(P, K, s, r), GoesOn(P, K, s, r, t, p, k)
  PROVE  \E Q, L : /\ Flow(Q, L, s, r \o t) /\ Q[1] = P[1] /\ L[1] = K[1]
                   /\ Q[Len(r \o t) + 1] = NextPacket(s, p, k + Len(t) - 1)
                   /\ L[Len(r \o t) + 1] = NextByte(s, p, k + Len(t) - 1)
<1> DEFINE n == Len(r)
           m == Len(t)
           u == r \o t
           Q == [i \in 1 .. n + m + 1 |-> IF i <= n THEN P[i] ELSE
                                         IF i <= n + m THEN p ELSE NextPacket(s, p, k + m - 1)]
           L == [i \in 1 .. n + m + 1 |-> IF i <= n THEN K[i] ELSE
                                         IF i <= n + m THEN k + (i - n - 1) ELSE NextByte(s, p, k + m - 1)]
           b == Bytes(s[p])
<1>0. /\ r \in Seq(Byte) /\ t \in Seq(Byte) /\ t # <<>> /\ Bytes(s[p]) \in Seq(Byte)
      /\ p \in 1 .. Len(s) /\ k \in Nat /\ k >= 1
      /\ P[Len(r) + 1] = p /\ K[Len(r) + 1] = k /\ k + Len(t) <= Len(Bytes(s[p])) + 1
      /\ \A j \in 1 .. Len(t) : t[j] = Bytes(s[p])[k + j - 1]
  BY DEF GoesOn
<1>1. /\ n \in Nat /\ m \in Nat /\ m >= 1 /\ Len(u) = n + m
      /\ \A i \in 1 .. n : u[i] = r[i]
      /\ \A j \in 1 .. m : u[n + j] = t[j]
  BY <1>0
<1>2. /\ \A i \in 1 .. n : Q[i] = P[i] /\ L[i] = K[i]
      /\ \A j \in 1 .. m : Q[n + j] = p /\ L[n + j] = k + j - 1
      /\ Q[n + m + 1] = NextPacket(s, p, k + m - 1) /\ L[n + m + 1] = NextByte(s, p, k + m - 1)
  BY <1>1
<1>3. NextPacket(s, p, k + m - 1) \in Nat /\ NextByte(s, p, k + m - 1) \in Nat
  BY <1>0, <1>1 DEF NextPacket, NextByte
<1>4. Q \in [1 .. n + m + 1 -> Nat] /\ L \in [1 .. n + m + 1 -> Nat]
  <2>1. P \in [1 .. n + 1 -> Nat] /\ K \in [1 .. n + 1 -> Nat]
    BY DEF Flow
  <2>2. ASSUME NEW i \in 1 .. n + m + 1
        PROVE  /\ (IF i <= n THEN P[i] ELSE IF i <= n + m THEN p ELSE NextPacket(s, p, k + m - 1)) \in Nat
               /\ (IF i <= n THEN K[i] ELSE
                   IF i <= n + m THEN k + (i - n - 1) ELSE NextByte(s, p, k + m - 1)) \in Nat
    <3>1. i <= n => i \in 1 .. n + 1
      BY <1>1
    <3>2. i <= n => P[i] \in Nat /\ K[i] \in Nat
      BY <2>1, <3>1
    <3>3. ~ (i <= n) => k + (i - n - 1) \in Nat /\ p \in Nat
      BY <1>0, <1>1
    <3> QED
      BY <1>3, <3>2, <3>3
  <2> QED
    BY <2>2
<1>5. Len(b) \in Nat /\ k + m <= Len(b) + 1 /\ \A j \in 1 .. m : t[j] = b[k + j - 1]
      /\ k \in Nat /\ k >= 1 /\ p \in 1 .. Len(s)
  BY <1>0
<1>6. Q[n + 1] = P[n + 1] /\ L[n + 1] = K[n + 1]
  BY <1>0, <1>1, <1>2
<1> HIDE DEF Q, L, u, n, m, b
<1>7. ASSUME NEW i \in 1 .. n + m
      PROVE  /\ Q[i] \in 1 .. Len(s) /\ L[i] \in 1 .. Len(Bytes(s[Q[i]]))
             /\ u[i] = Bytes(s[Q[i]])[L[i]]
             /\ Q[i + 1] = NextPacket(s, Q[i], L[i]) /\ L[i + 1] = NextByte(s, Q[i], L[i])
  <2>1. CASE i \in 1 .. n
    <3>1. /\ P[i] \in 1 .. Len(s) /\ K[i] \in 1 .. Len(Bytes(s[P[i]]))
          /\ r[i] = Bytes(s[P[i]])[K[i]]
          /\ P[i + 1] = NextPacket(s, P[i], K[i]) /\ K[i + 1] = NextByte(s, P[i], K[i])
      BY <2>1 DEF Flow, n
    <3>2. i + 1 \in 1 .. n \/ i + 1 = n + 1
      BY <1>1, <2>1
    <3>3. Q[i + 1] = P[i + 1] /\ L[i + 1] = K[i + 1]
      BY <1>2, <1>6, <3>2
    <3> QED
      BY <1>1, <1>2, <2>1, <3>1, <3>3
  <2>2. CASE i \notin 1 .. n
    <3>1. PICK j \in 1 .. m : i = n + j
      <4>1. i - n \in 1 .. m /\ i = n + (i - n)
        BY <1>1, <2>2
      <4> QED
        BY <4>1
    <3>2. Q[i] = p /\ L[i] = k + j - 1 /\ u[i] = t[j]
      BY <1>1, <1>2, <3>1
    <3>3. k + j - 1 \in 1 .. Len(b) /\ t[j] = b[k + j - 1]
      <4>1. j \in Nat /\ 1 <= j /\ j <= m /\ m \in Nat /\ Len(b) \in Nat /\ k + m <= Len(b) + 1 /\ k \in Nat /\ k >= 1
        BY <1>1, <1>5
      <4>2. k + j - 1 \in 1 .. Len(b)
        BY ONLY <4>1
      <4> QED
        BY <1>5, <4>2, Zenon
    <3>4. Q[i + 1] = NextPacket(s, p, k + j - 1) /\ L[i + 1] = NextByte(s, p, k + j - 1)
      <4>1. CASE j = m
        BY <1>2, <3>1, <4>1
      <4>2. CASE j # m
        <5>1. j + 1 \in 1 .. m /\ i + 1 = n + (j + 1) /\ k + (j + 1) - 1 = k + j
          BY <1>1, <3>1, <4>2
        <5>2. Q[i + 1] = p /\ L[i + 1] = k + j
          BY <1>2, <5>1
        <5>3. k + j - 1 < Len(b) /\ (k + j - 1) + 1 = k + j
          <6>1. j \in Nat /\ j + 1 <= m /\ m \in Nat /\ Len(b) \in Nat /\ k + m <= Len(b) + 1 /\ k \in Nat
            BY <1>1, <1>5, <5>1
          <6> QED
            BY ONLY <6>1
        <5> QED
          BY <5>2, <5>3 DEF NextPacket, NextByte, b
      <4> QED
        BY <4>1, <4>2
    <3> QED
      BY <1>5, <3>2, <3>3, <3>4 DEF b
  <2> QED
    BY <2>1, <2>2
<1>8. Flow(Q, L, s, u)
  BY <1>1, <1>4, <1>7 DEF Flow
<1>9. Q[1] = P[1] /\ L[1] = K[1]
  <2>1. n = 0 \/ 1 \in 1 .. n
    BY <1>1
  <2> QED
    BY <1>2, <1>6, <2>1
<1> QED
  BY <1>1, <1>2, <1>8, <1>9 DEF u, n, m

\* The first m bytes of r belong to one packet.
Together(P, K, s, r, m) ==
  /\ r \in Seq(Byte) /\ m \in 0 .. Len(r) /\ K[1] \in Nat
  /\ Bytes(s[P[1]]) \in Seq(Byte) /\ K[1] + m <= Len(Bytes(s[P[1]])) + 1

LEMMA FlowRun ==
  ASSUME NEW s, NEW r, NEW P, NEW K, NEW m, Flow(P, K, s, r), Together(P, K, s, r, m)
  PROVE  /\ \A i \in 1 .. m : r[i] = Bytes(s[P[1]])[K[1] + i - 1]
         /\ K[1] + m <= Len(Bytes(s[P[1]])) => P[m + 1] = P[1] /\ K[m + 1] = K[1] + m
         /\ m > 0 /\ K[1] + m = Len(Bytes(s[P[1]])) + 1 => P[m + 1] = P[1] + 1 /\ K[m + 1] = 1
<1> DEFINE b == Bytes(s[P[1]])
           T == {i \in Nat : i < m /\ ~ (P[i + 1] = P[1] /\ K[i + 1] = K[1] + i)}
<1>1. Len(b) \in Nat /\ K[1] + m <= Len(b) + 1 /\ K[1] \in Nat /\ m \in Nat /\ Len(r) \in Nat /\ m <= Len(r)
  BY DEF Together
<1> HIDE DEF b
<1>2. ASSUME NEW i \in 1 .. m, P[i] = P[1], K[i] = K[1] + i - 1
      PROVE  /\ r[i] = b[K[1] + i - 1]
             /\ K[1] + i <= Len(b) => P[i + 1] = P[1] /\ K[i + 1] = K[1] + i
             /\ K[1] + i = Len(b) + 1 => P[i + 1] = P[1] + 1 /\ K[i + 1] = 1
  <2>1. /\ i \in 1 .. Len(r) /\ r[i] = b[K[i]]
        /\ P[i + 1] = NextPacket(s, P[1], K[i]) /\ K[i + 1] = NextByte(s, P[1], K[i])
    <3>1. i \in 1 .. Len(r)
      BY <1>1
    <3> QED
      BY <1>2, <3>1 DEF Flow, b
  <2>2. K[1] + i <= Len(b) => K[i] < Len(b) /\ K[i] + 1 = K[1] + i
    BY <1>1, <1>2
  <2>3. K[1] + i = Len(b) + 1 => ~ (K[i] < Len(b))
    BY <1>1, <1>2
  <2> QED
    BY <1>2, <2>1, <2>2, <2>3 DEF NextPacket, NextByte, b
<1>3. ASSUME T # {} PROVE FALSE
  <2>1. T \subseteq Nat
    OBVIOUS
  <2> HIDE DEF T
  <2>2. PICK i \in T : \A j \in T : i <= j
    BY <1>3, <2>1, LeastNumber
  <2>3. i \in Nat /\ i < m /\ ~ (P[i + 1] = P[1] /\ K[i + 1] = K[1] + i)
    BY <2>2 DEF T
  <2>4. CASE i = 0
    BY <1>1, <2>3, <2>4
  <2>5. CASE i # 0
    <3>1. i - 1 \in Nat /\ i - 1 \notin T /\ i - 1 < m /\ (i - 1) + 1 = i /\ i \in 1 .. m
      BY <1>1, <2>2, <2>3, <2>5
    <3>2. P[i] = P[1] /\ K[i] = K[1] + (i - 1)
      BY <3>1 DEF T
    <3>3. K[i] = K[1] + i - 1 /\ K[1] + i <= Len(b)
      BY <1>1, <2>3, <3>2
    <3> QED
      BY <1>2, <2>3, <3>1, <3>2, <3>3
  <2> QED
    BY <2>4, <2>5
<1>4. ASSUME NEW i \in 1 .. m PROVE P[i] = P[1] /\ K[i] = K[1] + i - 1
  <2>1. i - 1 \in Nat /\ i - 1 < m /\ (i - 1) + 1 = i /\ K[1] + (i - 1) = K[1] + i - 1
    BY <1>1
  <2>2. P[(i - 1) + 1] = P[1] /\ K[(i - 1) + 1] = K[1] + (i - 1)
    BY <1>3, <2>1
  <2> QED
    BY <2>1, <2>2
<1>5. \A i \in 1 .. m : r[i] = b[K[1] + i - 1]
  BY <1>2, <1>4
<1>6. CASE m = 0
  BY <1>1, <1>6 DEF b
<1>7. CASE m # 0
  <2>1. m \in 1 .. m
    BY <1>1, <1>7
  <2> QED
    BY <1>2, <1>4, <1>5, <2>1 DEF b
<1> QED
  BY <1>6, <1>7

-----------------------------------------------------------------------------
(* The invariant of the stream and the reader.                             *)

\* What is under way is the end of what was sent, whole but for the first packet.
Waiting(m, s, q) ==
  /\ Len(q) <= Len(s)
  /\ \A i \in 1 .. Len(q) :
       LET x == s[Len(s) - Len(q) + i]
           w == q[i].bytes
       IN  /\ q[i].body = Len(x.body)
           /\ Len(w) \in 1 .. Len(Bytes(x))
           /\ i # 1 => Len(w) = Len(Bytes(x))
           /\ \A j \in 1 .. Len(w) : w[j] = Bytes(x)[Len(Bytes(x)) - Len(w) + j]
           /\ ~m.cutBodies => Len(w) >= Len(x.body)

OnWire == (fin => wire = <<>>) /\ Waiting(mode, sent, wire)

\* The place where rx ends is the one the next arrival goes on from.
Ends(P, K) ==
  LET p == P[Len(rx) + 1]
      k == K[Len(rx) + 1]
  IN  /\ wire = <<>> => p = Len(sent) + 1 /\ k = 1
      /\ wire # <<>> => /\ p = Len(sent) - Len(wire) + 1
                        /\ k = Len(Bytes(sent[p])) - Len(wire[1].bytes) + 1

\* Inside the packet x: what the reader has made of the bytes before byte k. The digits
\* read and the quotient c[len] left of the length still make the length.
Inside(x, k) ==
  /\ head = x.head
  /\ pc = "len" =>
       /\ len < Len(Encode[Len(x.body)])
       /\ k = 2 + len
       /\ \E c : /\ IsCode(Len(x.body), Encode[Len(x.body)], c)
                 /\ Len(x.body) = value + Power[len] * c[len]
  /\ pc = "body" =>
       /\ value = Len(x.body)
       /\ k = 2 + Len(Encode[Len(x.body)]) + Len(body)
       /\ \A i \in 1 .. Len(body) : body[i] = x.body[i]
       /\ mode.nonBlocking \/ body = <<>>

\* The reader has returned the packets before p, and stands before byte k of it.
Place(p, k) ==
  /\ p = Len(read) + 1
  /\ Len(read) <= Len(sent)
  /\ \A i \in 1 .. Len(read) : read[i] = sent[i]
  /\ pc = "head" => k = 1
  /\ pc # "head" => Len(read) < Len(sent) /\ Inside(sent[p], k)

Traced(P, K) ==
  /\ Flow(P, K, sent, rx)
  /\ ~fin => Ends(P, K)
  /\ Place(P[1], K[1])

Sound == ~failed /\ ~ignored => \E P, K : Traced(P, K)

LEMMA InitSound == Init => OnWire /\ Sound
<1> SUFFICES ASSUME Init PROVE OnWire /\ Sound
  OBVIOUS
<1> DEFINE P == [i \in 1 .. Len(rx) + 1 |-> 1]
<1>1. sent = <<>> /\ wire = <<>> /\ rx = <<>> /\ read = <<>> /\ pc = "head" /\ ~fin
  BY DEF Init
<1>2. OnWire
  BY <1>1 DEF OnWire, Waiting
<1>3. P[1] = 1 /\ P[Len(rx) + 1] = 1 /\ Flow(P, P, sent, rx)
  BY <1>1 DEF Flow
<1> HIDE DEF P
<1>4. Ends(P, P) /\ Place(1, 1)
  BY <1>1, <1>3 DEF Ends, Place
<1> QED
  BY <1>2, <1>3, <1>4 DEF Sound, Traced

\* The packet that an entry of wire belongs to.
LEMMA WireType ==
  ASSUME TypeInv, OnWire, NEW i \in 1 .. Len(wire)
  PROVE  /\ Len(sent) \in Nat /\ Len(wire) \in Nat
         /\ Len(sent) - Len(wire) + i \in 1 .. Len(sent)
         /\ sent[Len(sent) - Len(wire) + i] \in Packet
         /\ wire[i].bytes \in Seq(Byte) /\ wire[i].body \in Nat
<1>1. sent \in Seq(Packet) /\ wire \in Seq([bytes : Seq(Byte), body : Nat])
  BY DEF TypeInv, TypeOK
<1>2. Len(sent) \in Nat /\ Len(wire) \in Nat /\ Len(wire) <= Len(sent)
  BY <1>1 DEF OnWire, Waiting
<1>3. Len(sent) - Len(wire) + i \in 1 .. Len(sent)
  BY <1>2
<1>4. wire[i] \in [bytes : Seq(Byte), body : Nat]
  <2> DEFINE R == [bytes : Seq(Byte), body : Nat]
  <2>1. wire \in Seq(R)
    BY <1>1
  <2> HIDE DEF R
  <2>2. wire[i] \in R
    BY <2>1
  <2> QED
    BY <2>2 DEF R
<1> QED
  BY <1>1, <1>2, <1>3, <1>4

LEMMA WirePart ==
  ASSUME OnWire, NEW i \in 1 .. Len(wire)
  PROVE  /\ wire[i].body = Len(sent[Len(sent) - Len(wire) + i].body)
         /\ Len(wire[i].bytes) \in 1 .. Len(Bytes(sent[Len(sent) - Len(wire) + i]))
         /\ i # 1 => Len(wire[i].bytes) = Len(Bytes(sent[Len(sent) - Len(wire) + i]))
         /\ \A j \in 1 .. Len(wire[i].bytes) :
              wire[i].bytes[j] = Bytes(sent[Len(sent) - Len(wire) + i])
                                   [Len(Bytes(sent[Len(sent) - Len(wire) + i])) - Len(wire[i].bytes) + j]
         /\ ~mode.cutBodies => Len(wire[i].bytes) >= Len(sent[Len(sent) - Len(wire) + i].body)
BY DEF OnWire, Waiting

LEMMA SendSound ==
  ASSUME TypeInv, OnWire, Sound, Send
  PROVE  OnWire' /\ Sound'
<1>1. PICK x \in Packet :
        /\ sent' = Append(sent, x)
        /\ wire' = Append(wire, [bytes |-> Bytes(x), body |-> Len(x.body)])
  BY DEF Send
<1>2. UNCHANGED <<mode, rx, fin, pc, head, len, value, body, read, failed, ignored>> /\ ~fin
  BY DEF Send, reader
<1>3. sent \in Seq(Packet) /\ wire \in Seq([bytes : Seq(Byte), body : Nat]) /\ rx \in Seq(Byte)
      /\ read \in Seq([head : Byte, body : Seq(Byte)])
  BY DEF TypeInv, TypeOK
<1> DEFINE n == Len(wire)
           S == Len(sent)
<1>4. /\ S \in Nat /\ n \in Nat /\ n <= S /\ Len(sent') = S + 1 /\ Len(wire') = n + 1
      /\ \A i \in 1 .. S : sent'[i] = sent[i]
      /\ \A i \in 1 .. n : wire'[i] = wire[i]
      /\ sent'[S + 1] = x /\ wire'[n + 1] = [bytes |-> Bytes(x), body |-> Len(x.body)]
  <2> DEFINE e == [bytes |-> Bytes(x), body |-> Len(x.body)]
             R == [bytes : Seq(Byte), body : Nat]
  <2>1. wire' = Append(wire, e) /\ wire \in Seq(R)
    BY <1>1, <1>3
  <2>2. n <= S
    BY DEF OnWire, Waiting
  <2>3. Len(sent') = S + 1 /\ (\A i \in 1 .. S : sent'[i] = sent[i]) /\ sent'[S + 1] = x /\ S \in Nat
    BY <1>1, <1>3
  <2> HIDE DEF e, R
  <2>4. Len(wire') = n + 1 /\ (\A i \in 1 .. n : wire'[i] = wire[i]) /\ wire'[n + 1] = e /\ n \in Nat
    BY <2>1
  <2>5. wire'[n + 1] = [bytes |-> Bytes(x), body |-> Len(x.body)]
    BY <2>4 DEF e
  <2> QED
    BY <2>2, <2>3, <2>4, <2>5, Zenon
<1>5. Len(Bytes(x)) \in Nat /\ Len(Bytes(x)) >= 1 /\ Len(Bytes(x)) >= Len(x.body) /\ Len(x.body) \in Nat
  BY BytesLen
<1>6. ASSUME NEW i \in 1 .. Len(wire')
      PROVE  LET y == sent'[Len(sent') - Len(wire') + i]
                 w == wire'[i].bytes
             IN  /\ wire'[i].body = Len(y.body)
                 /\ Len(w) \in 1 .. Len(Bytes(y))
                 /\ i # 1 => Len(w) = Len(Bytes(y))
                 /\ \A j \in 1 .. Len(w) : w[j] = Bytes(y)[Len(Bytes(y)) - Len(w) + j]
                 /\ ~mode.cutBodies => Len(w) >= Len(y.body)
  <2>1. CASE i = n + 1
    <3>1. sent'[Len(sent') - Len(wire') + i] = x /\ wire'[i].bytes = Bytes(x) /\ wire'[i].body = Len(x.body)
      BY <1>4, <2>1
    <3>2. \A j \in 1 .. Len(Bytes(x)) : Len(Bytes(x)) - Len(Bytes(x)) + j = j
      BY <1>5
    <3> QED
      BY <1>5, <3>1, <3>2
  <2>2. CASE i # n + 1
    <3>1. i \in 1 .. n /\ S - n + i \in 1 .. S /\ Len(sent') - Len(wire') + i = S - n + i
      BY <1>4, <2>2
    <3>2. sent'[Len(sent') - Len(wire') + i] = sent[Len(sent) - Len(wire) + i] /\ wire'[i] = wire[i]
      BY <1>4, <3>1
    <3>3. i \in 1 .. Len(wire)
      BY <3>1
    <3> QED
      BY <3>2, <3>3, WirePart, Zenon
  <2> QED
    BY <2>1, <2>2
<1>7. OnWire'
  <2>1. Len(wire') <= Len(sent') /\ ~fin'
    BY <1>2, <1>4
  <2> QED
    BY <1>2, <1>6, <2>1 DEF OnWire, Waiting
<1>8. ASSUME NEW P, NEW K, Traced(P, K) PROVE Traced(P, K)'
  <2>1. Flow(P, K, sent', rx')
    BY <1>1, <1>2, <1>3, <1>8, FlowSend DEF Traced
  <2>2. Ends(P, K)
    BY <1>2, <1>8 DEF Traced
  <2>3. Ends(P, K)'
    <3> DEFINE p == P[Len(rx) + 1]
               k == K[Len(rx) + 1]
    <3>0. /\ wire = <<>> => p = S + 1 /\ k = 1
          /\ wire # <<>> => p = S - n + 1 /\ k = Len(Bytes(sent[p])) - Len(wire[1].bytes) + 1
      BY <2>2 DEF Ends
    <3> SUFFICES /\ wire' # <<>>
                 /\ p = Len(sent') - Len(wire') + 1
                 /\ k = Len(Bytes(sent'[p])) - Len(wire'[1].bytes) + 1
      BY <1>2 DEF Ends
    <3> HIDE DEF p, k
    <3>1. wire' # <<>>
      BY <1>4
    <3>2. CASE wire = <<>>
      <4>1. n = 0 /\ p = S + 1 /\ k = 1
        BY <3>0, <3>2
      <4>2. wire'[1] = [bytes |-> Bytes(x), body |-> Len(x.body)]
        BY <1>4, <4>1
      <4>3. wire'[1].bytes = Bytes(x)
        BY <4>2
      <4>4. sent'[p] = x
        BY <1>4, <4>1
      <4> QED
        BY <1>4, <1>5, <3>1, <4>1, <4>3, <4>4
    <3>3. CASE wire # <<>>
      <4>1. n >= 1 /\ wire'[1] = wire[1]
        BY <1>3, <1>4, <3>3
      <4>2. p = S - n + 1 /\ k = Len(Bytes(sent[p])) - Len(wire[1].bytes) + 1
        BY <3>0, <3>3
      <4>3. p = Len(sent') - Len(wire') + 1 /\ p \in 1 .. S
        BY <1>4, <4>1, <4>2
      <4>4. sent'[p] = sent[p]
        BY <1>4, <4>3
      <4>5. k = Len(Bytes(sent'[p])) - Len(wire'[1].bytes) + 1
        BY <4>1, <4>2, <4>4
      <4> QED
        BY <3>1, <4>3, <4>5
    <3> QED
      BY <3>2, <3>3
  <2>4. Place(P[1], K[1])
    BY <1>8 DEF Traced
  <2> DEFINE q == P[1]
             l == K[1]
  <2>5. Place(q, l)'
    <3>1. Place(q, l)
      BY <2>4
    <3> HIDE DEF q, l
    <3>2. Len(read) \in Nat /\ q = Len(read) + 1 /\ Len(read) <= S /\ \A i \in 1 .. Len(read) : read[i] = sent[i]
      BY <1>3, <3>1 DEF Place
    <3>3. \A i \in 1 .. Len(read) : read[i] = sent'[i]
      BY <1>4, <3>2
    <3>4. pc # "head" => Len(read) < S /\ Inside(sent[q], l) /\ sent'[q] = sent[q]
      BY <1>4, <3>1, <3>2 DEF Place
    <3>5. pc # "head" => Inside(sent[q], l)'
      BY <1>2, <3>4 DEF Inside
    <3>6. pc = "head" => l = 1
      BY <3>1 DEF Place
    <3> QED
      BY <1>2, <1>4, <3>2, <3>3, <3>4, <3>5, <3>6 DEF Place
  <2> QED
    BY <1>2, <2>1, <2>3, <2>5 DEF Traced
<1> QED
  BY <1>2, <1>7, <1>8 DEF Sound

\* What an arrival does to the sequence of what is under way.
LEMMA ArriveWire ==
  ASSUME TypeInv, Arrive
  PROVE  \E k \in 1 .. Len(wire[1].bytes) :
           /\ rx' = rx \o SubSeq(wire[1].bytes, 1, k)
           /\ mode.cutBodies \/ k = Len(wire[1].bytes) \/ Len(wire[1].bytes) - k >= wire[1].body
           /\ k = Len(wire[1].bytes) =>
                /\ Len(wire') = Len(wire) - 1
                /\ \A i \in 1 .. Len(wire) - 1 : wire'[i] = wire[i + 1]
           /\ k # Len(wire[1].bytes) =>
                /\ Len(wire') = Len(wire) /\ wire'[1].body = wire[1].body
                /\ wire'[1].bytes = SubSeq(wire[1].bytes, k + 1, Len(wire[1].bytes))
                /\ \A i \in 2 .. Len(wire) : wire'[i] = wire[i]
           /\ wire' = <<>> <=> Len(wire') = 0
<1> DEFINE R == [bytes : Seq(Byte), body : Nat]
           first == Head(wire)
           n == Len(first.bytes)
<1>1. wire # <<>> /\ wire \in Seq(R)
  BY DEF Arrive, TypeInv, TypeOK
<1>2. /\ first = wire[1] /\ 1 \in 1 .. Len(wire) /\ first \in R
      /\ Tail(wire) \in Seq(R) /\ Len(Tail(wire)) = Len(wire) - 1
      /\ \A i \in 1 .. Len(wire) - 1 : Tail(wire)[i] = wire[i + 1]
  <2> HIDE DEF R
  <2> QED
    BY <1>1, HeadTailProperties
<1>3. first.bytes \in Seq(Byte) /\ first.body \in Nat /\ n \in Nat
  BY <1>2
<1>4. PICK k \in 1 .. n :
        /\ mode.cutBodies \/ n - k = 0 \/ n - k >= first.body
        /\ rx' = rx \o SubSeq(first.bytes, 1, k)
        /\ wire' = IF n - k = 0 THEN Tail(wire)
                   ELSE [wire EXCEPT ![1].bytes = SubSeq(@, k + 1, Len(@))]
  BY DEF Arrive
<1> DEFINE u == SubSeq(first.bytes, k + 1, n)
           r == [first EXCEPT !.bytes = u]
<1>5. r \in R /\ r.bytes = u /\ r.body = first.body
  <2>1. k \in 0 .. n
    BY <1>3
  <2>2. u \in Seq(Byte)
    BY <1>3, <2>1, Cut
  <2> HIDE DEF u
  <2> QED
    BY <1>2, <2>2
<1>6. n - k = 0 => wire' = Tail(wire)
  BY <1>4
<1>7. n - k # 0 => wire' = [wire EXCEPT ![1] = r]
  BY <1>2, <1>4
<1>8. n - k = 0 <=> k = n
  BY <1>3
<1> HIDE DEF r, R
<1>9. ASSUME n - k # 0
      PROVE  wire' \in Seq(R) /\ Len(wire') = Len(wire) /\ wire'[1] = r
             /\ \A i \in 2 .. Len(wire) : wire'[i] = wire[i]
  <2>1. /\ [wire EXCEPT ![1] = r] \in Seq(R)
        /\ Len([wire EXCEPT ![1] = r]) = Len(wire)
        /\ \A j \in 1 .. Len(wire) : [wire EXCEPT ![1] = r][j] = IF j = 1 THEN r ELSE wire[j]
    BY <1>1, <1>2, <1>5, ExceptSeq
  <2>2. \A i \in 2 .. Len(wire) : i \in 1 .. Len(wire) /\ i # 1
    OBVIOUS
  <2> QED
    BY <1>2, <1>7, <1>9, <2>1, <2>2
<1>10. wire' \in Seq(R)
  BY <1>2, <1>6, <1>9
<1>11. wire' = <<>> <=> Len(wire') = 0
  BY <1>10, EmptySeq
<1>12. /\ k = n => /\ Len(wire') = Len(wire) - 1
                   /\ \A i \in 1 .. Len(wire) - 1 : wire'[i] = wire[i + 1]
       /\ k # n => /\ Len(wire') = Len(wire) /\ wire'[1].body = first.body
                   /\ wire'[1].bytes = u
                   /\ \A i \in 2 .. Len(wire) : wire'[i] = wire[i]
  BY <1>2, <1>5, <1>6, <1>8, <1>9
<1> QED
  BY <1>2, <1>4, <1>8, <1>11, <1>12

LEMMA ArriveSound ==
  ASSUME TypeInv, OnWire, Sound, Arrive
  PROVE  OnWire' /\ Sound'
<1> DEFINE n == Len(wire)
           S == Len(sent)
           b == wire[1].bytes
           m == Len(b)
           p == S - n + 1
           x == sent[p]
           l == Len(Bytes(x))
<1>1. /\ sent \in Seq(Packet) /\ rx \in Seq(Byte)
      /\ UNCHANGED <<mode, sent, fin, pc, head, len, value, body, read, failed, ignored>>
  BY DEF TypeInv, TypeOK, Arrive, reader
<1>2. n \in Nat /\ n >= 1 /\ S \in Nat /\ n <= S /\ p \in 1 .. S /\ ~fin /\ wire # <<>>
  <2> DEFINE R == [bytes : Seq(Byte), body : Nat]
  <2>1. wire # <<>> /\ wire \in Seq(R)
    BY DEF Arrive, TypeInv, TypeOK
  <2> HIDE DEF R
  <2> QED
    BY <1>1, <2>1 DEF OnWire, Waiting
<1>3. x \in Packet /\ b \in Seq(Byte) /\ m \in Nat
  <2>1. 1 \in 1 .. Len(wire)
    BY <1>2
  <2>2. sent[Len(sent) - Len(wire) + 1] \in Packet /\ wire[1].bytes \in Seq(Byte)
    BY <2>1, WireType
  <2> QED
    BY <2>2
<1>4. /\ wire[1].body = Len(x.body) /\ m \in 1 .. l /\ (~mode.cutBodies => m >= Len(x.body))
      /\ \A j \in 1 .. m : b[j] = Bytes(x)[l - m + j]
  <2>1. 1 \in 1 .. Len(wire)
    BY <1>2
  <2> QED
    BY <2>1, WirePart
<1>5. Bytes(x) \in Seq(Byte) /\ l \in Nat /\ Len(x.body) \in Nat
  BY <1>3, BytesLen
<1> DEFINE Gone(k) == /\ Len(wire') = n - 1
                      /\ \A i \in 1 .. n - 1 : wire'[i] = wire[i + 1]
           Left(k) == /\ Len(wire') = n /\ wire'[1].body = wire[1].body
                      /\ wire'[1].bytes = SubSeq(b, k + 1, m)
                      /\ \A i \in 2 .. n : wire'[i] = wire[i]
<1>6. PICK k \in 1 .. m :
        /\ rx' = rx \o SubSeq(b, 1, k)
        /\ mode.cutBodies \/ k = m \/ m - k >= wire[1].body
        /\ k = m => Gone(k)
        /\ k # m => Left(k)
        /\ wire' = <<>> <=> Len(wire') = 0
  BY ArriveWire
<1> DEFINE t == SubSeq(b, 1, k)
           u == SubSeq(b, k + 1, m)
           c == l - m + 1
<1>7. /\ k \in Nat /\ k >= 1 /\ k <= m
      /\ t \in Seq(Byte) /\ Len(t) = k /\ (\A j \in 1 .. k : t[j] = b[j])
      /\ u \in Seq(Byte) /\ Len(u) = m - k /\ (\A j \in 1 .. m - k : u[j] = b[k + j])
  <2>1. k \in 0 .. Len(b) /\ k \in Nat /\ k >= 1 /\ k <= m
    BY <1>3
  <2>2. b \in Seq(Byte)
    BY <1>3
  <2> HIDE DEF b
  <2> QED
    BY <2>1, <2>2, Cut
<1>8. n = Len(wire) /\ S = Len(sent) /\ m = Len(wire[1].bytes) /\ p = S - n + 1 /\ x = sent[p]
      /\ l = Len(Bytes(sent[p])) /\ c = l - m + 1
  OBVIOUS
<1>9. \A i \in 1 .. n - 1 : /\ i + 1 \in 1 .. n /\ i + 1 # 1
                            /\ S - (n - 1) + i = S - n + (i + 1)
  BY <1>2
<1>10. OnWire'
  <2>1. Len(wire') <= S /\ ~fin'
    BY <1>1, <1>2, <1>6
  <2>2. ASSUME NEW i \in 1 .. Len(wire')
        PROVE  LET y == sent'[Len(sent') - Len(wire') + i]
                   w == wire'[i].bytes
               IN  /\ wire'[i].body = Len(y.body)
                   /\ Len(w) \in 1 .. Len(Bytes(y))
                   /\ i # 1 => Len(w) = Len(Bytes(y))
                   /\ \A j \in 1 .. Len(w) : w[j] = Bytes(y)[Len(Bytes(y)) - Len(w) + j]
                   /\ ~mode'.cutBodies => Len(w) >= Len(y.body)
    <3>1. CASE k = m
      <4>1. i \in 1 .. n - 1 /\ wire'[i] = wire[i + 1] /\ Len(wire') = n - 1
        BY <1>6, <3>1
      <4>2. sent'[Len(sent') - Len(wire') + i] = sent[Len(sent) - Len(wire) + (i + 1)]
        BY <1>1, <1>9, <4>1
      <4>3. i + 1 \in 1 .. Len(wire) /\ i + 1 # 1
        BY <1>9, <4>1
      <4> QED
        BY <1>1, <4>1, <4>2, <4>3, WirePart
    <3>2. CASE k # m /\ i # 1
      <4>1. i \in 2 .. n /\ wire'[i] = wire[i] /\ Len(wire') = n
        BY <1>2, <1>6, <3>2
      <4>2. sent'[Len(sent') - Len(wire') + i] = sent[Len(sent) - Len(wire) + i]
        BY <1>1, <4>1
      <4>3. i \in 1 .. Len(wire) /\ i # 1
        BY <3>2, <4>1
      <4> QED
        BY <1>1, <4>1, <4>2, <4>3, WirePart
    <3>3. CASE k # m /\ i = 1
      <4>1. wire'[i].bytes = u /\ wire'[i].body = wire[1].body /\ Len(wire') = n
        BY <1>6, <3>3
      <4>2. sent'[Len(sent') - Len(wire') + i] = x
        BY <1>1, <3>3, <4>1
      <4>3. Len(u) \in 1 .. l
        <5> HIDE DEF m, l, b, u, x
        <5> QED
          BY <1>3, <1>4, <1>5, <1>7, <3>3
      <4>4. ASSUME NEW j \in 1 .. Len(u) PROVE u[j] = Bytes(x)[l - Len(u) + j]
        <5>1. k + j \in 1 .. m /\ j \in 1 .. m - k /\ l - m + (k + j) = l - Len(u) + j
          <6> HIDE DEF l, m, u, x, b
          <6> QED
            BY <1>3, <1>5, <1>7
        <5> HIDE DEF l, m, u, x, b
        <5> QED
          BY <1>4, <1>7, <5>1
      <4>5. ~mode.cutBodies => Len(u) >= Len(x.body)
        BY <1>4, <1>6, <1>7, <3>3
      <4> HIDE DEF u, x, l
      <4>6. l = Len(Bytes(x))
        BY DEF l
      <4> QED
        BY <1>1, <1>4, <3>3, <4>1, <4>2, <4>3, <4>4, <4>5, <4>6
    <3> QED
      BY <3>1, <3>2, <3>3
  <2>3. fin' => wire' = <<>>
    BY <2>1
  <2>4. Len(wire') <= Len(sent')
    BY <1>1, <2>1
  <2> QED
    BY <2>2, <2>3, <2>4 DEF OnWire, Waiting
<1>11. ASSUME NEW P, NEW K, Traced(P, K) PROVE \E Q, L : Traced(Q, L)'
  <2>1. Flow(P, K, sent, rx) /\ Place(P[1], K[1]) /\ P[Len(rx) + 1] = p /\ K[Len(rx) + 1] = c
    BY <1>2, <1>11 DEF Traced, Ends
  <2>2. c \in Nat /\ c >= 1 /\ c + k <= l + 1 /\ t # <<>>
    <3>1. /\ l \in Nat /\ m \in Nat /\ 1 <= m /\ m <= l /\ k \in Nat /\ k >= 1 /\ k <= m
          /\ t \in Seq(Byte) /\ Len(t) = k
      BY <1>3, <1>4, <1>5, <1>7
    <3> HIDE DEF l, m, t
    <3> QED
      BY <3>1
  <2>3. ASSUME NEW j \in 1 .. Len(t) PROVE t[j] = Bytes(sent[p])[c + j - 1]
    <3>1. j \in 1 .. k /\ j \in 1 .. m /\ c + j - 1 = l - m + j
      BY <1>3, <1>5, <1>7
    <3>2. t[j] = b[j] /\ b[j] = Bytes(x)[l - m + j]
      BY <1>4, <1>7, <3>1
    <3> QED
      BY <3>1, <3>2
  <2>4. p \in 1 .. Len(sent) /\ Bytes(sent[p]) \in Seq(Byte) /\ Len(t) = k /\ l = Len(Bytes(sent[p]))
        /\ t \in Seq(Byte) /\ rx' = rx \o t
    BY <1>2, <1>5, <1>6, <1>7
  <2>5. c + k - 1 < l <=> k # m
    <3> HIDE DEF m, l, b, x
    <3> QED
      BY <1>3, <1>5, <1>7
  <2>6. c + k - 1 + 1 = c + k
    BY <2>2, <1>7
  <2> HIDE DEF p, c, t, l
  <2>7. PICK Q, L : /\ Flow(Q, L, sent, rx \o t) /\ Q[1] = P[1] /\ L[1] = K[1]
                    /\ Q[Len(rx \o t) + 1] = NextPacket(sent, p, c + Len(t) - 1)
                    /\ L[Len(rx \o t) + 1] = NextByte(sent, p, c + Len(t) - 1)
    <3>1. c + Len(t) <= Len(Bytes(sent[p])) + 1
      BY <2>2, <2>4
    <3>2. rx \in Seq(Byte)
      BY <1>1
    <3>3. GoesOn(P, K, sent, rx, t, p, c)
      BY <2>1, <2>2, <2>3, <2>4, <3>1, <3>2 DEF GoesOn
    <3> QED
      BY <2>1, <3>3, FlowAdd
  <2>8. /\ k # m => Q[Len(rx') + 1] = p /\ L[Len(rx') + 1] = c + k
        /\ k = m => Q[Len(rx') + 1] = p + 1 /\ L[Len(rx') + 1] = 1
    BY <2>4, <2>5, <2>6, <2>7 DEF NextPacket, NextByte
  <2>9. Ends(Q, L)'
    <3>1. CASE k = m
      <4>1. Len(wire') = n - 1 /\ (\A i \in 1 .. n - 1 : wire'[i] = wire[i + 1]) /\ Q[Len(rx') + 1] = p + 1
            /\ L[Len(rx') + 1] = 1
        BY <1>6, <2>8, <3>1
      <4>2. CASE wire' = <<>>
        <5>1. n = 1 /\ p + 1 = Len(sent') + 1
          <6>1. Len(wire') = 0
            BY <1>6, <4>2
          <6>2. n = 1
            BY <1>2, <4>1, <6>1
          <6> QED
            BY <1>1, <1>2, <6>2 DEF p
        <5> QED
          BY <4>1, <4>2, <5>1 DEF Ends
      <4>3. CASE wire' # <<>>
        <5>1. n >= 2 /\ wire'[1] = wire[2] /\ p + 1 \in 1 .. S /\ p + 1 = Len(sent') - Len(wire') + 1
              /\ 2 \in 1 .. Len(wire) /\ Len(sent) - Len(wire) + 2 = p + 1
          <6>1. n >= 2
            BY <1>2, <1>6, <4>1, <4>3
          <6> QED
            BY <1>1, <1>2, <4>1, <6>1 DEF p
        <5>2. Len(wire[2].bytes) = Len(Bytes(sent[p + 1]))
          <6>1. 2 # 1 => Len(wire[2].bytes) = Len(Bytes(sent[Len(sent) - Len(wire) + 2]))
            BY <5>1, WirePart
          <6> QED
            BY <5>1, <6>1
        <5>3. Len(Bytes(sent[p + 1])) \in Nat
          <6>1. sent[p + 1] \in Packet
            BY <1>1, <5>1
          <6> QED
            BY <6>1, BytesLen
        <5>4. 1 = Len(Bytes(sent'[p + 1])) - Len(wire'[1].bytes) + 1
          BY <1>1, <5>1, <5>2, <5>3
        <5> QED
          BY <4>1, <4>3, <5>1, <5>4 DEF Ends
      <4> QED
        BY <4>2, <4>3
    <3>2. CASE k # m
      <4>1. Len(wire') = n /\ wire'[1].bytes = u /\ Q[Len(rx') + 1] = p /\ L[Len(rx') + 1] = c + k
        BY <1>6, <2>8, <3>2
      <4>2. wire' # <<>> /\ p = Len(sent') - Len(wire') + 1
        BY <1>1, <1>2, <1>6, <4>1 DEF p
      <4>3. c + k = l - Len(u) + 1
        <5> HIDE DEF m, b, u, x
        <5> QED
          BY <1>3, <1>5, <1>7, <1>8
      <4>4. l = Len(Bytes(sent'[p]))
        BY <1>1, <2>4
      <4> QED
        BY <4>1, <4>2, <4>3, <4>4 DEF Ends
    <3> QED
      BY <3>1, <3>2
  <2>10. Place(Q[1], L[1])'
    <3>1. Place(P[1], K[1])' = Place(P[1], K[1])
      BY <1>1 DEF Place, Inside
    <3> QED
      BY <2>1, <2>7, <3>1
  <2>11. Flow(Q, L, sent', rx')
    BY <1>1, <2>4, <2>7
  <2> QED
    BY <2>9, <2>10, <2>11 DEF Traced
<1> QED
  BY <1>1, <1>10, <1>11 DEF Sound

LEMMA BreakSound ==
  ASSUME TypeInv, OnWire, Sound, Break
  PROVE  OnWire' /\ Sound'
<1>1. /\ UNCHANGED <<mode, sent, rx, pc, head, len, value, body, read, failed, ignored>>
      /\ fin' = TRUE /\ wire' = <<>>
  BY DEF Break, reader
<1>2. OnWire'
  <2>1. Len(wire') <= Len(sent') /\ \A i \in 1 .. Len(wire') : FALSE
    <3>1. sent \in Seq(Packet)
      BY DEF TypeInv, TypeOK
    <3>2. Len(sent) \in Nat
      BY <3>1
    <3>3. Len(wire') = 0
      BY <1>1
    <3> QED
      BY <1>1, <3>2, <3>3
  <2> QED
    BY <1>1, <2>1 DEF OnWire, Waiting
<1>3. ASSUME NEW P, NEW K, Traced(P, K) PROVE Traced(P, K)'
  BY <1>1, <1>3 DEF Traced, Place, Inside
<1> QED
  BY <1>1, <1>2, <1>3 DEF Sound

\* The reader takes the first k bytes of rx.
LEMMA Taken ==
  ASSUME TypeInv, NEW P, NEW K, Traced(P, K), NEW k \in 0 .. Len(rx),
         rx' = SubSeq(rx, k + 1, Len(rx)), UNCHANGED <<sent, wire, fin>>,
         Place(P[k + 1], K[k + 1])'
  PROVE  \E Q, L : Traced(Q, L)'
<1> DEFINE n == Len(rx) - k
           Q == [i \in 1 .. n + 1 |-> P[k + i]]
           L == [i \in 1 .. n + 1 |-> K[k + i]]
<1>1. rx \in Seq(Byte) /\ Len(rx) \in Nat
  BY DEF TypeInv, TypeOK
<1>2. Len(rx') = n /\ n \in Nat
  BY <1>1, Cut
<1>3. Flow(Q, L, sent', rx')
  BY <1>1, FlowTake DEF Traced
<1>4. \E A, B : /\ Flow(A, B, sent', rx') /\ A[1] = P[k + 1] /\ B[1] = K[k + 1]
                /\ A[Len(rx') + 1] = P[Len(rx) + 1] /\ B[Len(rx') + 1] = K[Len(rx) + 1]
  <2>1. Q[1] = P[k + 1] /\ L[1] = K[k + 1] /\ Q[n + 1] = P[Len(rx) + 1] /\ L[n + 1] = K[Len(rx) + 1]
    BY <1>1, <1>2
  <2> HIDE DEF Q, L
  <2> QED
    BY <1>2, <1>3, <2>1
<1> HIDE DEF Q, L
<1>5. PICK A, B : /\ Flow(A, B, sent', rx') /\ A[1] = P[k + 1] /\ B[1] = K[k + 1]
                  /\ A[Len(rx') + 1] = P[Len(rx) + 1] /\ B[Len(rx') + 1] = K[Len(rx) + 1]
  BY <1>4
<1>6. (~fin => Ends(A, B))'
  BY <1>5 DEF Traced, Ends
<1>7. Place(A[1], B[1])'
  BY <1>5
<1> QED
  BY <1>5, <1>6, <1>7 DEF Traced

\* Where the reader stands.
LEMMA Standing ==
  ASSUME TypeInv, NEW P, NEW K, Traced(P, K)
  PROVE  /\ Len(read) \in Nat /\ Len(sent) \in Nat /\ P[1] = Len(read) + 1 /\ P[1] \in Nat /\ K[1] \in Nat
         /\ pc # "head" \/ rx # <<>> => /\ P[1] \in 1 .. Len(sent) /\ sent[P[1]] \in Packet
         /\ rx # <<>> => /\ Len(rx) \in Nat /\ Len(rx) >= 1
                         /\ K[1] \in 1 .. Len(Bytes(sent[P[1]])) /\ rx[1] = Bytes(sent[P[1]])[K[1]]
                         /\ P[2] = NextPacket(sent, P[1], K[1]) /\ K[2] = NextByte(sent, P[1], K[1])
         /\ pc # "head" => Inside(sent[P[1]], K[1])
         /\ pc = "head" => K[1] = 1
<1>1. /\ rx \in Seq(Byte) /\ Len(rx) \in Nat /\ read \in Seq([head : Byte, body : Seq(Byte)])
      /\ sent \in Seq(Packet) /\ Len(sent) \in Nat
  BY DEF TypeInv, TypeOK
<1>2. Len(read) \in Nat
  BY <1>1
<1>3. /\ P[1] = Len(read) + 1 /\ (pc = "head" => K[1] = 1)
      /\ (pc # "head" => Len(read) < Len(sent) /\ Inside(sent[P[1]], K[1]))
  BY DEF Traced, Place
<1>4. /\ P \in [1 .. Len(rx) + 1 -> Nat] /\ K \in [1 .. Len(rx) + 1 -> Nat]
      /\ \A i \in 1 .. Len(rx) :
           /\ P[i] \in 1 .. Len(sent) /\ K[i] \in 1 .. Len(Bytes(sent[P[i]]))
           /\ rx[i] = Bytes(sent[P[i]])[K[i]]
           /\ P[i + 1] = NextPacket(sent, P[i], K[i]) /\ K[i + 1] = NextByte(sent, P[i], K[i])
  BY DEF Traced, Flow
<1>5. 1 \in 1 .. Len(rx) + 1 /\ 1 + 1 = 2
  BY <1>1
<1>6. rx # <<>> => 1 \in 1 .. Len(rx) /\ Len(rx) >= 1
  BY <1>1
<1>7. P[1] \in Nat /\ K[1] \in Nat
  BY <1>4, <1>5
<1>8. pc # "head" \/ rx # <<>> => P[1] \in 1 .. Len(sent)
  <2>1. pc # "head" => P[1] \in 1 .. Len(sent)
    BY <1>1, <1>2, <1>3
  <2>2. rx # <<>> => P[1] \in 1 .. Len(sent)
    BY <1>4, <1>6
  <2> QED
    BY <2>1, <2>2
<1>9. rx # <<>> => /\ K[1] \in 1 .. Len(Bytes(sent[P[1]])) /\ rx[1] = Bytes(sent[P[1]])[K[1]]
                   /\ P[2] = NextPacket(sent, P[1], K[1]) /\ K[2] = NextByte(sent, P[1], K[1])
  <2>1. ASSUME rx # <<>>
        PROVE  /\ K[1] \in 1 .. Len(Bytes(sent[P[1]])) /\ rx[1] = Bytes(sent[P[1]])[K[1]]
               /\ P[1 + 1] = NextPacket(sent, P[1], K[1]) /\ K[1 + 1] = NextByte(sent, P[1], K[1])
    <3>1. 1 \in 1 .. Len(rx)
      BY <1>6, <2>1
    <3> QED
      BY <1>4, <3>1
  <2> QED
    BY <1>5, <2>1
<1>10. P[1] \in 1 .. Len(sent) => sent[P[1]] \in Packet
  BY <1>1
<1> QED
  BY <1>1, <1>2, <1>3, <1>6, <1>7, <1>8, <1>9, <1>10

\* A call that returns the packet it stands in.
LEMMA Returned ==
  ASSUME TypeInv, NEW p \in 1 .. Len(sent), NEW k, Place(p, k), Return(sent[p]), UNCHANGED sent
  PROVE  Place(p + 1, 1)'
<1>1. read \in Seq([head : Byte, body : Seq(Byte)]) /\ sent \in Seq(Packet)
  BY DEF TypeInv, TypeOK
<1>2. /\ Len(read) \in Nat /\ p = Len(read) + 1 /\ \A i \in 1 .. Len(read) : read[i] = sent[i]
      /\ Len(sent) \in Nat
  BY <1>1 DEF Place
<1>3. read' = Append(read, sent[p]) /\ pc' = "head"
  BY DEF Return
<1> DEFINE x == sent[p]
<1>4. x \in [head : Byte, body : Seq(Byte)]
  BY <1>1, FramingAssumption
<1>5. Len(read') = p /\ (\A i \in 1 .. Len(read) : read'[i] = read[i]) /\ read'[p] = x
  <2> DEFINE R == [head : Byte, body : Seq(Byte)]
  <2>1. read \in Seq(R) /\ x \in R /\ read' = Append(read, x)
    BY <1>1, <1>3, <1>4
  <2> HIDE DEF x, R
  <2> QED
    BY <1>2, <2>1
<1>6. \A i \in 1 .. p : i = p \/ i \in 1 .. Len(read)
  BY <1>2
<1>7. \A i \in 1 .. Len(read') : read'[i] = sent'[i]
  BY <1>2, <1>5, <1>6
<1> QED
  BY <1>2, <1>3, <1>5, <1>7 DEF Place

LEMMA ReadHeadSound ==
  ASSUME TypeInv, NEW P, NEW K, Traced(P, K), ReadHead
  PROVE  \E Q, L : Traced(Q, L)'
<1> DEFINE x == sent[P[1]]
<1>1. /\ pc = "head" /\ rx # <<>> /\ head' = Head(rx) /\ rx' = Tail(rx) /\ pc' = "len" /\ len' = 0
      /\ value' = 0 /\ UNCHANGED <<mode, sent, wire, fin, read>>
  BY DEF ReadHead
<1>2. /\ Len(read) \in Nat /\ Len(sent) \in Nat /\ P[1] = Len(read) + 1 /\ K[1] = 1
      /\ P[1] \in 1 .. Len(sent) /\ x \in Packet
      /\ rx[1] = Bytes(x)[1]
      /\ P[2] = NextPacket(sent, P[1], 1) /\ K[2] = NextByte(sent, P[1], 1)
      /\ Len(rx) \in Nat /\ Len(rx) >= 1
  BY <1>1, Standing
<1>3. Len(Bytes(x)) \in Nat /\ Len(Bytes(x)) >= 2 /\ Len(x.body) \in Nat
  BY <1>2, BytesLen
<1>4. P[2] = P[1] /\ K[2] = 2
  BY <1>2, <1>3 DEF NextPacket, NextByte
<1>5. head' = x.head
  <2>1. Head(rx) = rx[1]
    BY <1>1
  <2>2. Bytes(x)[1] = x.head
    BY <1>2, BytesType
  <2> QED
    BY <1>1, <1>2, <2>1, <2>2
<1>6. \E c : IsCode(Len(x.body), Encode[Len(x.body)], c) /\ Len(x.body) = 0 + Power[0] * c[0]
  <2>1. PICK c : IsCode(Len(x.body), Encode[Len(x.body)], c)
    BY <1>3, Code
  <2>2. c[0] = Len(x.body) /\ Power[0] = 1
    BY <2>1, PowerAssumption DEF IsCode
  <2> QED
    BY <1>3, <2>1, <2>2
<1>7. 0 < Len(Encode[Len(x.body)])
  BY <1>2, FieldLen
<1>8. Inside(x, 2)'
  <2>1. (x.head)' = x.head /\ x' = x
    BY <1>1
  <2> HIDE DEF x
  <2> QED
    BY <1>1, <1>5, <1>6, <1>7, <2>1 DEF Inside
<1>9. Place(P[2], K[2])'
  <2>1. /\ P[2] = Len(read') + 1 /\ Len(read') < Len(sent')
        /\ \A i \in 1 .. Len(read') : read'[i] = sent'[i]
    <3>1. \A i \in 1 .. Len(read) : read[i] = sent[i]
      BY DEF Traced, Place
    <3> QED
      BY <1>1, <1>2, <1>4, <3>1
  <2>2. Inside(sent[P[2]], K[2])'
    BY <1>4, <1>8
  <2> QED
    BY <1>1, <1>2, <2>1, <2>2 DEF Place
<1>10. rx' = SubSeq(rx, 1 + 1, Len(rx))
  <2>1. rx \in Seq(Byte)
    BY DEF TypeInv, TypeOK
  <2> QED
    BY <1>1, <2>1, TailIs
<1> QED
  <2>1. 1 \in 0 .. Len(rx) /\ 1 + 1 = 2
    BY <1>2
  <2> QED
    BY <1>1, <1>9, <1>10, <2>1, Taken

\* A digit read: the digits so far and the quotient left make the length of x, and the
\* last byte of the field ends it.
Digits(P, K, x) ==
  LET n == Len(x.body)
      e == Encode[n]
  IN  /\ x \in Packet /\ head = x.head /\ len < Len(e) /\ K[1] = 2 + len
      /\ More(rx[1]) <=> len + 1 < Len(e)
      /\ \E c : IsCode(n, e, c) /\ n = value' + Power[len + 1] * c[len + 1]
      /\ len + 1 = Len(e) => value' = n

LEMMA LengthDigit ==
  ASSUME TypeInv, NEW P, NEW K, Traced(P, K), ReadLength
  PROVE  Digits(P, K, sent[P[1]])
<1>0. PICK x : x = sent[P[1]]
  OBVIOUS
<1> DEFINE e == Encode[Len(x.body)]
           n == Len(x.body)
           b == rx[1]
<1>1. /\ pc = "len" /\ rx # <<>> /\ rx \in Seq(Byte) /\ rx' = Tail(rx) /\ len' = len + 1 /\ len \in 0 .. MaxLenBytes - 1
      /\ value \in Nat /\ body = <<>> /\ body' = <<>>
      /\ UNCHANGED <<mode, sent, wire, fin, head>>
  <2>1. /\ pc = "len" /\ rx # <<>> /\ rx' = Tail(rx) /\ len' = len + 1 /\ len < MaxLenBytes
        /\ UNCHANGED <<mode, sent, wire, fin, head, body>>
    BY DEF ReadLength
  <2>2. rx \in Seq(Byte) /\ len \in 0 .. MaxLenBytes /\ value \in 0 .. (Power[MaxLenBytes] - 1) /\ body = <<>>
    BY <2>1 DEF TypeInv, TypeOK
  <2> QED
    BY <2>1, <2>2, BytesAssumption
<1>2. rx' = SubSeq(rx, 1 + 1, Len(rx)) /\ Head(rx) = b /\ Len(rx) \in Nat /\ Len(rx) >= 1
  BY <1>1, TailIs
<1>3. /\ Len(read) \in Nat /\ Len(sent) \in Nat /\ P[1] = Len(read) + 1 /\ K[1] \in Nat
      /\ P[1] \in 1 .. Len(sent) /\ x \in Packet /\ Inside(x, K[1])
      /\ b = Bytes(x)[K[1]]
      /\ P[2] = NextPacket(sent, P[1], K[1]) /\ K[2] = NextByte(sent, P[1], K[1])
  BY <1>0, <1>1, Standing
<1>4. /\ head = x.head /\ len < Len(e) /\ K[1] = 2 + len
      /\ \E c : IsCode(n, e, c) /\ n = value + Power[len] * c[len]
  BY <1>1, <1>3 DEF Inside
<1>5. PICK c : IsCode(n, e, c) /\ n = value + Power[len] * c[len]
  BY <1>4
<1>6. /\ x = [head |-> x.head, body |-> x.body] /\ n \in Nat /\ Len(e) \in Nat
      /\ Len(Bytes(x)) = 1 + Len(e) + n /\ x.body \in Seq(Byte)
      /\ \A i \in 1 .. Len(e) : Bytes(x)[1 + i] = e[i]
  BY <1>3, BytesType
<1>7. len + 1 \in 1 .. Len(e) /\ 2 + len = 1 + (len + 1) /\ (len + 1) - 1 = len
  <2>1. len \in Nat /\ len < Len(e) /\ Len(e) \in Nat
    BY <1>1, <1>4, <1>6
  <2> HIDE DEF e
  <2> QED
    BY <2>1
<1>8. b = e[len + 1]
  BY <1>3, <1>4, <1>6, <1>7
<1>9. /\ c[len] = Base * c[len + 1] + Digit(b) /\ (More(b) <=> len + 1 < Len(e))
      /\ c[len + 1] \in Nat
      /\ (len + 1 = Len(e) => c[len + 1] = 0)
  <2> HIDE DEF e, n
  <2>1. /\ c[(len + 1) - 1] = Base * c[len + 1] + Digit(e[len + 1])
        /\ (More(e[len + 1]) <=> len + 1 < Len(e))
        /\ c \in [0 .. Len(e) -> Nat] /\ c[Len(e)] = 0
    BY <1>5, <1>7 DEF IsCode
  <2>2. len + 1 \in 0 .. Len(e)
    BY <1>6, <1>7
  <2> QED
    BY <1>7, <1>8, <2>1, <2>2
<1>10. value' = value + Digit(b) * Power[len]
  BY <1>2 DEF ReadLength
<1>11. n = value' + Power[len + 1] * c[len + 1]
  <2> DEFINE d == Digit(b)
             w == Power[len]
             y == c[len + 1]
  <2>1. w \in Nat /\ Power[len + 1] = w * Base
    <3>1. len \in 0 .. MaxLenBytes
      BY <1>1, BytesAssumption
    <3> QED
      BY <1>1, <3>1, PowerAssumption
  <2>2. d \in Nat
    <3>1. b \in Byte
      BY <1>1, <1>2
    <3>2. Digit(b) \in 0 .. Base - 1
      BY <3>1, ByteType
    <3> QED
      BY <3>2
  <2>3. n = value + w * (Base * y + d) /\ y \in Nat /\ value' = value + d * w /\ Base \in Nat /\ value \in Nat
    BY <1>1, <1>5, <1>9, <1>10, BytesAssumption
  <2> HIDE DEF d, w, y, n
  <2>4. w * (Base * y + d) = (w * Base) * y + d * w
    BY <2>1, <2>2, <2>3
  <2>5. (w * Base) * y \in Nat /\ d * w \in Nat
    BY <2>1, <2>2, <2>3
  <2> QED
    BY <2>1, <2>3, <2>4, <2>5 DEF y
<1>12. ASSUME len + 1 = Len(e) PROVE value' = n
  <2>2. c[len + 1] = 0 /\ Power[len + 1] \in Nat
    <3>1. len + 1 \in 0 .. MaxLenBytes
      BY <1>1, BytesAssumption
    <3> QED
      BY <1>9, <1>12, <3>1, Powers
  <2>3. Power[len + 1] * c[len + 1] = 0
    BY <2>2
  <2>4. value' \in Int
    <3>1. Digit(b) \in 0 .. Base - 1
      <4>1. b \in Byte
        BY <1>1, <1>2
      <4> QED
        BY <4>1, ByteType
    <3>2. Power[len] \in Nat
      <4>1. len \in 0 .. MaxLenBytes
        BY <1>1, BytesAssumption
      <4> QED
        BY <4>1, Powers
    <3>3. Digit(b) \in Nat
      BY <3>1
    <3> QED
      BY <1>1, <1>10, <3>2, <3>3
  <2> QED
    BY <1>11, <1>12, <2>3, <2>4
<1> HIDE DEF e, n
<1>13. n = Len(x.body) /\ e = Encode[n]
  BY DEF n, e
<1>14. Digits(P, K, x)
  BY <1>2, <1>3, <1>4, <1>5, <1>9, <1>11, <1>12, <1>13 DEF Digits
<1> QED
  BY <1>0, <1>14

LEMMA ReadLengthSound ==
  ASSUME TypeInv, NEW P, NEW K, Traced(P, K), ReadLength, ~failed'
  PROVE  \E Q, L : Traced(Q, L)'
<1>0. PICK x : x = sent[P[1]]
  OBVIOUS
<1> DEFINE e == Encode[Len(x.body)]
           n == Len(x.body)
           b == rx[1]
<1>1. /\ pc = "len" /\ rx # <<>> /\ rx \in Seq(Byte) /\ rx' = Tail(rx) /\ len' = len + 1 /\ len \in 0 .. MaxLenBytes - 1
      /\ value \in Nat /\ body = <<>> /\ body' = <<>>
      /\ UNCHANGED <<mode, sent, wire, fin, head>>
  <2>1. /\ pc = "len" /\ rx # <<>> /\ rx' = Tail(rx) /\ len' = len + 1 /\ len < MaxLenBytes
        /\ UNCHANGED <<mode, sent, wire, fin, head, body>>
    BY DEF ReadLength
  <2>2. rx \in Seq(Byte) /\ len \in 0 .. MaxLenBytes /\ value \in 0 .. (Power[MaxLenBytes] - 1) /\ body = <<>>
    BY <2>1 DEF TypeInv, TypeOK
  <2> QED
    BY <2>1, <2>2, BytesAssumption
<1>2. rx' = SubSeq(rx, 1 + 1, Len(rx)) /\ Head(rx) = b /\ Len(rx) \in Nat /\ Len(rx) >= 1
  BY <1>1, TailIs
<1>3. /\ Len(read) \in Nat /\ Len(sent) \in Nat /\ P[1] = Len(read) + 1 /\ K[1] \in Nat
      /\ P[1] \in 1 .. Len(sent) /\ x \in Packet /\ Inside(x, K[1])
      /\ b = Bytes(x)[K[1]]
      /\ P[2] = NextPacket(sent, P[1], K[1]) /\ K[2] = NextByte(sent, P[1], K[1])
  BY <1>0, <1>1, Standing
<1>4. Digits(P, K, x)
  BY <1>0, LengthDigit
<1>5. PICK c : IsCode(n, e, c) /\ n = value' + Power[len + 1] * c[len + 1]
  BY <1>4 DEF Digits
<1>6. /\ x = [head |-> x.head, body |-> x.body] /\ n \in Nat /\ Len(e) \in Nat
      /\ Len(Bytes(x)) = 1 + Len(e) + n /\ x.body \in Seq(Byte)
  BY <1>3, BytesType
<1>7. /\ head = x.head /\ len < Len(e) /\ K[1] = 2 + len
      /\ More(b) <=> len + 1 < Len(e)
      /\ len + 1 = Len(e) => value' = n
  BY <1>4 DEF Digits
<1>12. \A i \in 1 .. Len(read) : read[i] = sent[i]
  BY DEF Traced, Place
<1>13. Len(Bytes(x)) \in Nat
  BY <1>3, BytesLen
<1>14. Place(P[2], K[2])'
  <2>1. CASE More(b) /\ UNCHANGED <<pc, read>>
    <3>1. len + 1 < Len(e) /\ 2 + len < Len(Bytes(x))
      <4>1. len + 1 < Len(e)
        BY <1>7, <2>1
      <4>2. len \in Nat
        BY <1>1
      <4> HIDE DEF e, n
      <4> QED
        BY <1>6, <1>13, <4>1, <4>2
    <3>2. P[2] = P[1] /\ K[2] = 2 + len'
      BY <1>0, <1>1, <1>3, <1>7, <3>1 DEF NextPacket, NextByte
    <3>3. Inside(x, K[2])'
      <4>1. /\ pc' = "len" /\ head' = x.head /\ len' < Len(e) /\ len' = len + 1
            /\ IsCode(n, e, c) /\ n = value' + Power[len'] * c[len']
        BY <1>1, <1>5, <1>7, <2>1, <3>1
      <4> QED
        BY <3>2, <4>1 DEF Inside
    <3>4. Len(read) < Len(sent)
      BY <1>3
    <3>5. sent'[P[2]] = x /\ pc' = "len"
      BY <1>0, <1>1, <2>1, <3>2
    <3> QED
      BY <1>1, <1>3, <1>12, <2>1, <3>2, <3>3, <3>4, <3>5 DEF Place
  <2>2. CASE ~More(b) /\ Sized(value')
    <3>1. len + 1 = Len(e) /\ value' = n
      <4>1. len + 1 = Len(e)
        <5>1. len \in Nat
          BY <1>1
        <5> HIDE DEF e, n
        <5> QED
          BY <1>6, <1>7, <2>2, <5>1
      <4> QED
        BY <1>7, <4>1
    <3>2. CASE value' = 0 /\ Return([head |-> head, body |-> <<>>])
      <4>1. n = 0 /\ x.body = <<>>
        <5>1. n = 0
          BY <3>1, <3>2
        <5> QED
          BY <1>6, <5>1, EmptySeq
      <4>2. Return(x)
        <5>1. x = [head |-> head, body |-> <<>>]
          BY <1>6, <1>7, <4>1
        <5> QED
          BY <3>2, <5>1
      <4>3. P[2] = P[1] + 1 /\ K[2] = 1
        <5>1. ~ (K[1] < Len(Bytes(x)))
          <6> HIDE DEF n, e
          <6> QED
            BY <1>1, <1>6, <1>7, <1>13, <3>1, <4>1
        <5> QED
          BY <1>0, <1>3, <5>1 DEF NextPacket, NextByte
      <4>4. Place(P[1], K[1])
        BY DEF Traced
      <4>5. Place(P[1] + 1, 1)'
        BY <1>0, <1>1, <1>3, <4>2, <4>4, Returned
      <4> QED
        BY <4>3, <4>5
    <3>3. CASE value' > 0 /\ pc' = "body" /\ UNCHANGED <<read, failed>>
      <4>1. K[1] < Len(Bytes(x)) /\ K[1] + 1 = 2 + Len(e) + 0 /\ Len(<<>>) = 0
        BY <1>1, <1>6, <1>7, <3>1, <3>3
      <4>2. P[2] = P[1] /\ K[2] = 2 + Len(e) + Len(body')
        BY <1>0, <1>1, <1>3, <4>1 DEF NextPacket, NextByte
      <4>3. Inside(x, K[2])'
        <5>1. /\ pc' = "body" /\ head' = x.head /\ value' = n /\ body' = <<>>
              /\ \A i \in 1 .. Len(body') : FALSE
          BY <1>1, <1>7, <3>1, <3>3, <4>1
        <5> QED
          BY <4>2, <5>1 DEF Inside
      <4>4. Len(read) < Len(sent)
        BY <1>3
      <4> QED
        <5>1. P[2] = Len(read') + 1 /\ Len(read') < Len(sent') /\ Len(read') <= Len(sent') /\ pc' # "head"
          BY <1>1, <1>3, <3>3, <4>2, <4>4
        <5>2. \A i \in 1 .. Len(read') : read'[i] = sent'[i]
          BY <1>1, <1>12, <3>3
        <5>3. sent'[P[2]] = x
          BY <1>0, <1>1, <4>2
        <5> QED
          BY <4>3, <5>1, <5>2, <5>3 DEF Place
    <3>4. ~Fail
      BY DEF Fail
    <3> QED
      BY <2>2, <3>2, <3>3, <3>4 DEF Sized
  <2> QED
    BY <1>2, <2>1, <2>2 DEF ReadLength
<1> QED
  <2>1. 1 \in 0 .. Len(rx) /\ 1 + 1 = 2
    BY <1>2
  <2> QED
    BY <1>1, <1>2, <1>14, <2>1, Taken

\* k bytes that have come, and that are wanted for the body.
Wanted(P, K, k) == Traced(P, K) /\ pc = "body" /\ k \in 1 .. Len(rx) /\ k <= value - Len(body)

\* They are the next bytes of the body of x.
Continues(P, K, k, x) ==
  /\ P[1] \in 1 .. Len(sent) /\ x \in Packet /\ value = Len(x.body)
  /\ \A i \in 1 .. k : rx[i] = x.body[Len(body) + i]
  /\ Len(body) + k < value => P[k + 1] = P[1] /\ K[k + 1] = 2 + Len(Encode[value]) + (Len(body) + k)
  /\ Len(body) + k = value => P[k + 1] = P[1] + 1 /\ K[k + 1] = 1

LEMMA BodyRun ==
  ASSUME TypeInv, NEW P, NEW K, NEW k, Wanted(P, K, k)
  PROVE  Continues(P, K, k, sent[P[1]])
<1>0. PICK x : x = sent[P[1]]
  OBVIOUS
<1> DEFINE e == Len(Encode[Len(x.body)])
           n == Len(x.body)
           l == Len(body)
           b == Bytes(x)
<1>a. Traced(P, K) /\ pc = "body" /\ k \in 1 .. Len(rx) /\ k <= value - Len(body)
  BY DEF Wanted
<1>1. rx \in Seq(Byte) /\ Len(rx) \in Nat /\ l \in Nat
  BY DEF TypeInv, TypeOK
<1>2. P[1] \in 1 .. Len(sent) /\ x \in Packet /\ Inside(x, K[1]) /\ K[1] \in Nat
  BY <1>0, <1>a, Standing
<1>3. value = n /\ K[1] = 2 + e + l
  BY <1>2, <1>a DEF Inside
<1>4. /\ n \in Nat /\ e \in Nat /\ b \in Seq(Byte) /\ Len(b) = 1 + e + n
      /\ \A i \in 1 .. n : b[1 + e + i] = x.body[i]
  BY <1>2, BytesType
<1>5. Flow(P, K, sent, rx) /\ b = Bytes(sent[P[1]])
  BY <1>0, <1>a DEF Traced
<1>6. k \in 0 .. Len(rx) /\ k > 0 /\ k \in Nat /\ l + k <= n /\ K[1] + k <= Len(b) + 1
      /\ (l + k < n <=> K[1] + k <= Len(b)) /\ (l + k = n <=> K[1] + k = Len(b) + 1)
  <2>1. k \in Nat /\ k > 0 /\ k <= n - l
    BY <1>1, <1>3, <1>a
  <2>2. k \in 0 .. Len(rx)
    BY <1>1, <1>a
  <2>3. l \in Nat
    BY <1>1
  <2>4. n \in Nat /\ e \in Nat /\ Len(b) = 1 + e + n /\ K[1] = 2 + e + l
    BY <1>3, <1>4
  <2> DEFINE c == K[1]
             m == Len(b)
  <2>5. m = 1 + e + n /\ c = 2 + e + l
    BY <2>4
  <2> HIDE DEF e, n, l, b, c, m
  <2>6. l + k <= n /\ c + k <= m + 1 /\ (l + k < n <=> c + k <= m) /\ (l + k = n <=> c + k = m + 1)
    BY <2>1, <2>3, <2>4, <2>5
  <2> QED
    BY <2>1, <2>2, <2>6 DEF c, m
<1>7. /\ \A i \in 1 .. k : rx[i] = b[K[1] + i - 1]
      /\ K[1] + k <= Len(b) => P[k + 1] = P[1] /\ K[k + 1] = K[1] + k
      /\ K[1] + k = Len(b) + 1 => P[k + 1] = P[1] + 1 /\ K[k + 1] = 1
  <2>1. Bytes(sent[P[1]]) \in Seq(Byte) /\ K[1] + k <= Len(Bytes(sent[P[1]])) + 1 /\ k \in 0 .. Len(rx)
    BY <1>4, <1>5, <1>6
  <2>2. /\ \A i \in 1 .. k : rx[i] = Bytes(sent[P[1]])[K[1] + i - 1]
        /\ K[1] + k <= Len(Bytes(sent[P[1]])) => P[k + 1] = P[1] /\ K[k + 1] = K[1] + k
        /\ k > 0 /\ K[1] + k = Len(Bytes(sent[P[1]])) + 1 => P[k + 1] = P[1] + 1 /\ K[k + 1] = 1
    <3> HIDE DEF e, n, l, b
    <3> QED
      <4>1. Together(P, K, sent, rx, k)
        BY <1>1, <1>2, <2>1 DEF Together
      <4> QED
        BY <1>5, <4>1, FlowRun
  <2> HIDE DEF b
  <2> QED
    BY <1>5, <1>6, <2>2
<1>8. ASSUME NEW i \in 1 .. k PROVE rx[i] = x.body[l + i]
  <2>1. l + i \in 1 .. n /\ K[1] + i - 1 = 1 + e + (l + i)
    <3> HIDE DEF e, n, l, b
    <3> QED
      BY <1>1, <1>3, <1>4, <1>6
  <2> HIDE DEF e, n, l, b
  <2> QED
    BY <1>4, <1>7, <2>1
<1>9. K[1] + k = 2 + e + (l + k)
  <2> HIDE DEF e, l, n, b
  <2> QED
    BY <1>1, <1>3, <1>4, <1>6
<1> QED
  BY <1>0, <1>1, <1>2, <1>3, <1>6, <1>7, <1>8, <1>9 DEF Continues

\* A recv for the body, of either reader.
LEMMA BodySound ==
  ASSUME TypeInv, NEW P, NEW K, Traced(P, K), pc = "body",
         NEW k \in 1 .. Len(rx), k <= value - Len(body),
         body' = body \o SubSeq(rx, 1, k), rx' = SubSeq(rx, k + 1, Len(rx)),
         UNCHANGED <<mode, sent, wire, fin, head, len, value>>,
         \/ Len(body') < value /\ mode.nonBlocking /\ UNCHANGED <<pc, read>>
         \/ Len(body') = value /\ Return([head |-> head, body |-> body'])
  PROVE  \E Q, L : Traced(Q, L)'
<1>0. PICK x : x = sent[P[1]]
  OBVIOUS
<1> DEFINE l == Len(body)
           t == SubSeq(rx, 1, k)
<1>1. /\ rx \in Seq(Byte) /\ Len(rx) \in Nat /\ body \in Seq(Byte) /\ l \in Nat
      /\ k \in 0 .. Len(rx) /\ k \in Nat
  BY DEF TypeInv, TypeOK
<1>2. /\ P[1] \in 1 .. Len(sent) /\ x \in Packet /\ value = Len(x.body)
      /\ \A i \in 1 .. k : rx[i] = x.body[l + i]
      /\ l + k < value => P[k + 1] = P[1] /\ K[k + 1] = 2 + Len(Encode[value]) + (l + k)
      /\ l + k = value => P[k + 1] = P[1] + 1 /\ K[k + 1] = 1
  <2>1. Wanted(P, K, k)
    BY DEF Wanted
  <2>2. Continues(P, K, k, x)
    BY <1>0, <2>1, BodyRun
  <2> QED
    BY <2>2 DEF Continues
<1>3. /\ Inside(x, K[1]) /\ Len(read) \in Nat /\ Len(sent) \in Nat /\ P[1] = Len(read) + 1
  BY <1>0, Standing
<1>4. head = x.head /\ \A i \in 1 .. l : body[i] = x.body[i]
  BY <1>3 DEF Inside
<1>5. /\ t \in Seq(Byte) /\ Len(t) = k /\ \A i \in 1 .. k : t[i] = rx[i]
  BY <1>1, Cut
<1>6. /\ body' \in Seq(Byte) /\ Len(body') = l + k
      /\ \A i \in 1 .. l : body'[i] = body[i]
      /\ \A i \in 1 .. k : body'[l + i] = t[i]
  <2>1. body' = body \o t
    OBVIOUS
  <2> HIDE DEF t
  <2> QED
    BY <1>1, <1>5, <2>1
<1>7. ASSUME NEW i \in 1 .. Len(body') PROVE body'[i] = x.body[i]
  <2>1. CASE i \in 1 .. l
    BY <1>4, <1>6, <2>1
  <2>2. CASE i \notin 1 .. l
    <3>1. i - l \in 1 .. k /\ l + (i - l) = i
      <4>1. i \in 1 .. l + k
        BY <1>6
      <4> HIDE DEF l, t
      <4> QED
        BY <1>1, <2>2, <4>1
    <3>2. body'[l + (i - l)] = t[i - l] /\ t[i - l] = rx[i - l] /\ rx[i - l] = x.body[l + (i - l)]
      BY <1>2, <1>5, <1>6, <3>1
    <3> QED
      BY <3>1, <3>2
  <2> QED
    BY <2>1, <2>2
<1>8. \A i \in 1 .. Len(read) : read[i] = sent[i]
  BY DEF Traced, Place
<1>9. Place(P[k + 1], K[k + 1])'
  <2>1. CASE Len(body') < value /\ mode.nonBlocking /\ UNCHANGED <<pc, read>>
    <3>1. P[k + 1] = P[1] /\ K[k + 1] = 2 + Len(Encode[Len(x.body)]) + Len(body')
      BY <1>2, <1>6, <2>1
    <3>2. Inside(x, K[k + 1])'
      BY <1>2, <1>4, <1>7, <2>1, <3>1 DEF Inside
    <3>3. sent'[P[k + 1]] = x /\ pc' # "head" /\ Len(read') < Len(sent') /\ P[k + 1] = Len(read') + 1
      BY <1>0, <1>2, <1>3, <2>1, <3>1
    <3> QED
      BY <1>8, <2>1, <3>2, <3>3 DEF Place
  <2>2. CASE Len(body') = value /\ Return([head |-> head, body |-> body'])
    <3>1. x = [head |-> x.head, body |-> x.body] /\ x.body \in Seq(Byte)
      BY <1>2, BytesType
    <3>2. body' = x.body
      <4>1. body' \in Seq(Byte) /\ x.body \in Seq(Byte) /\ Len(body') = Len(x.body)
        BY <1>2, <1>6, <2>2, <3>1
      <4> QED
        BY <1>7, <4>1, SeqEqual
    <3>3. Return(x)
      BY <1>4, <2>2, <3>1, <3>2
    <3>4. Place(P[1], K[1])
      BY DEF Traced
    <3>5. Place(P[1] + 1, 1)'
      BY <1>0, <1>2, <3>3, <3>4, Returned
    <3>6. P[k + 1] = P[1] + 1 /\ K[k + 1] = 1
      BY <1>2, <1>6, <2>2
    <3> QED
      BY <3>5, <3>6
  <2> QED
    BY <2>1, <2>2
<1> QED
  BY <1>1, <1>9, Taken

LEMMA ReadBodySound ==
  ASSUME TypeInv, NEW P, NEW K, Traced(P, K), ReadBody, ~failed'
  PROVE  \E Q, L : Traced(Q, L)'
<1> DEFINE k == IF value < Len(rx) THEN value ELSE Len(rx)
<1>1. /\ pc = "body" /\ ~mode.nonBlocking /\ rx # <<>> /\ rx \in Seq(Byte) /\ Len(rx) \in Nat /\ Len(rx) >= 1
      /\ value \in Nat /\ body \in Seq(Byte) /\ Len(body) < value
  BY Powers, BytesAssumption DEF ReadBody, TypeInv, TypeOK
<1>2. body = <<>>
  <2>1. Inside(sent[P[1]], K[1])
    BY <1>1, Standing
  <2> QED
    BY <1>1, <2>1 DEF Inside
<1>3. Len(body) = 0 /\ k \in 1 .. Len(rx) /\ k \in 0 .. Len(rx) /\ k <= value - Len(body)
  BY <1>1, <1>2
<1>4. body' = SubSeq(rx, 1, k) /\ rx' = SubSeq(rx, k + 1, Len(rx)) /\ UNCHANGED <<mode, sent, wire, fin, head, len, value>>
  BY DEF ReadBody
<1>5. Len(body') = value /\ Return([head |-> head, body |-> body'])
  BY DEF ReadBody, Fail
<1> HIDE DEF k
<1>6. body' = body \o SubSeq(rx, 1, k)
  <2>1. SubSeq(rx, 1, k) \in Seq(Byte)
    BY <1>1, <1>3, Cut
  <2> QED
    BY <1>2, <1>4, <2>1, ConcatEmptySeq
<1> QED
  BY <1>1, <1>3, <1>4, <1>5, <1>6, BodySound

LEMMA ReadBodyPartSound ==
  ASSUME TypeInv, NEW P, NEW K, Traced(P, K), ReadBodyPart
  PROVE  \E Q, L : Traced(Q, L)'
<1> DEFINE k == IF value - Len(body) < Len(rx) THEN value - Len(body) ELSE Len(rx)
<1>1. /\ pc = "body" /\ mode.nonBlocking /\ rx # <<>> /\ rx \in Seq(Byte) /\ Len(rx) \in Nat /\ Len(rx) >= 1
      /\ value \in Nat /\ body \in Seq(Byte) /\ Len(body) \in Nat /\ Len(body) < value
  BY Powers, BytesAssumption DEF ReadBodyPart, TypeInv, TypeOK
<1>2. k \in 1 .. Len(rx) /\ k <= value - Len(body)
  BY <1>1
<1>3. /\ body' = body \o SubSeq(rx, 1, k) /\ rx' = SubSeq(rx, k + 1, Len(rx))
      /\ UNCHANGED <<mode, sent, wire, fin, head, len, value>>
  BY DEF ReadBodyPart
<1>4. \/ Len(body') < value /\ mode.nonBlocking /\ UNCHANGED <<pc, read>>
      \/ Len(body') = value /\ Return([head |-> head, body |-> body'])
  BY <1>1 DEF ReadBodyPart
<1> HIDE DEF k
<1> QED
  BY <1>1, <1>2, <1>3, <1>4, BodySound

\* The steps of the reader do not touch what is under way.
LEMMA ReaderLeaves == Reader => UNCHANGED <<mode, sent, wire, fin>> /\ (failed => failed') /\ (ignored => ignored')
<1>1. Fail => failed'
  BY DEF Fail
<1>2. \A v : Sized(v) => (failed => failed')
  BY DEF Sized, Fail, Return
<1>3. ReadHead => UNCHANGED <<mode, sent, wire, fin>> /\ (failed => failed') /\ (ignored => ignored')
  BY DEF ReadHead
<1>4. ReadLength => UNCHANGED <<mode, sent, wire, fin>> /\ (failed => failed') /\ (ignored => ignored')
  BY <1>2 DEF ReadLength
<1>5. LengthFails => UNCHANGED <<mode, sent, wire, fin>> /\ (failed => failed') /\ (ignored => ignored')
  BY <1>1, <1>2 DEF LengthFails, stream
<1>6. ReadBody => UNCHANGED <<mode, sent, wire, fin>> /\ (failed => failed') /\ (ignored => ignored')
  BY <1>1 DEF ReadBody, Return
<1>7. ReadBodyPart => UNCHANGED <<mode, sent, wire, fin>> /\ (failed => failed') /\ (ignored => ignored')
  BY DEF ReadBodyPart, Return
<1>8. BodyFails => UNCHANGED <<mode, sent, wire, fin>> /\ (failed => failed') /\ (ignored => ignored')
  BY <1>1 DEF BodyFails, stream
<1> QED
  BY <1>3, <1>4, <1>5, <1>6, <1>7, <1>8 DEF Reader

LEMMA SoundStep ==
  ASSUME TypeInv, OnWire, Sound, [Next]_vars
  PROVE  OnWire' /\ Sound'
<1>1. CASE Send
  BY <1>1, SendSound
<1>2. CASE Arrive
  BY <1>2, ArriveSound
<1>3. CASE Break
  BY <1>3, BreakSound
<1>4. CASE Reader
  <2>1. UNCHANGED <<mode, sent, wire, fin>> /\ (failed => failed') /\ (ignored => ignored')
    BY <1>4, ReaderLeaves
  <2>2. OnWire'
    BY <2>1 DEF OnWire
  <2>3. ASSUME ~failed', ~ignored' PROVE \E Q, L : Traced(Q, L)'
    <3>1. PICK P, K : Traced(P, K)
      BY <2>1, <2>3 DEF Sound
    <3>2. CASE ReadHead
      BY <3>1, <3>2, ReadHeadSound
    <3>3. CASE ReadLength
      BY <2>3, <3>1, <3>3, ReadLengthSound
    <3>4. CASE LengthFails
      BY <2>3, <3>4 DEF LengthFails, Fail
    <3>5. CASE ReadBody
      BY <2>3, <3>1, <3>5, ReadBodySound
    <3>6. CASE ReadBodyPart
      BY <3>1, <3>6, ReadBodyPartSound
    <3>7. CASE BodyFails
      BY <2>3, <3>7 DEF BodyFails, Fail
    <3> QED
      BY <1>4, <3>2, <3>3, <3>4, <3>5, <3>6, <3>7 DEF Reader
  <2> QED
    BY <2>2, <2>3 DEF Sound
<1>5. CASE UNCHANGED vars
  <2>1. OnWire'
    BY <1>5 DEF vars, OnWire
  <2>2. ASSUME NEW P, NEW K, Traced(P, K) PROVE Traced(P, K)'
    BY <1>5, <2>2 DEF vars, Traced, Ends, Place, Inside
  <2> QED
    BY <1>5, <2>1, <2>2 DEF vars, Sound
<1> QED
  BY <1>1, <1>2, <1>3, <1>4, <1>5 DEF Next

-----------------------------------------------------------------------------
StreamInv == TypeInv /\ OnWire /\ Sound

THEOREM StreamSound == Spec => []StreamInv
<1>1. Init => StreamInv
  BY InitTypes, InitSound DEF StreamInv
<1>2. StreamInv /\ [Next]_vars => StreamInv'
  BY TypeStep, SoundStep DEF StreamInv
<1> QED
  BY <1>1, <1>2, PTL DEF Spec

\* Types of the stream and of the readers' variables: what MQTTPacket_decode makes of any
\* bytes stays below what its digits can carry.
THEOREM TypeCorrect == Spec => []TypeOK
<1>1. StreamInv => TypeOK
  BY DEF StreamInv, TypeInv
<1> QED
  BY <1>1, StreamSound, PTL

\* Until it has given up inside a packet, or gone on after a length field it did not get,
\* MQTTPacket_read returns the packets sent, whole and in order, for every base, all
\* packets and wherever segments end.
THEOREM RightPackets == Spec => []RightUntilFailure
<1>1. ASSUME StreamInv PROVE RightUntilFailure
  <2>1. ASSUME ~failed, ~ignored PROVE read = SubSeq(sent, 1, Len(read))
    <3>1. PICK P, K : Traced(P, K)
      BY <1>1, <2>1 DEF StreamInv, Sound
    <3>2. /\ read \in Seq([head : Byte, body : Seq(Byte)]) /\ sent \in Seq(Packet)
      BY <1>1 DEF StreamInv, TypeInv, TypeOK
    <3>3. Len(read) <= Len(sent) /\ \A i \in 1 .. Len(read) : read[i] = sent[i]
      BY <3>1 DEF Traced, Place
    <3> DEFINE R == [head : Byte, body : Seq(Byte)]
               u == SubSeq(sent, 1, Len(read))
    <3>4. sent \in Seq(R)
      <4>1. Packet \subseteq R
        BY FramingAssumption
      <4> HIDE DEF R
      <4> QED
        BY <3>2, <4>1, SeqMonotonic
    <3> HIDE DEF R
    <3>5. Len(read) \in 0 .. Len(sent)
      BY <3>2, <3>3
    <3>6. u \in Seq(R) /\ Len(u) = Len(read) /\ \A i \in 1 .. Len(read) : u[i] = sent[i]
      BY <3>4, <3>5, Cut
    <3> QED
      BY <3>2, <3>3, <3>6, SeqEqual DEF R
  <2> QED
    BY <2>1 DEF RightUntilFailure
<1> QED
  BY <1>1, StreamSound, PTL

-----------------------------------------------------------------------------
(* When a call gives up.                                                   *)

\* A conforming peer: MQTT has no more than MaxLenBytes length bytes.
Encodable == \A p \in Packet : Len(p.body) < Power[MaxLenBytes]

\* In a sound stream the length ends before its digits do.
LEMMA LenBelow ==
  ASSUME Encodable, TypeInv, NEW P, NEW K, Traced(P, K), pc = "len"
  PROVE  len # MaxLenBytes
<1>0. PICK x : x = sent[P[1]]
  OBVIOUS
<1> DEFINE n == Len(x.body)
           e == Encode[n]
<1>1. x \in Packet /\ Inside(x, K[1])
  BY <1>0, Standing
<1>2. len < Len(e) /\ \E c : IsCode(n, e, c) /\ n = value + Power[len] * c[len]
  BY <1>1 DEF Inside
<1>3. n \in Nat /\ n < Power[MaxLenBytes]
  BY <1>1, BytesLen DEF Encodable
<1>4. value \in Nat /\ MaxLenBytes \in 1 .. 4 /\ Power[MaxLenBytes] \in Nat
  BY Powers, BytesAssumption DEF TypeInv, TypeOK
<1> HIDE DEF e, n
<1>5. ASSUME len = MaxLenBytes PROVE FALSE
  <2>1. PICK c : IsCode(n, e, c) /\ n = value + Power[len] * c[len]
    BY <1>2
  <2>2. e \in Seq(Byte) /\ c \in [0 .. Len(e) -> Nat] /\ \A i \in 1 .. Len(e) - 1 : c[i] > 0
    BY <2>1 DEF IsCode
  <2>3. Len(e) \in Nat
    BY <2>2
  <2>4. len \in 1 .. Len(e) - 1 /\ len \in 0 .. Len(e)
    BY <1>2, <1>4, <1>5, <2>3
  <2>5. c[len] \in Nat /\ c[len] > 0
    BY <2>2, <2>4
  <2> DEFINE w == Power[MaxLenBytes]
             y == c[len]
  <2>6. n = value + w * y /\ w \in Nat /\ y \in Nat /\ y >= 1 /\ n < w
    BY <1>3, <1>4, <1>5, <2>1, <2>5
  <2> HIDE DEF w, y
  <2>7. w * y >= w * 1 /\ w * y \in Nat
    BY <2>6
  <2> QED
    BY <1>4, <2>6, <2>7
<1> QED
  BY <1>5

\* Before the first failure MQTTPacket_read goes on after a failed length field only when
\* the stream has ended.
Explained == ~failed /\ ignored => fin

LEMMA ExplainedStep ==
  ASSUME Encodable, StreamInv, Explained, [Next]_vars
  PROVE  Explained'
<1>1. CASE Send \/ Arrive \/ Break \/ UNCHANGED vars
  <2>1. UNCHANGED <<failed, ignored>> /\ (fin => fin')
    BY <1>1 DEF Send, Arrive, Break, vars, reader
  <2> QED
    BY <2>1 DEF Explained
<1>2. CASE Reader
  <2>1. fin' = fin /\ (failed => failed')
    BY <1>2, ReaderLeaves
  <2>2. ASSUME ~failed', ignored', ~ignored PROVE fin
    <3>1. LengthFails
      BY <1>2, <2>2 DEF Reader, ReadHead, ReadLength, ReadBody, ReadBodyPart, BodyFails
    <3>2. PICK P, K : Traced(P, K)
      BY <2>1, <2>2 DEF StreamInv, Sound
    <3>3. len # MaxLenBytes
      BY <3>1, <3>2, LenBelow DEF StreamInv, LengthFails
    <3> QED
      BY <3>1, <3>3 DEF LengthFails
  <2> QED
    BY <2>1, <2>2 DEF Explained
<1> QED
  BY <1>1, <1>2 DEF Next

\* "-1 on error": a call gives up in the middle of a packet only if the stream has ended,
\* the packet does not fit the buffer or, with MQTTPacket_read, the recv for the body was
\* short.  For every peer that sends lengths MQTT allows, and every buffer.
THEOREM GivesUpForAReason == ASSUME Encodable PROVE Spec => GivesUpOnlyOnErrorOrShortBody
<1>1. Init => Explained
  BY DEF Init, Explained
<1>2. StreamInv /\ Explained /\ [Next]_vars => Explained'
  BY ExplainedStep
<1>3. ASSUME StreamInv, Explained, [Next]_vars, failed', ~failed
      PROVE  fin \/ ~Fits(value') \/ ShortBody
  <2>1. CASE Send \/ Arrive \/ Break \/ UNCHANGED vars
    BY <1>3, <2>1 DEF Send, Arrive, Break, vars, reader
  <2>2. ASSUME NEW v, Sized(v) PROVE ~Fits(v)
    BY <1>3, <2>2 DEF Sized, Return
  <2>3. CASE ReadHead
    BY <1>3, <2>3 DEF ReadHead
  <2>4. CASE ReadLength
    BY <1>3, <2>2, <2>4 DEF ReadLength
  <2>5. CASE LengthFails
    <3>1. CASE mode.nonBlocking /\ Fail
      <4>1. CASE ignored
        BY <1>3, <4>1 DEF Explained
      <4>2. CASE ~ignored
        <5>1. PICK P, K : Traced(P, K)
          BY <1>3, <4>2 DEF StreamInv, Sound
        <5>2. len # MaxLenBytes
          BY <1>3, <2>5, <5>1, LenBelow DEF StreamInv, LengthFails
        <5> QED
          BY <2>5, <5>2 DEF LengthFails
      <4> QED
        BY <4>1, <4>2
    <3>2. CASE Sized(value)
      <4>1. value' = value
        BY <2>5 DEF LengthFails
      <4> QED
        BY <2>2, <3>2, <4>1
    <3> QED
      BY <2>5, <3>1, <3>2 DEF LengthFails
  <2>6. CASE ReadBody
    <3> DEFINE k == IF value < Len(rx) THEN value ELSE Len(rx)
    <3>1. /\ pc = "body" /\ ~mode.nonBlocking /\ rx # <<>> /\ rx \in Seq(Byte) /\ value \in Nat
          /\ Len(body') < value /\ body' = SubSeq(rx, 1, k)
      <4>1. rx \in Seq(Byte) /\ value \in 0 .. (Power[MaxLenBytes] - 1)
        BY <1>3 DEF StreamInv, TypeInv, TypeOK
      <4>2. /\ pc = "body" /\ ~mode.nonBlocking /\ rx # <<>> /\ body' = SubSeq(rx, 1, k)
        BY <2>6 DEF ReadBody
      <4>3. Len(body') < value
        BY <1>3, <2>6 DEF ReadBody, Return
      <4> QED
        BY <4>1, <4>2, <4>3
    <3>2. Len(rx) \in Nat /\ Len(rx) > 0 /\ k \in 0 .. Len(rx)
      BY <3>1
    <3>3. Len(body') = k
      BY <3>1, <3>2, Cut
    <3>4. Len(rx) < value
      BY <3>1, <3>2, <3>3
    <3> QED
      BY <3>1, <3>2, <3>4 DEF ShortBody
  <2>7. CASE ReadBodyPart
    BY <1>3, <2>7 DEF ReadBodyPart, Return
  <2>8. CASE BodyFails
    BY <2>8 DEF BodyFails
  <2> QED
    BY <1>3, <2>1, <2>3, <2>4, <2>5, <2>6, <2>7, <2>8 DEF Next, Reader
<1>4. StreamInv /\ Explained /\ [Next]_vars => [failed' /\ ~failed => fin \/ ~Fits(value') \/ ShortBody]_vars
  BY <1>3
<1> QED
  BY <1>1, <1>2, <1>4, StreamSound, PTL DEF Spec, GivesUpOnlyOnErrorOrShortBody

-----------------------------------------------------------------------------
(* The readers as sources of packets.                                      *)

\* Every packet the peer sends has a length MQTT allows and fits the caller's buffer.
PacketsFit == \A p \in Packet : Len(p.body) < Power[MaxLenBytes] /\ Fits(Len(p.body))

LEMMA FitEncodable == PacketsFit => Encodable
BY DEF PacketsFit, Encodable

\* What the reader returns, and that it returns nothing with a failure.
LEMMA ReadSteps ==
  ASSUME Reader
  PROVE  /\ read' = read \/ \E y : read' = Append(read, y)
         /\ failed' # failed => read' = read
<1> DEFINE Goal == /\ read' = read \/ \E y : read' = Append(read, y)
                   /\ failed' # failed => read' = read
<1>1. ASSUME NEW y, Return(y) PROVE Goal
  BY <1>1 DEF Return
<1>2. Fail => Goal
  BY DEF Fail
<1>3. ASSUME NEW v, Sized(v) PROVE Goal
  <2>1. CASE Return([head |-> head, body |-> <<>>])
    BY <1>1, <2>1
  <2>2. CASE UNCHANGED <<read, failed>>
    BY <2>2
  <2> HIDE DEF Goal
  <2> QED
    BY <1>2, <1>3, <2>1, <2>2 DEF Sized
<1>4. UNCHANGED read => Goal
  OBVIOUS
<1> HIDE DEF Goal
<1>5. ReadHead => Goal
  BY <1>4 DEF ReadHead
<1>6. ReadLength => Goal
  BY <1>3, <1>4 DEF ReadLength
<1>7. LengthFails => Goal
  BY <1>2, <1>3 DEF LengthFails
<1>8. ReadBody => Goal
  BY <1>1, <1>2 DEF ReadBody
<1>9. ReadBodyPart => Goal
  BY <1>1, <1>4 DEF ReadBodyPart
<1>10. BodyFails => Goal
  BY <1>2 DEF BodyFails
<1>11. Goal
  BY <1>5, <1>6, <1>7, <1>8, <1>9, <1>10 DEF Reader
<1> QED
  BY <1>11 DEF Goal

\* A step of the abstract source, or none.
SourceStep ==
  \/ UNCHANGED <<sent, read>>
  \/ (\E p \in Packet : sent' = Append(sent, p)) /\ UNCHANGED read
  \/ Len(read) < Len(sent) /\ read' = Append(read, sent[Len(read) + 1]) /\ UNCHANGED sent

LEMMA NextSource ==
  ASSUME StreamInv, StreamInv', [Next]_vars, (~failed' /\ ~ignored') \/ failed' # failed
  PROVE  SourceStep
<1>1. CASE Send
  BY <1>1 DEF Send, reader, SourceStep
<1>2. CASE Arrive \/ Break \/ UNCHANGED vars
  BY <1>2 DEF Arrive, Break, vars, reader, SourceStep
<1>3. CASE Reader
  <2>1. UNCHANGED sent
    BY <1>3, ReaderLeaves
  <2>2. CASE read' = read
    BY <2>1, <2>2 DEF SourceStep
  <2>3. CASE \E y : read' = Append(read, y)
    <3>1. PICK y : read' = Append(read, y)
      BY <2>3
    <3>2. CASE failed' # failed
      BY <1>3, <2>1, <3>2, ReadSteps DEF SourceStep
    <3>3. CASE ~failed' /\ ~ignored'
      <4>1. PICK P, K : Traced(P, K)'
        BY <3>3 DEF StreamInv, Sound
      <4>2. Len(read') <= Len(sent') /\ \A i \in 1 .. Len(read') : read'[i] = sent'[i]
        BY <4>1 DEF Traced, Place
      <4>3. read \in Seq([head : Byte, body : Seq(Byte)]) /\ sent \in Seq(Packet)
        BY DEF StreamInv, TypeInv, TypeOK
      <4>4. Len(read) \in Nat /\ Len(sent) \in Nat
        BY <4>3
      <4>5. Len(read') = Len(read) + 1 /\ read'[Len(read) + 1] = y
        <5> DEFINE R == [head : Byte, body : Seq(Byte)]
        <5>1. read \in Seq(R) /\ read' \in Seq(R)
          BY DEF StreamInv, TypeInv, TypeOK
        <5> HIDE DEF R
        <5> QED
          BY <3>1, <5>1
      <4>6. Len(read) + 1 \in 1 .. Len(read') /\ Len(read) < Len(sent)
        BY <2>1, <4>2, <4>4, <4>5
      <4>7. y = sent[Len(read) + 1]
        BY <2>1, <4>2, <4>5, <4>6
      <4> QED
        BY <2>1, <3>1, <4>6, <4>7 DEF SourceStep
    <3> QED
      BY <3>2, <3>3
  <2> QED
    BY <1>3, <2>2, <2>3, ReadSteps
<1> QED
  BY <1>1, <1>2, <1>3 DEF Next

\* In a sound stream of packets that fit, no length ends a call.
LEMMA LengthFits ==
  ASSUME PacketsFit, TypeInv, NEW P, NEW K, Traced(P, K), ReadLength
  PROVE  failed' = failed
<1>0. PICK x : x = sent[P[1]]
  OBVIOUS
<1>1. rx # <<>> /\ rx \in Seq(Byte)
  BY DEF ReadLength, TypeInv, TypeOK
<1>2. Head(rx) = rx[1]
  BY <1>1, TailIs
<1>3. Digits(P, K, x)
  BY <1>0, LengthDigit
<1>4. CASE More(rx[1])
  BY <1>2, <1>4 DEF ReadLength
<1>5. CASE ~More(rx[1])
  <2>1. value' = Len(x.body)
    <3>1. /\ x \in Packet /\ len < Len(Encode[Len(x.body)]) /\ ~ (len + 1 < Len(Encode[Len(x.body)]))
          /\ len + 1 = Len(Encode[Len(x.body)]) => value' = Len(x.body)
      BY <1>3, <1>5 DEF Digits
    <3>2. Len(Encode[Len(x.body)]) \in Nat
      BY <3>1, BytesType
    <3>3. len \in Nat
      BY BytesAssumption DEF TypeInv, TypeOK
    <3>4. len + 1 = Len(Encode[Len(x.body)])
      BY <3>1, <3>2, <3>3
    <3> QED
      BY <3>1, <3>4
  <2>2. Fits(value')
    BY <1>3, <2>1 DEF PacketsFit, Digits
  <2>3. Sized(value')
    BY <1>2, <1>5 DEF ReadLength
  <2> QED
    BY <2>2, <2>3 DEF Sized, Return
<1> QED
  BY <1>4, <1>5

\* MQTTPacket_readnb fails for good, with the stream ended and nothing left in it.
NbInv ==
  mode.nonBlocking => /\ ~ignored
                      /\ failed => fin /\ rx = <<>> /\ pc = "head"

LEMMA NbStep ==
  ASSUME PacketsFit, StreamInv, StreamInv', NbInv, [Next]_vars
  PROVE  NbInv' /\ (mode.nonBlocking => SourceStep) /\ mode' = mode
<1>1. mode' = mode
  <2>1. Reader => mode' = mode
    BY ReaderLeaves
  <2> QED
    BY <2>1 DEF Next, Send, Arrive, Break, vars
<1>2. CASE ~mode.nonBlocking
  BY <1>1, <1>2 DEF NbInv
<1>3. CASE mode.nonBlocking /\ failed
  <2>1. fin /\ rx = <<>> /\ pc = "head" /\ ~ignored /\ wire = <<>>
    BY <1>3 DEF NbInv, StreamInv, OnWire, Waiting
  <2>2. UNCHANGED vars
    BY <2>1 DEF Next, Send, Arrive, Break, Reader, ReadHead, ReadLength, LengthFails, ReadBody, ReadBodyPart,
                BodyFails
  <2> QED
    BY <2>2 DEF vars, NbInv, SourceStep
<1>4. CASE mode.nonBlocking /\ ~failed
  <2>0. ~ignored
    BY <1>4 DEF NbInv
  <2>1. PICK P, K : Traced(P, K)
    BY <1>4, <2>0 DEF StreamInv, Sound
  <2>2. ~ignored' /\ (failed' => fin' /\ rx' = <<>> /\ pc' = "head")
    <3>1. CASE Send \/ Arrive \/ Break \/ UNCHANGED vars \/ ReadHead
      BY <1>4, <2>0, <3>1 DEF Send, Arrive, Break, vars, reader, ReadHead
    <3>2. CASE ReadLength
      <4>1. failed' = failed
        BY <2>1, <3>2, LengthFits DEF StreamInv
      <4> QED
        BY <1>4, <2>0, <3>2, <4>1 DEF ReadLength
    <3>3. CASE LengthFails
      <4>1. len # MaxLenBytes
        BY <2>1, <3>3, FitEncodable, LenBelow DEF StreamInv, LengthFails
      <4> QED
        BY <1>4, <2>0, <3>3, <4>1 DEF LengthFails, Fail, stream
    <3>4. CASE ReadBody
      BY <1>4, <3>4 DEF ReadBody
    <3>5. CASE ReadBodyPart
      BY <1>4, <2>0, <3>5 DEF ReadBodyPart, Return
    <3>6. CASE BodyFails
      BY <2>0, <3>6 DEF BodyFails, Fail, stream
    <3> QED
      BY <3>1, <3>2, <3>3, <3>4, <3>5, <3>6 DEF Next, Reader
  <2>3. failed' \in BOOLEAN /\ failed \in BOOLEAN
    BY DEF StreamInv, TypeInv, TypeOK
  <2>4. SourceStep
    BY <1>4, <2>2, <2>3, NextSource
  <2> QED
    BY <1>1, <2>2, <2>4 DEF NbInv
<1> QED
  BY <1>2, <1>3, <1>4

\* MQTTPacket_readnb implements the safety part of PacketSource: every packet once, whole
\* and in order, wherever segments end and the connection breaks.
THEOREM NonBlockingSource == ASSUME PacketsFit PROVE Spec => DeliversInOrder
<1>1. Init => NbInv
  BY DEF Init, NbInv
<1>2. StreamInv /\ StreamInv' /\ NbInv /\ [Next]_vars => NbInv'
  BY NbStep
<1>3. Init => NbSource!Init
  BY DEF Init, NbSource!Init
<1>4. StreamInv /\ StreamInv' /\ NbInv /\ [Next]_vars => [NbSource!Next]_(NbSource!vars)
  <2> SUFFICES ASSUME StreamInv, StreamInv', NbInv, [Next]_vars
               PROVE  [NbSource!Next]_(NbSource!vars)
    OBVIOUS
  <2>1. mode' = mode /\ (mode.nonBlocking => SourceStep)
    BY NbStep
  <2>2. CASE mode.nonBlocking
    BY <2>1, <2>2 DEF SourceStep, NbSource!Next, NbSource!vars, NbSource!Send, NbSource!Read
  <2>3. CASE ~mode.nonBlocking
    BY <2>1, <2>3 DEF NbSource!vars
  <2> QED
    BY <2>2, <2>3
<1> QED
  BY <1>1, <1>2, <1>3, <1>4, StreamSound, PTL DEF Spec, DeliversInOrder, NbSource!SafeSpec

\* Without cuts in the body the whole body is there when the reader asks for it.
LEMMA BodyThere ==
  ASSUME TypeInv, OnWire, NEW P, NEW K, Traced(P, K), ~fin, ~mode.nonBlocking, ~mode.cutBodies,
         pc = "body", rx # <<>>
  PROVE  value <= Len(rx)
<1>0. PICK x : x = sent[P[1]]
  OBVIOUS
<1> DEFINE n == Len(x.body)
           e == Len(Encode[n])
           r == Len(rx)
           w == Len(wire[1].bytes)
           b == Len(Bytes(x))
<1>1. r \in Nat /\ r >= 1 /\ value \in Nat
  <2>1. rx \in Seq(Byte) /\ value \in 0 .. (Power[MaxLenBytes] - 1)
    BY DEF TypeInv, TypeOK
  <2> QED
    BY <2>1
<1>2. body = <<>> /\ x \in Packet
  <2>1. Inside(x, K[1]) /\ x \in Packet
    BY <1>0, Standing
  <2> QED
    BY <2>1 DEF Inside
<1>3. Len(body) = 0
  BY <1>2
<1>4. n \in Nat /\ e \in Nat /\ b = 1 + e + n
  BY <1>2, BytesType
<1>5. ASSUME r < value PROVE FALSE
  <2>1. Wanted(P, K, r)
    BY <1>1, <1>3, <1>5 DEF Wanted
  <2>2. Continues(P, K, r, x)
    BY <1>0, <2>1, BodyRun
  <2>3. value = n /\ P[r + 1] = P[1] /\ K[r + 1] = 2 + e + r
    <3>1. value = n /\ (0 + r < value => P[r + 1] = P[1] /\ K[r + 1] = 2 + Len(Encode[value]) + (0 + r))
      BY <1>3, <2>2 DEF Continues
    <3>2. 0 + r = r
      BY <1>1
    <3> QED
      BY <1>5, <3>1, <3>2
  <2>4. /\ wire = <<>> => K[r + 1] = 1
        /\ wire # <<>> => /\ P[r + 1] = Len(sent) - Len(wire) + 1
                          /\ K[r + 1] = Len(Bytes(sent[P[r + 1]])) - w + 1
    BY DEF Traced, Ends
  <2>5. wire # <<>>
    <3> HIDE DEF e, n, r
    <3> QED
      BY <1>1, <1>4, <2>3, <2>4
  <2>6. 2 + e + r = b - w + 1
    BY <1>0, <2>3, <2>4, <2>5
  <2>7. 1 \in 1 .. Len(wire)
    <3> DEFINE R == [bytes : Seq(Byte), body : Nat]
    <3>1. wire \in Seq(R)
      BY DEF TypeInv, TypeOK
    <3> HIDE DEF R
    <3> QED
      BY <2>5, <3>1
  <2>8. w \in Nat /\ w >= n
    <3>1. wire[1].bytes \in Seq(Byte)
      BY <2>7, WireType
    <3>2. Len(wire[1].bytes) >= Len(sent[Len(sent) - Len(wire) + 1].body)
      BY <2>7, WirePart
    <3>3. sent[Len(sent) - Len(wire) + 1] = x
      BY <1>0, <2>3, <2>4, <2>5
    <3> QED
      BY <3>1, <3>2, <3>3
  <2> HIDE DEF b, n, e, r, w
  <2> QED
    BY <1>1, <1>4, <2>6, <2>8
<1> HIDE DEF r
<1>6. value <= r
  BY <1>1, <1>5
<1> QED
  BY <1>6 DEF r

WholeInv == Whole => ~fin /\ ~failed /\ ~ignored

LEMMA WholeStep ==
  ASSUME PacketsFit, StreamInv, StreamInv', WholeInv, [Next]_vars
  PROVE  WholeInv' /\ (Whole => SourceStep) /\ Whole' = Whole
<1>1. mode' = mode
  <2>1. Reader => mode' = mode
    BY ReaderLeaves
  <2> QED
    BY <2>1 DEF Next, Send, Arrive, Break, vars
<1>2. Whole' = Whole
  BY <1>1 DEF Whole
<1>3. CASE ~Whole
  BY <1>2, <1>3 DEF WholeInv
<1>4. CASE Whole
  <2>0. ~fin /\ ~failed /\ ~ignored /\ ~mode.nonBlocking /\ ~mode.cutBodies /\ ~mode.breaks
    BY <1>4 DEF WholeInv, Whole
  <2>1. PICK P, K : Traced(P, K)
    BY <2>0 DEF StreamInv, Sound
  <2>2. ~fin' /\ ~failed' /\ ~ignored'
    <3>1. CASE Send \/ Arrive \/ UNCHANGED vars \/ ReadHead
      BY <2>0, <3>1 DEF Send, Arrive, vars, reader, ReadHead
    <3>2. CASE Break
      BY <2>0, <3>2 DEF Break
    <3>3. CASE ReadLength
      <4>1. failed' = failed
        BY <2>1, <3>3, LengthFits DEF StreamInv
      <4> QED
        BY <2>0, <3>3, <4>1 DEF ReadLength
    <3>4. CASE LengthFails
      <4>1. len # MaxLenBytes
        BY <2>1, <3>4, FitEncodable, LenBelow DEF StreamInv, LengthFails
      <4> QED
        BY <2>0, <3>4, <4>1 DEF LengthFails
    <3>5. CASE ReadBody
      <4>1. value <= Len(rx)
        BY <2>0, <2>1, <3>5, BodyThere DEF StreamInv, ReadBody
      <4>2. rx \in Seq(Byte) /\ value \in 0 .. (Power[MaxLenBytes] - 1)
        BY DEF StreamInv, TypeInv, TypeOK
      <4>3. body' = SubSeq(rx, 1, value)
        <5>1. (IF value < Len(rx) THEN value ELSE Len(rx)) = value
          BY <4>1, <4>2
        <5> QED
          BY <3>5, <5>1 DEF ReadBody
      <4>4. Len(body') = value
        <5>1. value \in 0 .. Len(rx)
          BY <4>1, <4>2
        <5> QED
          BY <4>2, <4>3, <5>1, Cut
      <4>5. ~ (Len(body') < value)
        BY <4>2, <4>4
      <4>6. UNCHANGED <<fin, ignored>>
        BY <3>5 DEF ReadBody
      <4>7. Return([head |-> head, body |-> body'])
        BY <3>5, <4>5 DEF ReadBody
      <4> QED
        BY <2>0, <4>6, <4>7 DEF Return
    <3>6. CASE ReadBodyPart
      BY <2>0, <3>6 DEF ReadBodyPart
    <3>7. CASE BodyFails
      BY <2>0, <3>7 DEF BodyFails
    <3> QED
      BY <3>1, <3>2, <3>3, <3>4, <3>5, <3>6, <3>7 DEF Next, Reader
  <2>3. SourceStep
    BY <2>2, NextSource
  <2> QED
    BY <1>2, <2>2, <2>3 DEF WholeInv
<1> QED
  BY <1>3, <1>4

\* MQTTPacket_read over a transport that delivers and does not cut bodies implements the
\* safety part of PacketSource; DeliversAll adds its fairness.
THEOREM WholeSourceSafe == ASSUME PacketsFit PROVE Spec => WholeSource!SafeSpec
<1>1. Init => WholeInv
  BY DEF Init, WholeInv
<1>2. StreamInv /\ StreamInv' /\ WholeInv /\ [Next]_vars => WholeInv'
  BY WholeStep
<1>3. Init => WholeSource!Init
  BY DEF Init, WholeSource!Init
<1>4. StreamInv /\ StreamInv' /\ WholeInv /\ [Next]_vars => [WholeSource!Next]_(WholeSource!vars)
  <2> SUFFICES ASSUME StreamInv, StreamInv', WholeInv, [Next]_vars
               PROVE  [WholeSource!Next]_(WholeSource!vars)
    OBVIOUS
  <2>1. Whole' = Whole /\ (Whole => SourceStep)
    BY WholeStep
  <2>2. CASE Whole
    BY <2>1, <2>2 DEF SourceStep, WholeSource!Next, WholeSource!vars, WholeSource!Send, WholeSource!Read
  <2>3. CASE ~Whole
    BY <2>1, <2>3 DEF WholeSource!vars
  <2> QED
    BY <2>2, <2>3
<1> QED
  BY <1>1, <1>2, <1>3, <1>4, StreamSound, PTL DEF Spec, WholeSource!SafeSpec
=============================================================================
