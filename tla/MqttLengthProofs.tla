--------------------------- MODULE MqttLengthProofs ---------------------------
(* What MQTTPacket_encode, MQTTPacket_decode and MQTTPacket_len compute, for   *)
(* every base, every number of length bytes up to four and every length.       *)
EXTENDS MqttLength, SequenceTheorems, WellFoundedInduction, TLAPS

(* The history of the encoder's loop ties each byte to the quotients before    *)
(* and after it; this is what replaces an induction over the field.            *)
Encoded ==
  /\ Len(quotient) = Len(buf) + 1
  /\ quotient[1] = orig
  /\ quotient[Len(buf) + 1] = length
  /\ Len(buf) <= MaxLenBytes
  /\ length < Power[MaxLenBytes - Len(buf)]
  /\ \A i \in 1..Len(buf) :
       /\ quotient[i] = quotient[i + 1] * Base + Digit(buf[i])
       /\ More(buf[i]) <=> quotient[i + 1] > 0
  /\ \A i \in 1..(Len(buf) + 1) : quotient[i] \in Nat
  /\ \A i \in 2..Len(buf) : quotient[i] > 0
  /\ pc = "encode" /\ buf # <<>> => length > 0
  /\ pc # "encode" => length = 0 /\ buf # <<>>

(* The decoder's place: digits read so far make up value, the quotient at its  *)
(* place is what the rest of the field still has to add.                       *)
Decoded ==
  /\ pc # "bad"
  /\ len <= Len(buf)
  /\ orig = value + multiplier * quotient[len + 1]
  /\ pc = "decode" => len < Len(buf)
  /\ pc = "done" => len = Len(buf)
  /\ pc = "decode" /\ len > 0 => orig >= multiplier
  /\ pc = "done" /\ len > 1 => orig >= Power[len - 1]

Weight ==
  /\ pc = "encode" => len = 0 /\ orig # NoLength
  /\ pc # "bad" => /\ len <= MaxLenBytes
                   /\ multiplier = Power[len]
                   /\ value < multiplier
  /\ value < Power[MaxLenBytes]

IInv ==
  /\ TypeOK
  /\ Weight
  /\ orig # NoLength => Encoded /\ Decoded
-------------------------------------------------------------------------------
(* Division by the base.                                                       *)
LEMMA Division ==
  ASSUME NEW n \in Nat
  PROVE  /\ n \div Base \in Nat
         /\ n % Base \in 0 .. Base - 1
         /\ n = (n \div Base) * Base + (n % Base)
         /\ n \div Base > 0 => n \div Base < n
<1> DEFINE q == n \div Base
           r == n % Base
<1>1. n = q * Base + r /\ q \in Int /\ r \in 0 .. Base - 1 /\ Base \in Nat /\ Base > 1
  BY BytesAssumption
<1> HIDE DEF q, r
<1>2. q >= 0
  <2>1. ASSUME q <= -1 PROVE FALSE
    <3>1. q * Base <= (-1) * Base
      BY <1>1, <2>1
    <3> QED
      BY <1>1, <3>1
  <2> QED
    BY <1>1, <2>1
<1>3. q > 0 => q < n
  <2>1. ASSUME q > 0 PROVE q * Base >= q * 2
    BY <1>1, <2>1
  <2> QED
    BY <1>1, <2>1
<1>4. q \in Nat
  BY <1>1, <1>2
<1> QED
  BY <1>1, <1>3, <1>4 DEF q, r

LEMMA DivisionBound ==
  ASSUME NEW q \in Nat, NEW d \in Nat, NEW m \in Nat, q * Base + d < m * Base
  PROVE  q < m
<1>1. SUFFICES ASSUME q >= m PROVE FALSE
  OBVIOUS
<1>2. q * Base >= m * Base
  BY <1>1, BytesAssumption
<1> QED
  BY <1>2, BytesAssumption

(* One more digit: the value stays below the weight of the next one.           *)
LEMMA DigitBound ==
  ASSUME NEW v \in Nat, NEW m \in Nat, NEW d \in 0..(Base - 1), v < m
  PROVE  v + d * m < m * Base
<1>1. d * m <= (Base - 1) * m
  BY BytesAssumption
<1>2. (Base - 1) * m = m * Base - m
  BY BytesAssumption
<1>3. d * m \in Nat /\ m * Base \in Nat
  BY BytesAssumption
<1> QED
  BY <1>1, <1>2, <1>3, BytesAssumption

(* A byte read is the digit and top bit that were written.                     *)
LEMMA ByteFields ==
  ASSUME NEW d \in 0..(Base - 1), NEW left \in Nat
  PROVE  /\ LengthByte(d, left) \in Byte
         /\ Digit(LengthByte(d, left)) = d
         /\ More(LengthByte(d, left)) <=> left > 0
<1>1. d % Base = d /\ (d + Base) % Base = d
  BY BytesAssumption
<1> QED
  BY <1>1, BytesAssumption DEF LengthByte, Digit, More, Byte

LEMMA PowerPositive ==
  \A k \in 0..MaxLenBytes : Power[k] \in Nat /\ 1 <= Power[k] /\ Power[k] <= Power[MaxLenBytes]
<1>1. \A k \in 0..MaxLenBytes : Power[k] \in Nat
  BY PowerAssumption
<1>2. \A k \in 0..(MaxLenBytes - 1) : Power[k] <= Power[k + 1]
  BY <1>1, PowerAssumption, BytesAssumption
<1>3. CASE MaxLenBytes = 1
  BY <1>1, <1>2, <1>3, PowerAssumption
<1>4. CASE MaxLenBytes = 2
  <2>1. Power[0] <= Power[0 + 1] /\ Power[1] <= Power[1 + 1]
    BY <1>2, <1>4
  <2> QED
    BY <1>1, <1>4, <2>1, PowerAssumption
<1>5. CASE MaxLenBytes = 3
  <2>1. Power[0] <= Power[0 + 1] /\ Power[1] <= Power[1 + 1] /\ Power[2] <= Power[2 + 1]
    BY <1>2, <1>5
  <2> QED
    BY <1>1, <1>5, <2>1, PowerAssumption
<1>6. CASE MaxLenBytes = 4
  <2>1. /\ Power[0] <= Power[0 + 1] /\ Power[1] <= Power[1 + 1]
        /\ Power[2] <= Power[2 + 1] /\ Power[3] <= Power[3 + 1]
    BY <1>2, <1>6
  <2> QED
    BY <1>1, <1>6, <2>1, PowerAssumption
<1> QED
  BY <1>3, <1>4, <1>5, <1>6, BytesAssumption
-------------------------------------------------------------------------------
(* Induction: a set of numbers that is not empty has a least one.          *)
LEMMA LeastNumber ==
  ASSUME NEW T, T \subseteq Nat, T # {}
  PROVE  \E x \in T : \A y \in T : x <= y
<1> DEFINE R == OpToRel(<, Nat)
<1>1. \A x, y \in Nat : x < y => <<x, y>> \in R
  BY DEF OpToRel
<1>2. IsWellFoundedOn(R, Nat)
  BY NatLessThanWellFounded
<1> HIDE DEF R
<1>3. PICK x \in T : \A y \in T : ~ (<<y, x>> \in R)
  BY <1>2, WFMin
<1>4. ASSUME NEW y \in T PROVE x <= y
  <2>1. x \in Nat /\ y \in Nat /\ ~ (y < x)
    BY <1>1, <1>3
  <2> QED
    BY <2>1
<1> QED
  BY <1>4

(* The recursive function Encode: its equation has a solution, and so does *)
(* what it says.                                                           *)

\* The right-hand side of its equation, rest being the value for n \div Base.
Turn(n, rest) ==
  IF n \div Base > 0 THEN <<LengthByte(n % Base, n \div Base)>> \o rest
  ELSE <<LengthByte(n % Base, n \div Base)>>

LEMMA ByteWritten ==
  ASSUME NEW n \in Nat
  PROVE  LET b == LengthByte(n % Base, n \div Base)
         IN  b \in Byte /\ Digit(b) = n % Base /\ (More(b) <=> n \div Base > 0)
BY Division, ByteFields

LEMMA TurnType ==
  ASSUME NEW n \in Nat, NEW rest, n \div Base > 0 => rest \in Seq(Byte)
  PROVE  Turn(n, rest) \in Seq(Byte)
<1>1. LengthByte(n % Base, n \div Base) \in Byte
  BY ByteWritten
<1> QED
  BY <1>1 DEF Turn

\* A solution for the numbers up to m.
Solves(g, m) == g \in [0 .. m -> Seq(Byte)] /\ \A n \in 0 .. m : g[n] = Turn(n, g[n \div Base])

LEMMA SolvesOnce ==
  ASSUME NEW l \in Nat, NEW m \in Nat, NEW g, NEW h, Solves(g, l), Solves(h, m),
         NEW n \in Nat, n <= l, n <= m
  PROVE  g[n] = h[n]
<1> DEFINE T == {k \in Nat : k <= l /\ k <= m /\ g[k] # h[k]}
<1>1. ASSUME T # {} PROVE FALSE
  <2>1. T \subseteq Nat
    OBVIOUS
  <2> HIDE DEF T
  <2>2. PICK k \in T : \A j \in T : k <= j
    BY <1>1, <2>1, LeastNumber
  <2>3. k \in Nat /\ k \in 0 .. l /\ k \in 0 .. m /\ g[k] # h[k]
    BY <2>2 DEF T
  <2>4. g[k] = Turn(k, g[k \div Base]) /\ h[k] = Turn(k, h[k \div Base])
    BY <2>3 DEF Solves
  <2>5. CASE k \div Base > 0
    <3>1. k \div Base \in Nat /\ k \div Base < k
      BY <2>3, <2>5, Division
    <3>2. k \div Base \notin T
      BY <2>2, <2>3, <3>1
    <3>3. g[k \div Base] = h[k \div Base]
      BY <2>3, <3>1, <3>2 DEF T
    <3> QED
      BY <2>3, <2>4, <3>3
  <2>6. CASE ~ (k \div Base > 0)
    BY <2>3, <2>4, <2>6 DEF Turn
  <2> QED
    BY <2>5, <2>6
<1> QED
  BY <1>1

LEMMA Solvable == \A m \in Nat : \E g : Solves(g, m)
<1> DEFINE T == {m \in Nat : ~ \E g : Solves(g, m)}
<1>1. ASSUME T # {} PROVE FALSE
  <2>1. T \subseteq Nat
    OBVIOUS
  <2> HIDE DEF T
  <2>2. PICK m \in T : \A j \in T : m <= j
    BY <1>1, <2>1, LeastNumber
  <2>3. m \in Nat /\ ~ \E g : Solves(g, m)
    BY <2>2 DEF T
  <2>4. CASE m = 0
    <3> DEFINE g == [n \in 0 .. 0 |-> Turn(0, <<>>)]
    <3>1. 0 \div Base = 0
      BY BytesAssumption
    <3>2. Turn(0, <<>>) \in Seq(Byte)
      <4>1. <<>> \in Seq(Byte)
        OBVIOUS
      <4> QED
        BY <4>1, TurnType
    <3>3. g \in [0 .. 0 -> Seq(Byte)] /\ g[0] = Turn(0, <<>>)
      BY <3>2
    <3>4. Turn(0, <<>>) = Turn(0, g[0 \div Base])
      BY <3>1 DEF Turn
    <3> HIDE DEF g
    <3>5. \A n \in 0 .. 0 : n = 0
      OBVIOUS
    <3>6. Solves(g, 0)
      BY <3>3, <3>4, <3>5 DEF Solves
    <3> QED
      BY <2>3, <2>4, <3>6
  <2>5. CASE m # 0
    <3>1. m - 1 \in Nat /\ m - 1 \notin T
      BY <2>2, <2>3, <2>5
    <3>2. PICK g : Solves(g, m - 1)
      BY <3>1 DEF T
    <3> DEFINE h == [n \in 0 .. m |-> IF n = m THEN Turn(m, g[m \div Base]) ELSE g[n]]
    <3>3. m \div Base \in Nat /\ (m \div Base > 0 => m \div Base < m)
      BY <2>3, Division
    <3>4. \A n \in 0 .. m - 1 : h[n] = g[n] /\ g[n] \in Seq(Byte) /\ g[n] = Turn(n, g[n \div Base])
      BY <2>3, <3>2 DEF Solves
    <3>5. Turn(m, g[m \div Base]) \in Seq(Byte)
      <4>1. m \div Base > 0 => m \div Base \in 0 .. m - 1
        BY <2>3, <3>3
      <4>2. m \div Base > 0 => g[m \div Base] \in Seq(Byte)
        BY <3>4, <4>1
      <4> QED
        BY <2>3, <4>2, TurnType
    <3>6. h[m] = Turn(m, g[m \div Base])
      BY <2>3
    <3>7. h \in [0 .. m -> Seq(Byte)]
      <4>1. ASSUME NEW n \in 0 .. m
            PROVE  (IF n = m THEN Turn(m, g[m \div Base]) ELSE g[n]) \in Seq(Byte)
        <5>1. n # m => n \in 0 .. m - 1
          BY <2>3
        <5>2. n # m => g[n] \in Seq(Byte)
          BY <3>2, <5>1 DEF Solves
        <5> QED
          BY <3>5, <5>2
      <4> QED
        BY <4>1
    <3> HIDE DEF h
    <3>8. ASSUME NEW n \in 0 .. m PROVE h[n] = Turn(n, h[n \div Base])
      <4>1. n \in Nat /\ n \div Base \in Nat /\ (n \div Base > 0 => n \div Base < n)
        BY Division
      <4>2. h[n] = Turn(n, g[n \div Base])
        BY <2>3, <3>4, <3>6
      <4>3. CASE n \div Base > 0
        <5>1. n \div Base \in 0 .. m - 1
          BY <2>3, <4>1, <4>3
        <5> QED
          BY <3>4, <4>2, <5>1
      <4>4. CASE ~ (n \div Base > 0)
        BY <4>2, <4>4 DEF Turn
      <4> QED
        BY <4>3, <4>4
    <3> QED
      BY <2>3, <3>7, <3>8 DEF Solves
  <2> QED
    BY <2>4, <2>5
<1> QED
  BY <1>1

LEMMA EncodeIs ==
  /\ Encode \in [Nat -> Seq(Byte)]
  /\ \A n \in Nat : Encode[n] = Turn(n, Encode[n \div Base])
<1>1. Encode = CHOOSE f : f = [n \in Nat |-> Turn(n, f[n \div Base])]
  BY DEF Encode, Turn
<1> DEFINE G(m) == CHOOSE g : Solves(g, m)
           F == [n \in Nat |-> G(n)[n]]
<1>2. \A m \in Nat : Solves(G(m), m)
  BY Solvable
<1> HIDE DEF G
<1>3. \A n \in Nat : F[n] = G(n)[n]
  OBVIOUS
<1>4. F \in [Nat -> Seq(Byte)]
  BY <1>2 DEF Solves
<1> HIDE DEF F
<1>5. ASSUME NEW n \in Nat PROVE F[n] = Turn(n, F[n \div Base])
  <2>1. G(n)[n] = Turn(n, G(n)[n \div Base])
    BY <1>2 DEF Solves
  <2>2. n \div Base \in Nat /\ (n \div Base > 0 => n \div Base < n)
    BY Division
  <2>3. CASE n \div Base > 0
    <3>1. G(n)[n \div Base] = G(n \div Base)[n \div Base]
      BY <1>2, <2>2, <2>3, SolvesOnce
    <3> QED
      BY <1>3, <2>1, <2>2, <3>1
  <2>4. CASE ~ (n \div Base > 0)
    BY <1>3, <2>1, <2>4 DEF Turn
  <2> QED
    BY <2>3, <2>4
<1>6. F = [n \in Nat |-> Turn(n, F[n \div Base])]
  BY <1>4, <1>5
<1>7. Encode = [n \in Nat |-> Turn(n, Encode[n \div Base])]
  BY <1>1, <1>6
<1> DEFINE T == {n \in Nat : Encode[n] \notin Seq(Byte)}
<1>8. \A n \in Nat : Encode[n] = Turn(n, Encode[n \div Base])
  BY <1>7
<1>9. ASSUME T # {} PROVE FALSE
  <2>1. T \subseteq Nat
    OBVIOUS
  <2> HIDE DEF T
  <2>2. PICK n \in T : \A j \in T : n <= j
    BY <1>9, <2>1, LeastNumber
  <2>3. n \in Nat /\ Encode[n] \notin Seq(Byte)
    BY <2>2 DEF T
  <2>4. n \div Base \in Nat /\ (n \div Base > 0 => n \div Base < n)
    BY <2>3, Division
  <2>5. n \div Base > 0 => n \div Base \notin T
    BY <2>2, <2>3, <2>4
  <2>6. n \div Base > 0 => Encode[n \div Base] \in Seq(Byte)
    BY <2>4, <2>5 DEF T
  <2> QED
    BY <1>8, <2>3, <2>6, TurnType
<1>10. \A n \in Nat : Encode[n] \in Seq(Byte)
  BY <1>9
<1>11. Encode \in [Nat -> Seq(Byte)]
  BY <1>7, <1>10
<1> QED
  BY <1>8, <1>11
-------------------------------------------------------------------------------
LEMMA InitIInv == Init => IInv
<1> SUFFICES ASSUME Init PROVE IInv
  OBVIOUS
<1>0. \A n \in Lengths : n \in Nat /\ n < Power[MaxLenBytes]
  BY PowerAssumption, LengthAssumption, BytesAssumption
<1>1. TypeOK
  <2>1. orig \in Lengths \cup {NoLength} /\ buf \in Seq(Byte)
    <3>1. \A f \in Fields : f \in Seq(Byte)
      BY LengthAssumption
    <3>2. <<>> \in Seq(Byte)
      OBVIOUS
    <3> QED
      BY <3>1, <3>2 DEF Init
  <2>2. orig \in Nat \cup {NoLength}
    BY <2>1, <1>0
  <2>3. quotient \in Seq(Nat \cup {NoLength})
    BY <2>2 DEF Init
  <2>4. 0 \in 0..(MaxLenBytes + 1)
    BY BytesAssumption
  <2> QED
    BY <2>1, <2>2, <2>3, <2>4 DEF Init, TypeOK
<1>2. Weight
  <2>1. Power[MaxLenBytes] \in Nat /\ 0 < Power[MaxLenBytes]
    BY PowerPositive, BytesAssumption
  <2>2. pc = "encode" => orig # NoLength
    <3>1. \A n \in Lengths : n # NoLength
      BY <1>0 DEF NoLength
    <3> QED
      BY <3>1 DEF Init
  <2> QED
    BY <2>1, <2>2, PowerAssumption, BytesAssumption DEF Init, Weight
<1>3. ASSUME orig # NoLength PROVE Encoded /\ Decoded
  <2>1. orig \in Lengths /\ buf = <<>> /\ pc = "encode"
    BY <1>3 DEF Init
  <2>2. orig \in Nat /\ orig < Power[MaxLenBytes]
    BY <2>1, <1>0
  <2>3. Encoded
    BY <2>1, <2>2, BytesAssumption DEF Init, Encoded
  <2>4. Decoded
    BY <2>1, <2>2 DEF Init, Decoded
  <2> QED
    BY <2>3, <2>4
<1> QED
  BY <1>1, <1>2, <1>3 DEF IInv

LEMMA EncodeByteIInv == IInv /\ EncodeByte => IInv'
<1> SUFFICES ASSUME IInv, EncodeByte PROVE IInv'
  OBVIOUS
<1> USE DEF IInv
<1> DEFINE d == length % Base
           q == length \div Base
           b == LengthByte(d, q)
           n == Len(buf)
<1>1. orig # NoLength /\ orig \in Lengths /\ len = 0
  BY DEF EncodeByte, Weight, TypeOK
<1>2. Encoded /\ Decoded
  BY <1>1
<1>3. length \in Nat
  BY <1>1, <1>2, PowerAssumption, BytesAssumption DEF Encoded, EncodeByte, TypeOK, NoLength
<1>4. q \in Nat /\ d \in 0..(Base - 1) /\ length = q * Base + d
  BY <1>3, Division
<1>5. b \in Byte /\ Digit(b) = d /\ (More(b) <=> q > 0)
  BY <1>4, ByteFields
<1>6. /\ buf' = Append(buf, b) /\ length' = q /\ quotient' = Append(quotient, q)
      /\ pc' = IF q > 0 THEN "encode" ELSE "decode"
      /\ UNCHANGED <<orig, len, multiplier, value>>
  BY DEF EncodeByte
<1>7. n \in Nat /\ n < MaxLenBytes /\ q < Power[MaxLenBytes - (n + 1)]
  <2>1. n \in Nat /\ n <= MaxLenBytes
    BY <1>2 DEF Encoded, TypeOK
  <2>2. n # MaxLenBytes
    <3>1. SUFFICES ASSUME n = MaxLenBytes PROVE FALSE
      OBVIOUS
    <3>2. length < 1
      BY <3>1, <1>2, PowerAssumption, BytesAssumption DEF Encoded
    <3>3. length > 0
      BY <3>1, <1>2, BytesAssumption DEF Encoded, EncodeByte
    <3> QED
      BY <3>2, <3>3, <1>3
  <2>3. MaxLenBytes - (n + 1) \in 0..(MaxLenBytes - 1)
    BY <2>1, <2>2, BytesAssumption
  <2>4. Power[MaxLenBytes - n] = Power[MaxLenBytes - (n + 1)] * Base
    <3>1. MaxLenBytes - n = (MaxLenBytes - (n + 1)) + 1
      BY <2>1, BytesAssumption
    <3> QED
      BY <3>1, <2>3, PowerAssumption
  <2>5. Power[MaxLenBytes - (n + 1)] \in Nat
    BY <2>3, PowerPositive, BytesAssumption
  <2>6. q * Base + d < Power[MaxLenBytes - (n + 1)] * Base
    BY <2>4, <1>2, <1>4 DEF Encoded
  <2>7. d \in Nat
    BY <1>4, BytesAssumption
  <2>8. q < Power[MaxLenBytes - (n + 1)]
    BY <2>5, <2>6, <2>7, <1>4, DivisionBound
  <2> QED
    BY <2>1, <2>2, <2>8, BytesAssumption
<1>8. /\ Len(buf') = n + 1 /\ Len(quotient') = n + 2
      /\ \A i \in 1..n : buf'[i] = buf[i]
      /\ buf'[n + 1] = b
      /\ \A i \in 1..(n + 1) : quotient'[i] = quotient[i]
      /\ quotient'[n + 2] = q
      /\ buf' # <<>>
  BY <1>2, <1>5, <1>6, <1>7 DEF Encoded, TypeOK
<1>9. TypeOK'
  BY <1>4, <1>5, <1>6 DEF TypeOK
<1>10. Weight'
  BY <1>1, <1>6, PowerAssumption, BytesAssumption DEF Weight, EncodeByte
<1>11. Encoded'
  <2>1. \A i \in 1..(n + 1) :
          /\ quotient'[i] = quotient'[i + 1] * Base + Digit(buf'[i])
          /\ More(buf'[i]) <=> quotient'[i + 1] > 0
    <3> SUFFICES ASSUME NEW i \in 1..(n + 1)
                 PROVE  /\ quotient'[i] = quotient'[i + 1] * Base + Digit(buf'[i])
                        /\ More(buf'[i]) <=> quotient'[i + 1] > 0
      OBVIOUS
    <3>1. CASE i \in 1..n
      <4>1. i + 1 \in 1..(n + 1)
        BY <3>1, <1>7
      <4> QED
        BY <3>1, <4>1, <1>2, <1>8 DEF Encoded
    <3>2. CASE i = n + 1
      BY <3>2, <1>2, <1>4, <1>5, <1>7, <1>8 DEF Encoded
    <3> QED
      BY <3>1, <3>2, <1>7
  <2>2. pc' # "encode" => q = 0
    BY <1>4, <1>6
  <2>6. \A i \in 1..(Len(buf') + 1) : quotient'[i] \in Nat
    <3>1. \A i \in 1..(n + 1) : quotient[i] \in Nat
      BY <1>2 DEF Encoded
    <3>2. \A i \in 1..(n + 2) : i \in 1..(n + 1) \/ i = n + 2
      BY <1>7
    <3> QED
      BY <3>1, <3>2, <1>4, <1>7, <1>8
  <2>7. \A i \in 2..Len(buf') : quotient'[i] > 0
    <3>1. \A i \in 2..n : quotient[i] > 0
      BY <1>2 DEF Encoded
    <3>2. n > 0 => quotient[n + 1] > 0
      BY <1>2, <1>7 DEF Encoded, EncodeByte
    <3>3. \A i \in 2..(n + 1) : (i \in 2..n \/ (i = n + 1 /\ n > 0)) /\ i \in 1..(n + 1)
      BY <1>7
    <3> QED
      BY <3>1, <3>2, <3>3, <1>8
  <2>3. Len(quotient') = Len(buf') + 1 /\ quotient'[1] = orig' /\ quotient'[Len(buf') + 1] = length'
    BY <1>2, <1>6, <1>7, <1>8 DEF Encoded
  <2>4. Len(buf') <= MaxLenBytes /\ length' < Power[MaxLenBytes - Len(buf')]
    BY <1>6, <1>7, <1>8, BytesAssumption
  <2>5. pc' = "encode" => length' > 0
    BY <1>6
  <2> QED
    BY <2>1, <2>2, <2>3, <2>4, <2>5, <2>6, <2>7, <1>6, <1>8 DEF Encoded
<1>12. Decoded'
  <2>1. multiplier = 1 /\ value = 0
    BY <1>1, PowerPositive, PowerAssumption, BytesAssumption DEF Weight, EncodeByte, TypeOK
  <2>2. quotient'[1] = orig /\ orig \in Nat
    BY <1>1, <1>2, <1>7, <1>8, PowerAssumption, BytesAssumption DEF Encoded
  <2> QED
    BY <2>1, <2>2, <1>1, <1>6, <1>7, <1>8 DEF Decoded
<1> QED
  BY <1>1, <1>6, <1>9, <1>10, <1>11, <1>12

LEMMA DecodeByteIInv == IInv /\ DecodeByte => IInv'
<1> SUFFICES ASSUME IInv, DecodeByte PROVE IInv'
  OBVIOUS
<1> USE DEF IInv
<1> DEFINE c == buf[len + 1]
<1>1. /\ pc = "decode" /\ len < MaxLenBytes /\ len < Len(buf)
      /\ value' = value + Digit(c) * multiplier
      /\ pc' = IF More(c) THEN "decode" ELSE "done"
      /\ len' = len + 1 /\ multiplier' = multiplier * Base
      /\ UNCHANGED <<orig, length, buf, quotient>>
  BY DEF DecodeByte, encoder
<1>2. len \in 0..(MaxLenBytes - 1) /\ len + 1 \in 1..MaxLenBytes
  BY <1>1, BytesAssumption DEF TypeOK
<1>3. c \in Byte
  BY <1>1, <1>2, BytesAssumption DEF TypeOK
<1>4. Digit(c) \in 0..(Base - 1)
  BY <1>3, BytesAssumption DEF Byte, Digit
<1>5. multiplier = Power[len] /\ value < multiplier /\ multiplier \in Nat /\ value \in Nat
  BY <1>1 DEF Weight, TypeOK
<1>6. multiplier' = Power[len']
  BY <1>1, <1>2, <1>5, PowerAssumption
<1>7. value' < multiplier'
  BY <1>1, <1>4, <1>5, DigitBound
<1>8. value' \in Nat /\ multiplier' \in Nat
  <2>1. Digit(c) * multiplier \in Nat /\ multiplier * Base \in Nat
    BY <1>4, <1>5, BytesAssumption
  <2> QED
    BY <2>1, <1>1, <1>5
<1>9. TypeOK'
  <2>1. len' \in 0..(MaxLenBytes + 1) /\ pc' \in {"encode", "decode", "done", "bad"}
    BY <1>1, <1>2, BytesAssumption
  <2> QED
    BY <2>1, <1>1, <1>8 DEF TypeOK
<1>10. Weight'
  <2>1. len' \in 0..MaxLenBytes
    BY <1>1, <1>2, BytesAssumption
  <2>2. Power[len'] <= Power[MaxLenBytes] /\ Power[len'] \in Nat /\ Power[MaxLenBytes] \in Nat
    BY <2>1, PowerPositive, BytesAssumption
  <2>3. value' < Power[MaxLenBytes]
    BY <2>2, <1>6, <1>7, <1>8
  <2>4. pc' # "encode" /\ len' <= MaxLenBytes
    BY <1>1, <2>1, BytesAssumption
  <2> QED
    BY <2>3, <2>4, <1>6, <1>7 DEF Weight
<1>11. ASSUME orig' # NoLength PROVE Encoded' /\ Decoded'
  <2>1. orig # NoLength /\ Encoded /\ Decoded
    BY <1>11, <1>1
  <2>2. Encoded'
    BY <2>1, <1>1 DEF Encoded
  <2> DEFINE q == quotient[len + 1]
             r == quotient[len + 2]
  <2>3. len + 1 \in 1..Len(buf) /\ Len(buf) \in Nat
    BY <1>1, <1>2, BytesAssumption DEF TypeOK
  <2>4. q = r * Base + Digit(c) /\ (More(c) <=> r > 0)
    <3>1. (len + 1) + 1 = len + 2
      BY <1>2
    <3> QED
      BY <3>1, <2>1, <2>3 DEF Encoded
  <2>5. r \in Nat
    <3>1. len + 2 \in 1..(Len(buf) + 1)
      BY <1>2, <2>3
    <3> QED
      BY <3>1, <2>1 DEF Encoded
  <2>6. orig = value' + multiplier' * r
    <3>1. orig = value + multiplier * (r * Base + Digit(c))
      BY <2>1, <2>4 DEF Decoded
    <3>2. multiplier * (r * Base + Digit(c)) = (multiplier * Base) * r + Digit(c) * multiplier
      BY <2>5, <1>4, <1>5, BytesAssumption
    <3>3. Digit(c) * multiplier \in Nat /\ (multiplier * Base) * r \in Nat
      BY <2>5, <1>4, <1>5, BytesAssumption
    <3> QED
      BY <3>1, <3>2, <3>3, <1>1, <1>5
  <2>7. orig \in Nat
    <3>1. multiplier' * r \in Nat
      BY <2>5, <1>8
    <3> QED
      BY <3>1, <2>6, <1>8
  <2>8. (pc' = "decode" => len' < Len(buf)) /\ (pc' = "done" => len' = Len(buf))
    <3>1. CASE len + 1 = Len(buf)
      <4>1. r = 0
        <5>1. len + 2 = Len(buf) + 1
          BY <3>1, <1>2
        <5> QED
          BY <5>1, <2>1, <1>1 DEF Encoded
      <4> QED
        BY <4>1, <3>1, <2>4, <1>1
    <3>2. CASE len + 1 < Len(buf)
      <4>1. len + 2 \in 2..Len(buf)
        BY <3>2, <2>3, <1>2
      <4>2. r > 0
        BY <4>1, <2>1 DEF Encoded
      <4> QED
        BY <4>2, <3>2, <2>4, <1>1
    <3> QED
      BY <3>1, <3>2, <2>3, <1>2
  <2>9. pc' = "decode" => orig >= multiplier'
    <3>1. SUFFICES ASSUME r > 0 PROVE multiplier' * r >= multiplier'
      BY <2>4, <2>5, <2>6, <1>1, <1>8
    <3> QED
      BY <3>1, <2>5, <1>8
  <2>10. pc' = "done" /\ len' > 1 => orig >= Power[len' - 1]
    BY <2>1, <1>1, <1>2, <1>5 DEF Decoded
  <2>11. Decoded'
    <3>1. quotient'[len' + 1] = r
      <4>1. len' + 1 = len + 2
        BY <1>1, <1>2
      <4> QED
        BY <4>1, <1>1
    <3>2. pc' # "bad" /\ len' <= Len(buf)
      BY <1>1, <2>3, <1>2
    <3> QED
      BY <3>1, <3>2, <2>6, <2>8, <2>9, <2>10, <1>1 DEF Decoded
  <2> QED
    BY <2>2, <2>11
<1> QED
  BY <1>9, <1>10, <1>11

LEMMA DecodeFailsIInv == IInv /\ DecodeFails => IInv'
<1> SUFFICES ASSUME IInv, DecodeFails PROVE IInv'
  OBVIOUS
<1> USE DEF IInv
<1>1. /\ pc = "decode" /\ (len = MaxLenBytes \/ len = Len(buf))
      /\ len' = len + 1 /\ pc' = "bad"
      /\ UNCHANGED <<orig, length, buf, quotient, multiplier, value>>
  BY DEF DecodeFails, encoder
<1>2. len <= MaxLenBytes
  BY <1>1 DEF Weight
<1>3. TypeOK'
  <2>1. len' \in 0..(MaxLenBytes + 1)
    BY <1>1, <1>2, BytesAssumption DEF TypeOK
  <2> QED
    BY <2>1, <1>1 DEF TypeOK
<1>4. Weight'
  BY <1>1 DEF Weight
<1>5. orig = NoLength
  <2>1. SUFFICES ASSUME orig # NoLength PROVE FALSE
    OBVIOUS
  <2>2. len < Len(buf) /\ Len(buf) <= MaxLenBytes /\ Len(buf) \in Nat
    BY <2>1, <1>1 DEF Decoded, Encoded, TypeOK
  <2> QED
    BY <2>2, <1>1, BytesAssumption DEF TypeOK
<1> QED
  BY <1>1, <1>3, <1>4, <1>5

LEMMA StepIInv == IInv /\ [Next]_vars => IInv'
<1> SUFFICES ASSUME IInv, [Next]_vars PROVE IInv'
  OBVIOUS
<1>1. CASE EncodeByte
  BY <1>1, EncodeByteIInv
<1>2. CASE DecodeByte
  BY <1>2, DecodeByteIInv
<1>3. CASE DecodeFails
  BY <1>3, DecodeFailsIInv
<1>4. CASE UNCHANGED vars
  BY <1>4 DEF vars, IInv, TypeOK, Weight, Encoded, Decoded
<1> QED
  BY <1>1, <1>2, <1>3, <1>4 DEF Next

LEMMA Inductive == Spec => []IInv
<1> QED
  BY InitIInv, StepIInv, PTL DEF Spec
-------------------------------------------------------------------------------
(* The loops of MQTTPacket_encode and MQTTPacket_decode keep their types.      *)
THEOREM TypeCorrect == Spec => []TypeOK
<1>1. IInv => TypeOK
  BY DEF IInv
<1> QED
  BY <1>1, Inductive, PTL

(* Decoding undoes encoding and stops at the body, for every base and length.  *)
THEOREM DecodeUndoesEncode == Spec => []RoundTrip
<1>1. IInv => RoundTrip
  <2> SUFFICES ASSUME IInv, orig # NoLength
               PROVE  pc # "bad" /\ (pc = "done" => value = orig /\ len = Len(buf))
    BY DEF RoundTrip
  <2>1. Encoded /\ Decoded /\ TypeOK
    BY DEF IInv
  <2>2. ASSUME pc = "done" PROVE value = orig
    <3>1. quotient[len + 1] = 0
      BY <2>1, <2>2 DEF Encoded, Decoded
    <3> QED
      BY <3>1, <2>1 DEF Decoded, TypeOK
  <2> QED
    BY <2>1, <2>2 DEF Decoded
<1> QED
  BY <1>1, Inductive, PTL

(* Whatever stands in the stream, the decoded value fits the length field.     *)
THEOREM ValueBounded == Spec => []ValueInRange
<1>1. IInv => ValueInRange
  BY DEF IInv, Weight, ValueInRange
<1> QED
  BY <1>1, Inductive, PTL

(* MQTTPacket_len is the size of the packet or one more, for every length.     *)
THEOREM LenIsEnough == Spec => []LenCoversPacket
<1>1. IInv => LenCoversPacket
  <2> SUFFICES ASSUME IInv, orig # NoLength, pc = "done"
               PROVE  PacketLen(orig) \in {1 + Len(buf) + orig, 1 + Len(buf) + orig + 1}
    BY DEF LenCoversPacket
  <2>1. Encoded /\ Decoded /\ TypeOK /\ Weight
    BY DEF IInv
  <2>2. value = orig /\ orig \in Nat
    <3>1. quotient[len + 1] = 0
      BY <2>1 DEF Encoded, Decoded
    <3> QED
      BY <3>1, <2>1 DEF Decoded, TypeOK
  <2> DEFINE n == Len(buf)
  <2>3. n \in 1..MaxLenBytes /\ n = len
    <3>1. n \in Nat /\ n # 0
      BY <2>1 DEF Encoded, TypeOK
    <3> QED
      BY <3>1, <2>1, BytesAssumption DEF Encoded, Decoded
  <2>4. orig < Power[n] /\ (n > 1 => orig >= Power[n - 1])
    BY <2>1, <2>2, <2>3 DEF Weight, Decoded
  <2>5. Power[0] = 1 /\ Power[1] = Base
    BY PowerAssumption, BytesAssumption
  <2>6. MaxLenBytes >= 2 => Power[2] = Base * Base
    <3>1. MaxLenBytes >= 2 => Power[1 + 1] = Power[1] * Base
      BY PowerAssumption, BytesAssumption
    <3> QED
      BY <3>1, <2>5
  <2>7. MaxLenBytes >= 3 => Power[3] = Base * Base * Base
    <3>1. MaxLenBytes >= 3 => Power[2 + 1] = Power[2] * Base
      BY PowerAssumption, BytesAssumption
    <3> QED
      BY <3>1, <2>6, BytesAssumption
  <2>8. /\ Base \in Nat /\ Base * Base \in Nat /\ Base * Base * Base \in Nat
        /\ Base >= 2 /\ Base * Base >= 2 * Base /\ Base * Base * Base >= 2 * (Base * Base)
    BY BytesAssumption
  <2>9. n \in {1, 2, 3, 4}
    BY <2>3, BytesAssumption
  <2>10. CASE n = 1
    BY <2>10, <2>2, <2>4, <2>5, <2>8 DEF PacketLen
  <2>11. CASE n = 2
    BY <2>11, <2>2, <2>3, <2>4, <2>5, <2>6, <2>8, BytesAssumption DEF PacketLen
  <2>12. CASE n = 3
    BY <2>12, <2>2, <2>3, <2>4, <2>6, <2>7, <2>8, BytesAssumption DEF PacketLen
  <2>13. CASE n = 4
    BY <2>13, <2>2, <2>3, <2>4, <2>7, <2>8, BytesAssumption DEF PacketLen
  <2> QED
    BY <2>9, <2>10, <2>11, <2>12, <2>13
<1> QED
  BY <1>1, Inductive, PTL
-------------------------------------------------------------------------------
(* What is written and what Encode says of the rest make the whole field.      *)
Written ==
  orig # NoLength =>
    /\ pc = "encode" => length \in Nat /\ buf \o Encode[length] = Encode[orig]
    /\ pc # "encode" => buf = Encode[orig]

LEMMA WrittenInit == Init => Written
<1> SUFFICES ASSUME Init, orig # NoLength PROVE Written
  BY DEF Written
<1>1. orig \in Lengths /\ pc = "encode" /\ buf = <<>> /\ length = orig
  BY DEF Init
<1>2. orig \in Nat
  BY <1>1, LengthAssumption, PowerAssumption, BytesAssumption
<1>3. Encode[orig] \in Seq(Byte)
  BY <1>2, EncodeIs
<1>4. <<>> \o Encode[orig] = Encode[orig]
  BY <1>3, ConcatEmptySeq
<1> QED
  BY <1>1, <1>2, <1>4 DEF Written

LEMMA Regroup ==
  \A s, t, u \in Seq(Byte) : (s \o t) \o u = s \o (t \o u)
BY ConcatAssociative

LEMMA WrittenByte == TypeOK /\ Written /\ EncodeByte => Written'
<1> SUFFICES ASSUME TypeOK, Written, EncodeByte, orig # NoLength PROVE Written'
  BY DEF Written, EncodeByte
<1> DEFINE q == length \div Base
           b == LengthByte(length % Base, q)
<1>1. /\ pc = "encode" /\ length' = q /\ buf' = Append(buf, b) /\ orig' = orig
      /\ pc' = IF q > 0 THEN "encode" ELSE "decode"
  BY DEF EncodeByte
<1>2. length \in Nat /\ buf \o Encode[length] = Encode[orig]
  BY <1>1 DEF Written
<1>3. q \in Nat /\ b \in Byte /\ buf \in Seq(Byte)
  BY <1>2, Division, ByteWritten DEF TypeOK
<1>4. Encode[length] = IF q > 0 THEN <<b>> \o Encode[q] ELSE <<b>>
  BY <1>2, EncodeIs DEF Turn
<1>5. Encode[q] \in Seq(Byte)
  BY <1>3, EncodeIs
<1> HIDE DEF q, b
<1>6. Append(buf, b) = buf \o <<b>> /\ <<b>> \in Seq(Byte)
  BY <1>3
<1>7. CASE q > 0
  <2>1. (buf \o <<b>>) \o Encode[q] = buf \o (<<b>> \o Encode[q])
    BY <1>3, <1>5, <1>6, Regroup
  <2>2. buf' \o Encode[length'] = Encode[orig']
    BY <1>1, <1>2, <1>4, <1>6, <1>7, <2>1
  <2> QED
    BY <1>1, <1>3, <1>7, <2>2 DEF Written
<1>8. CASE ~ (q > 0)
  <2>1. buf' = Encode[orig']
    BY <1>1, <1>2, <1>4, <1>6, <1>8
  <2> QED
    BY <1>1, <1>8, <2>1 DEF Written
<1> QED
  BY <1>7, <1>8

LEMMA WrittenStep == TypeOK /\ Written /\ [Next]_vars => Written'
<1> SUFFICES ASSUME TypeOK, Written, [Next]_vars PROVE Written'
  OBVIOUS
<1>1. CASE EncodeByte
  BY <1>1, WrittenByte
<1>2. ASSUME DecodeByte \/ DecodeFails PROVE Written'
  <2>1. UNCHANGED <<orig, length, buf>> /\ pc # "encode" /\ pc' # "encode"
    BY <1>2 DEF DecodeByte, DecodeFails, encoder
  <2> QED
    BY <2>1 DEF Written
<1>3. CASE UNCHANGED vars
  BY <1>3 DEF vars, Written
<1> QED
  BY <1>1, <1>2, <1>3 DEF Next

(* Whatever the length, the loop of MQTTPacket_encode leaves in the buffer     *)
(* what the function Encode says, which the packets of MqttFraming are built   *)
(* with.                                                                       *)
THEOREM LoopComputes == Spec => []LoopIsEncode
<1>1. Spec => []TypeOK
  BY TypeCorrect
<1>2. TypeOK /\ Written => LoopIsEncode
  BY DEF Written, LoopIsEncode
<1> QED
  BY <1>1, <1>2, WrittenInit, WrittenStep, PTL DEF Spec
===============================================================================
