-------------------------- MODULE SensorPipelineProofs --------------------------
(* Proofs about SensorPipeline, for any queue length, any number of readings   *)
(* and any measurements.                                                       *)
EXTENDS SensorPipeline, TLAPS

(* What a step of the publisher relies on: DHT11_Data is of one reading, and   *)
(* along publication, copies and DHT11_Data the readings only get newer.       *)
Newer ==
  /\ data = [temperature |-> readings, humidity |-> readings]
  /\ published.temperature =< published.humidity
  /\ published.humidity =< readings
  /\ sender \in {"humidity", "publish"} => published.humidity =< a /\ a =< readings
  /\ sender = "publish" => a =< b /\ b =< readings

IInv == TypeOK /\ Newer

USE SensorAssumption DEF Reading, Pair

(* A send leaves a queue within its length.                                    *)
LEMMA SentBounded ==
  ASSUME NEW q \in 0..QueueLen
  PROVE  Sent(q) \in 0..QueueLen
BY DEF Sent

LEMMA InitHolds == Init => IInv
BY DEF Init, IInv, TypeOK, Newer

LEMMA StepHolds == IInv /\ [Next]_vars => IInv'
<1> SUFFICES ASSUME IInv, [Next]_vars PROVE IInv'
  OBVIOUS
<1> USE DEF IInv, TypeOK, Newer, sensor, publisher
<1>1. CASE ReadNothing
  BY <1>1 DEF ReadNothing
<1>2. CASE ReadTransfer
  <2>1. readings' = readings + 1 /\ readings' \in Reading
    BY <1>2 DEF ReadTransfer
  <2>2. /\ data' = [temperature |-> readings', humidity |-> readings']
        /\ UNCHANGED <<mqttQueue, lvglQueue, sender, a, b, published>>
    BY <1>2 DEF ReadTransfer
  <2>3. checked' \subseteq checked \cup {readings'}
    BY <1>2 DEF ReadTransfer
  <2>4. task' \in {"sendMqtt", "delay"}
    BY <1>2 DEF ReadTransfer
  <2>5. checked' \subseteq 1..readings'
    BY <2>1, <2>3
  <2>6. deceived' \subseteq [sent : Transfers, slips : 0..5]
    <3>1. PICK f \in Transfers, slip \in Slips :
            deceived' \in {deceived, deceived \cup {[sent |-> f, slips |-> Total(slip)]}}
      BY <1>2 DEF ReadTransfer
    <3>2. Total(slip) \in 0..5
      BY DEF Slips, Total
    <3> QED
      BY <3>1, <3>2
  <2> QED
    BY <2>1, <2>2, <2>4, <2>5, <2>6
<1>3. CASE SendMqtt
  BY <1>3, SentBounded DEF SendMqtt
<1>4. CASE SendLvgl
  BY <1>4, SentBounded DEF SendLvgl
<1>5. CASE Delayed
  BY <1>5 DEF Delayed
<1>6. CASE Receive
  BY <1>6 DEF Receive
<1>7. CASE LoadTemperature
  BY <1>7 DEF LoadTemperature
<1>8. CASE LoadHumidity
  BY <1>8 DEF LoadHumidity
<1>9. CASE Publish
  BY <1>9 DEF Publish
<1>10. CASE UNCHANGED vars
  BY <1>10 DEF vars
<1> QED
  BY <1>1, <1>2, <1>3, <1>4, <1>5, <1>6, <1>7, <1>8, <1>9, <1>10
     DEF Next, SensorTask, Sender

LEMMA Invariant == Spec => []IInv
<1>1. Init => IInv
  BY InitHolds
<1>2. IInv /\ [Next]_vars => IInv'
  BY StepHolds
<1> QED
  BY <1>1, <1>2, PTL DEF Spec

(* Types, and queues never above their length.                                 *)
THEOREM TypeCorrect == Spec => []TypeOK
<1>1. IInv => TypeOK
  BY DEF IInv
<1> QED
  BY <1>1, Invariant, PTL

(* Only Publish changes what is published, and by Newer it hands over copies   *)
(* taken after the last publication, temperature first.                        *)
THEOREM PublishedInOrder == Spec => NeverGoesBack
<1> DEFINE Ordered ==
      /\ published'.temperature >= published.humidity
      /\ published'.humidity >= published'.temperature
<1>1. IInv /\ [Next]_vars => [Ordered]_published
  <2> SUFFICES ASSUME IInv, [Next]_vars, published' # published PROVE Ordered
    OBVIOUS
  <2>1. Publish
    BY DEF Next, SensorTask, Sender, ReadNothing, ReadTransfer, SendMqtt, SendLvgl, Delayed,
           Receive, LoadTemperature, LoadHumidity, vars, publisher
  <2>2. published' = [temperature |-> a, humidity |-> b] /\ sender = "publish"
    BY <2>1 DEF Publish
  <2> QED
    BY <2>2 DEF IInv, TypeOK, Newer
<1> QED
  BY <1>1, Invariant, PTL DEF Spec, NeverGoesBack
-------------------------------------------------------------------------------
HIDE SensorAssumption

(* What a DHT11 measures: a humidity of ten or more, and decimals of one digit.*)
SensorRange ==
  \A f \in Transfers :
    /\ f[1] \in 10..100
    /\ f[2] \in 0..9
    /\ f[3] \in 0..60
    /\ f[4] \in 0..9

(* The byte of the transfer at a place, and what a call there returns.         *)
ByteAt(h, d, t, e, c, place) ==
  IF place = 1 THEN h ELSE IF place = 2 THEN d ELSE IF place = 3 THEN t
  ELSE IF place = 4 THEN e ELSE c
Returned(h, d, t, e, c, slipped, hang, place) ==
  IF slipped = 1 \/ place >= hang THEN 0 ELSE ByteAt(h, d, t, e, c, place)

(* What the first four calls return, as numbers: those that read take the      *)
(* first bytes of the transfer, whichever calls they are, so that they add up  *)
(* to 0, h, h + d, h + d + t or everything. The byte behind is compared with   *)
(* that.                                                                       *)
AddsUp(h, d, t, e, c, s1, s2, s3, s4, hang) ==
  LET r1 == Returned(h, d, t, e, c, s1, hang, 1)
      r2 == Returned(h, d, t, e, c, s2, hang, 2 - s1)
      r3 == Returned(h, d, t, e, c, s3, hang, 3 - s1 - s2)
      r4 == Returned(h, d, t, e, c, s4, hang, 4 - s1 - s2 - s3)
      read == 4 - s1 - s2 - s3 - s4
      sum == r1 + r2 + r3 + r4
  IN  /\ r1 \in Nat /\ r2 \in Nat /\ r3 \in Nat /\ r4 \in Nat
      /\ hang = 1 \/ read = 0 => sum = 0
      /\ hang > 1 /\ read > 0 => sum \in 10..178
      /\ hang > read /\ read = 1 => sum = h
      /\ hang > read /\ read = 2 => sum = h + d
      /\ hang > read /\ read = 3 => sum = h + d + t

LEMMA ReadInOrder ==
  ASSUME NEW h \in 10..100, NEW d \in 0..9, NEW t \in 0..60, NEW e \in 0..9, NEW c \in 0..255,
         NEW s1 \in 0..1, NEW s2 \in 0..1, NEW s3 \in 0..1, NEW s4 \in 0..1, NEW hang \in 1..6
  PROVE  AddsUp(h, d, t, e, c, s1, s2, s3, s4, hang)
<1>1. CASE s1 = 0 /\ s2 = 0
  BY <1>1 DEF AddsUp, Returned, ByteAt
<1>2. CASE s1 = 0 /\ s2 = 1
  BY <1>2 DEF AddsUp, Returned, ByteAt
<1>3. CASE s1 = 1 /\ s2 = 0
  BY <1>3 DEF AddsUp, Returned, ByteAt
<1>4. CASE s1 = 1 /\ s2 = 1
  BY <1>4 DEF AddsUp, Returned, ByteAt
<1> QED
  BY <1>1, <1>2, <1>3, <1>4

(* With such a measurement there are two ways for bytes that hang or slip to   *)
(* agree with their checksum: five zeros, and two slipped bytes in a transfer  *)
(* whose temperature is the sum of the humidity bytes. Otherwise the byte in   *)
(* the place of the checksum is 0 or one digit, and the sum more than that.    *)
LEMMA WrongIsNoticed ==
  ASSUME SensorRange, NEW f \in Transfers, NEW slip \in Slips, NEW hang \in 1..6,
         ChecksumRight(ReadBytes(f, slip, hang))
  PROVE  \/ ReadBytes(f, slip, hang) = Whole(f)
         \/ ReadBytes(f, slip, hang) = AllZero
         \/ Total(slip) = 2 /\ f[3] = f[1] + f[2]
<1> DEFINE r == ReadBytes(f, slip, hang)
           c == Sum(f)
<1>1. PICK h \in 10..100, d \in 0..9, t \in 0..60, e \in 0..9 :
        f[1] = h /\ f[2] = d /\ f[3] = t /\ f[4] = e
  BY DEF SensorRange
<1>2. PICK s1 \in 0..1, s2 \in 0..1, s3 \in 0..1, s4 \in 0..1, s5 \in 0..1 :
        slip[1] = s1 /\ slip[2] = s2 /\ slip[3] = s3 /\ slip[4] = s4 /\ slip[5] = s5
  <2>1. slip[1] \in 0..1 /\ slip[2] \in 0..1 /\ slip[3] \in 0..1 /\ slip[4] \in 0..1 /\ slip[5] \in 0..1
    BY DEF Slips
  <2> QED
    BY <2>1
<1>3. c = h + d + t + e /\ c \in 10..255
  BY <1>1 DEF Sum
<1>4. \A place \in 1..5 : Whole(f)[place] = ByteAt(h, d, t, e, c, place)
  BY <1>1 DEF Whole, ByteAt
<1>5. /\ Places(slip)[1] = 1 /\ Places(slip)[2] = 2 - s1 /\ Places(slip)[3] = 3 - s1 - s2
      /\ Places(slip)[4] = 4 - s1 - s2 - s3 /\ Places(slip)[5] = 5 - s1 - s2 - s3 - s4
  BY <1>2 DEF Places
<1> HIDE DEF c
<1>6. /\ r[1] = Returned(h, d, t, e, c, s1, hang, 1)
      /\ r[2] = Returned(h, d, t, e, c, s2, hang, 2 - s1)
      /\ r[3] = Returned(h, d, t, e, c, s3, hang, 3 - s1 - s2)
      /\ r[4] = Returned(h, d, t, e, c, s4, hang, 4 - s1 - s2 - s3)
      /\ r[5] = Returned(h, d, t, e, c, s5, hang, 5 - s1 - s2 - s3 - s4)
  <2>1. /\ 2 - s1 \in 1..5 /\ 3 - s1 - s2 \in 1..5 /\ 4 - s1 - s2 - s3 \in 1..5
        /\ 5 - s1 - s2 - s3 - s4 \in 1..5
    OBVIOUS
  <2> QED
    BY <1>2, <1>4, <1>5, <2>1 DEF ReadBytes, Returned
<1> DEFINE read == 4 - s1 - s2 - s3 - s4
           sum == r[1] + r[2] + r[3] + r[4]
<1>7. /\ r[1] \in Nat /\ r[2] \in Nat /\ r[3] \in Nat /\ r[4] \in Nat
      /\ hang = 1 \/ read = 0 => sum = 0
      /\ hang > 1 /\ read > 0 => sum \in 10..178
      /\ hang > read /\ read = 1 => sum = h
      /\ hang > read /\ read = 2 => sum = h + d
      /\ hang > read /\ read = 3 => sum = h + d + t
  <2>1. c \in 0..255
    BY <1>3
  <2>2. AddsUp(h, d, t, e, c, s1, s2, s3, s4, hang)
    BY <2>1, ReadInOrder
  <2> HIDE DEF r
  <2> QED
    BY <1>6, <2>2 DEF AddsUp
<1>8. r[5] = sum % 256
  BY DEF ChecksumRight, Sum
<1>9. sum \in 0..178 /\ r[5] = sum
  BY <1>7, <1>8
<1>10. read + 1 \in 1..5 /\ r[5] = Returned(h, d, t, e, c, s5, hang, read + 1)
  BY <1>6
<1>11. r = [i \in 1..5 |-> r[i]] /\ DOMAIN r = 1..5
  BY DEF ReadBytes
<1> HIDE DEF r
<1>12. CASE r[5] = 0
  <2>1. r[1] = 0 /\ r[2] = 0 /\ r[3] = 0 /\ r[4] = 0
    <3>1. r[1] + r[2] + r[3] + r[4] = 0
      BY <1>9, <1>12
    <3> QED
      BY <1>7, <3>1
  <2>2. \A i \in 1..5 : r[i] = 0
    BY <1>12, <2>1
  <2> QED
    BY <1>11, <2>2 DEF AllZero, r
<1>13. CASE r[5] # 0
  <2>1. s5 = 0 /\ read + 1 < hang /\ r[5] = ByteAt(h, d, t, e, c, read + 1)
    BY <1>10, <1>13 DEF Returned
  <2>2. CASE read = 0
    BY <1>7, <1>9, <1>13, <2>2
  <2>3. CASE read = 1
    BY <1>7, <1>9, <2>1, <2>3 DEF ByteAt
  <2>4. CASE read = 2
    <3>1. t = h + d
      BY <1>7, <1>9, <2>1, <2>4 DEF ByteAt
    <3>2. Total(slip) = 2
      BY <1>2, <2>1, <2>4 DEF Total
    <3> QED
      BY <1>1, <3>1, <3>2
  <2>5. CASE read = 3
    BY <1>7, <1>9, <2>1, <2>5 DEF ByteAt
  <2>6. CASE read = 4
    <3>1. s1 = 0 /\ s2 = 0 /\ s3 = 0 /\ s4 = 0 /\ hang = 6
      BY <2>1, <2>6
    <3>2. \A i \in 1..5 : slip[i] = 0 /\ Places(slip)[i] = i
      BY <1>2, <1>5, <2>1, <3>1
    <3>3. ReadBytes(f, slip, hang) = [i \in 1..5 |-> Whole(f)[i]]
      BY <3>1, <3>2 DEF ReadBytes
    <3> QED
      BY <3>3 DEF Whole
  <2> QED
    BY <2>2, <2>3, <2>4, <2>5, <2>6
<1> QED
  BY <1>12, <1>13

(* The wrong readings that DHT11_Read_TempAndHumidity calls a SUCCESS, for     *)
(* every measurement in the range of the sensor: five zeros, and those of two  *)
(* slipped calls when the temperature sent is the sum of the humidity bytes.   *)
THEOREM WrongChecked ==
  ASSUME SensorRange
  PROVE  Spec => []DeceivedByTwoSlips
<1>1. Init => DeceivedByTwoSlips
  BY DEF Init, DeceivedByTwoSlips
<1>2. ASSUME DeceivedByTwoSlips, [Next]_vars PROVE DeceivedByTwoSlips'
  <2>1. CASE ReadTransfer
    <3>1. PICK f \in Transfers, slip \in Slips, hang \in 1..6 :
            \/ UNCHANGED deceived
            \/ /\ ChecksumRight(ReadBytes(f, slip, hang))
               /\ ReadBytes(f, slip, hang) # Whole(f)
               /\ ReadBytes(f, slip, hang) # AllZero
               /\ deceived' = deceived \cup {[sent |-> f, slips |-> Total(slip)]}
      BY <2>1 DEF ReadTransfer
    <3>2. CASE UNCHANGED deceived
      BY <1>2, <3>2 DEF DeceivedByTwoSlips
    <3>3. CASE ~UNCHANGED deceived
      <4>1. Total(slip) = 2 /\ f[3] = f[1] + f[2]
        BY <3>1, <3>3, WrongIsNoticed
      <4> QED
        BY <1>2, <3>1, <3>3, <4>1 DEF DeceivedByTwoSlips
    <3> QED
      BY <3>2, <3>3
  <2>2. CASE ~ReadTransfer
    <3>1. UNCHANGED deceived
      BY <1>2, <2>2 DEF Next, SensorTask, Sender, ReadNothing, SendMqtt, SendLvgl, Delayed,
             Receive, LoadTemperature, LoadHumidity, Publish, vars, sensor
    <3> QED
      BY <1>2, <3>1 DEF DeceivedByTwoSlips
  <2> QED
    BY <2>1, <2>2
<1> QED
  BY <1>1, <1>2, PTL DEF Spec
===============================================================================
