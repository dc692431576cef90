------------------------------ MODULE MqttBytes -------------------------------
(* The bytes of an MQTT packet as src/MQTT/MQTTPacket.c sees them. A byte of   *)
(* the length field holds one digit (c & 127) and a top bit (c & 128) that     *)
(* says that another digit follows; the first digit is the least significant.  *)
EXTENDS Integers, Sequences

CONSTANTS
  Base,         \* 128 in the code: the values one length byte can carry
  MaxLenBytes,  \* MAX_NO_OF_REMAINING_LENGTH_BYTES, 4 in the code
  Power         \* Power[k]: Base to the k, the weight of digit k

ASSUME BytesAssumption ==
  /\ Base \in Nat
  /\ Base > 1
  /\ MaxLenBytes \in 1..4

ASSUME PowerAssumption ==
  /\ Power \in [0..MaxLenBytes -> Nat]
  /\ Power[0] = 1
  /\ \A k \in 0..(MaxLenBytes - 1) : Power[k + 1] = Power[k] * Base

Byte == 0..(2 * Base - 1)

Digit(c) == c % Base
More(c) == c >= Base

(* The top bit forgotten.                                                      *)
MutLengthByte(digit, left) == digit

(* One turn of the loop of MQTTPacket_encode: the digit, with the top bit set  *)
(* when something of the length is left.                                       *)
LengthByte(digit, left) == IF left > 0 THEN digit + Base ELSE digit

(* What MQTTPacket_encode puts into its buffer.                                *)
Encode[n \in Nat] ==
  LET left == n \div Base
      byte == <<LengthByte(n % Base, left)>>
  IN  IF left > 0 THEN byte \o Encode[left] ELSE byte

(* A test that decides the number of length bytes one too late.                *)
MutPacketLen(rem) ==
  rem + 1 + (IF rem <= Base THEN 1
             ELSE IF rem <= Base * Base THEN 2
             ELSE IF rem <= Base * Base * Base THEN 3 ELSE 4)

(* MQTTPacket_len: the size the serialisers compare with their buffer. It adds *)
(* the header byte before it looks how many length bytes there will be.        *)
PacketLen(rem) ==
  LET withHeader == rem + 1
      lengthBytes == IF withHeader < Base THEN 1
                     ELSE IF withHeader < Base * Base THEN 2
                     ELSE IF withHeader < Base * Base * Base - 1 THEN 3
                     ELSE 4
  IN  withHeader + lengthBytes
===============================================================================
