------------------------------ MODULE MqttLength ------------------------------
(* The two loops of src/MQTT/MQTTPacket.c over the length field of a packet:   *)
(* MQTTPacket_encode, which writes it, and MQTTPacket_decode, which reads it   *)
(* from what the peer's encoder wrote or, once the reader has lost its place   *)
(* in the stream, from whatever bytes stand there.                             *)
EXTENDS MqttBytes

CONSTANTS
  Lengths,   \* the remaining lengths packets have
  Fields     \* byte sequences a reader out of step may find instead

ASSUME LengthAssumption ==
  /\ Lengths \subseteq 0..(Power[MaxLenBytes] - 1)
  /\ Fields \subseteq Seq(Byte)

NoLength == -1

VARIABLES
  orig,        \* the length the encoder was given, or NoLength
  length,      \* what MQTTPacket_encode has still to write
  buf,         \* the length field
  quotient,    \* history: the values length has had
  pc,
  len,         \* MQTTPacket_decode: bytes asked for
  multiplier,
  value

encoder == <<orig, length, buf, quotient>>
vars == <<orig, length, buf, quotient, pc, len, multiplier, value>>

Init ==
  /\ \/ /\ orig \in Lengths
        /\ buf = <<>>
        /\ pc = "encode"
     \/ /\ orig = NoLength
        /\ buf \in Fields
        /\ pc = "decode"
  /\ length = orig
  /\ quotient = <<orig>>
  /\ len = 0
  /\ multiplier = 1
  /\ value = 0

(* The most significant digit written first.                                   *)
MutEncodeByteOrder ==
  /\ pc = "encode"
  /\ length' = length \div Base
  /\ buf' = <<LengthByte(length % Base, length')>> \o buf
  /\ quotient' = Append(quotient, length')
  /\ pc' = IF length' > 0 THEN "encode" ELSE "decode"
  /\ UNCHANGED <<orig, len, multiplier, value>>

(* MQTTPacket_encode, one turn of do .. while (length > 0).                    *)
EncodeByte ==
  /\ pc = "encode"
  /\ length' = length \div Base
  /\ buf' = Append(buf, LengthByte(length % Base, length'))
  /\ quotient' = Append(quotient, length')
  /\ pc' = IF length' > 0 THEN "encode" ELSE "decode"
  /\ UNCHANGED <<orig, len, multiplier, value>>

(* The limit on the length bytes tested after the byte has been read.          *)
MutDecodeByteLate ==
  /\ pc = "decode"
  /\ len <= MaxLenBytes
  /\ len < Len(buf)
  /\ LET c == buf[len + 1]
     IN  /\ value' = value + Digit(c) * multiplier
         /\ pc' = IF More(c) THEN "decode" ELSE "done"
  /\ len' = len + 1
  /\ multiplier' = multiplier * Base
  /\ UNCHANGED encoder

(* MQTTPacket_decode, one turn of do .. while ((c & 128) != 0).                *)
DecodeByte ==
  /\ pc = "decode"
  /\ len < MaxLenBytes
  /\ len < Len(buf)
  /\ LET c == buf[len + 1]
     IN  /\ value' = value + Digit(c) * multiplier
         /\ pc' = IF More(c) THEN "decode" ELSE "done"
  /\ len' = len + 1
  /\ multiplier' = multiplier * Base
  /\ UNCHANGED encoder

(* The exits of the loop: a fifth byte would be needed, or the source had no   *)
(* byte. The value keeps what has been added so far.                           *)
DecodeFails ==
  /\ pc = "decode"
  /\ len = MaxLenBytes \/ len = Len(buf)
  /\ len' = len + 1
  /\ pc' = "bad"
  /\ UNCHANGED <<encoder, multiplier, value>>

Next == EncodeByte \/ DecodeByte \/ DecodeFails

Spec == Init /\ [][Next]_vars
-------------------------------------------------------------------------------
(* Types of the variables of MQTTPacket_encode and MQTTPacket_decode.          *)
TypeOK ==
  /\ orig \in Lengths \cup {NoLength}
  /\ length \in Nat \cup {NoLength}
  /\ buf \in Seq(Byte)
  /\ quotient \in Seq(Nat \cup {NoLength})
  /\ pc \in {"encode", "decode", "done", "bad"}
  /\ len \in 0..(MaxLenBytes + 1)
  /\ multiplier \in Nat
  /\ value \in Nat

(* What MQTTPacket_decode makes of a field that MQTTPacket_encode wrote is the *)
(* length that went in, and it asks for exactly the bytes of the field: the    *)
(* next byte it leaves in the stream is the first one of the body.             *)
RoundTrip ==
  orig # NoLength => /\ pc # "bad"
                     /\ pc = "done" => value = orig /\ len = Len(buf)

(* The loop of MQTTPacket_encode computes the function Encode, with which the  *)
(* module MqttFraming builds its packets.                                      *)
LoopIsEncode == orig # NoLength /\ pc # "encode" => buf = Encode[orig]

(* Whatever bytes MQTTPacket_decode meets, the value is one that four digits   *)
(* can carry: it does not overflow, and MQTTPacket_read, which encodes it into *)
(* its buffer again, writes no more than four bytes there.                     *)
ValueInRange == value < Power[MaxLenBytes]

(* MQTTPacket_len, by which the serialisers decide whether a packet fits their *)
(* buffer, never answers less than the bytes that will be written, so nothing  *)
(* is written past the end, and at most one byte more, so a packet is refused  *)
(* only if it would fill the buffer to the last byte or not fit at all.        *)
LenCoversPacket ==
  orig # NoLength /\ pc = "done" =>
    LET written == 1 + Len(buf) + orig
    IN  PacketLen(orig) \in {written, written + 1}
===============================================================================
