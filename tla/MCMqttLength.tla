----------------------------- MODULE MCMqttLength -----------------------------
(* Instance of MqttLength: a small base, every length of four digits, and      *)
(* fields of up to five bytes in place of the encoder's.                       *)
EXTENDS MqttLength, SequencesExt

MCPower == [k \in 0..MaxLenBytes |-> Base ^ k]
EveryLength == 0..(Base ^ MaxLenBytes - 1)

(* A small digit, a large one, each with and without the top bit.              *)
SomeBytes == {0, Base - 1, Base, 2 * Base - 1}
SomeFields == BoundedSeq(SomeBytes, MaxLenBytes + 1)
===============================================================================
