----------------------------- MODULE PacketSource -----------------------------
(* What a reader of MQTT packets promises its caller, whatever the transport   *)
(* below it does to the bytes: each packet once, whole, in the order sent.     *)
EXTENDS Integers, Sequences

CONSTANT Packet

VARIABLES
  sent,   \* the packets the peer has written
  read    \* the packets the reader has returned

vars == <<sent, read>>

Init == sent = <<>> /\ read = <<>>

Send == \E p \in Packet : sent' = Append(sent, p) /\ UNCHANGED read

Read ==
  /\ Len(read) < Len(sent)
  /\ read' = Append(read, sent[Len(read) + 1])
  /\ UNCHANGED sent

Next == Send \/ Read

SafeSpec == Init /\ [][Next]_vars

(* With a transport that delivers, nothing that was sent stays unread.         *)
Spec == SafeSpec /\ WF_vars(Read)
===============================================================================
