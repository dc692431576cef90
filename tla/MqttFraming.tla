----------------------------- MODULE MqttFraming ------------------------------
(* Cutting the byte stream of a TCP connection into MQTT packets: the reader   *)
(* MQTTPacket_read of src/MQTT/MQTTPacket.c, which mqttclient.c calls over     *)
(* transport_getdata, and the reader MQTTPacket_readnb beside it, against a    *)
(* stream whose segments may end anywhere and whose connection may break.      *)
EXTENDS MqttBytes

CONSTANTS
  Packet,        \* records [head, body] of byte and byte sequence
  MaxPackets,    \* bound: packets the peer sends
  BufLen,        \* the size of the caller's buffer
  Modes          \* the readers and transports looked at

(* nonBlocking: the reader is MQTTPacket_readnb, otherwise MQTTPacket_read.    *)
(* cutBodies: a segment may end inside the body of a packet.                   *)
(* breaks: the connection may break with bytes under way.                      *)
Mode == [nonBlocking : BOOLEAN, cutBodies : BOOLEAN, breaks : BOOLEAN]

ASSUME FramingAssumption ==
  /\ Packet \subseteq [head : Byte, body : Seq(Byte)]
  /\ MaxPackets \in Nat
  /\ BufLen \in Nat
  /\ BufLen > MaxLenBytes
  /\ Modes \subseteq Mode

VARIABLES
  mode,    \* the reader and the transport, fixed in a behaviour
  sent,    \* history: the packets the peer has sent
  wire,    \* per packet under way, the bytes that have not arrived
  rx,      \* bytes lwIP has for the socket (recvmbox and lastdata)
  fin,     \* the stream has ended: recv returns 0 or -1 when rx is empty
  pc,      \* what the reader asks the stream for next
  head,    \* buf[0]
  len,     \* length bytes read
  value,   \* the remaining length decoded so far
  body,    \* what is in the buffer behind the length field
  read,    \* history: the packets the reader has returned
  failed,  \* history: a call has returned -1 with bytes taken from the stream
  ignored  \* history: MQTTPacket_read has gone on after a length field that failed

stream == <<mode, sent, wire, rx, fin>>
reader == <<pc, head, len, value, body, read, failed, ignored>>
vars == <<mode, sent, wire, rx, fin, pc, head, len, value, body, read, failed, ignored>>

Init ==
  /\ mode \in Modes
  /\ sent = <<>>
  /\ wire = <<>>
  /\ rx = <<>>
  /\ fin = FALSE
  /\ pc = "head"
  /\ head = 0
  /\ len = 0
  /\ value = 0
  /\ body = <<>>
  /\ read = <<>>
  /\ failed = FALSE
  /\ ignored = FALSE

Bytes(p) == <<p.head>> \o Encode[Len(p.body)] \o p.body
-------------------------------------------------------------------------------
(* The peer and the transport. Segments arrive in order; a segment that joins  *)
(* packets is two arrivals with no step of the reader between.                 *)
Send ==
  /\ Len(sent) < MaxPackets
  /\ ~fin
  /\ \E p \in Packet :
       /\ sent' = Append(sent, p)
       /\ wire' = Append(wire, [bytes |-> Bytes(p), body |-> Len(p.body)])
  /\ UNCHANGED <<mode, rx, fin, reader>>

Arrive ==
  /\ wire # <<>>
  /\ LET first == Head(wire)
         left(k) == Len(first.bytes) - k
     IN  \E k \in 1..Len(first.bytes) :
           /\ mode.cutBodies \/ left(k) = 0 \/ left(k) >= first.body
           /\ rx' = rx \o SubSeq(first.bytes, 1, k)
           /\ wire' = IF left(k) = 0 THEN Tail(wire)
                      ELSE [wire EXCEPT ![1].bytes = SubSeq(@, k + 1, Len(@))]
  /\ UNCHANGED <<mode, sent, fin, reader>>

Break ==
  /\ mode.breaks
  /\ ~fin
  /\ fin' = TRUE
  /\ wire' = <<>>
  /\ UNCHANGED <<mode, sent, rx, reader>>
-------------------------------------------------------------------------------
(* The ends of a call. What the reader returns with -1 is not recorded: the    *)
(* loop of mqtt_thread passes over it and calls again.                         *)
Return(p) ==
  /\ read' = Append(read, p)
  /\ pc' = "head"
  /\ UNCHANGED failed

Fail ==
  /\ pc' = "head"
  /\ failed' = TRUE
  /\ UNCHANGED read

(* The length of the packet before is not reset.                               *)
MutReadHeadKeepsValue ==
  /\ pc = "head"
  /\ rx # <<>>
  /\ head' = Head(rx)
  /\ rx' = Tail(rx)
  /\ pc' = "len"
  /\ len' = 0
  /\ body' = <<>>
  /\ UNCHANGED <<mode, sent, wire, fin, value, read, failed, ignored>>

(* The header byte. With no byte and the stream ended the call returns -1 and  *)
(* nothing changes.                                                            *)
ReadHead ==
  /\ pc = "head"
  /\ rx # <<>>
  /\ head' = Head(rx)
  /\ rx' = Tail(rx)
  /\ pc' = "len"
  /\ len' = 0
  /\ value' = 0
  /\ body' = <<>>
  /\ UNCHANGED <<mode, sent, wire, fin, read, failed, ignored>>

(* A packet that fills the buffer refused.                                     *)
MutFitsStrictly(v) == v + 1 + Len(Encode[v]) < BufLen

Fits(v) == v + 1 + Len(Encode[v]) <= BufLen

(* The length is known, or taken to be: too long for the buffer, nothing more  *)
(* to read, or a body.                                                         *)
Sized(v) ==
  \/ /\ ~Fits(v)
     /\ Fail
  \/ /\ Fits(v)
     /\ v = 0
     /\ Return([head |-> head, body |-> <<>>])
  \/ /\ Fits(v)
     /\ v > 0
     /\ pc' = "body"
     /\ UNCHANGED <<read, failed>>

(* No limit on the length bytes.                                               *)
MutReadLengthNoLimit ==
  /\ pc = "len"
  /\ rx # <<>>
  /\ rx' = Tail(rx)
  /\ len' = len + 1
  /\ value' = value + Digit(Head(rx)) * Power[len]
  /\ \/ /\ More(Head(rx))
        /\ UNCHANGED <<pc, read, failed>>
     \/ /\ ~More(Head(rx))
        /\ Sized(value')
  /\ UNCHANGED <<mode, sent, wire, fin, head, body, ignored>>

ReadLength ==
  /\ pc = "len"
  /\ len < MaxLenBytes
  /\ rx # <<>>
  /\ rx' = Tail(rx)
  /\ len' = len + 1
  /\ value' = value + Digit(Head(rx)) * Power[len]
  /\ \/ /\ More(Head(rx))
        /\ UNCHANGED <<pc, read, failed>>
     \/ /\ ~More(Head(rx))
        /\ Sized(value')
  /\ UNCHANGED <<mode, sent, wire, fin, head, body, ignored>>

(* The limit on the length bytes counted with the header byte.                 *)
MutLengthFails ==
  /\ pc = "len"
  /\ len + 1 = MaxLenBytes \/ (rx = <<>> /\ fin)
  /\ \/ /\ mode.nonBlocking
        /\ Fail
        /\ UNCHANGED ignored
     \/ /\ ~mode.nonBlocking
        /\ Sized(value)
        /\ ignored' = TRUE
  /\ UNCHANGED <<stream, head, len, value, body>>

(* The decoder gives up: a digit too many, or the stream has ended. The        *)
(* non-blocking reader returns -1; MQTTPacket_read does not look at what       *)
(* MQTTPacket_decode returns and goes on with the value so far.                *)
LengthFails ==
  /\ pc = "len"
  /\ len = MaxLenBytes \/ (rx = <<>> /\ fin)
  /\ \/ /\ mode.nonBlocking
        /\ Fail
        /\ UNCHANGED ignored
     \/ /\ ~mode.nonBlocking
        /\ Sized(value)
        /\ ignored' = TRUE
  /\ UNCHANGED <<stream, head, len, value, body>>

(* The result of the recv compared with 0 only.                                *)
MutReadBodyAnyLength ==
  /\ pc = "body"
  /\ ~mode.nonBlocking
  /\ rx # <<>>
  /\ LET k == IF value < Len(rx) THEN value ELSE Len(rx)
     IN  /\ body' = SubSeq(rx, 1, k)
         /\ rx' = SubSeq(rx, k + 1, Len(rx))
  /\ Return([head |-> head, body |-> body'])
  /\ UNCHANGED <<mode, sent, wire, fin, head, len, value, ignored>>

(* One recv for the whole body returns what has arrived, as lwip_recv_tcp      *)
(* waits for the first byte only. A recv that is short of the body ends        *)
(* MQTTPacket_read with -1, the rest of the body unread.                       *)
ReadBody ==
  /\ pc = "body"
  /\ ~mode.nonBlocking
  /\ rx # <<>>
  /\ LET k == IF value < Len(rx) THEN value ELSE Len(rx)
     IN  /\ body' = SubSeq(rx, 1, k)
         /\ rx' = SubSeq(rx, k + 1, Len(rx))
  /\ \/ /\ Len(body') < value
        /\ Fail
     \/ /\ Len(body') = value
        /\ Return([head |-> head, body |-> body'])
  /\ UNCHANGED <<mode, sent, wire, fin, head, len, value, ignored>>

(* MQTTPacket_readnb puts what it gets behind what it has, and its caller      *)
(* calls again until the body is complete.                                     *)
ReadBodyPart ==
  /\ pc = "body"
  /\ mode.nonBlocking
  /\ rx # <<>>
  /\ LET left == value - Len(body)
         k == IF left < Len(rx) THEN left ELSE Len(rx)
     IN  /\ body' = body \o SubSeq(rx, 1, k)
         /\ rx' = SubSeq(rx, k + 1, Len(rx))
  /\ \/ /\ Len(body') < value
        /\ UNCHANGED <<pc, read, failed>>
     \/ /\ Len(body') = value
        /\ Return([head |-> head, body |-> body'])
  /\ UNCHANGED <<mode, sent, wire, fin, head, len, value, ignored>>

BodyFails ==
  /\ pc = "body"
  /\ rx = <<>>
  /\ fin
  /\ Fail
  /\ UNCHANGED <<stream, head, len, value, body, ignored>>

Reader ==
  ReadHead \/ ReadLength \/ LengthFails \/ ReadBody \/ ReadBodyPart \/ BodyFails

Next == Send \/ Arrive \/ Break \/ Reader

Spec == Init /\ [][Next]_vars /\ WF_vars(Arrive) /\ WF_vars(Reader)
-------------------------------------------------------------------------------
(* Types of the stream and of the readers' variables.                          *)
TypeOK ==
  /\ mode \in Modes
  /\ sent \in Seq(Packet) /\ Len(sent) <= MaxPackets
  /\ wire \in Seq([bytes : Seq(Byte), body : Nat])
  /\ rx \in Seq(Byte)
  /\ fin \in BOOLEAN
  /\ pc \in {"head", "len", "body"}
  /\ head \in Byte
  /\ len \in 0..MaxLenBytes
  /\ value \in 0..(Power[MaxLenBytes] - 1)
  /\ body \in Seq(Byte)
  /\ read \in Seq([head : Byte, body : Seq(Byte)])
  /\ {failed, ignored} \subseteq BOOLEAN

(* The abstract source seen through the behaviours of some modes; in the       *)
(* others nothing is sent and nothing read.                                    *)
Whole == ~mode.nonBlocking /\ ~mode.cutBodies /\ ~mode.breaks
WholeSource == INSTANCE PacketSource
  WITH sent <- IF Whole THEN sent ELSE <<>>, read <- IF Whole THEN read ELSE <<>>
NbSource == INSTANCE PacketSource
  WITH sent <- IF mode.nonBlocking THEN sent ELSE <<>>,
       read <- IF mode.nonBlocking THEN read ELSE <<>>

(* MQTTPacket_read over a transport that delivers and does not cut bodies      *)
(* implements PacketSource: segments may end in the header, between length     *)
(* bytes and between packets, and every packet is returned once, whole, in     *)
(* order and in the end.                                                       *)
DeliversAll == WholeSource!Spec

(* MQTTPacket_readnb implements the safety part of PacketSource wherever       *)
(* segments end and wherever the connection breaks.                            *)
DeliversInOrder == NbSource!SafeSpec

(* MQTTPacket_read returns nothing but the packets sent, in order, until it    *)
(* has given up in the middle of one, wherever segments end and the connection *)
(* breaks. The one exception is a stream that ends inside the length field,    *)
(* which MQTTPacket_read does not look at (MQTTPacket.c:303).                  *)
RightUntilFailure == ~failed /\ ~ignored => read = SubSeq(sent, 1, Len(read))

(* "-1 on error" (MQTTPacket.c:287): a call gives up in the middle of a packet *)
(* only if the stream has ended or the packet does not fit the buffer, with    *)
(* one exception: MQTTPacket_read also gives up in a sound stream, when the    *)
(* recv for the body brings a part of it (:309).                               *)
ShortBody == ~mode.nonBlocking /\ pc = "body" /\ 0 < Len(rx) /\ Len(rx) < value
GivesUpOnlyOnErrorOrShortBody ==
  [][failed' /\ ~failed => fin \/ ~Fits(value') \/ ShortBody]_vars
===============================================================================
