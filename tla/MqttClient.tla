---------------------------- MODULE MqttClient ----------------------------
(***************************************************************************)
(* The two MQTT tasks of mqttclient.c, mqtt_thread and mqtt_send, which    *)
(* share the descriptor mysock of transport.c, its copy MQTT_Socket and    *)
(* the counter PacketID, over the socket table of lwIP (built without      *)
(* LWIP_NETCONN_FULLDUPLEX) and a broker.  Both tasks have priority 1 and  *)
(* are time-sliced, so any step of one may come between two of the other.  *)
(*                                                                         *)
(* One action is one call into lwIP or one access to a shared variable.    *)
(* A packet travels as units: its header byte, its remaining length and    *)
(* the one or two pieces its body arrives in.  MQTTPacket_read fetches     *)
(* header, length and body with separate calls of recv, and gives up when  *)
(* recv returns less than the whole body.                                  *)
(***************************************************************************)
EXTENDS Integers, Sequences, FiniteSets

CONSTANTS
  Threads,      \* the tasks that run: a set of "mqtt_thread" and "mqtt_send"
  NumSocks,     \* MEMP_NUM_NETCONN, less those other tasks hold
  IdMod,        \* 2^16: packet identifiers on the wire
  PidMod,       \* 2^32: the static PacketID of MQTTSubscribe
  MaxUnits,     \* bound: units under way or unread when more may come or a stray read stay
  BrokerCloses, \* whether the broker may close a healthy connection
  BrokerMute,   \* whether the broker may leave a request unanswered
  Segmented,    \* whether a packet may arrive in several TCP segments
  Refusals,     \* the outcomes of CONNECT and SUBSCRIBE at the broker ({TRUE}: never refused)
  ConnectFails, \* whether a TCP connection attempt may fail
  UnwrittenDue, \* what the keep-alive test can say of a curtick never written
  Timely        \* whether the broker answers within every timeout of the client

ASSUME MqttClientAssumption ==
  /\ Threads \subseteq {"mqtt_thread", "mqtt_send"}
  /\ NumSocks \in Nat \ {0}
  /\ IdMod \in Nat \ {0}
  /\ PidMod \in Nat \ {0}
  /\ MaxUnits \in Nat
  /\ {BrokerCloses, BrokerMute, Segmented, ConnectFails, Timely} \subseteq BOOLEAN
  /\ Refusals \subseteq BOOLEAN
  /\ UnwrittenDue \subseteq BOOLEAN

Socks == 0 .. NumSocks - 1
NoSock == -1
Descriptors == Socks \cup {NoSock}

Kinds == {"CONNACK", "SUBACK", "PINGRESP", "PUBLISH"}

\* A unit of the stream from the broker.  part: 0 the header byte, 1 the length
\* field, 2 the body or its start, 3 its rest; ok: not refused; id: packet identifier.
Unit == [kind : Kinds, part : 0 .. 3, ok : BOOLEAN, id : 0 .. IdMod - 1]

\* The last unit of a packet: PINGRESP has no body, and a body that comes in one
\* segment is one unit.
LastPart(kind) == IF kind = "PINGRESP" THEN 1 ELSE IF Segmented THEN 3 ELSE 2

VARIABLES
  sock,       \* the socket table of lwIP
  mysock,     \* transport.c: the descriptor every transport function uses
  MQTT_Socket,\* mqttclient.c: the descriptor the tasks select on
  PacketID,   \* the static counter of MQTTSubscribe
  pc,         \* where each task is
  fd,         \* the descriptor the task passed to the call it is in
  want,       \* which caller of MQTTPacket_read the task is in
  got,        \* the type in the header byte just read
  subId,      \* the value of PacketID the task put in its SUBSCRIBE
  idle,       \* no_mqtt_msg_exchange
  written     \* whether the task's curtick has been written

shared == <<sock, mysock, MQTT_Socket, PacketID>>
locals == <<fd, want, got, subId, idle, written>>
vars   == <<shared, pc, locals>>

\* A closed slot of the table.  phase: whether the next unit read is the one its
\* reader takes it for ("in"), or how that was lost: a packet was given up with
\* its body partly unread ("cut"), or a reader took something else's unit ("out").
Free == [st |-> "free", rx |-> <<>>, owed |-> <<>>, fin |-> FALSE,
         broker |-> "none", phase |-> "in"]

Init ==
  /\ sock = [s \in Socks |-> Free]
  /\ mysock = 0
  /\ MQTT_Socket = 0
  /\ PacketID = 0
  /\ pc = [t \in Threads |-> IF t = "mqtt_thread" THEN "socket" ELSE "queue"]
  /\ fd = [t \in Threads |-> NoSock]
  /\ want = [t \in Threads |-> "any"]
  /\ got = [t \in Threads |-> "none"]
  /\ subId = [t \in Threads |-> 0]
  /\ idle = [t \in Threads |-> TRUE]
  /\ written = [t \in Threads |-> FALSE]

-----------------------------------------------------------------------------
(* Sockets. *)

Used(s) == s \in Socks /\ sock[s].st # "free"

\* recv would return at once: data, the end of the stream, or an error.
Readable(s) == sock[s].rx # <<>> \/ sock[s].fin \/ sock[s].st = "dead"

Goto(t, label) == pc' = [pc EXCEPT ![t] = label]

\* The task enters a call with descriptor s, or leaves the call.
Enter(t, s) == fd' = [fd EXCEPT ![t] = s]
Leave(t) == Enter(t, NoSock)

\* The tasks that wait inside recv on s.
Receiving(s) == {t \in Threads : pc[t] \in {"head_wait", "length_wait", "body_wait", "drain_wait"} /\ fd[t] = s}

\* Mutant of Closable: lwip_close does not ask whether a connect is in progress.
MutClosableAlways(s) == Used(s)

\* lwip_close refuses a descriptor that is not open, and (do_delconn) one whose
\* connect is in progress.
Closable(s) == Used(s) /\ sock[s].st # "connecting"

\* lwip_close(s) by task t, which goes on at label.  netconn_drain deletes the
\* mailbox, and a task waiting on it is never woken.
Close(t, s, label) ==
  IF Closable(s)
  THEN /\ sock' = [sock EXCEPT ![s] = Free]
       /\ pc' = [u \in Threads |-> CASE u = t                  -> label
                                     [] u \in Receiving(s) \ {t} -> "hung"
                                     [] OTHER                  -> pc[u]]
  ELSE UNCHANGED sock /\ Goto(t, label)

\* The units of the packet that starts with the header p.
Packet(p) == [n \in 1 .. LastPart(p.kind) + 1 |-> [p EXCEPT !.part = n - 1]]

\* The broker owes the packet p on socket record k.
Owe(k, p) == [k EXCEPT !.owed = @ \o Packet(p)]
Reply(kind, ok, id) == [kind |-> kind, part |-> 0, ok |-> ok, id |-> id]

\* What becomes of connection k when the broker receives a request.  The first
\* request must be CONNECT and there is only one; otherwise the broker gives
\* the connection up ("bad").
Receives(k, request, ok, id) ==
  CASE request = "CONNECT" /\ k.broker = "none" ->
         Owe([k EXCEPT !.broker = IF ok THEN "login" ELSE "refused"], Reply("CONNACK", ok, 0))
    [] request = "CONNECT" /\ k.broker \in {"login", "subscribed"} -> [k EXCEPT !.broker = "bad"]
    [] request # "CONNECT" /\ k.broker = "none" -> [k EXCEPT !.broker = "bad"]
    [] request = "SUBSCRIBE" /\ k.broker \in {"login", "subscribed"} ->
         Owe([k EXCEPT !.broker = IF ok THEN "subscribed" ELSE @], Reply("SUBACK", ok, id))
    [] request = "PINGREQ" /\ k.broker \in {"login", "subscribed"} ->
         Owe(k, Reply("PINGRESP", TRUE, 0))
    [] OTHER -> k

\* transport_sendPacketBuffer: write(mysock, ...) succeeds on a connection that
\* was not shut down.
CanWrite == Used(mysock) /\ sock[mysock].st = "up"

Write(request, id) ==
  IF CanWrite
  THEN \/ \E ok \in Refusals :
            sock' = [sock EXCEPT ![mysock] = Receives(@, request, ok, id)]
       \/ BrokerMute /\ UNCHANGED sock
  ELSE UNCHANGED sock

-----------------------------------------------------------------------------
(* Client_Connect and transport_open. *)

\* *sock = socket(...): the lowest free slot, or -1 when there is none.
Socket(t) ==
  /\ pc[t] = "socket"
  /\ LET free == {s \in Socks : sock[s].st = "free"} IN
     IF free = {}
     THEN mysock' = NoSock /\ UNCHANGED sock
     ELSE \E s \in free :
            /\ \A r \in free : s <= r
            /\ mysock' = s
            /\ sock' = [sock EXCEPT ![s] = [Free EXCEPT !.st = "new"]]
  /\ Goto(t, "connect")
  /\ UNCHANGED <<MQTT_Socket, PacketID, locals>>

\* connect(*sock, ...), which reads mysock again.  Only a fresh socket starts to
\* connect; any other returns an error.
Connect(t) ==
  /\ pc[t] = "connect"
  /\ IF Used(mysock) /\ sock[mysock].st = "new"
     THEN Enter(t, mysock) /\ sock' = [sock EXCEPT ![mysock].st = "connecting"] /\ Goto(t, "connecting")
     ELSE UNCHANGED <<sock, fd>> /\ Goto(t, "open_failed")
  /\ UNCHANGED <<mysock, MQTT_Socket, PacketID, want, got, subId, idle, written>>

\* The TCP handshake ends.
Connected(t) ==
  /\ pc[t] = "connecting"
  /\ \/ sock' = [sock EXCEPT ![fd[t]].st = "up"] /\ Goto(t, "opened")
     \/ ConnectFails /\ sock' = [sock EXCEPT ![fd[t]].st = "dead"] /\ Goto(t, "open_failed")
  /\ Leave(t)
  /\ UNCHANGED <<mysock, MQTT_Socket, PacketID, want, got, subId, idle, written>>

\* Mutant of OpenFailed: return -1 without the close before it.
MutOpenFailedNoClose(t) ==
  /\ pc[t] = "open_failed"
  /\ Goto(t, "store")
  /\ Leave(t)
  /\ UNCHANGED <<shared, want, got, subId, idle, written>>

\* close(*sock); return -1;
OpenFailed(t) ==
  /\ pc[t] = "open_failed"
  /\ Close(t, mysock, "store")
  /\ Leave(t)
  /\ UNCHANGED <<mysock, MQTT_Socket, PacketID, want, got, subId, idle, written>>

\* return *sock;
Opened(t) ==
  /\ pc[t] = "opened"
  /\ Enter(t, mysock)
  /\ Goto(t, "store")
  /\ UNCHANGED <<shared, want, got, subId, idle, written>>

\* MQTT_Socket = transport_open(...); on failure again after 3 seconds.
Store(t) ==
  /\ pc[t] = "store"
  /\ MQTT_Socket' = fd[t]
  /\ Goto(t, IF fd[t] = NoSock THEN "socket" ELSE "login")
  /\ Leave(t)
  /\ UNCHANGED <<sock, mysock, PacketID, want, got, subId, idle, written>>

\* MQTT_Connect sends CONNECT, whatever write returns, and reads without a timeout.
Login(t) ==
  /\ pc[t] = "login"
  /\ Write("CONNECT", 0)
  /\ want' = [want EXCEPT ![t] = "CONNACK"]
  /\ Goto(t, "head")
  /\ UNCHANGED <<mysock, MQTT_Socket, PacketID, fd, got, subId, idle, written>>

\* MQTTSubscribe: PacketID++ reads the counter ...
SubscribeId(t) ==
  /\ pc[t] = "subscribe"
  /\ subId' = [subId EXCEPT ![t] = PacketID]
  /\ Enter(t, MQTT_Socket)
  /\ Goto(t, "subscribe_send")
  /\ UNCHANGED <<shared, want, got, idle, written>>

\* ... and stores the next value; the identifier is sent in 16 bits.
SubscribeSend(t) ==
  /\ pc[t] = "subscribe_send"
  /\ PacketID' = (subId[t] + 1) % PidMod
  /\ Write("SUBSCRIBE", subId[t] % IdMod)
  /\ want' = [want EXCEPT ![t] = "SUBACK"]
  /\ Goto(t, IF CanWrite THEN "select_reply" ELSE "shutdown")
  /\ UNCHANGED <<mysock, MQTT_Socket, fd, got, subId, idle, written>>

-----------------------------------------------------------------------------
(* Keep-alive, and waiting with select. *)

\* (xTaskGetTickCount() - curtick) > KEEPLIVE_TIME/2*1000: any time may have passed
\* since curtick was written, but mqtt_send makes this test on an uninitialised
\* variable until its first success.
Due(t) == IF written[t] THEN BOOLEAN ELSE UnwrittenDue

\* Where the main loop of a task begins.
Top(t) == IF t = "mqtt_thread" THEN "loop" ELSE "queue"

\* Mutant of KeepAlive: the test of no_mqtt_msg_exchange is missing.
MutKeepAliveIgnoresIdle(t) ==
  /\ pc[t] = "keepalive"
  /\ \E due \in Due(t) :
       /\ written' = IF due THEN [written EXCEPT ![t] = TRUE] ELSE written
       /\ Goto(t, IF due THEN "ping" ELSE Top(t))
  /\ UNCHANGED <<shared, fd, want, got, subId, idle>>

\* The keep-alive test at the end of the main loop.
KeepAlive(t) ==
  /\ pc[t] = "keepalive"
  /\ \E due \in Due(t) :
       /\ written' = IF due THEN [written EXCEPT ![t] = TRUE] ELSE written
       /\ Goto(t, IF due /\ idle[t] THEN "ping" ELSE Top(t))
  /\ UNCHANGED <<shared, fd, want, got, subId, idle>>

\* MQTT_PingReq sends PINGREQ, whatever write returns.
Ping(t) ==
  /\ pc[t] = "ping"
  /\ Enter(t, MQTT_Socket)
  /\ Write("PINGREQ", 0)
  /\ want' = [want EXCEPT ![t] = "PINGRESP"]
  /\ Goto(t, "select_reply")
  /\ UNCHANGED <<mysock, MQTT_Socket, PacketID, got, subId, idle, written>>

\* select on fd[t] reports it: readable, or a descriptor that is not open, for
\* which lwip_select fails and leaves the set as it was.
Selected(t) == fd[t] # NoSock /\ (Used(fd[t]) => Readable(fd[t]))

\* select on fd[t] times out.
SelectTimeout(t) ==
  /\ ~Selected(t)
  /\ Timely /\ Used(fd[t]) => sock[fd[t]].owed = <<>>

\* select in MQTTSubscribe and MQTT_PingReq.
SelectReply(t) ==
  /\ pc[t] = "select_reply"
  /\ \/ Selected(t) /\ Goto(t, "head")
     \/ SelectTimeout(t) /\ Goto(t, "shutdown")
  /\ Leave(t)
  /\ UNCHANGED <<shared, want, got, subId, idle, written>>

-----------------------------------------------------------------------------
(* MQTTPacket_read: recv(mysock) for the header byte, the length and the body. *)

\* Client_Connect returns: mqtt_thread writes curtick and enters its loop,
\* mqtt_send goes straight back to its queue.
Ready(t) ==
  /\ Goto(t, Top(t))
  /\ written' = IF t = "mqtt_thread" THEN [written EXCEPT ![t] = TRUE] ELSE written
  /\ UNCHANGED idle

\* Back from mqtt_pktype_ctl: no_mqtt_msg_exchange = 0; curtick = now.
Handled(t) ==
  /\ Goto(t, "keepalive")
  /\ idle' = [idle EXCEPT ![t] = FALSE]
  /\ written' = [written EXCEPT ![t] = TRUE]

\* Mutant of SubackAccepted: the test qosbk == 0x80 is missing.
MutSubackAcceptedRefusal(type, ok, id) == type = "SUBACK" /\ id = (PacketID - 1) % PidMod

\* The checks of MQTTSubscribe on the reply; the identifier has 16 bits, the counter 32.
SubackAccepted(type, ok, id) == type = "SUBACK" /\ ok /\ id = (PacketID - 1) % PidMod

\* The task has a packet of the given type, or "fail"; ok and id are what the
\* deserialiser finds in it.  The caller of MQTTPacket_read goes on; anything
\* but a PUBLISH it can parse needs no answer from mqtt_pktype_ctl.
Parsed(t, type, ok, id) ==
  /\ got' = [got EXCEPT ![t] = "none"]
  /\ subId' = [subId EXCEPT ![t] = 0]
  /\ want' = [want EXCEPT ![t] = "any"]
  /\ CASE want[t] = "CONNACK" ->
            /\ Goto(t, IF type = "CONNACK" /\ ok THEN "subscribe" ELSE "shutdown")
            /\ UNCHANGED <<idle, written>>
       [] want[t] = "SUBACK" ->
            IF SubackAccepted(type, ok, id)
            THEN Ready(t)
            ELSE Goto(t, "shutdown") /\ UNCHANGED <<idle, written>>
       [] want[t] = "PINGRESP" /\ type = "PINGRESP" ->
            /\ Goto(t, Top(t))
            /\ idle' = [idle EXCEPT ![t] = FALSE]
            /\ UNCHANGED written
       [] want[t] = "PINGRESP" /\ type # "PINGRESP" ->
            Goto(t, "shutdown") /\ UNCHANGED <<idle, written>>
       [] want[t] = "any" /\ type = "fail" ->
            Goto(t, "keepalive") /\ UNCHANGED <<idle, written>>
       [] want[t] = "any" /\ type = "PUBLISH" /\ ok ->
            Goto(t, "puback") /\ UNCHANGED <<idle, written>>
       [] OTHER -> Handled(t)

\* recv finds in its place what task t reads next: part of a packet of a kind in kinds.
InPlace(k, part, kinds) ==
  k.phase = "in" /\ k.rx # <<>> /\ Head(k.rx).part = part /\ Head(k.rx).kind \in kinds

\* recv takes the first n units of the stream on s.
Take(s, n) == sock' = [sock EXCEPT ![s].rx = SubSeq(@, n + 1, Len(@))]

\* recv of one byte, or of many, reads from the middle of something else.  It may
\* stay inside a unit, while there is little behind it (bound MaxUnits).
Stray(s, most) ==
  \E n \in 0 .. most :
    /\ n <= Len(sock[s].rx)
    /\ n = 0 => Len(sock[s].rx) + Len(sock[s].owed) <= MaxUnits
    /\ sock' = [sock EXCEPT ![s].rx = SubSeq(@, n + 1, Len(@)),
                           ![s].phase = IF @ = "in" THEN "out" ELSE @]

\* MQTTPacket_read gives the packet up with the rest of its body unread.
GiveUp(t, s, n) ==
  /\ sock' = [sock EXCEPT ![s].rx = SubSeq(@, n + 1, Len(@)), ![s].phase = "cut"]
  /\ Parsed(t, "fail", FALSE, 0)

\* MQTTPacket_read ignores what MQTTPacket_decode returns.  Without a length the
\* packet counts as empty, and the deserialisers leave with a result that is not
\* an error: the acknowledged identifier is still 0, the return code whatever was
\* on the stack, and a PUBLISH is one of the quality its header byte says.
EmptyPacket(t) ==
  \E ok \in BOOLEAN : (got[t] = "PUBLISH" => ok) /\ Parsed(t, got[t], ok, 0)

\* No length field: the stream ended or the descriptor is gone.  One of several
\* bytes that was cut in the middle asks for a body that does not come.
NoLength(t, long) == EmptyPacket(t) \/ (long /\ Parsed(t, "fail", FALSE, 0))

\* What a deserialiser may find in bytes that are no packet.
Misparsed(t) ==
  \E type \in {got[t], "fail"}, ok \in BOOLEAN, id \in 0 .. IdMod - 1 : Parsed(t, type, ok, id)

\* recv(mysock, ...) is called for the header byte.
Head1(t) ==
  /\ pc[t] = "head"
  /\ IF Used(mysock)
     THEN /\ Enter(t, mysock)
          /\ Goto(t, "head_wait")
          /\ UNCHANGED <<want, got, subId, idle, written>>
     ELSE Parsed(t, "fail", FALSE, 0) /\ UNCHANGED fd
  /\ UNCHANGED shared

\* Mutant of HeadWait: 0 from recv, the end of the stream, is not a failure.
MutHeadWaitIgnoresEnd(t) ==
  LET k == sock[fd[t]] IN
  /\ pc[t] = "head_wait"
  /\ Readable(fd[t])
  /\ IF InPlace(k, 0, Kinds)
     THEN Take(fd[t], 1) /\ got' = [got EXCEPT ![t] = Head(k.rx).kind]
     ELSE Stray(fd[t], 1) /\ UNCHANGED got
  /\ Goto(t, "length")
  /\ Leave(t)
  /\ UNCHANGED <<mysock, MQTT_Socket, PacketID, want, subId, idle, written>>

\* It returns.
HeadWait(t) ==
  LET k == sock[fd[t]] IN
  /\ pc[t] = "head_wait"
  /\ Readable(fd[t])
  /\ \/ /\ k.rx = <<>>
        /\ Parsed(t, "fail", FALSE, 0)
        /\ UNCHANGED sock
     \/ /\ k.rx # <<>>
        /\ IF InPlace(k, 0, Kinds)
           THEN Take(fd[t], 1) /\ got' = [got EXCEPT ![t] = Head(k.rx).kind]
           ELSE Stray(fd[t], 1) /\ \E type \in Kinds : got' = [got EXCEPT ![t] = type]
        /\ Goto(t, "length")
        /\ UNCHANGED <<want, subId, idle, written>>
  /\ Leave(t)
  /\ UNCHANGED <<mysock, MQTT_Socket, PacketID>>

\* recv(mysock, ...) is called for the remaining length.
Length1(t) ==
  /\ pc[t] = "length"
  /\ IF Used(mysock)
     THEN /\ Enter(t, mysock)
          /\ Goto(t, "length_wait")
          /\ UNCHANGED <<want, got, subId, idle, written>>
     ELSE NoLength(t, TRUE) /\ UNCHANGED fd
  /\ UNCHANGED shared

\* It returns.  A PUBLISH may be too long for the buffer of MQTTPacket_read.
LengthWait(t) ==
  LET k == sock[fd[t]]
      InBody == Goto(t, "body") /\ UNCHANGED <<want, got, subId, idle, written>> IN
  /\ pc[t] = "length_wait"
  /\ Readable(fd[t])
  /\ \/ /\ k.rx = <<>>
        /\ NoLength(t, k.phase # "in" \/ got[t] = "PUBLISH")
        /\ UNCHANGED sock
     \/ /\ InPlace(k, 1, {got[t]})
        /\ \/ /\ Take(fd[t], 1)
              /\ IF got[t] = "PINGRESP" THEN Parsed(t, got[t], TRUE, 0) ELSE InBody
           \/ got[t] = "PUBLISH" /\ GiveUp(t, fd[t], 1)
     \/ /\ k.rx # <<>> /\ ~InPlace(k, 1, {got[t]})
        /\ Stray(fd[t], 1)
        /\ InBody \/ Misparsed(t)
  /\ Leave(t)
  /\ UNCHANGED <<mysock, MQTT_Socket, PacketID>>

\* recv(mysock, ...) is called for the body.
Body1(t) ==
  /\ pc[t] = "body"
  /\ IF Used(mysock)
     THEN /\ Enter(t, mysock)
          /\ Goto(t, "body_wait")
          /\ UNCHANGED <<want, got, subId, idle, written>>
     ELSE Parsed(t, "fail", FALSE, 0) /\ UNCHANGED fd
  /\ UNCHANGED shared

\* It returns what there is of it.
BodyWait(t) ==
  LET k == sock[fd[t]] IN
  /\ pc[t] = "body_wait"
  /\ Readable(fd[t])
  /\ \/ /\ k.rx = <<>>
        /\ Parsed(t, "fail", FALSE, 0)
        /\ UNCHANGED sock
     \/ /\ InPlace(k, 2, {got[t]})
        /\ IF Len(k.rx) >= LastPart(got[t]) - 1
           THEN Take(fd[t], LastPart(got[t]) - 1) /\ Parsed(t, got[t], Head(k.rx).ok, Head(k.rx).id)
           ELSE GiveUp(t, fd[t], 1)
     \/ /\ k.rx # <<>> /\ ~InPlace(k, 2, {got[t]})
        /\ Stray(fd[t], Len(k.rx))
        /\ Misparsed(t)
  /\ Leave(t)
  /\ UNCHANGED <<mysock, MQTT_Socket, PacketID>>

-----------------------------------------------------------------------------
(* The main loop of mqtt_thread. *)

\* no_mqtt_msg_exchange = 1; FD_SET(MQTT_Socket); select(...)
LoopSelect(t) ==
  /\ pc[t] = "loop"
  /\ idle' = [idle EXCEPT ![t] = TRUE]
  /\ Enter(t, MQTT_Socket)
  /\ Goto(t, "select")
  /\ UNCHANGED <<shared, want, got, subId, written>>

\* select returns; FD_ISSET reads MQTT_Socket again.
LoopSelected(t) ==
  /\ pc[t] = "select"
  /\ \/ Selected(t) /\ Goto(t, IF MQTT_Socket = fd[t] THEN "head" ELSE "keepalive")
     \/ ~Selected(t) /\ Goto(t, "keepalive")
  /\ Leave(t)
  /\ UNCHANGED <<shared, want, got, subId, idle, written>>

\* mqtt_pktype_ctl answers a PUBLISH of QoS 1.
Puback(t) ==
  /\ pc[t] = "puback"
  /\ Write("PUBACK", 0)
  /\ Handled(t)
  /\ UNCHANGED <<mysock, MQTT_Socket, PacketID, fd, want, got, subId>>

-----------------------------------------------------------------------------
(* The main loop of mqtt_send. *)

\* xQueueReceive times out after 3 seconds.
QueueTimeout(t) ==
  /\ pc[t] = "queue"
  /\ Goto(t, "keepalive")
  /\ UNCHANGED <<shared, locals>>

\* xQueueReceive gets a reading; MQTTMsgPublish2dp with QoS 0 succeeds when
\* write does.
Publish(t) ==
  /\ pc[t] = "queue"
  /\ Write("PUBLISH", 0)
  /\ idle' = IF CanWrite THEN [idle EXCEPT ![t] = FALSE] ELSE idle
  /\ written' = IF CanWrite THEN [written EXCEPT ![t] = TRUE] ELSE written
  /\ Goto(t, "keepalive")
  /\ UNCHANGED <<mysock, MQTT_Socket, PacketID, fd, want, got, subId>>

-----------------------------------------------------------------------------
(* transport_close, then Client_Connect again. *)

\* shutdown(mysock, SHUT_WR)
Shutdown(t) ==
  /\ pc[t] = "shutdown"
  /\ sock' = IF CanWrite THEN [sock EXCEPT ![mysock].st = "shut"] ELSE sock
  /\ Goto(t, "drain")
  /\ UNCHANGED <<mysock, MQTT_Socket, PacketID, locals>>

\* recv(mysock, NULL, 0): waits until there is something to read, reads nothing.
Drain(t) ==
  /\ pc[t] = "drain"
  /\ IF Used(mysock)
     THEN Enter(t, mysock) /\ Goto(t, "drain_wait")
     ELSE UNCHANGED fd /\ Goto(t, "close")
  /\ UNCHANGED <<shared, want, got, subId, idle, written>>

DrainWait(t) ==
  /\ pc[t] = "drain_wait"
  /\ Readable(fd[t])
  /\ Goto(t, "close")
  /\ Leave(t)
  /\ UNCHANGED <<shared, want, got, subId, idle, written>>

\* Mutant of CloseSock: transport_close leaves the socket open.
MutCloseSockLeaks(t) ==
  /\ pc[t] = "close"
  /\ Goto(t, "socket")
  /\ UNCHANGED <<shared, locals>>

\* close(mysock)
CloseSock(t) ==
  /\ pc[t] = "close"
  /\ Close(t, mysock, "socket")
  /\ UNCHANGED <<mysock, MQTT_Socket, PacketID, locals>>

-----------------------------------------------------------------------------
(* The broker. *)

Open(s) == sock[s].st \in {"up", "shut"} /\ ~sock[s].fin

\* The next units arrive: one, or all of a packet.
Deliver(s) ==
  LET owed == sock[s].owed IN
  /\ Open(s)
  /\ owed # <<>>
  /\ LET n == IF Segmented THEN 1 ELSE LastPart(Head(owed).kind) + 1 IN
       /\ n <= Len(owed)
       /\ sock' = [sock EXCEPT ![s].rx = @ \o SubSeq(owed, 1, n),
                              ![s].owed = SubSeq(@, n + 1, Len(@))]
  /\ UNCHANGED <<mysock, MQTT_Socket, PacketID, pc, locals>>

\* A message for the subscribed topic, QoS 1.
BrokerPublish(s) ==
  /\ Open(s)
  /\ sock[s].broker = "subscribed"
  /\ Len(sock[s].rx) + Len(sock[s].owed) < MaxUnits
  /\ sock' = [sock EXCEPT ![s] = Owe(@, Reply("PUBLISH", TRUE, 0))]
  /\ UNCHANGED <<mysock, MQTT_Socket, PacketID, pc, locals>>

\* The broker has a reason to close: the client's end of stream, a refused
\* login, a protocol error.
MustClose(s) ==
  sock[s].owed = <<>> /\ (sock[s].st = "shut" \/ sock[s].broker \in {"bad", "refused"})

\* The broker closes, for such a reason or of its own, perhaps with replies unsent.
PeerClose(s) ==
  /\ Open(s)
  /\ BrokerCloses \/ MustClose(s)
  /\ sock' = [sock EXCEPT ![s].fin = TRUE, ![s].owed = <<>>]
  /\ UNCHANGED <<mysock, MQTT_Socket, PacketID, pc, locals>>

-----------------------------------------------------------------------------
Step(t) ==
  \/ Socket(t) \/ Connect(t) \/ Connected(t) \/ OpenFailed(t) \/ Opened(t) \/ Store(t)
  \/ Login(t) \/ SubscribeId(t) \/ SubscribeSend(t)
  \/ KeepAlive(t) \/ Ping(t) \/ SelectReply(t)
  \/ Head1(t) \/ HeadWait(t) \/ Length1(t) \/ LengthWait(t) \/ Body1(t) \/ BodyWait(t)
  \/ LoopSelect(t) \/ LoopSelected(t) \/ Puback(t)
  \/ QueueTimeout(t) \/ Publish(t)
  \/ Shutdown(t) \/ Drain(t) \/ DrainWait(t) \/ CloseSock(t)

Next ==
  \/ \E t \in Threads : Step(t)
  \/ \E s \in Socks : Deliver(s) \/ BrokerPublish(s) \/ PeerClose(s)

\* The tasks are time-sliced at one priority and everything above them blocks;
\* TCP delivers what the broker sends and the broker's own closes.
Fairness ==
  /\ \A t \in Threads : WF_vars(Step(t))
  /\ \A s \in Socks : WF_vars(Deliver(s)) /\ WF_vars(MustClose(s) /\ PeerClose(s))

Spec == Init /\ [][Next]_vars /\ Fairness

-----------------------------------------------------------------------------
Labels == {"socket", "connect", "connecting", "open_failed", "opened", "store",
           "login", "subscribe", "subscribe_send", "keepalive", "ping",
           "select_reply", "head", "head_wait", "length", "length_wait", "body", "body_wait",
           "loop", "select", "puback", "queue",
           "shutdown", "drain", "drain_wait", "close", "hung"}

SlotType ==
  [st : {"free", "new", "connecting", "up", "dead", "shut"},
   rx : Seq(Unit), owed : Seq(Unit), fin : BOOLEAN,
   broker : {"none", "login", "subscribed", "refused", "bad"}, phase : {"in", "cut", "out"}]

Types ==
  /\ sock \in [Socks -> SlotType]
  /\ mysock \in Descriptors
  /\ MQTT_Socket \in Descriptors
  /\ PacketID \in 0 .. PidMod - 1
  /\ pc \in [Threads -> Labels]
  /\ fd \in [Threads -> Descriptors]
  /\ want \in [Threads -> {"CONNACK", "SUBACK", "PINGRESP", "any"}]
  /\ got \in [Threads -> Kinds \cup {"none"}]
  /\ subId \in [Threads -> 0 .. PidMod - 1]
  /\ idle \in [Threads -> BOOLEAN]
  /\ written \in [Threads -> BOOLEAN]

\* The labels inside a call of lwIP that waits, and those of a packet whose header is read.
Waits == {"connecting", "head_wait", "length_wait", "body_wait", "drain_wait"}
PastHeader == {"length", "length_wait", "body", "body_wait"}

\* The types; and a task that waits inside lwIP has passed it a descriptor, one
\* that asks for the length or the body has a header byte, through every failed
\* read and closed socket.
TypeOK ==
  /\ Types
  /\ \A t \in Threads :
       /\ pc[t] \in Waits => fd[t] \in Socks
       /\ pc[t] \in PastHeader => got[t] # "none"

\* The states in which mqtt_thread is in its main loop, past step 4 of the
\* steps listed in mqttclient.c:604-608.
Serving(t) ==
  \/ pc[t] \in {"loop", "select", "keepalive", "ping", "puback"}
  \/ /\ pc[t] \in {"head", "head_wait", "select_reply"} \cup PastHeader
     /\ want[t] \in {"any", "PINGRESP"}

\* The value of PacketID after the first SUBSCRIBE, which went out with identifier 0.
FirstSubscribe == (PacketID - 1) % PidMod = 0

\* When mqtt_thread serves, both copies of the descriptor name the open connection
\* it reads from, and the broker holds its subscription on it: Client_Connect never
\* returns with a login, a subscription or a descriptor of an earlier connection.
\* One case apart: the broker ended the stream within the SUBACK of the very first
\* SUBSCRIBE, which then counts as an empty packet, and its identifier 0 as the one
\* that was sent (MQTTSubscribeClient.c:114, mqttclient.c:175).
ServesSubscription ==
  "mqtt_thread" \in Threads /\ Serving("mqtt_thread") =>
    /\ MQTT_Socket = mysock
    /\ Used(mysock)
    /\ \/ sock[mysock].broker = "subscribed"
       \/ FirstSubscribe /\ sock[mysock].fin /\ sock[mysock].rx = <<>>

\* However often the client reconnects it holds at most one socket, the one
\* mysock names: transport_open and transport_close pair up on every path.
NoSocketLeak == \A s \in Socks : Used(s) => s = mysock

\* A reader loses its place in the stream only by giving a packet up with its body
\* partly unread, as MQTTPacket.c:307-309 does for a body that is too long or has
\* not all arrived: never because two tasks, a time-out or a reconnect took a
\* packet apart between the reads of its header, its length and its body.
NeverGarbled == \A s \in Socks : sock[s].phase # "out"

\* mqtt_send goes silent for good with its first success: it never again
\* sends a PINGREQ, closes the connection or opens one, because
\* no_mqtt_msg_exchange is not set back in its loop (mqttclient.c:696, 763, 792).
SenderSilent ==
  "mqtt_send" \in Threads /\ ~idle["mqtt_send"] => pc["mqtt_send"] \in {"queue", "keepalive"}

\* Whatever the two tasks do to mysock, a socket that is connecting has exactly
\* one task waiting for it: neither a second connect nor a close gets through.
ConnectingOwned ==
  \A s \in Socks :
    sock[s].st = "connecting" <=>
      Cardinality({t \in Threads : pc[t] = "connecting" /\ fd[t] = s}) = 1

\* The keep-alive of mqttclient.c:656-678 gives a connection up only if the broker
\* ended it, nothing at all came for five seconds, a PUBLISH came before the PINGRESP,
\* or an earlier packet had been given up in the middle of its body: never for the
\* reply to an earlier request, nor for a PINGRESP in pieces.
PingLosesOnlyToPublish ==
  [][\A t \in Threads :
       want[t] = "PINGRESP" /\ pc[t] # pc'[t] /\ pc'[t] = "shutdown" =>
         \/ pc[t] = "select_reply" /\ sock[mysock].rx = <<>>
         \/ pc[t] = "head_wait" /\ sock[fd[t]].fin
         \/ pc[t] \in {"length_wait", "body_wait"} /\ got[t] = "PUBLISH"
         \/ sock[mysock].phase = "cut"]_vars

\* mqtt_thread always comes back to serving, if every answer the broker gives is in
\* time, unless mqtt_send keeps publishing before the login, the answers to CONNECT
\* and SUBSCRIBE keep arriving with their body in pieces, the counter of SUBSCRIBE
\* packets outgrows the 16 bits of a packet identifier, or one CONNECT is not
\* answered: the read of its reply (mqttclient.c:61) is the one that knows no time-out.
Premature == \E s \in Socks : sock[s].broker = "bad"
InPieces == (\E s \in Socks : sock[s].phase = "cut") /\ ~Serving("mqtt_thread")
LoginUnanswered ==
  /\ want["mqtt_thread"] = "CONNACK" /\ pc["mqtt_thread"] = "head_wait"
  /\ sock[fd["mqtt_thread"]].broker = "none"
AlwaysServesAgain ==
  <>[]~(Premature \/ InPieces) =>
    []<>Serving("mqtt_thread") \/ <>(PacketID >= IdMod) \/ <>[]LoginUnanswered

-----------------------------------------------------------------------------
(* A statement of a comment in the code, which it does not keep. *)

\* mqttclient.c:604-608: connect, log in, subscribe, and only then receive and
\* report.  So the broker never sees another packet before CONNECT, nor a
\* second CONNECT.
StepsInOrder == ~Premature
=============================================================================
