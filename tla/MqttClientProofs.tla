-------------------------- MODULE MqttClientProofs --------------------------
(***************************************************************************)
(* Proofs about MqttClient, for any number of sockets and either set of    *)
(* tasks.  First the types and what mqtt_send does when it publishes       *)
(* before the login; then who waits for a socket that is connecting; then  *)
(* what mqtt_thread knows of its connection as long as mqtt_send stays out *)
(* of its way.                                                             *)
(***************************************************************************)
EXTENDS MqttClient, SequenceTheorems, FiniteSetTheorems, TLAPS

\* What Types needs to be inductive: a task that waits inside a call has passed a
\* real descriptor.  The other part of TypeOK: the header byte was read.
InCall == \A t \in Threads : pc[t] \in Waits => fd[t] \in Socks
GotKnown == \A t \in Threads : pc[t] \in PastHeader => got[t] # "none"

\* What a step leaves of the other tasks: each stays where it is or, its
\* connection closed by another task, hangs.
OthersStay(t) ==
  \A u \in Threads \ {t} : \/ pc'[u] = pc[u]
                           \/ pc[u] \in Waits /\ pc'[u] = "hung"

-----------------------------------------------------------------------------
(* The helpers. *)

LEMMA FreeType == Free \in SlotType
<1>1. <<>> \in Seq(Unit)
  OBVIOUS
<1> QED
  BY <1>1 DEF Free, SlotType

\* A slot may change its state and nothing else.
LEMMA StateType ==
  ASSUME NEW k \in SlotType, NEW st \in {"free", "new", "connecting", "up", "dead", "shut"}
  PROVE  [k EXCEPT !.st = st] \in SlotType
BY DEF SlotType

\* A packet is a sequence of units.
LEMMA PacketType ==
  ASSUME NEW p \in Unit
  PROVE  Packet(p) \in Seq(Unit)
<1>1. LastPart(p.kind) \in 1 .. 3
  BY DEF LastPart
<1>2. \A n \in 1 .. LastPart(p.kind) + 1 : [p EXCEPT !.part = n - 1] \in Unit
  BY <1>1 DEF Unit
<1>3. Packet(p) \in [1 .. LastPart(p.kind) + 1 -> Unit]
  BY <1>2 DEF Packet
<1> QED
  BY <1>1, <1>3, SeqDef

LEMMA OweType ==
  ASSUME NEW k \in SlotType, NEW p \in Unit
  PROVE  Owe(k, p) \in SlotType
<1>1. k.owed \o Packet(p) \in Seq(Unit)
  BY PacketType DEF SlotType
<1> QED
  BY <1>1 DEF Owe, SlotType

LEMMA ReplyType ==
  ASSUME NEW kind \in Kinds, NEW ok \in BOOLEAN, NEW id \in 0 .. IdMod - 1
  PROVE  Reply(kind, ok, id) \in Unit
BY DEF Reply, Unit

LEMMA ZeroId == 0 \in 0 .. IdMod - 1
BY MqttClientAssumption

\* A request leaves the broker's record of a connection well-formed.
LEMMA ReceivesType ==
  ASSUME NEW k \in SlotType, NEW request, NEW ok \in BOOLEAN, NEW id \in 0 .. IdMod - 1
  PROVE  Receives(k, request, ok, id) \in SlotType
<1>1. /\ Reply("CONNACK", ok, 0) \in Unit
      /\ Reply("SUBACK", ok, id) \in Unit
      /\ Reply("PINGRESP", TRUE, 0) \in Unit
  BY ReplyType, ZeroId DEF Kinds
<1>2. /\ [k EXCEPT !.broker = IF ok THEN "login" ELSE "refused"] \in SlotType
      /\ [k EXCEPT !.broker = IF ok THEN "subscribed" ELSE @] \in SlotType
      /\ [k EXCEPT !.broker = "bad"] \in SlotType
  BY DEF SlotType
<1>3. /\ Owe([k EXCEPT !.broker = IF ok THEN "login" ELSE "refused"], Reply("CONNACK", ok, 0)) \in SlotType
      /\ Owe([k EXCEPT !.broker = IF ok THEN "subscribed" ELSE @], Reply("SUBACK", ok, id)) \in SlotType
      /\ Owe(k, Reply("PINGRESP", TRUE, 0)) \in SlotType
  BY <1>1, <1>2, OweType
<1> QED
  BY <1>2, <1>3 DEF Receives

\* So does a write by the client.
LEMMA WriteType ==
  ASSUME sock \in [Socks -> SlotType], NEW request, NEW id \in 0 .. IdMod - 1,
         Write(request, id)
  PROVE  sock' \in [Socks -> SlotType]
<1>1. CASE CanWrite
  <2>1. ASSUME NEW ok \in Refusals,
               sock' = [sock EXCEPT ![mysock] = Receives(@, request, ok, id)]
        PROVE  sock' \in [Socks -> SlotType]
    <3>1. mysock \in Socks /\ sock[mysock] \in SlotType
      BY <1>1 DEF CanWrite, Used
    <3>2. ok \in BOOLEAN
      BY MqttClientAssumption
    <3>3. Receives(sock[mysock], request, ok, id) \in SlotType
      BY <3>1, <3>2, ReceivesType
    <3> QED
      BY <2>1, <3>1, <3>3
  <2> QED
    BY <1>1, <2>1 DEF Write
<1> QED
  BY <1>1 DEF Write

\* lwip_close frees the slot, or does nothing; it moves the task on and hangs
\* the tasks that wait in recv on that slot.
LEMMA CloseStep ==
  ASSUME Types, NEW t \in Threads, NEW s, NEW label \in Labels,
         Close(t, s, label)
  PROVE  /\ sock' \in [Socks -> SlotType]
         /\ pc' \in [Threads -> Labels]
         /\ pc'[t] = label
         /\ OthersStay(t)
<1>1. Free \in SlotType
  BY FreeType
<1>2. sock' \in [Socks -> SlotType]
  BY <1>1 DEF Close, Types
<1>3. CASE Closable(s)
  <2>1. pc' = [u \in Threads |-> CASE u = t                  -> label
                                   [] u \in Receiving(s) \ {t} -> "hung"
                                   [] OTHER                  -> pc[u]]
    BY <1>3 DEF Close
  <2>2. pc'[t] = label /\ OthersStay(t)
    BY <2>1 DEF OthersStay, Receiving, Waits
  <2>3. \A u \in Threads : pc'[u] \in Labels
    BY <2>2 DEF Types, Labels, OthersStay
  <2> QED
    BY <1>2, <2>1, <2>2, <2>3
<1>4. CASE ~Closable(s)
  BY <1>2, <1>4 DEF Close, Goto, Types, OthersStay
<1> QED
  BY <1>3, <1>4

\* Wherever MQTTPacket_read returns to, it is outside any call; and
\* no_mqtt_msg_exchange is only ever cleared on the way to the keep-alive test
\* or to the top of the loop.
LEMMA ParsedStep ==
  ASSUME Types, NEW t \in Threads, NEW type, NEW ok, NEW id,
         Parsed(t, type, ok, id)
  PROVE  /\ got' \in [Threads -> Kinds \cup {"none"}]
         /\ subId' \in [Threads -> 0 .. PidMod - 1]
         /\ want' \in [Threads -> {"CONNACK", "SUBACK", "PINGRESP", "any"}]
         /\ idle' \in [Threads -> BOOLEAN]
         /\ written' \in [Threads -> BOOLEAN]
         /\ pc' \in [Threads -> Labels]
         /\ pc'[t] \notin Waits
         /\ OthersStay(t)
         /\ \/ idle' = idle
            \/ idle' = [idle EXCEPT ![t] = FALSE] /\ pc'[t] \in {"keepalive", Top(t)}
<1>1. /\ got' \in [Threads -> Kinds \cup {"none"}]
      /\ want' \in [Threads -> {"CONNACK", "SUBACK", "PINGRESP", "any"}]
  BY DEF Parsed, Types
<1>2. subId' \in [Threads -> 0 .. PidMod - 1]
  BY MqttClientAssumption DEF Parsed, Types
<1> DEFINE Out == {"subscribe", "shutdown", "keepalive", "puback", Top(t)}
           IdleStep == \/ idle' = idle
                       \/ idle' = [idle EXCEPT ![t] = FALSE] /\ pc'[t] \in {"keepalive", Top(t)}
           Result == /\ \E l \in Out : pc' = [pc EXCEPT ![t] = l]
                     /\ IdleStep
                     /\ \/ written' = written
                        \/ written' = [written EXCEPT ![t] = TRUE]
<1>3. pc \in [Threads -> Labels]
  BY DEF Types
<1>4. ASSUME Handled(t) PROVE Result
  BY <1>3, <1>4 DEF Handled, Goto
<1>5. ASSUME Ready(t) PROVE Result
  BY <1>3, <1>5 DEF Ready, Goto
<1>6. ASSUME NEW l \in Out, Goto(t, l), UNCHANGED <<idle, written>> PROVE Result
  BY <1>3, <1>6 DEF Goto
<1>7. ASSUME Goto(t, Top(t)), idle' = [idle EXCEPT ![t] = FALSE], UNCHANGED written PROVE Result
  BY <1>3, <1>7 DEF Goto
<1>8. Result
  <2>1. CASE want[t] = "CONNACK"
    <3>1. Goto(t, "subscribe") \/ Goto(t, "shutdown")
      BY <2>1 DEF Parsed
    <3>2. UNCHANGED <<idle, written>>
      BY <2>1 DEF Parsed
    <3> QED
      BY <3>1, <3>2, <1>6
  <2>2. CASE want[t] = "SUBACK"
    <3>1. Ready(t) \/ (Goto(t, "shutdown") /\ UNCHANGED <<idle, written>>)
      BY <2>2 DEF Parsed
    <3> QED
      BY <3>1, <1>5, <1>6
  <2>3. CASE want[t] = "PINGRESP"
    <3>1. \/ Goto(t, Top(t)) /\ idle' = [idle EXCEPT ![t] = FALSE] /\ UNCHANGED written
          \/ Goto(t, "shutdown") /\ UNCHANGED <<idle, written>>
      BY <2>3 DEF Parsed
    <3> QED
      BY <3>1, <1>6, <1>7
  <2>4. CASE want[t] = "any"
    <3>1. \/ Goto(t, "keepalive") /\ UNCHANGED <<idle, written>>
          \/ Goto(t, "puback") /\ UNCHANGED <<idle, written>>
          \/ Handled(t)
      BY <2>4 DEF Parsed
    <3> QED
      BY <3>1, <1>4, <1>6
  <2> QED
    BY <2>1, <2>2, <2>3, <2>4 DEF Types
<1>9. Out \subseteq Labels /\ Out \cap Waits = {}
  BY DEF Labels, Waits, Top
<1> HIDE DEF Out
<1>10. /\ pc' \in [Threads -> Labels]
       /\ pc'[t] \notin Waits
       /\ OthersStay(t)
  BY <1>3, <1>8, <1>9 DEF OthersStay
<1>11. /\ idle' \in [Threads -> BOOLEAN]
       /\ written' \in [Threads -> BOOLEAN]
  BY <1>8 DEF Types
<1> QED
  BY <1>1, <1>2, <1>8, <1>10, <1>11

-----------------------------------------------------------------------------
(* Every step keeps the types and InCall. *)

Invariant == Types /\ InCall

LEMMA InitInvariant == Init => Invariant
<1> SUFFICES ASSUME Init PROVE Invariant
  OBVIOUS
<1>1. Free \in SlotType
  BY FreeType
<1>2. 0 \in Socks /\ 0 \in 0 .. PidMod - 1
  BY MqttClientAssumption DEF Socks
<1> QED
  BY <1>1, <1>2 DEF Init, Invariant, InCall, Waits, Types, Labels, Descriptors, NoSock

\* When a task moves to a label outside any call and no descriptor changes.
LEMMA LeavesCall ==
  ASSUME InCall, NEW t \in Threads, pc \in [Threads -> Labels],
         fd \in [Threads -> Descriptors],
         pc'[t] \notin Waits, OthersStay(t),
         \A u \in Threads \ {t} : fd'[u] = fd[u]
  PROVE  InCall'
BY DEF InCall, OthersStay, Waits

\* When it enters a call with an open descriptor.
LEMMA EntersCall ==
  ASSUME InCall, NEW t \in Threads, NEW s \in Socks, OthersStay(t),
         fd \in [Threads -> Descriptors], Enter(t, s)
  PROVE  InCall'
BY DEF InCall, OthersStay, Waits, Enter

\* Goto leaves the other tasks alone.
LEMMA GotoStep ==
  ASSUME NEW t \in Threads, pc \in [Threads -> Labels], NEW l \in Labels, Goto(t, l)
  PROVE  pc' \in [Threads -> Labels] /\ pc'[t] = l /\ OthersStay(t)
BY DEF Goto, OthersStay

LEMMA EnterStep ==
  ASSUME NEW t \in Threads, fd \in [Threads -> Descriptors], NEW s \in Descriptors, Enter(t, s)
  PROVE  fd' \in [Threads -> Descriptors] /\ \A u \in Threads \ {t} : fd'[u] = fd[u]
BY DEF Enter

\* A stutter, and the steps of the broker and the clock, move no task.
LEMMA TasksStay == ASSUME InCall, pc' = pc, fd' = fd PROVE InCall'
BY DEF InCall

LEMMA OpeningInvariant ==
  ASSUME Invariant, NEW t \in Threads,
         \/ Socket(t) \/ Connect(t) \/ Connected(t) \/ OpenFailed(t) \/ Opened(t) \/ Store(t)
  PROVE  Invariant'
<1> USE DEF Invariant
<1>0. /\ pc \in [Threads -> Labels] /\ fd \in [Threads -> Descriptors]
      /\ NoSock \in Descriptors /\ mysock \in Descriptors
      /\ sock \in [Socks -> SlotType]
  BY DEF Types, Descriptors
<1>1. CASE Socket(t)
  <2>1. pc' \in [Threads -> Labels] /\ pc'[t] = "connect" /\ OthersStay(t)
    BY <1>0, <1>1, GotoStep DEF Socket, Labels
  <2>2. sock' \in [Socks -> SlotType] /\ mysock' \in Descriptors
    <3>1. [Free EXCEPT !.st = "new"] \in SlotType
      BY FreeType, StateType
    <3> QED
      BY <1>1, <3>1 DEF Socket, Types, Descriptors
  <2>3. UNCHANGED <<MQTT_Socket, PacketID, locals>>
    BY <1>1 DEF Socket
  <2>4. Types'
    BY <2>1, <2>2, <2>3 DEF Types, locals
  <2>5. InCall'
    BY <1>0, <2>1, <2>3, LeavesCall DEF Waits, locals
  <2> QED
    BY <2>4, <2>5
<1>2. CASE Connect(t)
  <2>1. CASE Used(mysock) /\ sock[mysock].st = "new"
    <3>1. Enter(t, mysock) /\ Goto(t, "connecting")
          /\ sock' = [sock EXCEPT ![mysock].st = "connecting"]
      BY <1>2, <2>1 DEF Connect
    <3>2. mysock \in Socks
      BY <2>1 DEF Used
    <3>3. [sock[mysock] EXCEPT !.st = "connecting"] \in SlotType
      BY <1>0, <3>2, StateType
    <3>8. sock' \in [Socks -> SlotType]
      BY <1>0, <3>1, <3>2, <3>3
    <3>4. pc' \in [Threads -> Labels] /\ OthersStay(t)
      BY <1>0, <3>1, GotoStep DEF Labels
    <3>5. fd' \in [Threads -> Descriptors]
      BY <1>0, <3>1, EnterStep
    <3>6. Types'
      BY <1>2, <3>8, <3>4, <3>5 DEF Connect, Types
    <3>7. InCall'
      BY <1>0, <3>1, <3>2, <3>4, EntersCall
    <3> QED
      BY <3>6, <3>7
  <2>2. CASE ~(Used(mysock) /\ sock[mysock].st = "new")
    <3>1. Goto(t, "open_failed") /\ UNCHANGED <<sock, fd>>
      BY <1>2, <2>2 DEF Connect
    <3>2. pc' \in [Threads -> Labels] /\ pc'[t] = "open_failed" /\ OthersStay(t)
      BY <1>0, <3>1, GotoStep DEF Labels
    <3>3. Types'
      BY <1>2, <3>1, <3>2 DEF Connect, Types
    <3>4. InCall'
      BY <1>0, <3>1, <3>2, LeavesCall DEF Waits
    <3> QED
      BY <3>3, <3>4
  <2> QED
    BY <2>1, <2>2
<1>3. CASE Connected(t)
  <2>1. Goto(t, "opened") \/ Goto(t, "open_failed")
    BY <1>3 DEF Connected
  <2>2. pc' \in [Threads -> Labels] /\ pc'[t] \notin Waits /\ OthersStay(t)
    BY <1>0, <2>1, GotoStep DEF Labels, Waits
  <2>3. fd' \in [Threads -> Descriptors] /\ \A u \in Threads \ {t} : fd'[u] = fd[u]
    BY <1>0, <1>3, EnterStep DEF Connected, Leave
  <2>4. sock' \in [Socks -> SlotType]
    <3>1. fd[t] \in Socks
      BY <1>3 DEF Connected, InCall, Waits
    <3>2. /\ [sock[fd[t]] EXCEPT !.st = "up"] \in SlotType
          /\ [sock[fd[t]] EXCEPT !.st = "dead"] \in SlotType
      BY <1>0, <3>1, StateType
    <3> QED
      BY <1>0, <1>3, <3>1, <3>2 DEF Connected
  <2>5. Types'
    BY <1>3, <2>2, <2>3, <2>4 DEF Connected, Types
  <2>6. InCall'
    BY <1>0, <2>2, <2>3, LeavesCall
  <2> QED
    BY <2>5, <2>6
<1>4. CASE OpenFailed(t)
  <2>1. /\ sock' \in [Socks -> SlotType]
        /\ pc' \in [Threads -> Labels] /\ pc'[t] = "store" /\ OthersStay(t)
    BY <1>4, CloseStep DEF OpenFailed, Labels
  <2>2. fd' \in [Threads -> Descriptors] /\ \A u \in Threads \ {t} : fd'[u] = fd[u]
    BY <1>0, <1>4, EnterStep DEF OpenFailed, Leave
  <2>3. Types'
    BY <1>4, <2>1, <2>2 DEF OpenFailed, Types
  <2>4. InCall'
    BY <1>0, <2>1, <2>2, LeavesCall DEF Waits
  <2> QED
    BY <2>3, <2>4
<1>5. CASE Opened(t)
  <2>1. pc' \in [Threads -> Labels] /\ pc'[t] = "store" /\ OthersStay(t)
    BY <1>0, <1>5, GotoStep DEF Opened, Labels
  <2>2. fd' \in [Threads -> Descriptors] /\ \A u \in Threads \ {t} : fd'[u] = fd[u]
    BY <1>0, <1>5, EnterStep DEF Opened
  <2>3. Types'
    BY <1>5, <2>1, <2>2 DEF Opened, Types, shared
  <2>4. InCall'
    BY <1>0, <2>1, <2>2, LeavesCall DEF Waits
  <2> QED
    BY <2>3, <2>4
<1>6. CASE Store(t)
  <2>1. Goto(t, "socket") \/ Goto(t, "login")
    BY <1>6 DEF Store
  <2>2. pc' \in [Threads -> Labels] /\ pc'[t] \notin Waits /\ OthersStay(t)
    BY <1>0, <2>1, GotoStep DEF Labels, Waits
  <2>3. fd' \in [Threads -> Descriptors] /\ \A u \in Threads \ {t} : fd'[u] = fd[u]
    BY <1>0, <1>6, EnterStep DEF Store, Leave
  <2>4. MQTT_Socket' \in Descriptors
    BY <1>0, <1>6 DEF Store
  <2>5. Types'
    BY <1>6, <2>2, <2>3, <2>4 DEF Store, Types
  <2>6. InCall'
    BY <1>0, <2>2, <2>3, LeavesCall
  <2> QED
    BY <2>5, <2>6
<1> QED
  BY <1>1, <1>2, <1>3, <1>4, <1>5, <1>6

LEMMA RequestInvariant ==
  ASSUME Invariant, NEW t \in Threads,
         \/ Login(t) \/ SubscribeId(t) \/ SubscribeSend(t) \/ KeepAlive(t) \/ Ping(t)
         \/ Puback(t) \/ QueueTimeout(t) \/ Publish(t)
  PROVE  Invariant'
<1> USE DEF Invariant
<1>0. /\ pc \in [Threads -> Labels] /\ fd \in [Threads -> Descriptors]
      /\ NoSock \in Descriptors /\ MQTT_Socket \in Descriptors
      /\ sock \in [Socks -> SlotType]
  BY DEF Types, Descriptors
<1>1. CASE Login(t)
  <2>1. pc' \in [Threads -> Labels] /\ pc'[t] = "head" /\ OthersStay(t)
    BY <1>0, <1>1, GotoStep DEF Login, Labels
  <2>2. sock' \in [Socks -> SlotType]
    BY <1>0, <1>1, ZeroId, WriteType DEF Login
  <2>3. Types'
    BY <1>1, <2>1, <2>2 DEF Login, Types
  <2>4. InCall'
    BY <1>0, <1>1, <2>1, LeavesCall DEF Login, Waits
  <2> QED
    BY <2>3, <2>4
<1>2. CASE SubscribeId(t)
  <2>1. pc' \in [Threads -> Labels] /\ pc'[t] = "subscribe_send" /\ OthersStay(t)
    BY <1>0, <1>2, GotoStep DEF SubscribeId, Labels
  <2>2. fd' \in [Threads -> Descriptors] /\ \A u \in Threads \ {t} : fd'[u] = fd[u]
    BY <1>0, <1>2, EnterStep DEF SubscribeId
  <2>3. Types'
    BY <1>2, <2>1, <2>2 DEF SubscribeId, Types, shared
  <2>4. InCall'
    BY <1>0, <2>1, <2>2, LeavesCall DEF Waits
  <2> QED
    BY <2>3, <2>4
<1>3. CASE SubscribeSend(t)
  <2>1. Goto(t, "select_reply") \/ Goto(t, "shutdown")
    BY <1>3 DEF SubscribeSend
  <2>2. pc' \in [Threads -> Labels] /\ pc'[t] \notin Waits /\ OthersStay(t)
    BY <1>0, <2>1, GotoStep DEF Labels, Waits
  <2>3. subId[t] \in Nat /\ IdMod \in Nat \ {0} /\ PidMod \in Nat \ {0}
    BY MqttClientAssumption DEF Types
  <2>4. /\ subId[t] % IdMod \in 0 .. IdMod - 1
        /\ (subId[t] + 1) % PidMod \in 0 .. PidMod - 1
    BY <2>3
  <2>5. sock' \in [Socks -> SlotType]
    BY <1>0, <1>3, <2>4, WriteType DEF SubscribeSend
  <2>6. Types'
    BY <1>3, <2>2, <2>4, <2>5 DEF SubscribeSend, Types
  <2>7. InCall'
    BY <1>0, <1>3, <2>2, LeavesCall DEF SubscribeSend
  <2> QED
    BY <2>6, <2>7
<1>4. CASE KeepAlive(t)
  <2>1. Goto(t, "ping") \/ Goto(t, Top(t))
    BY <1>4 DEF KeepAlive
  <2>2. pc' \in [Threads -> Labels] /\ pc'[t] \notin Waits /\ OthersStay(t)
    BY <1>0, <2>1, GotoStep DEF Labels, Waits, Top
  <2>3. written' \in [Threads -> BOOLEAN]
    BY <1>4 DEF KeepAlive, Types
  <2>4. Types'
    BY <1>4, <2>2, <2>3 DEF KeepAlive, Types, shared
  <2>5. InCall'
    BY <1>0, <1>4, <2>2, LeavesCall DEF KeepAlive
  <2> QED
    BY <2>4, <2>5
<1>5. CASE Ping(t)
  <2>1. pc' \in [Threads -> Labels] /\ pc'[t] = "select_reply" /\ OthersStay(t)
    BY <1>0, <1>5, GotoStep DEF Ping, Labels
  <2>2. fd' \in [Threads -> Descriptors] /\ \A u \in Threads \ {t} : fd'[u] = fd[u]
    BY <1>0, <1>5, EnterStep DEF Ping
  <2>3. sock' \in [Socks -> SlotType]
    BY <1>0, <1>5, ZeroId, WriteType DEF Ping
  <2>4. Types'
    BY <1>5, <2>1, <2>2, <2>3 DEF Ping, Types
  <2>5. InCall'
    BY <1>0, <2>1, <2>2, LeavesCall DEF Waits
  <2> QED
    BY <2>4, <2>5
<1>6. CASE Puback(t)
  <2>1. pc' \in [Threads -> Labels] /\ pc'[t] = "keepalive" /\ OthersStay(t)
    BY <1>0, <1>6, GotoStep DEF Puback, Handled, Labels
  <2>2. sock' \in [Socks -> SlotType]
    BY <1>0, <1>6, ZeroId, WriteType DEF Puback
  <2>3. Types'
    BY <1>6, <2>1, <2>2 DEF Puback, Handled, Types
  <2>4. InCall'
    BY <1>0, <1>6, <2>1, LeavesCall DEF Puback, Waits
  <2> QED
    BY <2>3, <2>4
<1>7. CASE QueueTimeout(t)
  <2>1. pc' \in [Threads -> Labels] /\ pc'[t] = "keepalive" /\ OthersStay(t)
    BY <1>0, <1>7, GotoStep DEF QueueTimeout, Labels
  <2>2. Types'
    BY <1>7, <2>1 DEF QueueTimeout, Types, shared, locals
  <2>3. InCall'
    BY <1>0, <1>7, <2>1, LeavesCall DEF QueueTimeout, Waits, locals
  <2> QED
    BY <2>2, <2>3
<1>8. CASE Publish(t)
  <2>1. pc' \in [Threads -> Labels] /\ pc'[t] = "keepalive" /\ OthersStay(t)
    BY <1>0, <1>8, GotoStep DEF Publish, Labels
  <2>2. sock' \in [Socks -> SlotType]
    BY <1>0, <1>8, ZeroId, WriteType DEF Publish
  <2>3. Types'
    BY <1>8, <2>1, <2>2 DEF Publish, Types
  <2>4. InCall'
    BY <1>0, <1>8, <2>1, LeavesCall DEF Publish, Waits
  <2> QED
    BY <2>3, <2>4
<1> QED
  BY <1>1, <1>2, <1>3, <1>4, <1>5, <1>6, <1>7, <1>8

\* recv takes units off the stream on s, and its phase may change.
Takes(s) ==
  \E q \in Seq(Unit), ph \in {"in", "cut", "out"} :
    sock' = [sock EXCEPT ![s] = [sock[s] EXCEPT !.rx = q, !.phase = ph]]

LEMMA RestType ==
  ASSUME NEW q \in Seq(Unit), NEW n \in 0 .. Len(q)
  PROVE  SubSeq(q, n + 1, Len(q)) \in Seq(Unit)
OBVIOUS

LEMMA TakesForm ==
  ASSUME sock \in [Socks -> SlotType], NEW s \in Socks, NEW t, NEW n \in 0 .. Len(sock[s].rx),
         NEW most,
         Take(s, n) \/ Stray(s, most) \/ GiveUp(t, s, n)
  PROVE  Takes(s)
<1> DEFINE k == sock[s]
<1>1. k \in SlotType /\ k.rx \in Seq(Unit) /\ k.phase \in {"in", "cut", "out"}
  BY DEF SlotType
<1>2. SubSeq(k.rx, n + 1, Len(k.rx)) \in Seq(Unit)
  BY <1>1, RestType
<1>3. CASE Take(s, n)
  <2>1. sock' = [sock EXCEPT ![s] = [k EXCEPT !.rx = SubSeq(k.rx, n + 1, Len(k.rx))]]
    BY <1>3 DEF Take
  <2>2. [k EXCEPT !.rx = SubSeq(k.rx, n + 1, Len(k.rx))]
          = [k EXCEPT !.rx = SubSeq(k.rx, n + 1, Len(k.rx)), !.phase = k.phase]
    BY <1>1 DEF SlotType
  <2> QED
    BY <1>1, <1>2, <2>1, <2>2 DEF Takes
<1>4. CASE Stray(s, most)
  <2>1. PICK m \in 0 .. most :
          /\ m <= Len(k.rx)
          /\ sock' = [sock EXCEPT ![s] = [k EXCEPT !.rx = SubSeq(k.rx, m + 1, Len(k.rx)),
                                                   !.phase = IF k.phase = "in" THEN "out" ELSE k.phase]]
    BY <1>4 DEF Stray
  <2>2. SubSeq(k.rx, m + 1, Len(k.rx)) \in Seq(Unit)
    BY <1>1, <2>1, RestType
  <2>3. (IF k.phase = "in" THEN "out" ELSE k.phase) \in {"in", "cut", "out"}
    BY <1>1
  <2> QED
    BY <2>1, <2>2, <2>3 DEF Takes
<1>5. CASE GiveUp(t, s, n)
  <2>1. sock' = [sock EXCEPT ![s] = [k EXCEPT !.rx = SubSeq(k.rx, n + 1, Len(k.rx)), !.phase = "cut"]]
    BY <1>5 DEF GiveUp
  <2> QED
    BY <1>2, <2>1 DEF Takes
<1> QED
  BY <1>3, <1>4, <1>5

LEMMA TakesType ==
  ASSUME sock \in [Socks -> SlotType], NEW s \in Socks, Takes(s)
  PROVE  sock' \in [Socks -> SlotType]
<1>1. PICK q \in Seq(Unit), ph \in {"in", "cut", "out"} :
        sock' = [sock EXCEPT ![s] = [sock[s] EXCEPT !.rx = q, !.phase = ph]]
  BY DEF Takes
<1>2. [sock[s] EXCEPT !.rx = q, !.phase = ph] \in SlotType
  BY DEF SlotType
<1> QED
  BY <1>1, <1>2

\* What a step that returns from recv does: MQTTPacket_read is left, or goes on
\* with a type in hand.
Returns(t) ==
  \/ \E type, ok, id : Parsed(t, type, ok, id)
  \/ /\ UNCHANGED <<want, subId, idle, written>>
     /\ \/ Goto(t, "length") /\ \E g \in Kinds : got' = [got EXCEPT ![t] = g]
        \/ pc[t] = "length_wait" /\ Goto(t, "body") /\ UNCHANGED got

LEMMA WaitForm ==
  ASSUME Types, InCall, NEW t \in Threads, HeadWait(t) \/ LengthWait(t) \/ BodyWait(t)
  PROVE  /\ fd[t] \in Socks
         /\ pc[t] \in {"head_wait", "length_wait", "body_wait"}
         /\ Leave(t) /\ UNCHANGED <<mysock, MQTT_Socket, PacketID>>
         /\ UNCHANGED sock \/ Takes(fd[t])
         /\ Returns(t)
<1> DEFINE k == sock[fd[t]]
<1>0. /\ sock \in [Socks -> SlotType]
      /\ pc[t] \in {"head_wait", "length_wait", "body_wait"}
      /\ Leave(t) /\ UNCHANGED <<mysock, MQTT_Socket, PacketID>>
  BY DEF Types, HeadWait, LengthWait, BodyWait
<1>1. fd[t] \in Socks /\ k.rx \in Seq(Unit) /\ Len(k.rx) \in Nat
  BY <1>0 DEF InCall, Waits, SlotType
<1>2. k.rx # <<>> => 1 \in 0 .. Len(k.rx) /\ Head(k.rx).kind \in Kinds
  <2>1. k.rx # <<>> => 1 \in 0 .. Len(k.rx) /\ Head(k.rx) \in Unit
    BY <1>1
  <2> QED
    BY <2>1 DEF Unit
<1>3. ASSUME NEW n \in 0 .. Len(k.rx), NEW most, Take(fd[t], n) \/ Stray(fd[t], most) \/ GiveUp(t, fd[t], n)
      PROVE  Takes(fd[t])
  BY <1>0, <1>1, <1>3, TakesForm
<1>4. ASSUME Misparsed(t) PROVE \E type, ok, id : Parsed(t, type, ok, id)
  BY <1>4 DEF Misparsed
<1>5. CASE HeadWait(t)
  <2>1. CASE k.rx = <<>>
    BY <1>0, <1>1, <1>5, <2>1 DEF HeadWait, Returns
  <2>2. CASE k.rx # <<>>
    <3>1. /\ \/ Take(fd[t], 1) /\ got' = [got EXCEPT ![t] = Head(k.rx).kind]
             \/ Stray(fd[t], 1) /\ \E type \in Kinds : got' = [got EXCEPT ![t] = type]
          /\ Goto(t, "length")
          /\ UNCHANGED <<want, subId, idle, written>>
      BY <1>5, <2>2 DEF HeadWait
    <3>2. Takes(fd[t])
      BY <1>2, <1>3, <2>2, <3>1
    <3>3. Returns(t)
      BY <1>2, <2>2, <3>1 DEF Returns
    <3> QED
      BY <1>0, <1>1, <3>2, <3>3
  <2> QED
    BY <2>1, <2>2
<1>6. CASE LengthWait(t)
  <2> DEFINE InBody == Goto(t, "body") /\ UNCHANGED <<want, got, subId, idle, written>>
  <2>0. pc[t] = "length_wait" /\ (InBody => Returns(t))
    BY <1>6 DEF LengthWait, Returns
  <2>1. CASE k.rx = <<>>
    <3>1. UNCHANGED sock /\ \E type, ok, id : Parsed(t, type, ok, id)
      BY <1>6, <2>1 DEF LengthWait, NoLength, EmptyPacket, InPlace
    <3> QED
      BY <1>0, <1>1, <3>1 DEF Returns
  <2>2. CASE k.rx # <<>>
    <3>1. \/ Take(fd[t], 1) /\ (Parsed(t, got[t], TRUE, 0) \/ InBody)
          \/ GiveUp(t, fd[t], 1)
          \/ Stray(fd[t], 1) /\ (InBody \/ Misparsed(t))
      BY <1>6, <2>2 DEF LengthWait
    <3>2. Takes(fd[t])
      BY <1>2, <1>3, <2>2, <3>1
    <3>3. InBody \/ \E type, ok, id : Parsed(t, type, ok, id)
      BY <1>4, <3>1 DEF GiveUp
    <3>4. Returns(t)
      BY <2>0, <3>3 DEF Returns
    <3> QED
      BY <1>0, <1>1, <3>2, <3>4
  <2> QED
    BY <2>1, <2>2
<1>7. CASE BodyWait(t)
  <2>1. CASE k.rx = <<>>
    <3>1. UNCHANGED sock /\ Parsed(t, "fail", FALSE, 0)
      BY <1>7, <2>1 DEF BodyWait, InPlace
    <3> QED
      BY <1>0, <1>1, <3>1 DEF Returns
  <2>2. CASE k.rx # <<>>
    <3>1. \/ /\ Len(k.rx) >= LastPart(got[t]) - 1
             /\ Take(fd[t], LastPart(got[t]) - 1)
             /\ \E type, ok, id : Parsed(t, type, ok, id)
          \/ GiveUp(t, fd[t], 1)
          \/ Stray(fd[t], Len(k.rx)) /\ Misparsed(t)
      BY <1>7, <2>2 DEF BodyWait
    <3>2. LastPart(got[t]) - 1 \in Nat
      BY DEF LastPart
    <3>3. Takes(fd[t])
      BY <1>1, <1>2, <1>3, <2>2, <3>1, <3>2
    <3>4. \E type, ok, id : Parsed(t, type, ok, id)
      BY <1>4, <3>1 DEF GiveUp
    <3> QED
      BY <1>0, <1>1, <3>3, <3>4 DEF Returns
  <2> QED
    BY <2>1, <2>2
<1> QED
  BY <1>5, <1>6, <1>7

\* The task enters recv, or MQTTPacket_read returns at once.
LEMMA EnterRecv ==
  ASSUME Invariant, NEW t \in Threads, NEW label \in Labels,
         Used(mysock), Enter(t, mysock), Goto(t, label),
         UNCHANGED <<shared, want, got, subId, idle, written>>
  PROVE  Invariant'
<1>0. pc \in [Threads -> Labels] /\ fd \in [Threads -> Descriptors]
  BY DEF Invariant, Types
<1>1. mysock \in Socks /\ mysock \in Descriptors
  BY DEF Used, Descriptors
<1>2. pc' \in [Threads -> Labels] /\ OthersStay(t)
  BY <1>0, GotoStep
<1>3. fd' \in [Threads -> Descriptors]
  BY <1>0, <1>1, EnterStep
<1>4. Types'
  BY <1>2, <1>3 DEF Invariant, Types, shared
<1>5. InCall'
  BY <1>0, <1>1, <1>2, EntersCall DEF Invariant
<1> QED
  BY <1>4, <1>5 DEF Invariant

LEMMA ReturnParsed ==
  ASSUME Invariant, NEW t \in Threads, NEW type, NEW ok, NEW id,
         Parsed(t, type, ok, id), sock' \in [Socks -> SlotType],
         UNCHANGED <<mysock, MQTT_Socket, PacketID>>,
         fd' = fd \/ Leave(t)
  PROVE  Invariant'
<1>0. /\ pc \in [Threads -> Labels] /\ fd \in [Threads -> Descriptors]
      /\ NoSock \in Descriptors
  BY DEF Invariant, Types, Descriptors
<1>1. fd' \in [Threads -> Descriptors] /\ \A u \in Threads \ {t} : fd'[u] = fd[u]
  BY <1>0, EnterStep DEF Leave
<1>2. /\ got' \in [Threads -> Kinds \cup {"none"}]
      /\ subId' \in [Threads -> 0 .. PidMod - 1]
      /\ want' \in [Threads -> {"CONNACK", "SUBACK", "PINGRESP", "any"}]
      /\ idle' \in [Threads -> BOOLEAN]
      /\ written' \in [Threads -> BOOLEAN]
      /\ pc' \in [Threads -> Labels]
      /\ pc'[t] \notin Waits
      /\ OthersStay(t)
  BY ParsedStep DEF Invariant
<1>3. Types'
  BY <1>1, <1>2 DEF Invariant, Types
<1>4. InCall'
  BY <1>0, <1>1, <1>2, LeavesCall DEF Invariant
<1> QED
  BY <1>3, <1>4 DEF Invariant

\* A call of recv: the task waits in it, or MQTTPacket_read returns at once.
Calls(t, label) ==
  \/ /\ Used(mysock) /\ Enter(t, mysock) /\ Goto(t, label)
     /\ UNCHANGED <<want, got, subId, idle, written>>
  \/ /\ ~Used(mysock) /\ UNCHANGED fd
     /\ \E type, ok, id : Parsed(t, type, ok, id)

LEMMA CallForm ==
  ASSUME NEW t \in Threads, Head1(t) \/ Length1(t) \/ Body1(t)
  PROVE  /\ UNCHANGED shared
         /\ \/ pc[t] = "head" /\ Calls(t, "head_wait")
            \/ pc[t] = "length" /\ Calls(t, "length_wait")
            \/ pc[t] = "body" /\ Calls(t, "body_wait")
<1>1. CASE Head1(t)
  BY <1>1 DEF Head1, Calls
<1>2. CASE Length1(t)
  BY <1>2 DEF Length1, Calls, NoLength, EmptyPacket
<1>3. CASE Body1(t)
  BY <1>3 DEF Body1, Calls
<1> QED
  BY <1>1, <1>2, <1>3

LEMMA ReadInvariant ==
  ASSUME Invariant, NEW t \in Threads,
         \/ Head1(t) \/ HeadWait(t) \/ Length1(t) \/ LengthWait(t) \/ Body1(t) \/ BodyWait(t)
  PROVE  Invariant'
<1> USE DEF Invariant
<1>0. /\ pc \in [Threads -> Labels] /\ fd \in [Threads -> Descriptors]
      /\ NoSock \in Descriptors
      /\ sock \in [Socks -> SlotType]
  BY DEF Types, Descriptors
<1>1. CASE Head1(t) \/ Length1(t) \/ Body1(t)
  <2>1. UNCHANGED shared /\ \E l \in Labels : Calls(t, l)
    BY <1>1, CallForm DEF Labels
  <2>2. PICK l \in Labels : Calls(t, l)
    BY <2>1
  <2>3. CASE Used(mysock)
    BY <2>1, <2>2, <2>3, EnterRecv DEF Calls
  <2>4. CASE ~Used(mysock)
    BY <1>0, <2>1, <2>2, <2>4, ReturnParsed DEF Calls, shared
  <2> QED
    BY <2>3, <2>4
<1>2. CASE HeadWait(t) \/ LengthWait(t) \/ BodyWait(t)
  <2>1. /\ fd[t] \in Socks
        /\ Leave(t) /\ UNCHANGED <<mysock, MQTT_Socket, PacketID>>
        /\ UNCHANGED sock \/ Takes(fd[t])
        /\ Returns(t)
    BY <1>2, WaitForm
  <2>2. sock' \in [Socks -> SlotType]
    BY <1>0, <2>1, TakesType
  <2>3. CASE \E type, ok, id : Parsed(t, type, ok, id)
    BY <2>1, <2>2, <2>3, ReturnParsed
  <2>4. CASE ~ \E type, ok, id : Parsed(t, type, ok, id)
    <3>1. /\ UNCHANGED <<want, subId, idle, written>>
          /\ Goto(t, "length") \/ Goto(t, "body")
          /\ got' = got \/ \E g \in Kinds : got' = [got EXCEPT ![t] = g]
      BY <2>1, <2>4 DEF Returns
    <3>2. got' \in [Threads -> Kinds \cup {"none"}]
      BY <3>1 DEF Types
    <3>3. pc' \in [Threads -> Labels] /\ pc'[t] \notin Waits /\ OthersStay(t)
      BY <1>0, <3>1, GotoStep DEF Labels, Waits
    <3>4. fd' \in [Threads -> Descriptors] /\ \A u \in Threads \ {t} : fd'[u] = fd[u]
      BY <1>0, <2>1, EnterStep DEF Leave
    <3>5. Types'
      BY <2>1, <2>2, <3>1, <3>2, <3>3, <3>4 DEF Types
    <3>6. InCall'
      BY <1>0, <3>3, <3>4, LeavesCall
    <3> QED
      BY <3>5, <3>6
  <2> QED
    BY <2>3, <2>4
<1> QED
  BY <1>1, <1>2

LEMMA WaitCloseInvariant ==
  ASSUME Invariant, NEW t \in Threads,
         \/ SelectReply(t) \/ LoopSelect(t) \/ LoopSelected(t)
         \/ Shutdown(t) \/ Drain(t) \/ DrainWait(t) \/ CloseSock(t)
  PROVE  Invariant'
<1> USE DEF Invariant
<1>0. /\ pc \in [Threads -> Labels] /\ fd \in [Threads -> Descriptors]
      /\ NoSock \in Descriptors /\ MQTT_Socket \in Descriptors
      /\ sock \in [Socks -> SlotType]
  BY DEF Types, Descriptors
<1>1. ASSUME NEW l \in Labels \ Waits, Goto(t, l), Leave(t),
             UNCHANGED <<shared, want, got, subId, idle, written>>
      PROVE  Invariant'
  <2>1. pc' \in [Threads -> Labels] /\ pc'[t] = l /\ OthersStay(t)
    BY <1>0, <1>1, GotoStep
  <2>2. fd' \in [Threads -> Descriptors] /\ \A u \in Threads \ {t} : fd'[u] = fd[u]
    BY <1>0, <1>1, EnterStep DEF Leave
  <2>3. Types'
    BY <1>1, <2>1, <2>2 DEF Types, shared
  <2>4. InCall'
    BY <1>0, <2>1, <2>2, LeavesCall
  <2> QED
    BY <2>3, <2>4
<1>2. CASE SelectReply(t)
  <2>1. Goto(t, "head") \/ Goto(t, "shutdown")
    BY <1>2 DEF SelectReply
  <2> QED
    BY <1>1, <1>2, <2>1 DEF SelectReply, Labels, Waits
<1>3. CASE LoopSelect(t)
  <2>1. pc' \in [Threads -> Labels] /\ pc'[t] = "select" /\ OthersStay(t)
    BY <1>0, <1>3, GotoStep DEF LoopSelect, Labels
  <2>2. fd' \in [Threads -> Descriptors] /\ \A u \in Threads \ {t} : fd'[u] = fd[u]
    BY <1>0, <1>3, EnterStep DEF LoopSelect
  <2>3. Types'
    BY <1>3, <2>1, <2>2 DEF LoopSelect, Types, shared
  <2>4. InCall'
    BY <1>0, <2>1, <2>2, LeavesCall DEF Waits
  <2> QED
    BY <2>3, <2>4
<1>4. CASE LoopSelected(t)
  <2>1. Goto(t, "head") \/ Goto(t, "keepalive")
    BY <1>4 DEF LoopSelected
  <2> QED
    BY <1>1, <1>4, <2>1 DEF LoopSelected, Labels, Waits
<1>5. CASE Shutdown(t)
  <2>1. pc' \in [Threads -> Labels] /\ pc'[t] = "drain" /\ OthersStay(t)
    BY <1>0, <1>5, GotoStep DEF Shutdown, Labels
  <2>2. sock' \in [Socks -> SlotType]
    <3>1. CASE CanWrite
      <4>1. mysock \in Socks
        BY <3>1 DEF CanWrite, Used
      <4>2. [sock[mysock] EXCEPT !.st = "shut"] \in SlotType
        BY <1>0, <4>1, StateType
      <4> QED
        BY <1>0, <1>5, <4>1, <4>2 DEF Shutdown
    <3> QED
      BY <1>0, <1>5, <3>1 DEF Shutdown
  <2>3. Types'
    BY <1>5, <2>1, <2>2 DEF Shutdown, Types, locals
  <2>4. InCall'
    BY <1>0, <1>5, <2>1, LeavesCall DEF Shutdown, Waits, locals
  <2> QED
    BY <2>3, <2>4
<1>6. CASE Drain(t)
  <2>1. CASE Used(mysock)
    BY <1>6, <2>1, EnterRecv DEF Drain, Labels
  <2>2. CASE ~Used(mysock)
    <3>1. pc' \in [Threads -> Labels] /\ pc'[t] = "close" /\ OthersStay(t)
      BY <1>0, <1>6, <2>2, GotoStep DEF Drain, Labels
    <3>2. fd' = fd
      BY <1>6, <2>2 DEF Drain
    <3>3. Types'
      BY <1>6, <3>1, <3>2 DEF Drain, Types, shared
    <3>4. InCall'
      BY <1>0, <3>1, <3>2, LeavesCall DEF Waits
    <3> QED
      BY <3>3, <3>4
  <2> QED
    BY <2>1, <2>2
<1>7. CASE DrainWait(t)
  BY <1>1, <1>7 DEF DrainWait, Labels, Waits
<1>8. CASE CloseSock(t)
  <2>1. /\ sock' \in [Socks -> SlotType]
        /\ pc' \in [Threads -> Labels] /\ pc'[t] = "socket" /\ OthersStay(t)
    BY <1>8, CloseStep DEF CloseSock, Labels
  <2>2. Types'
    BY <1>8, <2>1 DEF CloseSock, Types, locals
  <2>3. InCall'
    BY <1>0, <1>8, <2>1, LeavesCall DEF CloseSock, Waits, locals
  <2> QED
    BY <2>2, <2>3
<1> QED
  BY <1>2, <1>3, <1>4, <1>5, <1>6, <1>7, <1>8

\* The first n units under way arrive.
LEMMA DeliverType ==
  ASSUME NEW k \in SlotType, NEW n \in Nat, n <= Len(k.owed)
  PROVE  [k EXCEPT !.rx = @ \o SubSeq(k.owed, 1, n),
                   !.owed = SubSeq(@, n + 1, Len(@))] \in SlotType
<1>1. k.owed \in Seq(Unit) /\ k.rx \in Seq(Unit) /\ Len(k.owed) \in Nat
  BY DEF SlotType
<1>2. SubSeq(k.owed, 1, n) \in Seq(Unit) /\ SubSeq(k.owed, n + 1, Len(k.owed)) \in Seq(Unit)
  BY <1>1
<1>3. k.rx \o SubSeq(k.owed, 1, n) \in Seq(Unit)
  BY <1>1, <1>2
<1> QED
  BY <1>2, <1>3 DEF SlotType

LEMMA SurroundingsInvariant ==
  ASSUME Invariant,
         \E s \in Socks : Deliver(s) \/ BrokerPublish(s) \/ PeerClose(s)
  PROVE  Invariant'
<1> USE DEF Invariant
<1>0. sock \in [Socks -> SlotType]
  BY DEF Types
<1>2. ASSUME sock' \in [Socks -> SlotType],
             UNCHANGED <<mysock, MQTT_Socket, PacketID, pc, locals>>
      PROVE  Invariant'
  <2>1. Types'
    BY <1>2 DEF Types, locals
  <2>2. InCall'
    BY <1>2, TasksStay DEF locals
  <2> QED
    BY <2>1, <2>2
<1>3. ASSUME NEW s \in Socks, Deliver(s) PROVE Invariant'
  <2> DEFINE k == sock[s]
  <2>1. PICK n \in Nat :
          /\ n <= Len(k.owed)
          /\ sock' = [sock EXCEPT ![s] = [k EXCEPT !.rx = @ \o SubSeq(k.owed, 1, n),
                                                   !.owed = SubSeq(@, n + 1, Len(@))]]
    <3> DEFINE n == IF Segmented THEN 1 ELSE LastPart(Head(k.owed).kind) + 1
    <3>1. n \in Nat
      BY DEF LastPart
    <3>2. /\ n <= Len(k.owed)
          /\ sock' = [sock EXCEPT ![s] = [k EXCEPT !.rx = @ \o SubSeq(k.owed, 1, n),
                                                   !.owed = SubSeq(@, n + 1, Len(@))]]
      BY <1>0, <1>3 DEF Deliver
    <3> QED
      BY <3>1, <3>2
  <2>2. k \in SlotType
    BY <1>0
  <2>3. sock' \in [Socks -> SlotType]
    BY <1>0, <2>1, <2>2, DeliverType
  <2> QED
    BY <1>2, <1>3, <2>3 DEF Deliver
<1>4. ASSUME NEW s \in Socks, BrokerPublish(s) PROVE Invariant'
  <2>1. Reply("PUBLISH", TRUE, 0) \in Unit
    BY ReplyType, ZeroId DEF Kinds
  <2>2. Owe(sock[s], Reply("PUBLISH", TRUE, 0)) \in SlotType
    BY <1>0, <2>1, OweType
  <2>3. sock' \in [Socks -> SlotType]
    BY <1>0, <1>4, <2>2 DEF BrokerPublish
  <2> QED
    BY <1>2, <1>4, <2>3 DEF BrokerPublish
<1>5. ASSUME NEW s \in Socks, PeerClose(s) PROVE Invariant'
  <2>1. [sock[s] EXCEPT !.fin = TRUE, !.owed = <<>>] \in SlotType
    <3>1. <<>> \in Seq(Unit) /\ sock[s] \in SlotType
      BY <1>0
    <3> QED
      BY <3>1 DEF SlotType
  <2>2. sock' \in [Socks -> SlotType]
    BY <1>0, <1>5, <2>1 DEF PeerClose
  <2> QED
    BY <1>2, <1>5, <2>2 DEF PeerClose
<1> QED
  BY <1>3, <1>4, <1>5

LEMMA StepInvariant == Invariant /\ [Next]_vars => Invariant'
<1> SUFFICES ASSUME Invariant, [Next]_vars PROVE Invariant'
  OBVIOUS
<1>1. ASSUME NEW t \in Threads, Step(t) PROVE Invariant'
  BY <1>1, OpeningInvariant, RequestInvariant, ReadInvariant, WaitCloseInvariant DEF Step
<1>2. CASE UNCHANGED vars
  <2>1. Types'
    BY <1>2 DEF Invariant, Types, vars, shared, locals
  <2>2. InCall'
    BY <1>2, TasksStay DEF Invariant, vars, locals
  <2> QED
    BY <2>1, <2>2 DEF Invariant
<1> QED
  BY <1>1, <1>2, SurroundingsInvariant DEF Next

\* What the other invariants rest on; TypeCorrect below adds the header byte.
LEMMA InvariantAlways == Spec => [](Types /\ InCall)
BY InitInvariant, StepInvariant, PTL DEF Spec, Invariant

-----------------------------------------------------------------------------
(* mqtt_send after its first success. *)

\* A task touches only its own no_mqtt_msg_exchange, and moves another task
\* only from a call to "hung".
Apart(t) == OthersStay(t) /\ \A u \in Threads \ {t} : idle'[u] = idle[u]

\* After its step, mqtt_send has exchanged nothing yet or is back at its queue
\* or its keep-alive test.
Quiet == idle'["mqtt_send"] \/ pc'["mqtt_send"] \in {"queue", "keepalive"}

\* The next label, and the value of no_mqtt_msg_exchange, of a step that goes to
\* one label and leaves the variable alone.
LEMMA MovesOn ==
  ASSUME Types, NEW t \in Threads, NEW l, Goto(t, l), UNCHANGED idle
  PROVE  Apart(t) /\ pc'[t] = l /\ idle'[t] = idle[t]
BY DEF Types, Goto, Apart, OthersStay

LEMMA ParsedApart ==
  ASSUME Types, NEW t \in Threads, NEW type, NEW ok, NEW id,
         Parsed(t, type, ok, id)
  PROVE  /\ Apart(t)
         /\ t = "mqtt_send" /\ idle["mqtt_send"] => Quiet
<1>1. /\ OthersStay(t)
      /\ \/ idle' = idle
         \/ idle' = [idle EXCEPT ![t] = FALSE] /\ pc'[t] \in {"keepalive", Top(t)}
  BY ParsedStep
<1>2. idle \in [Threads -> BOOLEAN]
  BY DEF Types
<1> QED
  BY <1>1, <1>2 DEF Apart, Quiet, Top

LEMMA StepApart ==
  ASSUME Types, InCall, SenderSilent, NEW t \in Threads, Step(t)
  PROVE  /\ Apart(t)
         /\ t = "mqtt_send" => Quiet
<1> DEFINE m == "mqtt_send"
<1>0. t = m /\ pc[t] \notin {"queue", "keepalive"} => idle[m]
  BY DEF SenderSilent, Types
<1>1. CASE Socket(t) \/ Connect(t) \/ Connected(t) \/ Opened(t) \/ Store(t)
  <2>1. UNCHANGED idle /\ pc[t] \notin {"queue", "keepalive"}
    BY <1>1 DEF Socket, Connect, Connected, Opened, Store, locals
  <2>2. \E l : Goto(t, l)
    BY <1>1 DEF Socket, Connect, Connected, Opened, Store
  <2> QED
    BY <1>0, <2>1, <2>2, MovesOn DEF Quiet
<1>2. CASE OpenFailed(t) \/ CloseSock(t)
  <2>1. UNCHANGED idle /\ pc[t] \notin {"queue", "keepalive"}
    BY <1>2 DEF OpenFailed, CloseSock, locals
  <2>2. Close(t, mysock, "store") \/ Close(t, mysock, "socket")
    BY <1>2 DEF OpenFailed, CloseSock
  <2>3. OthersStay(t)
    BY <2>2, CloseStep DEF Labels
  <2> QED
    BY <1>0, <2>1, <2>3 DEF Quiet, Apart
<1>3. CASE Login(t) \/ SubscribeId(t) \/ SubscribeSend(t) \/ Ping(t) \/ SelectReply(t)
  <2>1. UNCHANGED idle /\ pc[t] \notin {"queue", "keepalive"}
    BY <1>3 DEF Login, SubscribeId, SubscribeSend, Ping, SelectReply
  <2>2. \E l : Goto(t, l)
    BY <1>3 DEF Login, SubscribeId, SubscribeSend, Ping, SelectReply
  <2> QED
    BY <1>0, <2>1, <2>2, MovesOn DEF Quiet
<1>4. CASE KeepAlive(t)
  <2>1. UNCHANGED idle /\ (Goto(t, Top(t)) \/ (idle[t] /\ Goto(t, "ping")))
    BY <1>4 DEF KeepAlive
  <2> QED
    BY <2>1, MovesOn DEF Quiet, Top
<1>5. CASE \/ Head1(t) \/ HeadWait(t) \/ Length1(t) \/ LengthWait(t) \/ Body1(t) \/ BodyWait(t)
  <2>1. pc[t] \notin {"queue", "keepalive"}
    BY <1>5 DEF Head1, HeadWait, Length1, LengthWait, Body1, BodyWait
  <2>2. \/ \E type, ok, id : Parsed(t, type, ok, id)
        \/ UNCHANGED idle /\ \E l : Goto(t, l)
    BY <1>5, CallForm, WaitForm DEF Calls, Returns
  <2> QED
    BY <1>0, <2>1, <2>2, MovesOn, ParsedApart DEF Quiet
<1>6. CASE LoopSelect(t)
  BY <1>6 DEF LoopSelect, Goto, Apart, OthersStay, Quiet, Types
<1>7. CASE LoopSelected(t) \/ Shutdown(t) \/ Drain(t) \/ DrainWait(t)
  <2>1. UNCHANGED idle /\ pc[t] \notin {"queue", "keepalive"}
    BY <1>7 DEF LoopSelected, Shutdown, Drain, DrainWait, locals
  <2>2. \E l : Goto(t, l)
    BY <1>7 DEF LoopSelected, Shutdown, Drain, DrainWait
  <2> QED
    BY <1>0, <2>1, <2>2, MovesOn DEF Quiet
<1>8. CASE Puback(t) \/ QueueTimeout(t) \/ Publish(t)
  <2>1. /\ Goto(t, "keepalive")
        /\ idle' = idle \/ idle' = [idle EXCEPT ![t] = FALSE]
    BY <1>8 DEF Puback, Handled, QueueTimeout, Publish, locals
  <2> QED
    BY <2>1 DEF Goto, Apart, OthersStay, Quiet, Types
<1> QED
  BY <1>1, <1>2, <1>3, <1>4, <1>5, <1>6, <1>7, <1>8 DEF Step

LEMMA SilentStep == Types /\ InCall /\ SenderSilent /\ [Next]_vars => SenderSilent'
<1> SUFFICES ASSUME Types, InCall, SenderSilent, [Next]_vars, "mqtt_send" \in Threads
             PROVE  ~idle'["mqtt_send"] => pc'["mqtt_send"] \in {"queue", "keepalive"}
  BY DEF SenderSilent
<1> DEFINE m == "mqtt_send"
<1>1. ASSUME NEW t \in Threads, Step(t)
      PROVE  ~idle'[m] => pc'[m] \in {"queue", "keepalive"}
  <2>1. CASE t = m
    BY <1>1, <2>1, StepApart DEF Quiet
  <2>2. CASE t # m
    <3>1. idle'[m] = idle[m] /\ (pc'[m] = pc[m] \/ pc[m] \in Waits)
      BY <1>1, <2>2, StepApart DEF Apart, OthersStay
    <3>2. ~idle[m] => pc[m] \in {"queue", "keepalive"}
      BY DEF SenderSilent
    <3> QED
      BY <3>1, <3>2 DEF Waits
  <2> QED
    BY <2>1, <2>2
<1>2. CASE UNCHANGED <<pc, idle>>
  BY <1>2 DEF SenderSilent
<1>4. ASSUME NEW s \in Socks, Deliver(s) \/ BrokerPublish(s) \/ PeerClose(s)
      PROVE  UNCHANGED <<pc, idle>>
  BY <1>4 DEF Deliver, BrokerPublish, PeerClose, locals
<1>5. CASE UNCHANGED vars
  BY <1>2, <1>5 DEF vars, locals
<1> QED
  BY <1>1, <1>2, <1>4, <1>5 DEF Next

\* Once mqtt_send has published or received anything it never sends a PINGREQ,
\* closes the connection or reconnects again, whatever the other task, the
\* broker and the clock do: for any number of sockets and any width of the
\* packet identifiers.
THEOREM SenderGoesSilent == Spec => []SenderSilent
<1>1. Init => SenderSilent
  BY DEF Init, SenderSilent
<1> QED
  BY <1>1, InvariantAlways, SilentStep, PTL DEF Spec

-----------------------------------------------------------------------------
(* A task asks for a length or a body only with a header byte in hand. *)

\* Wherever MQTTPacket_read returns to, only the task that called it moves.
LEMMA ParsedGoto ==
  ASSUME NEW t \in Threads, NEW type, NEW ok, NEW id, Parsed(t, type, ok, id),
         want[t] \in {"CONNACK", "SUBACK", "PINGRESP", "any"}
  PROVE  \E l \in {"subscribe", "shutdown", "keepalive", "puback", Top(t)} : Goto(t, l)
<1>1. CASE want[t] = "CONNACK"
  BY <1>1 DEF Parsed
<1>2. CASE want[t] = "SUBACK"
  BY <1>2 DEF Parsed, Ready
<1>3. CASE want[t] = "PINGRESP"
  BY <1>3 DEF Parsed
<1>4. CASE want[t] = "any"
  BY <1>4 DEF Parsed, Handled
<1> QED
  BY <1>1, <1>2, <1>3, <1>4

LEMMA GotStep ==
  ASSUME Types, InCall, SenderSilent, GotKnown, NEW t \in Threads, Step(t)
  PROVE  GotKnown'
<1>0. /\ OthersStay(t) /\ pc \in [Threads -> Labels] /\ got \in [Threads -> Kinds \cup {"none"}]
      /\ want[t] \in {"CONNACK", "SUBACK", "PINGRESP", "any"}
  BY StepApart DEF Apart, Types
<1>1. SUFFICES /\ \A u \in Threads \ {t} : got'[u] = got[u]
               /\ pc'[t] \in PastHeader => got'[t] # "none"
  BY <1>0 DEF GotKnown, OthersStay, PastHeader
<1>2. ASSUME UNCHANGED got, NEW l, l \notin PastHeader \/ pc[t] \in PastHeader, Goto(t, l)
      PROVE  /\ \A u \in Threads \ {t} : got'[u] = got[u]
             /\ pc'[t] \in PastHeader => got'[t] # "none"
  BY <1>0, <1>2 DEF Goto, GotKnown
<1>3. ASSUME \E type, ok, id : Parsed(t, type, ok, id)
      PROVE  /\ \A u \in Threads \ {t} : got'[u] = got[u]
             /\ pc'[t] \in PastHeader => got'[t] # "none"
  <2>1. \E l \in {"subscribe", "shutdown", "keepalive", "puback", Top(t)} : Goto(t, l)
    BY <1>0, <1>3, ParsedGoto
  <2>2. pc'[t] \notin PastHeader
    BY <1>0, <2>1 DEF Goto, Top, PastHeader
  <2>3. \A u \in Threads \ {t} : got'[u] = got[u]
    BY <1>0, <1>3 DEF Parsed
  <2> QED
    BY <2>2, <2>3
<1>4. CASE Head1(t) \/ Length1(t) \/ Body1(t)
  <2>1. CASE \E type, ok, id : Parsed(t, type, ok, id)
    BY <1>3, <2>1
  <2>2. CASE ~ \E type, ok, id : Parsed(t, type, ok, id)
    <3>1. /\ UNCHANGED got
          /\ \E l : Goto(t, l) /\ (l \notin PastHeader \/ pc[t] \in PastHeader)
      BY <1>4, <2>2, CallForm DEF Calls, PastHeader
    <3> QED
      BY <1>2, <3>1
  <2> QED
    BY <2>1, <2>2
<1>5. CASE HeadWait(t) \/ LengthWait(t) \/ BodyWait(t)
  <2>1. Returns(t)
    BY <1>5, WaitForm
  <2>2. CASE \E type, ok, id : Parsed(t, type, ok, id)
    BY <1>3, <2>2
  <2>3. CASE Goto(t, "length") /\ \E g \in Kinds : got' = [got EXCEPT ![t] = g]
    BY <1>0, <2>3 DEF Kinds
  <2>4. CASE pc[t] = "length_wait" /\ Goto(t, "body") /\ UNCHANGED got
    BY <1>2, <2>4 DEF PastHeader
  <2> QED
    BY <2>1, <2>2, <2>3, <2>4 DEF Returns
<1>6. CASE OpenFailed(t) \/ CloseSock(t)
  <2>1. UNCHANGED got /\ (Close(t, mysock, "store") \/ Close(t, mysock, "socket"))
    BY <1>6 DEF OpenFailed, CloseSock, locals
  <2>2. pc'[t] \in {"store", "socket"}
    BY <2>1, CloseStep DEF Labels
  <2> QED
    BY <2>1, <2>2 DEF PastHeader
<1>7. CASE \/ Socket(t) \/ Connect(t) \/ Connected(t) \/ Opened(t) \/ Store(t)
           \/ Login(t) \/ SubscribeId(t) \/ SubscribeSend(t) \/ KeepAlive(t) \/ Ping(t) \/ SelectReply(t)
  <2>1. UNCHANGED got /\ \E l : Goto(t, l) /\ l \notin PastHeader
    BY <1>7 DEF Socket, Connect, Connected, Opened, Store, Login, SubscribeId, SubscribeSend,
                KeepAlive, Ping, SelectReply, locals, PastHeader, Top
  <2> QED
    BY <1>2, <2>1
<1>8. CASE \/ LoopSelect(t) \/ LoopSelected(t) \/ Puback(t) \/ QueueTimeout(t) \/ Publish(t)
           \/ Shutdown(t) \/ Drain(t) \/ DrainWait(t)
  <2>1. UNCHANGED got /\ \E l : Goto(t, l) /\ l \notin PastHeader
    BY <1>8 DEF LoopSelect, LoopSelected, Puback, Handled, QueueTimeout, Publish, Shutdown, Drain,
                DrainWait, locals, PastHeader
  <2> QED
    BY <1>2, <2>1
<1> QED
  BY <1>4, <1>5, <1>6, <1>7, <1>8 DEF Step

LEMMA GotNext == Types /\ InCall /\ SenderSilent /\ GotKnown /\ [Next]_vars => GotKnown'
<1> SUFFICES ASSUME Types, InCall, SenderSilent, GotKnown, [Next]_vars PROVE GotKnown'
  OBVIOUS
<1>1. ASSUME NEW t \in Threads, Step(t) PROVE GotKnown'
  BY <1>1, GotStep
<1>2. CASE UNCHANGED <<pc, got>>
  BY <1>2 DEF GotKnown
<1>3. ASSUME NEW s \in Socks, Deliver(s) \/ BrokerPublish(s) \/ PeerClose(s)
      PROVE  UNCHANGED <<pc, got>>
  BY <1>3 DEF Deliver, BrokerPublish, PeerClose, locals
<1>4. CASE UNCHANGED vars
  BY <1>2, <1>4 DEF vars, locals
<1> QED
  BY <1>1, <1>2, <1>3, <1>4 DEF Next

\* The types of the client's, lwIP's and the broker's state, whichever tasks
\* run; a task inside connect or recv is there with a descriptor of the socket
\* table, and one that asks for a length or a body has read a header byte,
\* however mysock has been overwritten, closed or cut off meanwhile.
THEOREM TypeCorrect == Spec => []TypeOK
<1>1. Init => GotKnown
  BY DEF Init, GotKnown, PastHeader
<1>2. Types /\ InCall /\ GotKnown => TypeOK
  BY DEF InCall, GotKnown, TypeOK
<1> QED
  BY <1>1, <1>2, InvariantAlways, SenderGoesSilent, GotNext, PTL DEF Spec

-----------------------------------------------------------------------------
(* A socket that is connecting has exactly one task waiting for it. *)

\* The inductive form of ConnectingOwned: the tasks inside connect and the
\* sockets that are connecting correspond one to one.
Owned ==
  /\ \A t \in Threads : pc[t] = "connecting" => sock[fd[t]].st = "connecting"
  /\ \A s \in Socks : sock[s].st = "connecting" =>
       \E t \in Threads : pc[t] = "connecting" /\ fd[t] = s
  /\ \A t, u \in Threads :
       pc[t] = "connecting" /\ pc[u] = "connecting" /\ fd[t] = fd[u] => t = u

\* A step that neither begins nor ends a connect.
ConnectsStay ==
  /\ \A s \in Socks : sock'[s].st = "connecting" <=> sock[s].st = "connecting"
  /\ \A u \in Threads : /\ pc'[u] = "connecting" <=> pc[u] = "connecting"
                        /\ pc[u] = "connecting" => fd'[u] = fd[u]

LEMMA OwnedStays ==
  ASSUME InCall, Owned, ConnectsStay
  PROVE  Owned'
<1>1. \A t \in Threads : pc[t] = "connecting" => fd[t] \in Socks
  BY DEF InCall, Waits
<1> QED
  BY <1>1 DEF Owned, ConnectsStay

\* Moving the state of no socket to or from "connecting", and task t from a
\* label outside connect to another.
LEMMA OwnMove ==
  ASSUME Types, NEW t \in Threads, NEW l, Goto(t, l),
         pc[t] # "connecting", l # "connecting",
         fd' = fd \/ \E d : Enter(t, d),
         \A s \in Socks : sock'[s].st = "connecting" <=> sock[s].st = "connecting"
  PROVE  ConnectsStay
BY DEF Types, Goto, Enter, ConnectsStay

\* A request changes what the broker thinks of the connection and what it owes.
LEMMA ReceivesKeeps ==
  ASSUME NEW k \in SlotType, NEW request, NEW ok, NEW id
  PROVE  LET r == Receives(k, request, ok, id) IN
           r.st = k.st /\ r.rx = k.rx /\ r.fin = k.fin /\ r.phase = k.phase
BY DEF SlotType, Receives, Owe

LEMMA WriteKeeps ==
  ASSUME Types, NEW request, NEW id, Write(request, id), NEW s \in Socks
  PROVE  /\ sock'[s].st = sock[s].st
         /\ sock'[s].rx = sock[s].rx
         /\ sock'[s].fin = sock[s].fin
         /\ sock'[s].phase = sock[s].phase
<1>1. CASE UNCHANGED sock
  BY <1>1
<1>2. ASSUME CanWrite,
             NEW ok \in Refusals, sock' = [sock EXCEPT ![mysock] = Receives(@, request, ok, id)]
      PROVE  /\ sock'[s].st = sock[s].st
             /\ sock'[s].rx = sock[s].rx
             /\ sock'[s].fin = sock[s].fin
             /\ sock'[s].phase = sock[s].phase
  <2>1. sock \in [Socks -> SlotType] /\ mysock \in Socks
    BY <1>2 DEF Types, CanWrite, Used
  <2>2. sock'[s] = IF s = mysock THEN Receives(sock[mysock], request, ok, id) ELSE sock[s]
    BY <1>2, <2>1
  <2> QED
    BY <2>1, <2>2, ReceivesKeeps
<1> QED
  BY <1>1, <1>2 DEF Write

\* lwip_close frees a socket that is not connecting, and hangs only tasks in recv.
LEMMA OwnClose ==
  ASSUME Types, NEW t \in Threads, NEW s, NEW label, Close(t, s, label),
         pc[t] # "connecting", label # "connecting",
         fd' = fd \/ \E d : Enter(t, d)
  PROVE  ConnectsStay
<1>0. /\ pc \in [Threads -> Labels] /\ fd \in [Threads -> Descriptors]
      /\ sock \in [Socks -> SlotType]
  BY DEF Types
<1>1. CASE Closable(s)
  <2>1. \A r \in Socks : sock'[r].st = "connecting" <=> sock[r].st = "connecting"
    BY <1>0, <1>1 DEF Close, Closable, Used, Free
  <2>2. \A u \in Threads : pc'[u] = "connecting" <=> pc[u] = "connecting"
    BY <1>0, <1>1 DEF Close, Receiving
  <2>3. \A u \in Threads : pc[u] = "connecting" => fd'[u] = fd[u]
    BY <1>0 DEF Enter
  <2> QED
    BY <2>1, <2>2, <2>3 DEF ConnectsStay
<1>2. CASE ~Closable(s)
  BY <1>2, OwnMove DEF Close
<1> QED
  BY <1>1, <1>2

LEMMA ConnectOwned ==
  ASSUME Invariant, Owned, NEW t \in Threads, Connect(t)
  PROVE  Owned'
<1>0. /\ pc \in [Threads -> Labels] /\ fd \in [Threads -> Descriptors]
      /\ sock \in [Socks -> SlotType] /\ pc[t] = "connect"
      /\ \A u \in Threads : pc[u] = "connecting" => fd[u] \in Socks
  BY DEF Invariant, Types, InCall, Waits, Connect
<1>1. CASE Used(mysock) /\ sock[mysock].st = "new"
  <2>1. mysock \in Socks
    BY <1>1 DEF Used
  <2>2. /\ \A u \in Threads : pc'[u] = IF u = t THEN "connecting" ELSE pc[u]
        /\ \A u \in Threads : fd'[u] = IF u = t THEN mysock ELSE fd[u]
        /\ \A s \in Socks : sock'[s].st = IF s = mysock THEN "connecting" ELSE sock[s].st
    BY <1>0, <1>1, <2>1 DEF Connect, Goto, Enter, SlotType
  <2>3. \A u \in Threads : pc[u] = "connecting" => fd[u] # mysock
    BY <1>1 DEF Owned
  <2> QED
    BY <1>0, <2>1, <2>2, <2>3 DEF Owned
<1>2. CASE ~(Used(mysock) /\ sock[mysock].st = "new")
  BY <1>2, OwnMove, OwnedStays DEF Connect, Invariant
<1> QED
  BY <1>1, <1>2

LEMMA ConnectedOwned ==
  ASSUME Invariant, Owned, NEW t \in Threads, Connected(t)
  PROVE  Owned'
<1>0. /\ pc \in [Threads -> Labels] /\ fd \in [Threads -> Descriptors]
      /\ sock \in [Socks -> SlotType] /\ pc[t] = "connecting" /\ fd[t] \in Socks
      /\ \A u \in Threads : pc[u] = "connecting" => fd[u] \in Socks
  BY DEF Invariant, Types, InCall, Waits, Connected
<1>1. /\ \A u \in Threads : IF u = t THEN pc'[u] # "connecting" ELSE pc'[u] = pc[u]
      /\ \A u \in Threads : u # t => fd'[u] = fd[u]
      /\ \A s \in Socks : IF s = fd[t] THEN sock'[s].st # "connecting" ELSE sock'[s].st = sock[s].st
  BY <1>0 DEF Connected, Goto, Leave, Enter, SlotType
<1> QED
  BY <1>0, <1>1 DEF Owned

LEMMA OthersOwned ==
  ASSUME Invariant, NEW t \in Threads, Step(t), ~Connect(t), ~Connected(t)
  PROVE  ConnectsStay
<1> USE DEF Invariant
<1>0. /\ pc \in [Threads -> Labels] /\ fd \in [Threads -> Descriptors]
      /\ sock \in [Socks -> SlotType]
      /\ want[t] \in {"CONNACK", "SUBACK", "PINGRESP", "any"}
  BY DEF Types
<1>1. CASE Socket(t)
  <2>1. \A s \in Socks : sock'[s].st = "connecting" <=> sock[s].st = "connecting"
    BY <1>0, <1>1 DEF Socket, Free
  <2> QED
    BY <1>1, <2>1, OwnMove DEF Socket, locals
<1>2. CASE OpenFailed(t) \/ CloseSock(t)
  BY <1>2, OwnClose DEF OpenFailed, CloseSock, Leave, locals
<1>3. CASE Opened(t) \/ Store(t) \/ SubscribeId(t)
  <2>1. UNCHANGED sock /\ \E l, d : Goto(t, l) /\ l # "connecting" /\ Enter(t, d)
    BY <1>3 DEF Opened, Store, SubscribeId, Leave, shared
  <2>2. pc[t] # "connecting"
    BY <1>3 DEF Opened, Store, SubscribeId
  <2> QED
    BY <2>1, <2>2, OwnMove
<1>4. CASE Login(t) \/ SubscribeSend(t) \/ Ping(t) \/ Puback(t) \/ Publish(t)
  <2>1. \E request, id : Write(request, id)
    BY <1>4 DEF Login, SubscribeSend, Ping, Puback, Publish
  <2>2. \A s \in Socks : sock'[s].st = sock[s].st
    BY <2>1, WriteKeeps
  <2>3. \E l : Goto(t, l) /\ l # "connecting"
    BY <1>4 DEF Login, SubscribeSend, Ping, Puback, Publish, Handled
  <2>4. pc[t] # "connecting" /\ (fd' = fd \/ \E d : Enter(t, d))
    BY <1>4 DEF Login, SubscribeSend, Ping, Puback, Publish
  <2> QED
    BY <2>2, <2>3, <2>4, OwnMove
<1>5. CASE KeepAlive(t) \/ SelectReply(t) \/ LoopSelect(t) \/ LoopSelected(t) \/ QueueTimeout(t)
           \/ Drain(t) \/ DrainWait(t)
  <2>1. \E l : Goto(t, l) /\ l # "connecting"
    BY <1>5 DEF KeepAlive, SelectReply, LoopSelect, LoopSelected, QueueTimeout, Drain, DrainWait, Top
  <2>2. pc[t] # "connecting" /\ UNCHANGED sock /\ (fd' = fd \/ \E d : Enter(t, d))
    BY <1>5 DEF KeepAlive, SelectReply, LoopSelect, LoopSelected, QueueTimeout, Drain, DrainWait,
                Leave, shared, locals
  <2> QED
    BY <2>1, <2>2, OwnMove
<1>6. CASE \/ Head1(t) \/ HeadWait(t) \/ Length1(t) \/ LengthWait(t) \/ Body1(t) \/ BodyWait(t)
  <2>1. \E l : Goto(t, l) /\ l # "connecting"
    <3>1. \/ \E type, ok, id : Parsed(t, type, ok, id)
          \/ \E l \in {"head_wait", "length_wait", "body_wait", "length", "body"} : Goto(t, l)
      BY <1>6, CallForm, WaitForm DEF Calls, Returns
    <3> QED
      BY <1>0, <3>1, ParsedGoto DEF Top
  <2>2. \A s \in Socks : sock'[s].st = sock[s].st
    <3>1. CASE UNCHANGED sock
      BY <3>1
    <3>2. CASE ~UNCHANGED sock
      <4>1. fd[t] \in Socks /\ Takes(fd[t])
        BY <1>6, <3>2, CallForm, WaitForm DEF shared
      <4> QED
        BY <1>0, <4>1 DEF Takes, SlotType
    <3> QED
      BY <3>1, <3>2
  <2>3. pc[t] # "connecting" /\ (fd' = fd \/ \E d : Enter(t, d))
    BY <1>6 DEF Head1, HeadWait, Length1, LengthWait, Body1, BodyWait, Leave
  <2> QED
    BY <2>1, <2>2, <2>3, OwnMove
<1>7. CASE Shutdown(t)
  <2>1. \A s \in Socks : sock'[s].st = "connecting" <=> sock[s].st = "connecting"
    BY <1>0, <1>7 DEF Shutdown, CanWrite, SlotType
  <2> QED
    BY <1>7, <2>1, OwnMove DEF Shutdown, locals
<1> QED
  BY <1>1, <1>2, <1>3, <1>4, <1>5, <1>6, <1>7 DEF Step

LEMMA OwnedStep == Invariant /\ Owned /\ [Next]_vars => Owned'
<1> SUFFICES ASSUME Invariant, Owned, [Next]_vars PROVE Owned'
  OBVIOUS
<1>0. sock \in [Socks -> SlotType]
  BY DEF Invariant, Types
<1>1. ASSUME NEW t \in Threads, Step(t) PROVE Owned'
  BY <1>1, ConnectOwned, ConnectedOwned, OthersOwned, OwnedStays DEF Invariant
<1>2. ASSUME pc' = pc, fd' = fd, \A s \in Socks : sock'[s].st = sock[s].st PROVE Owned'
  BY <1>2, OwnedStays DEF ConnectsStay, Invariant
<1>4. ASSUME NEW s \in Socks, Deliver(s) \/ BrokerPublish(s) \/ PeerClose(s) PROVE Owned'
  <2>1. \A r \in Socks : sock'[r].st = sock[r].st
    <3>1. ASSUME NEW rx, NEW owed, sock' = [sock EXCEPT ![s].rx = rx, ![s].owed = owed]
          PROVE  \A r \in Socks : sock'[r].st = sock[r].st
      BY <1>0, <3>1 DEF SlotType
    <3>2. ASSUME NEW owed, sock' = [sock EXCEPT ![s] = [@ EXCEPT !.owed = owed]]
          PROVE  \A r \in Socks : sock'[r].st = sock[r].st
      BY <1>0, <3>2 DEF SlotType
    <3>3. ASSUME PeerClose(s) PROVE \A r \in Socks : sock'[r].st = sock[r].st
      BY <1>0, <3>3 DEF PeerClose, SlotType
    <3> QED
      BY <1>4, <3>1, <3>2, <3>3 DEF Deliver, BrokerPublish, Owe
  <2> QED
    BY <1>2, <1>4, <2>1 DEF Deliver, BrokerPublish, PeerClose, locals
<1>5. CASE UNCHANGED vars
  BY <1>2, <1>5 DEF vars, shared, locals
<1> QED
  BY <1>1, <1>4, <1>5 DEF Next

LEMMA OwnedCounts == Owned => ConnectingOwned
<1> SUFFICES ASSUME Owned, NEW s \in Socks
             PROVE  sock[s].st = "connecting" <=>
                      Cardinality({t \in Threads : pc[t] = "connecting" /\ fd[t] = s}) = 1
  BY DEF ConnectingOwned
<1> DEFINE C == {t \in Threads : pc[t] = "connecting" /\ fd[t] = s}
<1>1. IsFiniteSet(C)
  <2>1. IsFiniteSet({"mqtt_thread", "mqtt_send"})
    <3>1. IsFiniteSet({"mqtt_thread"}) /\ IsFiniteSet({"mqtt_send"})
      BY FS_Singleton
    <3>2. IsFiniteSet({"mqtt_thread"} \cup {"mqtt_send"})
      BY <3>1, FS_Union
    <3>3. {"mqtt_thread"} \cup {"mqtt_send"} = {"mqtt_thread", "mqtt_send"}
      OBVIOUS
    <3> QED
      BY <3>2, <3>3
  <2>2. C \in SUBSET {"mqtt_thread", "mqtt_send"}
    BY MqttClientAssumption
  <2> QED
    BY <2>1, <2>2, FS_Subset
<1>2. Cardinality(C) = 1 <=> \E t : C = {t}
  BY <1>1, FS_Singleton
<1>3. sock[s].st = "connecting" <=> \E t : C = {t}
  <2>1. ASSUME sock[s].st = "connecting" PROVE \E t : C = {t}
    <3>1. PICK t \in Threads : pc[t] = "connecting" /\ fd[t] = s
      BY <2>1 DEF Owned
    <3>2. \A u \in C : u = t
      BY <3>1 DEF Owned
    <3>3. C = {t}
      BY <3>1, <3>2
    <3> QED
      BY <3>3
  <2>2. ASSUME NEW t, C = {t} PROVE sock[s].st = "connecting"
    BY <2>2 DEF Owned
  <2> QED
    BY <2>1, <2>2
<1> QED
  BY <1>2, <1>3

\* Each task inside connect waits for a socket that is connecting, on which no
\* other task waits, and each such socket has one: no second connect and no close
\* gets through, although both tasks use whatever mysock names at the moment.
\* Which task opened it is another matter: connect(*sock) reads mysock again.
THEOREM OneOwner == Spec => [](Owned /\ ConnectingOwned)
<1>1. Init => Owned
  BY DEF Init, Owned, Free
<1> QED
  BY <1>1, InitInvariant, StepInvariant, OwnedStep, OwnedCounts, PTL DEF Spec

-----------------------------------------------------------------------------
(* What mqtt_thread can still read from a connection. *)

\* The units on their way to the client: the broker's own close takes what it
\* had not sent with it.
Stream(k) == IF k.fin THEN k.rx ELSE k.rx \o k.owed

\* The last unit a reader took, as far as it matters what may follow: its kind and
\* part, or Rest, which stands for a whole packet.
At(kind, part) == [kind |-> kind, part |-> part]
Rest == At("none", 0)
Final(h) == h.kind = "none" \/ h.part = LastPart(h.kind)

\* Unit v comes next after h; the one before place i of q, a stream read after h.
Follows(h, v) == IF Final(h) THEN v.part = 0 ELSE v.kind = h.kind /\ v.part = h.part + 1
Before(q, h, i) == IF i = 1 THEN h ELSE q[i - 1]

\* Whole packets, the first without what was taken of it; and that it is all of them.
Framed(q, h) == \A i \in 1 .. Len(q) : Follows(Before(q, h, i), q[i])
Complete(q, h) == Final(Before(q, h, Len(q) + 1))

\* How many units of a packet with a body are still to come.
Left(h) == IF Final(h) THEN LastPart("SUBACK") + 1 ELSE LastPart("SUBACK") - h.part

\* The stream q of connection k, for each stage of the session on it: nothing yet;
\* the reply to CONNECT and no more; nothing; first of all the reply to
\* SUBSCRIBE, a good one only from a broker that holds the subscription; and
\* then nothing but messages and replies to PINGREQ.
Fits(k, q, stage, h) ==
  /\ stage = "fresh" => q = <<>> /\ k.broker \in {"none", "bad"}
  /\ stage = "login" => (\A i \in 1 .. Len(q) : i <= Left(h)) /\ k.broker # "subscribed"
  /\ stage = "between" => q = <<>> /\ k.broker # "subscribed"
  /\ stage = "sub" =>
       \A i \in 1 .. Len(q) :
         /\ q[i].kind # "CONNACK"
         /\ q[i].kind = "SUBACK" => i <= Left(h) /\ (q[i].ok => k.broker = "subscribed")
  /\ stage = "serve" =>
       /\ h.kind \in {"none", "PUBLISH", "PINGRESP"}
       /\ \A i \in 1 .. Len(q) : q[i].kind \in {"PUBLISH", "PINGRESP"}
InOrder(k, stage, h) ==
  /\ Framed(Stream(k), h)
  /\ k.fin \/ Complete(Stream(k), h)
  /\ Fits(k, Stream(k), stage, h)

\* The connection k of a session.  It serves with a subscription, or else with the
\* cut reply to the first SUBSCRIBE behind it; and only a connection that serves
\* can have lost its reader's place, and goes on.
Sound(k, stage, h, first) ==
  stage # "none" =>
    /\ k.st = "up" /\ k.phase # "out"
    /\ k.phase = "cut" => stage = "serve"
    /\ stage = "serve" => k.broker = "subscribed" \/ (first /\ k.fin /\ k.rx = <<>>)
    /\ k.phase = "in" => InOrder(k, stage, h)

LEMMA StreamType == ASSUME NEW k \in SlotType PROVE Stream(k) \in Seq(Unit)
<1>1. k.rx \in Seq(Unit) /\ k.owed \in Seq(Unit)
  BY DEF SlotType
<1> QED
  BY <1>1 DEF Stream

\* Soundness depends on no more than this.
LEMMA SoundSame ==
  ASSUME NEW k, NEW k2, NEW stage, NEW h, NEW first, Sound(k, stage, h, first),
         Stream(k2) = Stream(k), k2.st = k.st, k2.broker = k.broker, k2.fin = k.fin,
         k2.phase = k.phase, stage = "serve" /\ k.fin => k2.rx = k.rx
  PROVE  Sound(k2, stage, h, first)
BY DEF Sound, InOrder, Fits

\* q is s and then t.  The provers need not look inside wherever a lemma on it does.
Joined(s, t, q) == q = s \o t

\* What a stream is joined from.
LEMMA UnitsConcat ==
  ASSUME NEW a \in Seq(Unit), NEW b \in Seq(Unit), NEW c, Joined(a, b, c)
  PROVE  /\ c \in Seq(Unit) /\ Len(c) = Len(a) + Len(b)
         /\ \A i \in 1 .. Len(a) + Len(b) : c[i] = IF i <= Len(a) THEN a[i] ELSE b[i - Len(a)]
BY ConcatProperties DEF Joined

LEMMA UnitsAssociative ==
  ASSUME NEW a \in Seq(Unit), NEW b \in Seq(Unit), NEW c \in Seq(Unit),
         NEW ab, Joined(a, b, ab), NEW bc, Joined(b, c, bc), NEW d, Joined(a, bc, d)
  PROVE  Joined(ab, c, d)
<1>1. (a \o b) \o c = a \o (b \o c)
  BY ConcatAssociative
<1> QED
  BY <1>1, Zenon DEF Joined

LEMMA UnitsJoined ==
  ASSUME NEW a \in Seq(Unit), NEW b \in Seq(Unit), NEW c \in Seq(Unit)
  PROVE  Joined(a \o b, c, a \o (b \o c))
<1>1. (a \o b) \o c = a \o (b \o c)
  BY ConcatAssociative
<1> QED
  BY <1>1, Zenon DEF Joined

\* r is q without its first n units.
Shorter(q, r, n) ==
  /\ q \in Seq(Unit) /\ r \in Seq(Unit)
  /\ Len(q) \in Nat /\ n \in Nat /\ 1 <= n /\ n <= Len(q) /\ Len(r) = Len(q) - n
  /\ \A i \in 1 .. Len(r) : r[i] = q[i + n]

\* And those n units are the ones s begins with.
Begins(s, q, n) == \A i \in 1 .. n : q[i] = s[i]

\* u is s without its first n units.
Ends(s, u, n) ==
  /\ n \in 1 .. Len(s) /\ u \in Seq(Unit) /\ Len(u) = Len(s) - n
  /\ \A i \in 1 .. Len(u) : u[i] = s[i + n]

\* Then u and t are s and t without them.
LEMMA RestConcat ==
  ASSUME NEW s \in Seq(Unit), NEW t \in Seq(Unit), NEW n, NEW u, Ends(s, u, n),
         NEW q, Joined(s, t, q), NEW r, Joined(u, t, r)
  PROVE  Shorter(q, r, n) /\ Begins(s, q, n)
<1> DEFINE a == Len(s)
           b == Len(t)
<1>1. a \in Nat /\ b \in Nat /\ n \in Nat /\ 1 <= n /\ n <= a
  BY LenProperties DEF Ends
<1>2. u \in Seq(Unit) /\ Len(u) = a - n /\ \A i \in 1 .. Len(u) : u[i] = s[i + n]
  BY DEF Ends
<1>3. /\ q \in Seq(Unit) /\ Len(q) = a + b
      /\ \A i \in 1 .. a + b : q[i] = IF i <= a THEN s[i] ELSE t[i - a]
  BY UnitsConcat
<1>4. /\ r \in Seq(Unit) /\ Len(r) = Len(u) + b
      /\ \A i \in 1 .. Len(u) + b : r[i] = IF i <= Len(u) THEN u[i] ELSE t[i - Len(u)]
  <2>1. u \in Seq(Unit)
    BY <1>2
  <2> QED
    BY <2>1, UnitsConcat
<1> HIDE DEF a, b
<1>5. ASSUME NEW i \in 1 .. Len(r) PROVE r[i] = q[i + n]
  <2>1. i \in Nat /\ 1 <= i /\ i <= (a - n) + b /\ i + n \in 1 .. a + b
    BY <1>1, <1>2, <1>4
  <2>2. CASE i <= a - n
    <3>1. r[i] = s[i + n]
      <4>1. i \in 1 .. Len(u) /\ i \in 1 .. Len(u) + b
        BY <1>1, <1>2, <2>1, <2>2
      <4> QED
        BY <1>2, <1>4, <4>1
    <3>2. q[i + n] = s[i + n]
      BY <1>1, <1>3, <2>1, <2>2
    <3> QED
      BY <3>1, <3>2
  <2>3. CASE ~(i <= a - n)
    <3>1. r[i] = t[i - (a - n)]
      BY <1>1, <1>2, <1>4, <2>1, <2>3
    <3>2. q[i + n] = t[(i + n) - a]
      BY <1>1, <1>3, <2>1, <2>3
    <3>3. i - (a - n) = (i + n) - a
      BY <1>1, <2>1
    <3> QED
      BY <3>1, <3>2, <3>3
  <2> QED
    BY <2>2, <2>3
<1>6. \A i \in 1 .. n : q[i] = s[i]
  BY <1>1, <1>3
<1>7. Len(q) \in Nat /\ n <= Len(q) /\ Len(r) = Len(q) - n
  BY <1>1, <1>2, <1>3, <1>4
<1> QED
  BY <1>1, <1>3, <1>4, <1>5, <1>6, <1>7 DEF Shorter, Begins

\* k2 is k less the first n units of what has arrived.
Taken(k, k2, n) ==
  /\ n \in 1 .. Len(k.rx)
  /\ k2.rx = SubSeq(k.rx, n + 1, Len(k.rx))
  /\ k2.owed = k.owed /\ k2.fin = k.fin /\ k2.st = k.st /\ k2.broker = k.broker

\* Taking units from what has arrived takes them from the stream.
LEMMA TakeUnits ==
  ASSUME NEW k \in SlotType, NEW k2, NEW n, Taken(k, k2, n)
  PROVE  /\ Shorter(Stream(k), Stream(k2), n)
         /\ \A i \in 1 .. n : Stream(k)[i] = k.rx[i]
<1> SUFFICES ASSUME NEW q, q = Stream(k), NEW r, r = Stream(k2)
             PROVE  Shorter(q, r, n) /\ \A i \in 1 .. n : q[i] = k.rx[i]
  OBVIOUS
<1>1. /\ k.rx \in Seq(Unit) /\ k.owed \in Seq(Unit) /\ <<>> \in Seq(Unit)
      /\ n \in 1 .. Len(k.rx) /\ Len(k.rx) \in Nat
      /\ k2.rx = SubSeq(k.rx, n + 1, Len(k.rx)) /\ k2.rx \in Seq(Unit)
      /\ k2.owed = k.owed /\ k2.fin = k.fin
  BY RestType DEF SlotType, Taken
<1>0. Ends(k.rx, k2.rx, n)
  BY <1>1 DEF Ends
<1>2. PICK t \in Seq(Unit) : Joined(k.rx, t, q) /\ Joined(k2.rx, t, r)
  <2>1. CASE k.fin
    <3>1. k.rx \o <<>> = k.rx /\ k2.rx \o <<>> = k2.rx
      BY <1>1, ConcatEmptySeq
    <3> QED
      BY <1>1, <2>1, <3>1 DEF Stream, Joined
  <2> QED
    BY <1>1, <2>1 DEF Stream, Joined
<1>3. Shorter(q, r, n) /\ Begins(k.rx, q, n)
  BY <1>0, <1>1, <1>2, RestConcat
<1> QED
  BY <1>3 DEF Begins

\* What is left of a stream of packets after its first n units, of which h is the last.
LEMMA FramedRest ==
  ASSUME NEW q, NEW r, NEW n, Shorter(q, r, n), NEW h, Framed(q, h),
         NEW h2, h2.kind = q[n].kind, h2.part = q[n].part
  PROVE  Framed(r, h2) /\ (Complete(q, h) => Complete(r, h2))
<1>1. /\ Len(q) \in Nat /\ n \in Nat /\ 1 <= n /\ n <= Len(q) /\ Len(r) = Len(q) - n
      /\ \A i \in 1 .. Len(r) : r[i] = q[i + n]
  BY DEF Shorter
<1>2. ASSUME NEW i \in 1 .. Len(r) + 1
      PROVE  /\ Before(r, h2, i).kind = Before(q, h, i + n).kind
             /\ Before(r, h2, i).part = Before(q, h, i + n).part
  <2>1. Before(q, h, i + n) = q[(i - 1) + n]
    <3>1. i + n # 1 /\ (i + n) - 1 = (i - 1) + n
      BY <1>1
    <3> QED
      BY <3>1 DEF Before
  <2>2. CASE i = 1
    <3>1. (i - 1) + n = n
      BY <1>1, <2>2
    <3> QED
      BY <2>1, <2>2, <3>1 DEF Before
  <2>3. CASE i # 1
    <3>1. i - 1 \in 1 .. Len(r)
      BY <1>1, <2>3
    <3>2. r[i - 1] = q[(i - 1) + n]
      BY <1>1, <3>1
    <3> QED
      BY <2>1, <2>3, <3>2 DEF Before
  <2> QED
    BY <2>2, <2>3
<1>3. ASSUME NEW i \in 1 .. Len(r) PROVE Follows(Before(r, h2, i), r[i])
  <2>1. i + n \in 1 .. Len(q) /\ i \in 1 .. Len(r) + 1
    BY <1>1
  <2>2. Follows(Before(q, h, i + n), q[i + n])
    BY <2>1 DEF Framed
  <2> QED
    BY <1>1, <1>2, <2>1, <2>2 DEF Follows, Final
<1>4. ASSUME Complete(q, h) PROVE Complete(r, h2)
  <2>1. (Len(r) + 1) + n = Len(q) + 1 /\ Len(r) + 1 \in 1 .. Len(r) + 1
    BY <1>1
  <2> QED
    BY <1>2, <1>4, <2>1 DEF Complete, Final
<1> QED
  BY <1>3, <1>4 DEF Framed

\* The last parts.
LEMMA Parts ==
  /\ LastPart("SUBACK") \in 2 .. 3
  /\ \A kind \in Kinds : /\ LastPart(kind) \in 1 .. LastPart("SUBACK")
                         /\ kind # "PINGRESP" => LastPart(kind) = LastPart("SUBACK")
                         /\ kind = "PINGRESP" => LastPart(kind) = 1
BY DEF LastPart, Kinds

\* The header of the next packet.
LEMMA TakeHead ==
  ASSUME NEW k \in SlotType, k.rx # <<>>, NEW stage \in {"login", "sub", "serve"},
         InOrder(k, stage, Rest)
  PROVE  Head(k.rx).part = 0 /\ Head(k.rx).kind \in Kinds
<1>1. k.rx \in Seq(Unit) /\ Len(k.rx) >= 1 /\ 1 \in 1 .. Len(k.rx)
  BY EmptySeq, LenProperties DEF SlotType
<1>2. Taken(k, [k EXCEPT !.rx = SubSeq(k.rx, 2, Len(k.rx))], 1)
  BY <1>1 DEF Taken, SlotType
<1>3. 1 \in 1 .. Len(Stream(k)) /\ Stream(k)[1] = k.rx[1] /\ Stream(k)[1] \in Unit
  BY <1>2, TakeUnits DEF Shorter
<1>4. Follows(Rest, Stream(k)[1])
  BY <1>3 DEF InOrder, Framed, Before
<1> QED
  BY <1>1, <1>3, <1>4 DEF Follows, Final, Rest, At, Unit

\* The next unit of the packet that has begun.
LEMMA TakeNext ==
  ASSUME NEW k \in SlotType, k.rx # <<>>, NEW stage \in {"login", "sub", "serve"},
         NEW h, ~Final(h), InOrder(k, stage, h)
  PROVE  Head(k.rx).part = h.part + 1 /\ Head(k.rx).kind = h.kind
<1>1. k.rx \in Seq(Unit) /\ Len(k.rx) >= 1 /\ 1 \in 1 .. Len(k.rx)
  BY EmptySeq, LenProperties DEF SlotType
<1>2. Taken(k, [k EXCEPT !.rx = SubSeq(k.rx, 2, Len(k.rx))], 1)
  BY <1>1 DEF Taken, SlotType
<1>3. 1 \in 1 .. Len(Stream(k)) /\ Stream(k)[1] = k.rx[1] /\ Stream(k)[1] \in Unit
  BY <1>2, TakeUnits DEF Shorter
<1>4. Follows(h, Stream(k)[1])
  BY <1>3 DEF InOrder, Framed, Before
<1> QED
  BY <1>1, <1>3, <1>4 DEF Follows

\* What the taking of units does to the order of the stream, in the stages that read.
LEMMA TakeOrder ==
  ASSUME NEW k \in SlotType, NEW stage \in {"login", "sub", "serve"},
         NEW h, h.part \in Nat, InOrder(k, stage, h),
         NEW k2, NEW n, Taken(k, k2, n),
         NEW h2, h2.kind = k.rx[n].kind, h2.part = k.rx[n].part, h2.kind # "none",
         Left(h2) = Left(h) - n \/ stage = "serve"
  PROVE  InOrder(k2, stage, h2)
<1> SUFFICES ASSUME NEW q, q = Stream(k), NEW r, r = Stream(k2)
             PROVE  InOrder(k2, stage, h2)
  OBVIOUS
<1>1. /\ Shorter(q, r, n) /\ n \in 1 .. n /\ q[n] = k.rx[n] /\ q[n] \in Unit
      /\ k2.fin = k.fin /\ k2.broker = k.broker
  <2>1. Shorter(q, r, n) /\ \A i \in 1 .. n : q[i] = k.rx[i]
    BY TakeUnits
  <2> QED
    BY <2>1 DEF Shorter, Taken
<1>2. /\ Len(q) \in Nat /\ n \in Nat /\ 1 <= n /\ n <= Len(q) /\ Len(r) = Len(q) - n
      /\ \A i \in 1 .. Len(r) : r[i] = q[i + n] /\ i + n \in 1 .. Len(q)
  BY <1>1 DEF Shorter
<1>3. Framed(q, h) /\ (k.fin \/ Complete(q, h)) /\ Fits(k, q, stage, h)
  BY DEF InOrder
<1>4. Framed(r, h2) /\ (Complete(q, h) => Complete(r, h2))
  BY <1>1, <1>3, FramedRest
<1>5. Left(h) \in Int /\ Left(h2) \in Int
  <2>1. LastPart("SUBACK") \in Nat
    BY Parts
  <2>2. h2.part \in Nat
    BY <1>1 DEF Unit
  <2> QED
    BY <2>1, <2>2 DEF Left
<1>6. ASSUME stage = "login" PROVE (\A i \in 1 .. Len(r) : i <= Left(h2)) /\ k.broker # "subscribed"
  <2>1. (\A i \in 1 .. Len(q) : i <= Left(h)) /\ k.broker # "subscribed"
    BY <1>3, <1>6 DEF Fits
  <2>2. \A i \in 1 .. Len(r) : i + n <= Left(h)
    BY <1>2, <2>1
  <2> QED
    BY <1>2, <1>5, <1>6, <2>1, <2>2
<1>7. ASSUME stage = "sub", NEW i \in 1 .. Len(r)
      PROVE  /\ r[i].kind # "CONNACK"
             /\ r[i].kind = "SUBACK" => i <= Left(h2) /\ (r[i].ok => k.broker = "subscribed")
  <2>1. r[i] = q[i + n] /\ i + n \in 1 .. Len(q)
    BY <1>2
  <2>2. /\ q[i + n].kind # "CONNACK"
        /\ q[i + n].kind = "SUBACK" => i + n <= Left(h) /\ (q[i + n].ok => k.broker = "subscribed")
    BY <1>3, <1>7, <2>1 DEF Fits
  <2>3. i + n <= Left(h) => i <= Left(h2)
    BY <1>2, <1>5, <1>7
  <2> QED
    BY <2>1, <2>2, <2>3
<1>8. ASSUME stage = "serve"
      PROVE  /\ h2.kind \in {"none", "PUBLISH", "PINGRESP"}
             /\ \A i \in 1 .. Len(r) : r[i].kind \in {"PUBLISH", "PINGRESP"}
  <2>1. \A i \in 1 .. Len(q) : q[i].kind \in {"PUBLISH", "PINGRESP"}
    BY <1>3, <1>8 DEF Fits
  <2>2. n \in 1 .. Len(q)
    BY <1>2
  <2> QED
    BY <1>1, <1>2, <2>1, <2>2
<1>9. Fits(k2, r, stage, h2)
  BY <1>1, <1>6, <1>7, <1>8 DEF Fits
<1> QED
  BY <1>1, <1>3, <1>4, <1>9 DEF InOrder

\* Left over after the last unit of a packet: nothing of the reply to CONNECT; of
\* what follows the reply to SUBSCRIBE, only what a serving client may read.
LEMMA TakeLast ==
  ASSUME NEW k \in SlotType, NEW stage \in {"login", "sub", "serve"},
         NEW h, ~Final(h), h.part \in Nat, InOrder(k, stage, h),
         NEW k2, NEW n, Taken(k, k2, n),
         NEW last, last = k.rx[n], last.part = LastPart(last.kind),
         last.kind = h.kind, n = LastPart(h.kind) - h.part
  PROVE  /\ stage = "login" /\ h.kind # "PINGRESP" => InOrder(k2, "between", Rest)
         /\ stage = "sub" /\ h.kind = "SUBACK" /\ Head(k.rx).ok =>
              k.broker = "subscribed" /\ InOrder(k2, "serve", Rest)
         /\ stage = "serve" => InOrder(k2, "serve", Rest)
<1> SUFFICES ASSUME NEW q, q = Stream(k), NEW r, r = Stream(k2)
             PROVE  /\ stage = "login" /\ h.kind # "PINGRESP" => InOrder(k2, "between", Rest)
                    /\ stage = "sub" /\ h.kind = "SUBACK" /\ Head(k.rx).ok =>
                         k.broker = "subscribed" /\ InOrder(k2, "serve", Rest)
                    /\ stage = "serve" => InOrder(k2, "serve", Rest)
  OBVIOUS
<1>1. /\ Shorter(q, r, n) /\ n \in 1 .. n /\ 1 \in 1 .. n /\ q[n] = last /\ q[1] = Head(k.rx)
      /\ k2.fin = k.fin /\ k2.broker = k.broker
      /\ last \in Unit
  <2>1. Shorter(q, r, n) /\ \A i \in 1 .. n : q[i] = k.rx[i]
    BY TakeUnits
  <2>2. k.rx # <<>> /\ Head(k.rx) = k.rx[1]
    BY EmptySeq, LenProperties DEF Taken, SlotType
  <2>3. n \in 1 .. n /\ 1 \in 1 .. n /\ n \in 1 .. Len(q) /\ q \in Seq(Unit)
    BY <2>1 DEF Shorter
  <2> QED
    BY <2>1, <2>2, <2>3 DEF Taken
<1>2. /\ Len(q) \in Nat /\ n \in Nat /\ 1 <= n /\ n <= Len(q) /\ Len(r) = Len(q) - n
      /\ \A i \in 1 .. Len(r) : r[i] = q[i + n] /\ i + n \in 1 .. Len(q)
      /\ r \in Seq(Unit)
  BY <1>1 DEF Shorter
<1>3. Framed(q, h) /\ (k.fin \/ Complete(q, h)) /\ Fits(k, q, stage, h)
  BY DEF InOrder
<1>4. Framed(r, Rest) /\ (Complete(q, h) => Complete(r, Rest))
  <2>1. Framed(r, last) /\ (Complete(q, h) => Complete(r, last))
    BY <1>1, <1>3, FramedRest
  <2>2. Final(Rest) /\ Final(last)
    BY DEF Final, Rest, At
  <2>3. \A v : Follows(Rest, v) <=> Follows(last, v)
    BY <2>2 DEF Follows
  <2>4. \A i : Follows(Before(r, Rest, i), r[i]) <=> Follows(Before(r, last, i), r[i])
    BY <2>3 DEF Before
  <2> QED
    BY <2>1, <2>2, <2>4 DEF Framed, Complete, Before
<1>5. h.kind # "PINGRESP" => Left(h) = n
  <2>1. h.kind \in Kinds
    BY <1>1 DEF Unit
  <2> QED
    BY <2>1, Parts DEF Left
<1>6. stage = "login" /\ h.kind # "PINGRESP" => r = <<>> /\ k.broker # "subscribed"
  <2>1. stage = "login" /\ h.kind # "PINGRESP" =>
           (\A i \in 1 .. Len(q) : i <= n) /\ k.broker # "subscribed"
    BY <1>3, <1>5 DEF Fits
  <2>2. (\A i \in 1 .. Len(q) : i <= n) => Len(r) = 0
    <3>1. Len(r) # 0 => 1 + n \in 1 .. Len(q) /\ ~(1 + n <= n)
      BY <1>2
    <3> QED
      BY <3>1
  <2> QED
    BY <1>2, <2>1, <2>2, EmptySeq
<1>7. ASSUME stage = "sub", h.kind = "SUBACK", q[1].ok
      PROVE  /\ k.broker = "subscribed"
             /\ \A i \in 1 .. Len(r) : r[i].kind \in {"PUBLISH", "PINGRESP"}
  <2>1. \A i \in 1 .. Len(q) :
           /\ q[i].kind # "CONNACK"
           /\ q[i].kind = "SUBACK" => i <= n /\ (q[i].ok => k.broker = "subscribed")
    BY <1>3, <1>5, <1>7 DEF Fits
  <2>2. 1 \in 1 .. Len(q) /\ q[1].kind = "SUBACK"
    <3>1. 1 \in 1 .. Len(q)
      BY <1>2
    <3>2. Follows(h, q[1])
      BY <1>3, <3>1 DEF Framed, Before
    <3> QED
      BY <1>7, <3>1, <3>2 DEF Follows
  <2>3. ASSUME NEW i \in 1 .. Len(r) PROVE r[i].kind \in {"PUBLISH", "PINGRESP"}
    <3>1. r[i] = q[i + n] /\ i + n \in 1 .. Len(q) /\ ~(i + n <= n)
      BY <1>2
    <3>2. q[i + n] \in Unit
      BY <1>1, <3>1 DEF Shorter
    <3> QED
      BY <2>1, <3>1, <3>2 DEF Unit, Kinds
  <2> QED
    BY <1>7, <2>1, <2>2, <2>3
<1>8. ASSUME stage = "serve" PROVE \A i \in 1 .. Len(r) : r[i].kind \in {"PUBLISH", "PINGRESP"}
  <2>1. \A i \in 1 .. Len(q) : q[i].kind \in {"PUBLISH", "PINGRESP"}
    BY <1>3, <1>8 DEF Fits
  <2> QED
    BY <1>2, <2>1
<1>9. Rest.kind = "none"
  BY DEF Rest, At
<1>10. stage = "login" /\ h.kind # "PINGRESP" => Fits(k2, r, "between", Rest)
  BY <1>1, <1>6 DEF Fits
<1>11. /\ stage = "sub" /\ h.kind = "SUBACK" /\ q[1].ok => Fits(k2, r, "serve", Rest)
       /\ stage = "serve" => Fits(k2, r, "serve", Rest)
  BY <1>7, <1>8, <1>9 DEF Fits
<1> QED
  BY <1>1, <1>3, <1>4, <1>7, <1>10, <1>11 DEF InOrder

\* The stream has ended within a packet: the reply to CONNECT and the first to
\* SUBSCRIBE pass for empty ones, and a client that serves goes on.
LEMMA EndSound ==
  ASSUME NEW k \in SlotType, k.rx = <<>>, k.fin, NEW h, NEW first,
         NEW stage \in {"login", "sub", "serve"}, Sound(k, stage, h, first)
  PROVE  /\ stage = "login" => Sound(k, "between", Rest, first)
         /\ stage = "sub" /\ first => Sound(k, "serve", Rest, first)
         /\ stage = "serve" => Sound(k, "serve", Rest, first)
<1>1. Stream(k) = <<>> /\ Len(Stream(k)) = 0
  BY DEF Stream
<1>2. Framed(Stream(k), Rest) /\ Rest.kind = "none"
  BY <1>1 DEF Framed, Rest, At
<1>3. Fits(k, Stream(k), "serve", Rest)
  BY <1>1, <1>2 DEF Fits
<1>4. stage = "login" => Fits(k, Stream(k), "between", Rest) /\ k.phase = "in"
  BY <1>1 DEF Sound, InOrder, Fits, SlotType
<1> QED
  BY <1>2, <1>3, <1>4 DEF Sound, InOrder

-----------------------------------------------------------------------------
(* What the broker does to the stream. *)

\* r is q with the packet p behind it.
Extends(q, r, p) ==
  /\ r \in Seq(Unit) /\ Len(q) \in Nat /\ Len(r) = Len(q) + (LastPart(p.kind) + 1)
  /\ \A i \in 1 .. Len(q) : r[i] = q[i]
  /\ \A i \in 1 .. LastPart(p.kind) + 1 :
       LET v == r[Len(q) + i] IN v.kind = p.kind /\ v.ok = p.ok /\ v.part = i - 1

LEMMA PacketMore ==
  ASSUME NEW q \in Seq(Unit), NEW p \in Unit, NEW r, Joined(q, Packet(p), r)
  PROVE  Extends(q, r, p)
<1> SUFFICES ASSUME NEW t, t = Packet(p), Joined(q, t, r) PROVE Extends(q, r, p)
  OBVIOUS
<1> DEFINE n == Len(q)
           m == LastPart(p.kind) + 1
<1>1. t \in Seq(Unit) /\ m \in 2 .. 4
  BY PacketType DEF LastPart
<1>2. /\ Len(t) = m
      /\ \A i \in 1 .. m : t[i].kind = p.kind /\ t[i].ok = p.ok /\ t[i].part = i - 1
  <2>1. t = [i \in 1 .. m |-> [p EXCEPT !.part = i - 1]]
    BY DEF Packet
  <2>2. Len(t) = m
    BY <1>1, <2>1
  <2>3. \A i \in 1 .. m : t[i].kind = p.kind /\ t[i].ok = p.ok /\ t[i].part = i - 1
    BY <2>1 DEF Unit
  <2> QED
    BY <2>2, <2>3
<1>3. /\ r \in Seq(Unit) /\ Len(r) = n + m
      /\ \A i \in 1 .. n + m : r[i] = IF i <= n THEN q[i] ELSE t[i - n]
  BY <1>1, <1>2, UnitsConcat
<1>4. n \in Nat
  BY LenProperties
<1> HIDE DEF n, m
<1>5. ASSUME NEW i \in 1 .. m PROVE r[n + i] = t[i]
  <2>1. n + i \in 1 .. n + m /\ ~(n + i <= n) /\ (n + i) - n = i
    BY <1>1, <1>4
  <2> QED
    BY <1>3, <2>1
<1>6. \A i \in 1 .. n : r[i] = q[i]
  BY <1>1, <1>3, <1>4
<1>7. \A i \in 1 .. m : r[n + i].kind = p.kind /\ r[n + i].ok = p.ok /\ r[n + i].part = i - 1
  BY <1>2, <1>5
<1> QED
  BY <1>3, <1>4, <1>6, <1>7 DEF Extends, n, m

\* A packet more at the end.
LEMMA FramedMore ==
  ASSUME NEW q, NEW h, Framed(q, h), Complete(q, h), NEW p \in Unit, NEW r, Extends(q, r, p)
  PROVE  Framed(r, h) /\ Complete(r, h)
<1> DEFINE n == Len(q)
           m == LastPart(p.kind) + 1
<1>1. /\ n \in Nat /\ m \in 2 .. 4 /\ Len(r) = n + m
      /\ \A i \in 1 .. n : r[i] = q[i]
      /\ \A i \in 1 .. m : r[n + i].kind = p.kind /\ r[n + i].part = i - 1
  BY DEF Extends, LastPart
<1>2. p.kind # "none"
  BY DEF Unit, Kinds
<1>3. \A i \in 1 .. n + 1 : Before(r, h, i) = Before(q, h, i)
  <2> TAKE i \in 1 .. n + 1
  <2>1. i = 1 \/ (i # 1 /\ i - 1 \in 1 .. n)
    BY <1>1
  <2> QED
    BY <1>1, <2>1 DEF Before
<1>4. ASSUME NEW i \in 1 .. m
      PROVE  Before(r, h, (n + i) + 1) = r[n + i]
  BY <1>1 DEF Before
<1>5. Final(Before(q, h, n + 1))
  BY DEF Complete
<1>6. ASSUME NEW j \in 1 .. Len(r) PROVE Follows(Before(r, h, j), r[j])
  <2>1. CASE j \in 1 .. n
    <3>1. Follows(Before(q, h, j), q[j]) /\ j \in 1 .. n + 1
      BY <1>1, <2>1 DEF Framed
    <3> QED
      BY <1>1, <1>3, <2>1, <3>1
  <2>2. CASE j = n + 1
    <3>1. 1 \in 1 .. m /\ n + 1 \in 1 .. n + 1 /\ 1 - 1 = 0
      BY <1>1
    <3>2. r[n + 1].part = 0
      BY <1>1, <3>1
    <3> QED
      BY <1>3, <1>5, <2>2, <3>1, <3>2 DEF Follows
  <2>3. CASE ~(j \in 1 .. n + 1)
    <3>1. PICK i \in 1 .. m : j = (n + i) + 1 /\ i + 1 \in 1 .. m /\ j = n + (i + 1)
      <4>1. j - (n + 1) \in 1 .. m /\ (j - (n + 1)) + 1 \in 1 .. m
            /\ j = (n + (j - (n + 1))) + 1 /\ j = n + ((j - (n + 1)) + 1)
        BY <1>1, <2>3
      <4> QED
        BY <4>1
    <3>2. Before(r, h, j) = r[n + i] /\ r[n + i].kind = p.kind /\ r[n + i].part = i - 1
      BY <1>1, <1>4, <3>1
    <3>3. r[j].kind = p.kind /\ r[j].part = (i + 1) - 1
      BY <1>1, <3>1
    <3>4. i - 1 # LastPart(p.kind) /\ (i + 1) - 1 = (i - 1) + 1
      BY <1>1, <3>1
    <3> QED
      BY <1>2, <3>2, <3>3, <3>4 DEF Follows, Final
  <2> QED
    BY <2>1, <2>2, <2>3
<1>7. Complete(r, h)
  <2>1. m \in 1 .. m /\ Len(r) + 1 = (n + m) + 1 /\ m - 1 = LastPart(p.kind)
    BY <1>1 DEF LastPart
  <2>2. Before(r, h, Len(r) + 1) = r[n + m] /\ r[n + m].kind = p.kind /\ r[n + m].part = m - 1
    BY <1>1, <1>4, <2>1
  <2> QED
    BY <2>1, <2>2 DEF Complete, Final
<1> QED
  BY <1>6, <1>7 DEF Framed

\* r is q with the units of packet p behind it, or without them.
OneMore(q, r, p) ==
  /\ q \in Seq(Unit) /\ r \in Seq(Unit)
  /\ Len(q) \in Nat /\ Len(r) \in {Len(q), Len(q) + (LastPart(p.kind) + 1)}
  /\ \A i \in 1 .. Len(r) :
       \/ i \in 1 .. Len(q) /\ r[i] = q[i]
       \/ ~(i \in 1 .. Len(q)) /\ r[i].kind = p.kind /\ r[i].ok = p.ok

\* What the broker owes comes to the end of the stream, unless it has closed.
LEMMA OweStream ==
  ASSUME NEW k \in SlotType, NEW h, Framed(Stream(k), h), k.fin \/ Complete(Stream(k), h),
         NEW p \in Unit,
         NEW k2, k2.rx = k.rx, k2.fin = k.fin, k2.owed = k.owed \o Packet(p)
  PROVE  /\ OneMore(Stream(k), Stream(k2), p)
         /\ Framed(Stream(k2), h) /\ (k2.fin \/ Complete(Stream(k2), h))
<1> SUFFICES ASSUME NEW q, q = Stream(k), NEW r, r = Stream(k2),
                    NEW t, t = Packet(p)
             PROVE  OneMore(q, r, p) /\ Framed(r, h) /\ (k2.fin \/ Complete(r, h))
  OBVIOUS
<1>1. /\ k.rx \in Seq(Unit) /\ k.owed \in Seq(Unit) /\ q \in Seq(Unit) /\ Len(q) \in Nat
      /\ Framed(q, h) /\ (k.fin \/ Complete(q, h)) /\ t \in Seq(Unit)
  BY StreamType, PacketType, LenProperties DEF SlotType
<1>2. CASE k.fin
  BY <1>1, <1>2 DEF Stream, OneMore
<1>3. CASE ~k.fin
  <2>1. Joined(q, t, r)
    <3>1. q = k.rx \o k.owed /\ r = k.rx \o (k.owed \o t)
      BY <1>3, Zenon DEF Stream
    <3>2. Joined(k.rx \o k.owed, t, k.rx \o (k.owed \o t))
      BY <1>1, UnitsJoined, Zenon
    <3> QED
      BY <3>1, <3>2, Zenon
  <2>2. Extends(q, r, p)
    BY <1>1, <2>1, PacketMore, Zenon
  <2>3. Framed(r, h) /\ Complete(r, h)
    BY <1>1, <1>3, <2>2, FramedMore
  <2>4. /\ r \in Seq(Unit) /\ Len(r) = Len(q) + (LastPart(p.kind) + 1)
        /\ LastPart(p.kind) \in Nat
        /\ \A i \in 1 .. Len(q) : r[i] = q[i]
        /\ \A i \in 1 .. LastPart(p.kind) + 1 : r[Len(q) + i].kind = p.kind /\ r[Len(q) + i].ok = p.ok
    BY <2>2 DEF Extends, LastPart
  <2>5. ASSUME NEW i \in 1 .. Len(r)
        PROVE  \/ i \in 1 .. Len(q) /\ r[i] = q[i]
               \/ ~(i \in 1 .. Len(q)) /\ r[i].kind = p.kind /\ r[i].ok = p.ok
    <3>1. CASE i \in 1 .. Len(q)
      BY <2>4, <3>1
    <3>2. CASE ~(i \in 1 .. Len(q))
      <4>1. i - Len(q) \in 1 .. LastPart(p.kind) + 1 /\ Len(q) + (i - Len(q)) = i
        BY <1>1, <2>4, <3>2
      <4> QED
        BY <2>4, <3>2, <4>1
    <3> QED
      BY <3>1, <3>2
  <2> QED
    BY <1>1, <2>3, <2>4, <2>5 DEF OneMore
<1> QED
  BY <1>2, <1>3

\* The broker answers CONNECT on a fresh connection, if it does.
LEMMA LoginSound ==
  ASSUME NEW k \in SlotType, NEW first, Sound(k, "fresh", Rest, first), NEW ok \in BOOLEAN
  PROVE  /\ Sound(k, "login", Rest, first)
         /\ Sound(Receives(k, "CONNECT", ok, 0), "login", Rest, first)
<1>1. /\ k.st = "up" /\ k.phase = "in" /\ k.broker \in {"none", "bad"}
      /\ Stream(k) = <<>> /\ Len(Stream(k)) = 0
      /\ Framed(Stream(k), Rest) /\ (k.fin \/ Complete(Stream(k), Rest))
  BY DEF Sound, InOrder, Fits, SlotType
<1>2. LastPart("SUBACK") \in Nat /\ Left(Rest) = LastPart("SUBACK") + 1
  BY Parts DEF Left, Final, Rest, At
<1>3. Sound(k, "login", Rest, first)
  BY <1>1, <1>2 DEF Sound, InOrder, Fits
<1>4. CASE k.broker = "none"
  <2> DEFINE b == IF ok THEN "login" ELSE "refused"
             p == Reply("CONNACK", ok, 0)
  <2>1. p \in Unit /\ p.kind = "CONNACK" /\ LastPart("CONNACK") = LastPart("SUBACK")
    BY ReplyType, ZeroId DEF Kinds, Reply, LastPart
  <2> HIDE DEF p
  <2> SUFFICES ASSUME NEW k2, k2 = Owe([k EXCEPT !.broker = b], p) PROVE Sound(k2, "login", Rest, first)
    BY <1>3, <1>4 DEF Receives, p
  <2>2. /\ k2.st = k.st /\ k2.rx = k.rx /\ k2.fin = k.fin /\ k2.broker = b /\ k2.phase = k.phase
        /\ k2.owed = k.owed \o Packet(p)
    BY DEF Owe, SlotType
  <2>3. /\ OneMore(Stream(k), Stream(k2), p)
        /\ Framed(Stream(k2), Rest) /\ (k2.fin \/ Complete(Stream(k2), Rest))
    BY <1>1, <2>1, <2>2, OweStream, Zenon
  <2>4. \A i \in 1 .. Len(Stream(k2)) : i <= Left(Rest)
    BY <1>1, <1>2, <2>1, <2>3 DEF OneMore
  <2> QED
    BY <1>1, <2>2, <2>3, <2>4 DEF Sound, InOrder, Fits
<1>5. CASE k.broker = "bad"
  BY <1>3, <1>5 DEF Receives
<1> QED
  BY <1>1, <1>3, <1>4, <1>5

\* It answers SUBSCRIBE before anything else.
LEMMA SubscribeSound ==
  ASSUME NEW k \in SlotType, NEW first, Sound(k, "between", Rest, first), NEW ok \in BOOLEAN,
         NEW id \in 0 .. IdMod - 1, NEW next
  PROVE  /\ Sound(k, "sub", Rest, next)
         /\ Sound(Receives(k, "SUBSCRIBE", ok, id), "sub", Rest, next)
<1>1. /\ k.st = "up" /\ k.phase = "in" /\ Stream(k) = <<>> /\ Len(Stream(k)) = 0
      /\ Framed(Stream(k), Rest) /\ (k.fin \/ Complete(Stream(k), Rest))
  BY DEF Sound, InOrder, Fits, SlotType
<1>2. LastPart("SUBACK") \in Nat /\ Left(Rest) = LastPart("SUBACK") + 1
  BY Parts DEF Left, Final, Rest, At
<1>3. Sound(k, "sub", Rest, next)
  BY <1>1 DEF Sound, InOrder, Fits
<1>4. CASE k.broker = "login" \/ k.broker = "subscribed"
  <2> DEFINE b == IF ok THEN "subscribed" ELSE k.broker
             p == Reply("SUBACK", ok, id)
  <2>1. p \in Unit /\ p.kind = "SUBACK" /\ p.ok = ok
    BY ReplyType DEF Kinds, Reply
  <2> HIDE DEF p
  <2> SUFFICES ASSUME NEW k2, k2 = Owe([k EXCEPT !.broker = b], p) PROVE Sound(k2, "sub", Rest, next)
    BY <1>3, <1>4 DEF Receives, p
  <2>2. /\ k2.st = k.st /\ k2.rx = k.rx /\ k2.fin = k.fin /\ k2.broker = b /\ k2.phase = k.phase
        /\ k2.owed = k.owed \o Packet(p)
    BY DEF Owe, SlotType
  <2>3. /\ OneMore(Stream(k), Stream(k2), p)
        /\ Framed(Stream(k2), Rest) /\ (k2.fin \/ Complete(Stream(k2), Rest))
    BY <1>1, <2>1, <2>2, OweStream, Zenon
  <2>4. \A i \in 1 .. Len(Stream(k2)) :
           i <= Left(Rest) /\ Stream(k2)[i].kind = "SUBACK" /\ Stream(k2)[i].ok = ok
    BY <1>1, <1>2, <2>1, <2>3 DEF OneMore
  <2> QED
    BY <1>1, <2>2, <2>3, <2>4 DEF Sound, InOrder, Fits
<1>5. CASE k.broker \notin {"login", "subscribed"}
  <2>1. \/ Receives(k, "SUBSCRIBE", ok, id) = k
        \/ Receives(k, "SUBSCRIBE", ok, id) = [k EXCEPT !.broker = "bad"]
    BY <1>5 DEF Receives
  <2> SUFFICES ASSUME NEW k2, k2 = [k EXCEPT !.broker = "bad"] PROVE Sound(k2, "sub", Rest, next)
    BY <1>3, <2>1
  <2>2. Stream(k2) = Stream(k) /\ k2.st = "up" /\ k2.phase = "in" /\ k2.fin = k.fin
    BY <1>1 DEF Stream, SlotType
  <2> QED
    BY <1>1, <2>2 DEF Sound, InOrder, Fits
<1> QED
  BY <1>3, <1>4, <1>5

\* A message or the reply to PINGREQ on a subscribed connection.
LEMMA OweSound ==
  ASSUME NEW k \in SlotType, k.broker = "subscribed",
         NEW stage, NEW h, NEW first, Sound(k, stage, h, first),
         NEW kind \in {"PUBLISH", "PINGRESP"}
  PROVE  Sound(Owe(k, Reply(kind, TRUE, 0)), stage, h, first)
<1> DEFINE p == Reply(kind, TRUE, 0)
<1>1. p \in Unit /\ p.kind = kind
  BY ReplyType, ZeroId DEF Kinds, Reply
<1> HIDE DEF p
<1> SUFFICES ASSUME NEW k2, k2 = Owe(k, p), stage # "none" PROVE Sound(k2, stage, h, first)
  BY DEF p, Sound
<1>2. /\ k2.st = k.st /\ k2.rx = k.rx /\ k2.fin = k.fin /\ k2.broker = k.broker
      /\ k2.phase = k.phase /\ k2.owed = k.owed \o Packet(p)
  BY DEF Owe, SlotType
<1>3. CASE k.phase # "in"
  BY <1>2, <1>3 DEF Sound
<1>4. CASE k.phase = "in"
  <2> SUFFICES ASSUME NEW q, q = Stream(k), NEW r, r = Stream(k2) PROVE InOrder(k2, stage, h)
    BY <1>2 DEF Sound
  <2>1. Framed(q, h) /\ (k.fin \/ Complete(q, h)) /\ Fits(k, q, stage, h)
    BY <1>4 DEF Sound, InOrder
  <2>2. /\ OneMore(q, r, p)
        /\ Framed(r, h) /\ (k2.fin \/ Complete(r, h))
    BY <1>1, <1>2, <2>1, OweStream, Zenon
  <2>3. \A i \in 1 .. Len(r) : (i \in 1 .. Len(q) /\ r[i] = q[i]) \/ r[i].kind = kind
    BY <1>1, <2>2 DEF OneMore
  <2>4. stage \notin {"fresh", "login", "between"}
    BY <2>1 DEF Fits
  <2>5. Fits(k2, r, stage, h)
    BY <1>2, <2>1, <2>3, <2>4 DEF Fits
  <2> QED
    BY <2>2, <2>5 DEF InOrder
<1> QED
  BY <1>3, <1>4

\* A request that needs no reply leaves the stream alone; before CONNECT it ends
\* the session, in whatever stage that may be.
LEMMA QuietSound ==
  ASSUME NEW k \in SlotType, NEW stage, NEW h, NEW first, Sound(k, stage, h, first),
         NEW request \in {"PUBLISH", "PUBACK"}, NEW ok
  PROVE  Sound(Receives(k, request, ok, 0), stage, h, first)
<1>1. CASE k.broker = "none"
  <2> DEFINE k2 == [k EXCEPT !.broker = "bad"]
  <2>1. Receives(k, request, ok, 0) = k2
    BY <1>1 DEF Receives
  <2>2. /\ Stream(k2) = Stream(k) /\ k2.st = k.st /\ k2.fin = k.fin /\ k2.broker = "bad"
        /\ k2.phase = k.phase /\ k2.rx = k.rx
    BY DEF Stream, SlotType
  <2> HIDE DEF k2
  <2> QED
    BY <1>1, <2>1, <2>2 DEF Sound, InOrder, Fits
<1>2. CASE k.broker # "none"
  BY <1>2 DEF Receives
<1> QED
  BY <1>1, <1>2

\* PINGREQ on a connection that serves.
LEMMA PingSent ==
  ASSUME NEW k \in SlotType, NEW first, Sound(k, "serve", Rest, first), NEW ok
  PROVE  Sound(Receives(k, "PINGREQ", ok, 0), "serve", Rest, first)
<1>1. CASE k.broker = "subscribed"
  <2>1. Receives(k, "PINGREQ", ok, 0) = Owe(k, Reply("PINGRESP", TRUE, 0))
    BY <1>1 DEF Receives
  <2> QED
    BY <1>1, <2>1, OweSound
<1>2. CASE k.broker # "subscribed"
  <2> SUFFICES ASSUME NEW k2, k2.st = k.st, k2.rx = k.rx, k2.fin = k.fin, k2.phase = k.phase
               PROVE  Sound(k2, "serve", Rest, first)
    BY ReceivesKeeps
  <2>2. first /\ k.fin /\ k.rx = <<>> /\ k.st = "up" /\ k.phase # "out"
    BY <1>2 DEF Sound
  <2>3. Stream(k2) = <<>> /\ Len(Stream(k2)) = 0 /\ Rest.kind = "none"
    BY <2>2 DEF Stream, Rest, At
  <2>4. InOrder(k2, "serve", Rest)
    BY <2>2, <2>3 DEF InOrder, Framed, Fits
  <2> QED
    BY <2>2, <2>4 DEF Sound
<1> QED
  BY <1>1, <1>2

\* The next units arrive.
LEMMA DeliverSound ==
  ASSUME NEW k \in SlotType, ~k.fin, NEW n \in Nat, n <= Len(k.owed),
         NEW stage, NEW h, NEW first, Sound(k, stage, h, first)
  PROVE  Sound([k EXCEPT !.rx = @ \o SubSeq(k.owed, 1, n),
                         !.owed = SubSeq(@, n + 1, Len(@))], stage, h, first)
<1>1. k.rx \in Seq(Unit) /\ k.owed \in Seq(Unit) /\ Len(k.owed) \in Nat
  BY LenProperties DEF SlotType
<1> SUFFICES ASSUME NEW k2, k2 = [k EXCEPT !.rx = @ \o SubSeq(k.owed, 1, n),
                                          !.owed = SubSeq(@, n + 1, Len(@))]
             PROVE  Sound(k2, stage, h, first)
  OBVIOUS
<1>2. /\ k2.rx = k.rx \o SubSeq(k.owed, 1, n) /\ k2.owed = SubSeq(k.owed, n + 1, Len(k.owed))
      /\ k2.st = k.st /\ k2.broker = k.broker /\ k2.fin = k.fin /\ k2.phase = k.phase
  BY DEF SlotType
<1>3. SubSeq(k.owed, 1, n) \in Seq(Unit) /\ SubSeq(k.owed, n + 1, Len(k.owed)) \in Seq(Unit)
  BY <1>1
<1>4. SubSeq(k.owed, 1, n) \o SubSeq(k.owed, n + 1, Len(k.owed)) = k.owed
  <2>1. /\ 1 \in 1 .. Len(k.owed) + 1 /\ n \in 1 - 1 .. Len(k.owed)
        /\ Len(k.owed) \in n .. Len(k.owed)
    BY <1>1
  <2>2. SubSeq(k.owed, 1, n) \o SubSeq(k.owed, n + 1, Len(k.owed)) = SubSeq(k.owed, 1, Len(k.owed))
    BY <1>1, <2>1, ConcatAdjacentSubSeq
  <2> QED
    BY <1>1, <2>2, SubSeqFull
<1>5. Stream(k2) = Stream(k)
  <2> DEFINE a == SubSeq(k.owed, 1, n)
             b == SubSeq(k.owed, n + 1, Len(k.owed))
  <2>1. /\ a \in Seq(Unit) /\ b \in Seq(Unit) /\ k.rx \in Seq(Unit)
        /\ Joined(k.rx, a, k2.rx) /\ Joined(a, b, k.owed)
        /\ k2.owed = b /\ Joined(k.rx, k.owed, Stream(k))
    BY <1>1, <1>2, <1>3, <1>4, Zenon DEF Joined, Stream
  <2>2. Joined(k2.rx, b, Stream(k))
    <3> HIDE DEF a, b
    <3> QED
      BY <2>1, UnitsAssociative
  <2>3. Stream(k2) = k2.rx \o k2.owed /\ Stream(k) = k2.rx \o b
    BY <1>2, <2>2, Zenon DEF Stream, Joined
  <2> QED
    BY <2>1, <2>3, Zenon
<1> QED
  BY <1>2, <1>5, SoundSame

\* The broker closes: what has arrived stays.
LEMMA CutSound ==
  ASSUME NEW k \in SlotType, ~k.fin, NEW stage, NEW h, NEW first, Sound(k, stage, h, first)
  PROVE  Sound([k EXCEPT !.fin = TRUE, !.owed = <<>>], stage, h, first)
<1> SUFFICES ASSUME NEW k2, k2 = [k EXCEPT !.fin = TRUE, !.owed = <<>>], stage # "none",
                    NEW q, q = Stream(k), NEW r, r = Stream(k2)
             PROVE  Sound(k2, stage, h, first)
  BY DEF Sound
<1>1. /\ k2.rx = k.rx /\ k2.fin /\ k2.st = k.st /\ k2.broker = k.broker /\ k2.phase = k.phase
      /\ k.rx \in Seq(Unit) /\ k.owed \in Seq(Unit)
      /\ Len(k.rx) \in Nat /\ Len(k.owed) \in Nat
  BY LenProperties DEF SlotType
<1>2. r = k.rx /\ q = k.rx \o k.owed
  BY <1>1 DEF Stream
<1>3. /\ Len(r) \in Nat /\ Len(q) \in Nat /\ Len(r) <= Len(q)
      /\ \A i \in 1 .. Len(r) : r[i] = q[i] /\ i \in 1 .. Len(q)
  <2>1. /\ Len(q) = Len(r) + Len(k.owed)
        /\ \A i \in 1 .. Len(r) + Len(k.owed) :
             q[i] = IF i <= Len(r) THEN r[i] ELSE k.owed[i - Len(r)]
    <3>1. r \in Seq(Unit) /\ q = r \o k.owed
      BY <1>1, <1>2
    <3> QED
      BY <1>1, <3>1, ConcatProperties
  <2>2. Len(r) \in Nat
    BY <1>1, <1>2
  <2> QED
    BY <1>1, <2>1, <2>2
<1>4. CASE k.phase = "in"
  <2>1. Framed(q, h) /\ Fits(k, q, stage, h)
    BY <1>4 DEF Sound, InOrder
  <2>2. Framed(r, h)
    <3>1. ASSUME NEW i \in 1 .. Len(r) PROVE Before(r, h, i) = Before(q, h, i)
      <4>1. i = 1 \/ (i # 1 /\ i - 1 \in 1 .. Len(r))
        BY <1>3
      <4> QED
        BY <1>3, <4>1 DEF Before
    <3> QED
      BY <1>3, <2>1, <3>1 DEF Framed
  <2>3. q = <<>> => r = <<>>
    <3>1. q = <<>> => Len(q) = 0
      BY EmptySeq
    <3>2. Len(r) = 0 => r = <<>>
      BY <1>1, <1>2, EmptySeq
    <3> QED
      BY <1>3, <3>1, <3>2
  <2>5. Fits(k2, r, stage, h)
    BY <1>1, <1>3, <2>1, <2>3 DEF Fits
  <2> QED
    BY <1>1, <1>4, <2>2, <2>5 DEF Sound, InOrder
<1>5. CASE k.phase # "in"
  BY <1>1, <1>5 DEF Sound
<1> QED
  BY <1>4, <1>5

-----------------------------------------------------------------------------
(***************************************************************************)
(* The session.  As long as the test of mqtt_send on its unwritten curtick *)
(* never says that a PINGREQ is due, mqtt_send only publishes, and         *)
(* mqtt_thread alone opens, reads and closes the connection.               *)
(***************************************************************************)
SenderNeverDue == "mqtt_send" \in Threads => UnwrittenDue \subseteq {FALSE}

\* mqtt_send has written no curtick or has exchanged something.
SenderOut ==
  "mqtt_send" \in Threads =>
    /\ pc["mqtt_send"] \in {"queue", "keepalive"}
    /\ ~written["mqtt_send"] \/ ~idle["mqtt_send"]

Reading == {"head", "head_wait", "length", "length_wait", "body", "body_wait"}
Looping == {"loop", "select", "keepalive", "ping", "puback"}

\* The stage of the session of a task at label l that reads for w and is in a
\* call with descriptor f.
Stage(l, w, f) ==
  CASE l \in {"opened", "login"} \/ (l = "store" /\ f # NoSock) -> "fresh"
    [] l \in Reading /\ w = "CONNACK" -> "login"
    [] l \in {"subscribe", "subscribe_send"} -> "between"
    [] l \in Reading \cup {"select_reply"} /\ w = "SUBACK" -> "sub"
    [] \/ l \in Looping
       \/ l \in Reading \cup {"select_reply"} /\ w \in {"any", "PINGRESP"} -> "serve"
    [] OTHER -> "none"

\* What it took last.
Half(l, g) ==
  CASE l \in {"length", "length_wait"} -> At(g, 0)
    [] l \in {"body", "body_wait"} -> At(g, 1)
    [] OTHER -> Rest

\* Where a task is that alone works with descriptor s, of slot k, and its copy d.
Place(k, s, d, l, f, w, g, first) ==
  /\ l \notin {"queue", "hung"}
  /\ l = "socket" \/ (l = "store" /\ f = NoSock) => k.st = "free"
  /\ l = "connect" => (s \in Socks => k = [Free EXCEPT !.st = "new"])
  /\ l = "connecting" => f = s /\ k = [Free EXCEPT !.st = "connecting"]
  /\ l = "open_failed" => k.st \in {"free", "dead"}
  /\ l = "store" => f \in {NoSock, s}
  /\ Stage(l, w, f) # "none" => s \in Socks
  /\ l \in {"shutdown", "drain", "drain_wait", "close"} => s \in Socks /\ k.st \in {"up", "shut"}
  /\ l \in {"login", "subscribe", "subscribe_send", "select_reply"} \cup Reading \cup Looping => d = s
  /\ l \in {"head_wait", "length_wait", "body_wait", "subscribe_send", "select_reply"} => f = s
  /\ l = "select_reply" => w # "CONNACK"
  /\ l \in Looping => w = "any"
  /\ l \in PastHeader => g \in Kinds
  /\ l \in {"body", "body_wait"} /\ k.phase = "in" => g # "PINGRESP"
  /\ Sound(k, Stage(l, w, f), Half(l, g), first)

Conn == IF mysock \in Socks THEN sock[mysock] ELSE Free

\* Where mqtt_thread is.
ReaderPlace(t) == Place(Conn, mysock, MQTT_Socket, pc[t], fd[t], want[t], got[t], FirstSubscribe)

\* The inductive invariant behind the four properties below: one socket at most, in
\* the state mqtt_thread believes it to be in, with the stream of that stage.
Session ==
  /\ \A s \in Socks : sock[s].st # "free" => "mqtt_thread" \in Threads /\ s = mysock
  /\ NeverGarbled
  /\ "mqtt_thread" \in Threads => ReaderPlace("mqtt_thread")

SessionInv == Invariant /\ SenderOut /\ Session

LEMMA SessionInit == Init => SenderOut /\ Session
<1> SUFFICES ASSUME Init PROVE SenderOut /\ Session
  OBVIOUS
<1>1. 0 \in Socks
  BY MqttClientAssumption DEF Socks
<1>2. SenderOut
  BY DEF Init, SenderOut
<1>3. NeverGarbled /\ \A s \in Socks : sock[s].st = "free"
  BY DEF Init, NeverGarbled, Free
<1>4. ASSUME "mqtt_thread" \in Threads PROVE ReaderPlace("mqtt_thread")
  <2>1. pc["mqtt_thread"] = "socket" /\ Conn.st = "free"
    BY <1>1, <1>4 DEF Init, Conn, Free
  <2> QED
    BY <2>1 DEF ReaderPlace, Place, Stage, Half, Sound, Reading, Looping, PastHeader
<1> QED
  BY <1>2, <1>3, <1>4 DEF Session

-----------------------------------------------------------------------------
(* mqtt_thread opens a connection. *)

\* What mqtt_thread knows, as the steps below use it.
LEMMA ReaderTypes ==
  ASSUME SessionInv, "mqtt_thread" \in Threads
  PROVE  /\ sock \in [Socks -> SlotType]
         /\ pc \in [Threads -> Labels] /\ fd \in [Threads -> Descriptors]
         /\ want \in [Threads -> {"CONNACK", "SUBACK", "PINGRESP", "any"}]
         /\ got \in [Threads -> Kinds \cup {"none"}]
         /\ mysock \in Descriptors /\ NoSock \notin Socks
         /\ \A s \in Socks : sock[s].st # "free" => s = mysock
         /\ \A s \in Socks : sock[s].phase # "out"
         /\ Place(Conn, mysock, MQTT_Socket, pc["mqtt_thread"], fd["mqtt_thread"],
                  want["mqtt_thread"], got["mqtt_thread"], FirstSubscribe)
         /\ Conn \in SlotType
BY FreeType DEF SessionInv, Invariant, Types, Session, NeverGarbled, Conn, Socks, NoSock, ReaderPlace

LEMMA OpeningSession ==
  ASSUME SessionInv, NEW t \in Threads, t = "mqtt_thread",
         \/ Socket(t) \/ Connect(t) \/ Connected(t) \/ OpenFailed(t) \/ Opened(t) \/ Store(t)
  PROVE  Session'
<1>0. /\ sock \in [Socks -> SlotType]
      /\ pc \in [Threads -> Labels] /\ fd \in [Threads -> Descriptors]
      /\ mysock \in Descriptors /\ NoSock \notin Socks
      /\ \A s \in Socks : sock[s].st # "free" => s = mysock
      /\ \A s \in Socks : sock[s].phase # "out"
      /\ Place(Conn, mysock, MQTT_Socket, pc[t], fd[t], want[t], got[t], FirstSubscribe)
  BY ReaderTypes
<1>f. /\ Free.st = "free" /\ Free.phase = "in" /\ Stream(Free) = <<>> /\ Free.broker = "none"
      /\ \A st : /\ [Free EXCEPT !.st = st].st = st /\ [Free EXCEPT !.st = st].phase = "in"
                 /\ Stream([Free EXCEPT !.st = st]) = <<>>
                 /\ [Free EXCEPT !.st = st].broker = "none"
  BY DEF Free, Stream
<1>p. PacketID' = PacketID
  BY DEF Socket, Connect, Connected, OpenFailed, Opened, Store, shared
<1>q. FirstSubscribe' = FirstSubscribe
  BY <1>p DEF FirstSubscribe
<1>1. CASE Socket(t)
  <2>1. \A s \in Socks : sock[s].st = "free"
    BY <1>0, <1>1 DEF Socket, Place, Conn
  <2>2. pc'[t] = "connect"
    BY <1>0, <1>1 DEF Socket, Goto
  <2>3. CASE mysock' = NoSock /\ UNCHANGED sock
    <3>1. ReaderPlace(t)'
      BY <1>0, <2>2, <2>3 DEF ReaderPlace, Place, Stage, Half, Sound, Reading, Looping, PastHeader
    <3> QED
      BY <1>0, <2>1, <2>3, <3>1 DEF Session, NeverGarbled
  <2>4. ASSUME NEW s \in Socks, mysock' = s, sock' = [sock EXCEPT ![s] = [Free EXCEPT !.st = "new"]]
        PROVE  Session'
    <3>1. /\ sock'[s] = [Free EXCEPT !.st = "new"]
          /\ \A r \in Socks : r # s => sock'[r] = sock[r]
      BY <1>0, <2>4
    <3>2. ReaderPlace(t)'
      BY <2>2, <2>4, <3>1 DEF ReaderPlace, Place, Stage, Half, Sound, Conn, Reading, Looping, PastHeader
    <3> QED
      BY <1>0, <1>f, <2>1, <2>4, <3>1, <3>2 DEF Session, NeverGarbled
  <2> QED
    BY <1>1, <2>3, <2>4 DEF Socket
<1>2. CASE Connect(t)
  <2>0. mysock \in Socks => sock[mysock] = [Free EXCEPT !.st = "new"]
    <3>1. mysock \in Socks => Conn = [Free EXCEPT !.st = "new"]
      BY <1>0, <1>2 DEF Connect, Place
    <3> QED
      BY <3>1 DEF Conn
  <2>1. CASE mysock \in Socks
    <3>1. Used(mysock) /\ sock[mysock].st = "new"
      BY <1>f, <2>0, <2>1 DEF Used
    <3>2. /\ mysock' = mysock /\ sock' = [sock EXCEPT ![mysock].st = "connecting"]
          /\ Enter(t, mysock) /\ Goto(t, "connecting")
      BY <1>2, <3>1 DEF Connect
    <3>6. [[Free EXCEPT !.st = "new"] EXCEPT !.st = "connecting"] = [Free EXCEPT !.st = "connecting"]
      BY DEF Free
    <3>3. /\ sock'[mysock] = [Free EXCEPT !.st = "connecting"]
          /\ \A r \in Socks : r # mysock => sock'[r] = sock[r]
      BY <1>0, <2>0, <2>1, <3>2, <3>6
    <3>4. pc'[t] = "connecting" /\ fd'[t] = mysock
      BY <1>0, <3>2 DEF Goto, Enter
    <3>5. ReaderPlace(t)'
      BY <2>1, <3>2, <3>3, <3>4 DEF ReaderPlace, Place, Stage, Half, Sound, Conn, Reading, Looping, PastHeader
    <3> QED
      BY <1>0, <1>f, <2>1, <3>2, <3>3, <3>5 DEF Session, NeverGarbled
  <2>2. CASE mysock \notin Socks
    <3>2. sock' = sock /\ mysock' = mysock /\ pc'[t] = "open_failed"
      BY <1>0, <1>2, <2>2 DEF Connect, Goto, Used
    <3>3. ReaderPlace(t)'
      BY <1>f, <2>2, <3>2 DEF ReaderPlace, Place, Stage, Half, Sound, Conn, Reading, Looping, PastHeader
    <3> QED
      BY <1>0, <3>2, <3>3 DEF Session, NeverGarbled
  <2> QED
    BY <2>1, <2>2
<1>3. CASE Connected(t)
  <2>1. mysock \in Socks /\ fd[t] = mysock /\ sock[mysock] = [Free EXCEPT !.st = "connecting"]
    <3>1. fd[t] = mysock /\ Conn = [Free EXCEPT !.st = "connecting"]
      BY <1>0, <1>3 DEF Connected, Place
    <3> QED
      BY <1>f, <3>1 DEF Conn
  <2>2. PICK st \in {"up", "dead"} :
          /\ sock' = [sock EXCEPT ![mysock].st = st]
          /\ Goto(t, IF st = "up" THEN "opened" ELSE "open_failed")
    BY <1>3, <2>1 DEF Connected
  <2>3. /\ mysock' = mysock /\ sock'[mysock] = [Free EXCEPT !.st = st]
        /\ \A r \in Socks : r # mysock => sock'[r] = sock[r]
        /\ pc'[t] = IF st = "up" THEN "opened" ELSE "open_failed"
    BY <1>0, <1>3, <2>1, <2>2 DEF Connected, Goto, Free
  <2>4. \A first : st = "up" => Sound([Free EXCEPT !.st = st], "fresh", Rest, first)
    <3>1. Framed(<<>>, Rest) /\ Complete(<<>>, Rest)
      BY DEF Framed, Complete, Before, Final, Rest, At
    <3> QED
      BY <1>f, <3>1 DEF Sound, InOrder, Fits
  <2>5. ReaderPlace(t)'
    BY <1>f, <2>1, <2>3, <2>4 DEF ReaderPlace, Place, Stage, Half, Sound, Conn, Reading, Looping, PastHeader
  <2>6. sock'[mysock].phase # "out" /\ \A r \in Socks : sock'[r].st # "free" => r = mysock'
    BY <1>0, <1>f, <2>3
  <2> QED
    BY <1>0, <2>3, <2>5, <2>6 DEF Session, NeverGarbled
<1>4. CASE OpenFailed(t)
  <2>1. mysock' = mysock /\ \A s \in Socks : sock'[s].st = "free" /\ sock'[s].phase # "out"
    <3>1. mysock \in Socks => sock[mysock].st \in {"free", "dead"}
      BY <1>0, <1>4 DEF OpenFailed, Place, Conn
    <3> QED
      BY <1>0, <1>4, <1>f, <3>1 DEF OpenFailed, Close, Closable, Used
  <2>2. pc'[t] = "store" /\ fd'[t] = NoSock
    BY <1>0, <1>4 DEF OpenFailed, Close, Goto, Leave, Enter
  <2>3. Conn'.st = "free"
    BY <1>f, <2>1 DEF Conn
  <2>4. ReaderPlace(t)'
    BY <2>2, <2>3 DEF ReaderPlace, Place, Stage, Half, Sound, Reading, Looping, PastHeader
  <2> QED
    BY <2>1, <2>4 DEF Session, NeverGarbled
<1>5. CASE Opened(t)
  <2>1. mysock \in Socks /\ Sound(Conn, "fresh", Rest, FirstSubscribe)
    BY <1>0, <1>5 DEF Opened, Place, Stage, Half, Reading, Looping
  <2>2. /\ sock' = sock /\ mysock' = mysock /\ pc'[t] = "store" /\ fd'[t] = mysock
    BY <1>0, <1>5 DEF Opened, Goto, Enter, shared
  <2>3. Conn' = Conn
    BY <2>2 DEF Conn
  <2>4. ReaderPlace(t)'
    BY <1>0, <1>q, <2>1, <2>2, <2>3 DEF ReaderPlace, Place, Stage, Half, Reading, Looping, PastHeader
  <2> QED
    BY <1>0, <2>2, <2>4 DEF Session, NeverGarbled
<1>6. CASE Store(t)
  <2>1. /\ sock' = sock /\ mysock' = mysock /\ MQTT_Socket' = fd[t]
        /\ pc'[t] = IF fd[t] = NoSock THEN "socket" ELSE "login"
    BY <1>0, <1>6 DEF Store, Goto
  <2>2. Conn' = Conn
    BY <2>1 DEF Conn
  <2>3. IF fd[t] = NoSock THEN Conn.st = "free"
        ELSE fd[t] = mysock /\ mysock \in Socks /\ Sound(Conn, "fresh", Rest, FirstSubscribe)
    BY <1>0, <1>6 DEF Store, Place, Stage, Half, Reading, Looping
  <2>4. ReaderPlace(t)'
    <3>1. CASE fd[t] = NoSock
      BY <2>1, <2>2, <2>3, <3>1 DEF ReaderPlace, Place, Stage, Half, Sound, Reading, Looping, PastHeader
    <3>2. CASE fd[t] # NoSock
      BY <1>q, <2>1, <2>2, <2>3, <3>2 DEF ReaderPlace, Place, Stage, Half, Reading, Looping, PastHeader
    <3> QED
      BY <3>1, <3>2
  <2> QED
    BY <1>0, <2>1, <2>4 DEF Session, NeverGarbled
<1> QED
  BY <1>1, <1>2, <1>3, <1>4, <1>5, <1>6

-----------------------------------------------------------------------------
(* mqtt_thread uses the connection. *)

\* In a stage of the session the descriptor is open and the stream sound.
LEMMA AtConn ==
  ASSUME SessionInv, NEW t \in Threads, t = "mqtt_thread",
         Stage(pc[t], want[t], fd[t]) # "none"
  PROVE  /\ mysock \in Socks /\ Used(mysock) /\ CanWrite
         /\ sock[mysock] \in SlotType /\ sock[mysock].st = "up" /\ sock[mysock].phase # "out"
         /\ Sound(sock[mysock], Stage(pc[t], want[t], fd[t]), Half(pc[t], got[t]), FirstSubscribe)
<1>1. /\ sock \in [Socks -> SlotType]
      /\ \A s \in Socks : sock[s].phase # "out"
      /\ Place(Conn, mysock, MQTT_Socket, pc[t], fd[t], want[t], got[t], FirstSubscribe)
  BY ReaderTypes
<1>2. /\ mysock \in Socks
      /\ Sound(Conn, Stage(pc[t], want[t], fd[t]), Half(pc[t], got[t]), FirstSubscribe)
  BY <1>1 DEF Place
<1>3. Conn = sock[mysock]
  BY <1>2 DEF Conn
<1>4. sock[mysock].st = "up"
  BY <1>2, <1>3 DEF Sound
<1> QED
  BY <1>1, <1>2, <1>3, <1>4 DEF Used, CanWrite

\* The session goes on: the descriptors and the other slots stay.
LEMMA GoesOn ==
  ASSUME SessionInv, NEW t \in Threads, t = "mqtt_thread", mysock \in Socks,
         mysock' = mysock, MQTT_Socket' = MQTT_Socket,
         \A r \in Socks : r # mysock => sock'[r] = sock[r],
         sock'[mysock].phase # "out",
         Place(sock'[mysock], mysock, MQTT_Socket, pc'[t], fd'[t], want'[t], got'[t], FirstSubscribe')
  PROVE  Session'
<1>1. /\ \A s \in Socks : sock[s].st # "free" => s = mysock
      /\ \A s \in Socks : sock[s].phase # "out"
  BY ReaderTypes
<1>2. Conn' = sock'[mysock]
  BY DEF Conn
<1>3. ReaderPlace(t)'
  BY <1>2 DEF ReaderPlace
<1> QED
  BY <1>1, <1>3 DEF Session, NeverGarbled

\* The same, with the counter of SUBSCRIBE packets.
LEMMA GoesOnSame ==
  ASSUME SessionInv, NEW t \in Threads, t = "mqtt_thread", mysock \in Socks,
         mysock' = mysock, MQTT_Socket' = MQTT_Socket, PacketID' = PacketID,
         \A r \in Socks : r # mysock => sock'[r] = sock[r],
         sock'[mysock].phase # "out",
         Place(sock'[mysock], mysock, MQTT_Socket, pc'[t], fd'[t], want'[t], got'[t], FirstSubscribe)
  PROVE  Session'
<1>1. FirstSubscribe' = FirstSubscribe
  BY DEF FirstSubscribe
<1>2. Place(sock'[mysock], mysock, MQTT_Socket, pc'[t], fd'[t], want'[t], got'[t], FirstSubscribe')
  BY <1>1
<1> QED
  BY <1>2, GoesOn

\* A write changes the slot of mysock the way the broker takes the request.
LEMMA WriteSlot ==
  ASSUME Types, mysock \in Socks, NEW request, NEW id, Write(request, id)
  PROVE  /\ \/ sock'[mysock] = sock[mysock]
            \/ \E ok \in BOOLEAN : sock'[mysock] = Receives(sock[mysock], request, ok, id)
         /\ \A r \in Socks : r # mysock => sock'[r] = sock[r]
         /\ sock'[mysock].phase = sock[mysock].phase
<1>1. sock \in [Socks -> SlotType] /\ Refusals \subseteq BOOLEAN
  BY MqttClientAssumption DEF Types
<1>2. sock'[mysock].phase = sock[mysock].phase
  BY WriteKeeps
<1>3. \/ UNCHANGED sock
      \/ \E ok \in Refusals : sock' = [sock EXCEPT ![mysock] = Receives(@, request, ok, id)]
  BY DEF Write
<1> QED
  BY <1>1, <1>2, <1>3

LEMMA RequestSession ==
  ASSUME SessionInv, NEW t \in Threads, t = "mqtt_thread",
         \/ Login(t) \/ SubscribeId(t) \/ SubscribeSend(t) \/ KeepAlive(t) \/ Ping(t) \/ Puback(t)
  PROVE  Session'
<1> DEFINE k == sock[mysock]
           k2 == sock'[mysock]
           first == FirstSubscribe
<1>0. /\ Types /\ pc \in [Threads -> Labels] /\ fd \in [Threads -> Descriptors]
      /\ want \in [Threads -> {"CONNACK", "SUBACK", "PINGRESP", "any"}]
      /\ Place(Conn, mysock, MQTT_Socket, pc[t], fd[t], want[t], got[t], first)
  BY ReaderTypes DEF SessionInv, Invariant
<1> HIDE DEF first
<1>1. CASE Login(t)
  <2>0. pc[t] = "login"
    BY <1>1 DEF Login
  <2>1. Stage(pc[t], want[t], fd[t]) = "fresh" /\ Half(pc[t], got[t]) = Rest /\ pc[t] = "login"
    BY <2>0 DEF Stage, Half, Reading, Looping
  <2>2. /\ mysock \in Socks /\ k \in SlotType /\ k.phase # "out" /\ Sound(k, "fresh", Rest, first)
    BY <2>1, AtConn DEF first
  <2>3. MQTT_Socket = mysock
    BY <1>0, <2>1 DEF Place
  <2>4. /\ k2 = k \/ \E ok \in BOOLEAN : k2 = Receives(k, "CONNECT", ok, 0)
        /\ \A r \in Socks : r # mysock => sock'[r] = sock[r]
        /\ k2.phase = k.phase
    BY <1>0, <1>1, <2>2, WriteSlot DEF Login
  <2>5. Sound(k2, "login", Rest, first)
    BY <2>2, <2>4, LoginSound
  <2>6. /\ pc'[t] = "head" /\ want'[t] = "CONNACK"
        /\ mysock' = mysock /\ MQTT_Socket' = MQTT_Socket /\ PacketID' = PacketID
    BY <1>0, <1>1 DEF Login, Goto
  <2>7. Place(k2, mysock, MQTT_Socket, pc'[t], fd'[t], want'[t], got'[t], first)
    BY <2>2, <2>3, <2>5, <2>6 DEF Place, Stage, Half, Reading, Looping, PastHeader
  <2> QED
    BY <2>2, <2>4, <2>6, <2>7, GoesOnSame DEF first
<1>2. CASE SubscribeId(t)
  <2>0. pc[t] = "subscribe"
    BY <1>2 DEF SubscribeId
  <2>1. Stage(pc[t], want[t], fd[t]) = "between" /\ Half(pc[t], got[t]) = Rest /\ pc[t] = "subscribe"
    BY <2>0 DEF Stage, Half, Reading, Looping
  <2>2. /\ mysock \in Socks /\ k.phase # "out" /\ Sound(k, "between", Rest, first)
    BY <2>1, AtConn DEF first
  <2>3. MQTT_Socket = mysock
    BY <1>0, <2>1 DEF Place
  <2>4. /\ pc'[t] = "subscribe_send" /\ fd'[t] = mysock /\ sock' = sock
        /\ mysock' = mysock /\ MQTT_Socket' = MQTT_Socket /\ PacketID' = PacketID
    BY <1>0, <1>2, <2>3 DEF SubscribeId, Goto, Enter, shared
  <2>5. Place(k2, mysock, MQTT_Socket, pc'[t], fd'[t], want'[t], got'[t], first)
    BY <2>2, <2>3, <2>4 DEF Place, Stage, Half, Reading, Looping, PastHeader
  <2> QED
    BY <2>2, <2>4, <2>5, GoesOnSame DEF first
<1>3. CASE SubscribeSend(t)
  <2>0. pc[t] = "subscribe_send"
    BY <1>3 DEF SubscribeSend
  <2>1. Stage(pc[t], want[t], fd[t]) = "between" /\ Half(pc[t], got[t]) = Rest /\ pc[t] = "subscribe_send"
    BY <2>0 DEF Stage, Half, Reading, Looping
  <2>2. /\ mysock \in Socks /\ k \in SlotType /\ k.phase # "out"
        /\ Sound(k, "between", Rest, first) /\ CanWrite
    BY <2>1, AtConn DEF first
  <2>3. MQTT_Socket = mysock /\ fd[t] = mysock
    BY <1>0, <2>1 DEF Place
  <2>4. /\ k2 = k \/ \E ok \in BOOLEAN : k2 = Receives(k, "SUBSCRIBE", ok, subId[t] % IdMod)
        /\ \A r \in Socks : r # mysock => sock'[r] = sock[r]
        /\ k2.phase = k.phase
    BY <1>0, <1>3, <2>2, WriteSlot DEF SubscribeSend
  <2>5. Sound(k2, "sub", Rest, FirstSubscribe')
    <3>1. subId[t] % IdMod \in 0 .. IdMod - 1
      BY <1>0, MqttClientAssumption DEF Types
    <3> QED
      BY <2>2, <2>4, <3>1, SubscribeSound
  <2>6. /\ pc'[t] = "select_reply" /\ want'[t] = "SUBACK" /\ fd' = fd
        /\ mysock' = mysock /\ MQTT_Socket' = MQTT_Socket
    BY <1>0, <1>3, <2>2 DEF SubscribeSend, Goto
  <2>7. Place(k2, mysock, MQTT_Socket, pc'[t], fd'[t], want'[t], got'[t], FirstSubscribe')
    BY <2>2, <2>3, <2>5, <2>6 DEF Place, Stage, Half, Reading, Looping, PastHeader
  <2> QED
    BY <2>2, <2>4, <2>6, <2>7, GoesOn
<1>4. ASSUME pc[t] \in {"keepalive", "ping", "puback"}
      PROVE  /\ mysock \in Socks /\ k \in SlotType /\ k.phase # "out" /\ Sound(k, "serve", Rest, first)
             /\ MQTT_Socket = mysock /\ want[t] = "any"
  <2>1. Stage(pc[t], want[t], fd[t]) = "serve" /\ Half(pc[t], got[t]) = Rest
    BY <1>4 DEF Stage, Half, Reading, Looping
  <2>2. /\ mysock \in Socks /\ k \in SlotType /\ k.phase # "out" /\ Sound(k, "serve", Rest, first)
    BY <2>1, AtConn DEF first
  <2>4. MQTT_Socket = mysock /\ want[t] = "any"
    BY <1>0, <1>4 DEF Place, Looping
  <2> QED
    BY <2>2, <2>4
<1>5. CASE KeepAlive(t)
  <2>1. pc[t] = "keepalive"
    BY <1>5 DEF KeepAlive
  <2>2. /\ pc'[t] \in {"ping", "loop"} /\ want' = want /\ sock' = sock
        /\ mysock' = mysock /\ MQTT_Socket' = MQTT_Socket /\ PacketID' = PacketID
    BY <1>0, <1>5 DEF KeepAlive, Goto, Top, shared
  <2>3. Place(k2, mysock, MQTT_Socket, pc'[t], fd'[t], want'[t], got'[t], first)
    BY <1>4, <2>1, <2>2 DEF Place, Stage, Half, Reading, Looping, PastHeader
  <2> QED
    BY <1>4, <2>1, <2>2, <2>3, GoesOnSame DEF first
<1>6. CASE Ping(t)
  <2>1. pc[t] = "ping"
    BY <1>6 DEF Ping
  <2>2. /\ pc'[t] = "select_reply" /\ want'[t] = "PINGRESP" /\ fd'[t] = MQTT_Socket
        /\ mysock' = mysock /\ MQTT_Socket' = MQTT_Socket /\ PacketID' = PacketID
    BY <1>0, <1>6 DEF Ping, Goto, Enter
  <2>3. /\ k2 = k \/ \E ok \in BOOLEAN : k2 = Receives(k, "PINGREQ", ok, 0)
        /\ \A r \in Socks : r # mysock => sock'[r] = sock[r]
        /\ k2.phase = k.phase
    BY <1>0, <1>4, <1>6, <2>1, WriteSlot DEF Ping
  <2>4. Sound(k2, "serve", Rest, first)
    BY <1>4, <2>1, <2>3, PingSent
  <2>5. Place(k2, mysock, MQTT_Socket, pc'[t], fd'[t], want'[t], got'[t], first)
    BY <1>4, <2>1, <2>2, <2>4 DEF Place, Stage, Half, Reading, Looping, PastHeader
  <2> QED
    BY <1>4, <2>1, <2>2, <2>3, <2>5, GoesOnSame DEF first
<1>7. CASE Puback(t)
  <2>1. pc[t] = "puback"
    BY <1>7 DEF Puback
  <2>2. /\ pc'[t] = "keepalive" /\ want' = want
        /\ mysock' = mysock /\ MQTT_Socket' = MQTT_Socket /\ PacketID' = PacketID
    BY <1>0, <1>7 DEF Puback, Handled, Goto
  <2>3. /\ k2 = k \/ \E ok \in BOOLEAN : k2 = Receives(k, "PUBACK", ok, 0)
        /\ \A r \in Socks : r # mysock => sock'[r] = sock[r]
        /\ k2.phase = k.phase
    BY <1>0, <1>4, <1>7, <2>1, WriteSlot DEF Puback
  <2>4. Sound(k2, "serve", Rest, first)
    BY <1>4, <2>1, <2>3, QuietSound
  <2>5. Place(k2, mysock, MQTT_Socket, pc'[t], fd'[t], want'[t], got'[t], first)
    BY <1>4, <2>1, <2>2, <2>4 DEF Place, Stage, Half, Reading, Looping, PastHeader
  <2> QED
    BY <1>4, <2>1, <2>2, <2>3, <2>5, GoesOnSame DEF first
<1> QED
  BY <1>1, <1>2, <1>3, <1>5, <1>6, <1>7


-----------------------------------------------------------------------------
(* mqtt_thread reads a packet. *)

\* Where MQTTPacket_read returns to: the login is done with CONNACK, the
\* subscription with SUBACK, a packet on a serving connection handled; or the
\* connection is given up.
LEMMA ParsedPlace ==
  ASSUME Types, NEW t \in Threads, t = "mqtt_thread",
         NEW type, NEW ok, NEW id, Parsed(t, type, ok, id),
         NEW k, k.st = "up", NEW s \in Socks, NEW f, NEW first,
         want[t] = "CONNACK" /\ type = "CONNACK" /\ ok => Sound(k, "between", Rest, first),
         want[t] = "SUBACK" /\ SubackAccepted(type, ok, id) => Sound(k, "serve", Rest, first),
         want[t] \in {"any", "PINGRESP"} => Sound(k, "serve", Rest, first)
  PROVE  Place(k, s, s, pc'[t], f, want'[t], got'[t], first)
<1>0. /\ pc \in [Threads -> Labels] /\ want'[t] = "any" /\ got'[t] = "none"
      /\ want[t] \in {"CONNACK", "SUBACK", "PINGRESP", "any"}
  BY DEF Types, Parsed
<1>1. \/ pc'[t] = "shutdown"
      \/ pc'[t] = "subscribe" /\ Sound(k, "between", Rest, first)
      \/ pc'[t] \in {"keepalive", "puback", "loop"} /\ Sound(k, "serve", Rest, first)
  <2>1. CASE want[t] = "CONNACK"
    <3>1. Goto(t, IF type = "CONNACK" /\ ok THEN "subscribe" ELSE "shutdown")
      BY <2>1 DEF Parsed
    <3> QED
      BY <1>0, <2>1, <3>1 DEF Goto
  <2>2. CASE want[t] = "SUBACK"
    <3>1. IF SubackAccepted(type, ok, id) THEN Ready(t) ELSE Goto(t, "shutdown")
      BY <2>2 DEF Parsed
    <3> QED
      BY <1>0, <2>2, <3>1 DEF Goto, Ready, Top
  <2>3. CASE want[t] = "PINGRESP"
    <3>1. Goto(t, Top(t)) \/ Goto(t, "shutdown")
      BY <2>3 DEF Parsed
    <3> QED
      BY <1>0, <2>3, <3>1 DEF Goto, Top
  <2>4. CASE want[t] = "any"
    <3>1. Goto(t, "keepalive") \/ Goto(t, "puback")
      BY <2>4 DEF Parsed, Handled
    <3> QED
      BY <1>0, <2>4, <3>1 DEF Goto
  <2> QED
    BY <1>0, <2>1, <2>2, <2>3, <2>4
<1>2. CASE pc'[t] = "shutdown"
  BY <1>0, <1>2 DEF Place, Stage, Half, Sound, Reading, Looping, PastHeader
<1>3. CASE pc'[t] = "subscribe" /\ Sound(k, "between", Rest, first)
  BY <1>0, <1>3 DEF Place, Stage, Half, Reading, Looping, PastHeader
<1>4. CASE pc'[t] \in {"keepalive", "puback", "loop"} /\ Sound(k, "serve", Rest, first)
  BY <1>0, <1>4 DEF Place, Stage, Half, Reading, Looping, PastHeader
<1> QED
  BY <1>1, <1>2, <1>3, <1>4

\* What mqtt_thread knows inside MQTTPacket_read, in the stage of its session.
InRead(t, stage) ==
  /\ stage \in {"login", "sub", "serve"}
  /\ stage = "login" <=> want[t] = "CONNACK"
  /\ stage = "sub" <=> want[t] = "SUBACK"
  /\ stage = "serve" <=> want[t] \in {"any", "PINGRESP"}
  /\ mysock \in Socks /\ Used(mysock) /\ MQTT_Socket = mysock
  /\ sock[mysock] \in SlotType /\ sock[mysock].st = "up" /\ sock[mysock].phase # "out"
  /\ pc[t] \in {"head_wait", "length_wait", "body_wait"} => fd[t] = mysock
  /\ pc[t] \in PastHeader => got[t] \in Kinds
  /\ pc[t] \in {"body", "body_wait"} /\ sock[mysock].phase = "in" => got[t] # "PINGRESP"
  /\ Sound(sock[mysock], stage, Half(pc[t], got[t]), FirstSubscribe)
  /\ \A l, f : l \in Reading => Stage(l, want[t], f) = stage

LEMMA AtRead ==
  ASSUME SessionInv, NEW t \in Threads, t = "mqtt_thread", pc[t] \in Reading
  PROVE  \E stage : InRead(t, stage)
<1>1. /\ want[t] \in {"CONNACK", "SUBACK", "PINGRESP", "any"}
      /\ Place(Conn, mysock, MQTT_Socket, pc[t], fd[t], want[t], got[t], FirstSubscribe)
  BY ReaderTypes
<1>2. PICK stage \in {"login", "sub", "serve"} :
         /\ stage = Stage(pc[t], want[t], fd[t])
         /\ stage = "login" <=> want[t] = "CONNACK"
         /\ stage = "sub" <=> want[t] = "SUBACK"
         /\ stage = "serve" <=> want[t] \in {"any", "PINGRESP"}
         /\ \A l, f : l \in Reading => Stage(l, want[t], f) = stage
  <2> DEFINE stage == CASE want[t] = "CONNACK" -> "login"
                        [] want[t] = "SUBACK" -> "sub"
                        [] OTHER -> "serve"
  <2>1. \A l, f : l \in Reading => Stage(l, want[t], f) = stage
    BY <1>1 DEF Stage, Reading, Looping
  <2>2. Stage(pc[t], want[t], fd[t]) = stage
    BY <2>1
  <2>3. /\ stage \in {"login", "sub", "serve"}
        /\ stage = "login" <=> want[t] = "CONNACK"
        /\ stage = "sub" <=> want[t] = "SUBACK"
        /\ stage = "serve" <=> want[t] \in {"any", "PINGRESP"}
    BY <1>1
  <2> HIDE DEF stage
  <2> QED
    BY <2>1, <2>2, <2>3
<1>3. /\ mysock \in Socks /\ Used(mysock)
      /\ sock[mysock] \in SlotType /\ sock[mysock].st = "up" /\ sock[mysock].phase # "out"
      /\ Sound(sock[mysock], stage, Half(pc[t], got[t]), FirstSubscribe)
  BY <1>2, AtConn
<1>4. Conn = sock[mysock]
  BY <1>3 DEF Conn
<1>5. /\ MQTT_Socket = mysock
      /\ pc[t] \in {"head_wait", "length_wait", "body_wait"} => fd[t] = mysock
      /\ pc[t] \in PastHeader => got[t] \in Kinds
      /\ pc[t] \in {"body", "body_wait"} /\ sock[mysock].phase = "in" => got[t] # "PINGRESP"
  BY <1>1, <1>4 DEF Place, Reading
<1> QED
  BY <1>2, <1>3, <1>5 DEF InRead

\* recv(mysock, ...) is called: the task waits on the connection of its session.
LEMMA CallSession ==
  ASSUME SessionInv, NEW t \in Threads, t = "mqtt_thread", Head1(t) \/ Length1(t) \/ Body1(t)
  PROVE  Session'
<1>0. pc \in [Threads -> Labels] /\ fd \in [Threads -> Descriptors]
  BY ReaderTypes
<1>1. /\ UNCHANGED shared
      /\ \/ pc[t] = "head" /\ Calls(t, "head_wait")
         \/ pc[t] = "length" /\ Calls(t, "length_wait")
         \/ pc[t] = "body" /\ Calls(t, "body_wait")
  BY CallForm
<1>2. PICK stage : InRead(t, stage)
  BY <1>1, AtRead DEF Reading
<1>3. PICK l \in {"head_wait", "length_wait", "body_wait"} :
        /\ Calls(t, l)
        /\ l = "head_wait" <=> pc[t] = "head"
        /\ l = "length_wait" <=> pc[t] = "length"
        /\ l = "body_wait" <=> pc[t] = "body"
        /\ pc[t] \in {"head", "length", "body"}
  BY <1>1
<1>4. Enter(t, mysock) /\ Goto(t, l) /\ UNCHANGED <<want, got>>
  BY <1>2, <1>3 DEF Calls, InRead
<1>5. /\ pc'[t] = l /\ fd'[t] = mysock /\ want'[t] = want[t] /\ got'[t] = got[t]
      /\ sock' = sock /\ mysock' = mysock /\ MQTT_Socket' = MQTT_Socket /\ PacketID' = PacketID
  BY <1>0, <1>1, <1>4 DEF Goto, Enter, shared
<1>6. Half(l, got[t]) = Half(pc[t], got[t])
  BY <1>3 DEF Half
<1>7. /\ Sound(sock[mysock], stage, Half(l, got[t]), FirstSubscribe)
      /\ Stage(l, want[t], mysock) = stage /\ sock[mysock].phase # "out"
      /\ MQTT_Socket = mysock /\ mysock \in Socks
  BY <1>2, <1>6 DEF InRead, Reading
<1>8. /\ l \in PastHeader => got[t] \in Kinds
      /\ l = "body_wait" /\ sock[mysock].phase = "in" => got[t] # "PINGRESP"
  BY <1>2, <1>3 DEF InRead, PastHeader
<1>9. Place(sock[mysock], mysock, mysock, l, mysock, want[t], got[t], FirstSubscribe)
  BY <1>7, <1>8 DEF Place, Reading, Looping
<1>10. Place(sock'[mysock], mysock, MQTT_Socket, pc'[t], fd'[t], want'[t], got'[t], FirstSubscribe)
  BY <1>5, <1>7, <1>9
<1> QED
  BY <1>5, <1>7, <1>10, GoesOnSame

\* The steps that return from recv have the following cases.  What stays the same:
Kept(k2) ==
  /\ mysock' = mysock /\ MQTT_Socket' = MQTT_Socket /\ PacketID' = PacketID
  /\ k2 = sock'[mysock] /\ \A r \in Socks : r # mysock => sock'[r] = sock[r]
  /\ k2.st = "up" /\ k2.broker = sock[mysock].broker

\* MQTTPacket_read is left, on a connection as sound as its caller needs.
LEMMA DoneSession ==
  ASSUME SessionInv, NEW t \in Threads, t = "mqtt_thread", NEW stage, InRead(t, stage),
         NEW k2, Kept(k2), k2.phase # "out",
         NEW type, NEW ok, NEW id, Parsed(t, type, ok, id),
         stage = "login" /\ type = "CONNACK" /\ ok => Sound(k2, "between", Rest, FirstSubscribe),
         stage = "sub" /\ SubackAccepted(type, ok, id) => Sound(k2, "serve", Rest, FirstSubscribe),
         stage = "serve" => Sound(k2, "serve", Rest, FirstSubscribe)
  PROVE  Session'
<1>0. Types
  BY DEF SessionInv, Invariant
<1>1. /\ want[t] = "CONNACK" /\ type = "CONNACK" /\ ok => Sound(k2, "between", Rest, FirstSubscribe)
      /\ want[t] = "SUBACK" /\ SubackAccepted(type, ok, id) => Sound(k2, "serve", Rest, FirstSubscribe)
      /\ want[t] \in {"any", "PINGRESP"} => Sound(k2, "serve", Rest, FirstSubscribe)
  BY DEF InRead
<1>2. mysock \in Socks /\ MQTT_Socket = mysock /\ k2.st = "up"
  BY DEF InRead, Kept
<1>3. Place(k2, mysock, mysock, pc'[t], fd'[t], want'[t], got'[t], FirstSubscribe)
  BY <1>0, <1>1, <1>2, ParsedPlace
<1>4. Place(sock'[mysock], mysock, MQTT_Socket, pc'[t], fd'[t], want'[t], got'[t], FirstSubscribe)
  BY <1>2, <1>3 DEF Kept
<1> QED
  BY <1>2, <1>4, GoesOnSame DEF Kept

\* MQTTPacket_read goes on with the length or the body of its packet.
LEMMA OnSession ==
  ASSUME SessionInv, NEW t \in Threads, t = "mqtt_thread", NEW stage, InRead(t, stage),
         NEW k2, Kept(k2), k2.phase # "out",
         NEW l \in {"length", "body"}, pc'[t] = l, want'[t] = want[t], got'[t] \in Kinds,
         l = "body" /\ k2.phase = "in" => got'[t] # "PINGRESP",
         Sound(k2, stage, Half(l, got'[t]), FirstSubscribe)
  PROVE  Session'
<1>1. mysock \in Socks /\ MQTT_Socket = mysock /\ Stage(l, want[t], fd'[t]) = stage
  BY DEF InRead, Reading
<1>2. Place(k2, mysock, mysock, l, fd'[t], want[t], got'[t], FirstSubscribe)
  BY <1>1 DEF Place, Reading, Looping
<1>3. Place(sock'[mysock], mysock, MQTT_Socket, pc'[t], fd'[t], want'[t], got'[t], FirstSubscribe)
  BY <1>1, <1>2 DEF Kept
<1> QED
  BY <1>1, <1>3, GoesOnSame DEF Kept

\* recv finds the end of the stream: the packet fails or passes for an empty one,
\* whose identifier is 0.
LEMMA EndSession ==
  ASSUME SessionInv, NEW t \in Threads, t = "mqtt_thread", NEW stage, InRead(t, stage),
         NEW k2, Kept(k2), k2 = sock[mysock], k2.rx = <<>>, k2.fin,
         NEW type, NEW ok, Parsed(t, type, ok, 0)
  PROVE  Session'
<1>1. /\ k2 \in SlotType /\ stage \in {"login", "sub", "serve"} /\ k2.phase # "out"
      /\ Sound(k2, stage, Half(pc[t], got[t]), FirstSubscribe)
  BY DEF InRead
<1>2. /\ stage = "login" => Sound(k2, "between", Rest, FirstSubscribe)
      /\ stage = "sub" /\ FirstSubscribe => Sound(k2, "serve", Rest, FirstSubscribe)
      /\ stage = "serve" => Sound(k2, "serve", Rest, FirstSubscribe)
  BY <1>1, EndSound
<1>3. SubackAccepted(type, ok, 0) => FirstSubscribe
  BY DEF SubackAccepted, FirstSubscribe
<1> QED
  BY <1>1, <1>2, <1>3, DoneSession

\* A serving connection whose reader has lost its place in the stream stays one.
LEMMA CutServes ==
  ASSUME NEW t, NEW stage, InRead(t, stage), sock[mysock].rx # <<>>,
         NEW k2, Kept(k2), k2.phase = "cut"
  PROVE  \A h : stage = "serve" => Sound(k2, "serve", h, FirstSubscribe)
<1>1. stage = "serve" => sock[mysock].broker = "subscribed"
  BY DEF InRead, Sound
<1> QED
  BY <1>1 DEF Sound, Kept

\* MQTTPacket_read is left without the rest of a body.
LEMMA CutSession ==
  ASSUME SessionInv, NEW t \in Threads, t = "mqtt_thread", NEW stage, InRead(t, stage),
         sock[mysock].rx # <<>>, NEW k2, Kept(k2), k2.phase = "cut",
         NEW type, NEW ok, NEW id, Parsed(t, type, ok, id),
         type = "fail" \/ stage = "serve"
  PROVE  Session'
<1>1. stage = "serve" => Sound(k2, "serve", Rest, FirstSubscribe)
  BY CutServes
<1>2. type = "fail" => ~SubackAccepted(type, ok, id)
  BY DEF SubackAccepted
<1> QED
  BY <1>1, <1>2, DoneSession

\* The next unit of a packet is in its place.
LEMMA TakeOn ==
  ASSUME SessionInv, NEW t \in Threads, t = "mqtt_thread", NEW stage, InRead(t, stage),
         sock[mysock].phase = "in", sock[mysock].rx # <<>>,
         NEW k2, Kept(k2), k2.phase = "in", Taken(sock[mysock], k2, 1),
         NEW l \in {"length", "body"}, NEW g \in Kinds,
         pc'[t] = l, want'[t] = want[t], got'[t] = g,
         l = "body" => g # "PINGRESP",
         Head(sock[mysock].rx).kind = g, Head(sock[mysock].rx).part = Half(l, g).part,
         Half(pc[t], got[t]).part \in Nat,
         Left(Half(l, g)) = Left(Half(pc[t], got[t])) - 1
  PROVE  Session'
<1> DEFINE k == sock[mysock]
           h == Half(pc[t], got[t])
<1>1. /\ k \in SlotType /\ stage \in {"login", "sub", "serve"}
      /\ Sound(k, stage, h, FirstSubscribe)
  BY DEF InRead
<1>2. InOrder(k, stage, h) /\ (stage = "serve" => k.broker = "subscribed")
  BY <1>1 DEF Sound
<1>3. Half(l, g).kind = g /\ g # "none"
  BY DEF Half, At, Kinds
<1>4. k.rx[1] = Head(k.rx)
  BY <1>1, EmptySeq DEF SlotType
<1>5. InOrder(k2, stage, Half(l, g))
  <2> SUFFICES ASSUME NEW h1, h1 = h, NEW h2, h2 = Half(l, g) PROVE InOrder(k2, stage, h2)
    OBVIOUS
  <2>1. h2.kind = k.rx[1].kind /\ h2.part = k.rx[1].part /\ h2.kind # "none"
    BY <1>3, <1>4
  <2>2. h1.part \in Nat /\ InOrder(k, stage, h1) /\ Left(h2) = Left(h1) - 1
    BY <1>2
  <2> QED
    BY <1>1, <2>1, <2>2, TakeOrder
<1>6. Sound(k2, stage, Half(l, g), FirstSubscribe)
  BY <1>1, <1>2, <1>5 DEF Sound, Kept
<1> QED
  BY <1>6, OnSession

\* k2 is k without the last n units of a packet, of which h was taken before.
LastTaken(k, stage, h, k2, n) ==
  /\ k \in SlotType /\ stage \in {"login", "sub", "serve"}
  /\ ~Final(h) /\ h.part \in Nat /\ InOrder(k, stage, h) /\ Taken(k, k2, n)
  /\ k.rx[n].part = LastPart(h.kind) /\ k.rx[n].kind = h.kind
  /\ n = LastPart(h.kind) - h.part

LEMMA LastTakenOrder ==
  ASSUME NEW k, NEW stage, NEW h, NEW k2, NEW n, LastTaken(k, stage, h, k2, n)
  PROVE  /\ stage = "login" /\ h.kind # "PINGRESP" => InOrder(k2, "between", Rest)
         /\ stage = "sub" /\ h.kind = "SUBACK" /\ Head(k.rx).ok =>
              k.broker = "subscribed" /\ InOrder(k2, "serve", Rest)
         /\ stage = "serve" => InOrder(k2, "serve", Rest)
<1> SUFFICES ASSUME NEW last, last = k.rx[n]
             PROVE  /\ stage = "login" /\ h.kind # "PINGRESP" => InOrder(k2, "between", Rest)
                    /\ stage = "sub" /\ h.kind = "SUBACK" /\ Head(k.rx).ok =>
                         k.broker = "subscribed" /\ InOrder(k2, "serve", Rest)
                    /\ stage = "serve" => InOrder(k2, "serve", Rest)
  OBVIOUS
<1>1. /\ k \in SlotType /\ stage \in {"login", "sub", "serve"}
      /\ ~Final(h) /\ h.part \in Nat /\ InOrder(k, stage, h) /\ Taken(k, k2, n)
      /\ last.part = LastPart(last.kind) /\ last.kind = h.kind
      /\ n = LastPart(h.kind) - h.part
  BY DEF LastTaken
<1> QED
  BY <1>1, TakeLast

\* The rest of a packet is in its place.
LEMMA TakeDone ==
  ASSUME SessionInv, NEW t \in Threads, t = "mqtt_thread", NEW stage, InRead(t, stage),
         pc[t] \in {"length_wait", "body_wait"},
         sock[mysock].phase = "in", sock[mysock].rx # <<>>,
         NEW n, n = LastPart(got[t]) - Half(pc[t], got[t]).part,
         NEW k2, Kept(k2), k2.phase = "in", Taken(sock[mysock], k2, n),
         ~Final(Half(pc[t], got[t])), Half(pc[t], got[t]).part \in Nat,
         sock[mysock].rx[n].kind = got[t], sock[mysock].rx[n].part = LastPart(got[t]),
         NEW ok, ok => Head(sock[mysock].rx).ok \/ got[t] = "PINGRESP",
         NEW id, Parsed(t, got[t], ok, id)
  PROVE  Session'
<1> DEFINE k == sock[mysock]
           h == Half(pc[t], got[t])
<1>1. /\ k \in SlotType /\ stage \in {"login", "sub", "serve"}
      /\ Sound(k, stage, h, FirstSubscribe)
  BY DEF InRead
<1>2. InOrder(k, stage, h) /\ (stage = "serve" => k.broker = "subscribed")
  BY <1>1 DEF Sound
<1>3. h.kind = got[t]
  BY DEF Half, At
<1>4. /\ stage = "login" /\ got[t] # "PINGRESP" => InOrder(k2, "between", Rest)
      /\ stage = "sub" /\ got[t] = "SUBACK" /\ Head(k.rx).ok =>
           k.broker = "subscribed" /\ InOrder(k2, "serve", Rest)
      /\ stage = "serve" => InOrder(k2, "serve", Rest)
  <2>1. LastTaken(k, stage, h, k2, n)
    BY <1>1, <1>2, <1>3 DEF LastTaken
  <2> QED
    BY <1>3, <2>1, LastTakenOrder
<1>5. stage = "login" /\ got[t] = "CONNACK" /\ ok => Sound(k2, "between", Rest, FirstSubscribe)
  BY <1>4 DEF Sound, Kept
<1>6. stage = "sub" /\ SubackAccepted(got[t], ok, id) => Sound(k2, "serve", Rest, FirstSubscribe)
  BY <1>4 DEF Sound, Kept, SubackAccepted
<1>7. stage = "serve" => Sound(k2, "serve", Rest, FirstSubscribe)
  BY <1>2, <1>4 DEF Sound, Kept
<1> QED
  BY <1>5, <1>6, <1>7, DoneSession

\* A body that has arrived ends with the last unit of its packet.
LEMMA TakeBody ==
  ASSUME NEW k \in SlotType, NEW stage \in {"login", "sub", "serve"},
         NEW g \in Kinds, g # "PINGRESP", InOrder(k, stage, At(g, 1)),
         LastPart(g) - 1 <= Len(k.rx)
  PROVE  /\ LastPart(g) - 1 \in 1 .. Len(k.rx)
         /\ k.rx[LastPart(g) - 1].kind = g /\ k.rx[LastPart(g) - 1].part = LastPart(g)
<1>1. LastPart(g) \in 2 .. 3
  BY Parts
<1>2. PICK n \in 1 .. 2 : n = LastPart(g) - 1
  BY <1>1
<1>3. k.rx \in Seq(Unit) /\ Len(k.rx) \in Nat /\ n \in 1 .. Len(k.rx)
  BY <1>2, LenProperties DEF SlotType
<1>4. Taken(k, [k EXCEPT !.rx = SubSeq(k.rx, n + 1, Len(k.rx))], n)
  BY <1>3 DEF Taken, SlotType
<1>5. \A i \in 1 .. n : i \in 1 .. Len(Stream(k)) /\ Stream(k)[i] = k.rx[i]
  <2>1. /\ Shorter(Stream(k), Stream([k EXCEPT !.rx = SubSeq(k.rx, n + 1, Len(k.rx))]), n)
        /\ \A i \in 1 .. n : Stream(k)[i] = k.rx[i]
    BY <1>3, <1>4, TakeUnits DEF Taken
  <2>2. n <= Len(Stream(k)) /\ Len(Stream(k)) \in Nat
    BY <2>1 DEF Shorter
  <2> QED
    BY <2>1, <2>2
<1>6. \A i \in 1 .. n : Follows(Before(Stream(k), At(g, 1), i), k.rx[i])
  BY <1>5 DEF InOrder, Framed
<1>7. k.rx[1].kind = g /\ k.rx[1].part = 2
  <2>1. Follows(At(g, 1), k.rx[1])
    BY <1>6, <1>3 DEF Before
  <2>2. ~Final(At(g, 1)) /\ At(g, 1).kind = g /\ At(g, 1).part = 1
    BY <1>1 DEF Final, At, Kinds
  <2> QED
    BY <2>1, <2>2 DEF Follows
<1>8. CASE n = 1
  BY <1>2, <1>3, <1>7, <1>8, <1>1
<1>9. CASE n = 2
  <2>1. Follows(k.rx[1], k.rx[2])
    <3>1. Before(Stream(k), At(g, 1), 2) = Stream(k)[1]
      BY DEF Before
    <3> QED
      BY <1>5, <1>6, <1>9, <3>1
  <2>2. ~Final(k.rx[1])
    <3>1. LastPart(g) = 3 /\ g # "none"
      BY <1>1, <1>2, <1>9 DEF Kinds
    <3> QED
      BY <1>7, <3>1 DEF Final
  <2>3. k.rx[2].kind = g /\ k.rx[2].part = 3
    BY <1>7, <2>1, <2>2 DEF Follows
  <2> QED
    BY <1>1, <1>2, <1>3, <1>9, <2>3
<1> QED
  BY <1>8, <1>9

\* What the ways of reading make of the slot.
LEMMA SlotRead ==
  ASSUME sock \in [Socks -> SlotType], NEW t, NEW stage, InRead(t, stage),
         UNCHANGED <<mysock, MQTT_Socket, PacketID>>
  PROVE  /\ sock' = sock => Kept(sock'[mysock]) /\ sock'[mysock] = sock[mysock]
         /\ \A n \in 1 .. Len(sock[mysock].rx) : Take(mysock, n) =>
              /\ Kept(sock'[mysock]) /\ sock'[mysock].phase = sock[mysock].phase
              /\ Taken(sock[mysock], sock'[mysock], n)
         /\ \A n : GiveUp(t, mysock, n) => Kept(sock'[mysock]) /\ sock'[mysock].phase = "cut"
         /\ \A most : sock[mysock].phase = "cut" /\ Stray(mysock, most) =>
              Kept(sock'[mysock]) /\ sock'[mysock].phase = "cut"
<1>1. mysock \in Socks /\ sock[mysock] \in SlotType /\ sock[mysock].st = "up"
  BY DEF InRead
<1>2. ASSUME NEW k2, sock' = [sock EXCEPT ![mysock] = k2], k2.st = sock[mysock].st,
             k2.broker = sock[mysock].broker
      PROVE  Kept(sock'[mysock]) /\ sock'[mysock] = k2
  BY <1>1, <1>2 DEF Kept
<1>3. sock' = sock => Kept(sock'[mysock])
  BY <1>1 DEF Kept
<1>4. ASSUME NEW n \in 1 .. Len(sock[mysock].rx), Take(mysock, n)
      PROVE  /\ Kept(sock'[mysock]) /\ sock'[mysock].phase = sock[mysock].phase
             /\ Taken(sock[mysock], sock'[mysock], n)
  <2> DEFINE k == sock[mysock]
             k2 == [k EXCEPT !.rx = SubSeq(k.rx, n + 1, Len(k.rx))]
  <2>1. sock' = [sock EXCEPT ![mysock] = k2]
    BY <1>4 DEF Take
  <2>2. /\ k2.st = k.st /\ k2.broker = k.broker /\ k2.phase = k.phase
        /\ k2.rx = SubSeq(k.rx, n + 1, Len(k.rx)) /\ k2.owed = k.owed /\ k2.fin = k.fin
    BY <1>1 DEF SlotType
  <2> HIDE DEF k2
  <2> QED
    BY <1>2, <2>1, <2>2 DEF Taken
<1>5. ASSUME NEW n, GiveUp(t, mysock, n) PROVE Kept(sock'[mysock]) /\ sock'[mysock].phase = "cut"
  <2> DEFINE k == sock[mysock]
             k2 == [k EXCEPT !.rx = SubSeq(k.rx, n + 1, Len(k.rx)), !.phase = "cut"]
  <2>1. sock' = [sock EXCEPT ![mysock] = k2]
    BY <1>5 DEF GiveUp
  <2>2. k2.st = k.st /\ k2.broker = k.broker /\ k2.phase = "cut"
    BY <1>1 DEF SlotType
  <2> HIDE DEF k2
  <2> QED
    BY <1>2, <2>1, <2>2
<1>6. ASSUME NEW most, sock[mysock].phase = "cut", Stray(mysock, most)
      PROVE  Kept(sock'[mysock]) /\ sock'[mysock].phase = "cut"
  <2> DEFINE k == sock[mysock]
             next(n) == [k EXCEPT !.rx = SubSeq(k.rx, n + 1, Len(k.rx)),
                                  !.phase = IF k.phase = "in" THEN "out" ELSE k.phase]
  <2>1. PICK n : sock' = [sock EXCEPT ![mysock] = next(n)]
    BY <1>6 DEF Stray
  <2>2. next(n).st = k.st /\ next(n).broker = k.broker /\ next(n).phase = "cut"
    BY <1>1, <1>6 DEF SlotType
  <2> HIDE DEF next
  <2> QED
    BY <1>2, <2>1, <2>2
<1> QED
  BY <1>3, <1>4, <1>5, <1>6

\* What mqtt_thread finds: the end of the stream, the unit it asks for, or something
\* else after a packet it gave up.
LEMMA ReadFinds ==
  ASSUME NEW t, NEW stage, InRead(t, stage), Readable(mysock)
  PROVE  LET k == sock[mysock]
             h == Half(pc[t], got[t])
         IN  \/ k.rx = <<>> /\ k.fin
             \/ k.rx # <<>> /\ k.phase = "cut" /\ stage = "serve"
             \/ k.rx # <<>> /\ k.phase = "in" /\ InOrder(k, stage, h) /\ Len(k.rx) >= 1
<1>1. /\ sock[mysock] \in SlotType /\ sock[mysock].st = "up" /\ sock[mysock].phase # "out"
      /\ Sound(sock[mysock], stage, Half(pc[t], got[t]), FirstSubscribe)
      /\ stage \in {"login", "sub", "serve"}
  BY DEF InRead
<1>2. sock[mysock].phase \in {"in", "cut"} /\ sock[mysock].rx \in Seq(Unit)
  BY <1>1 DEF SlotType
<1>3. sock[mysock].rx # <<>> => Len(sock[mysock].rx) >= 1
  BY <1>2, EmptySeq, LenProperties
<1> QED
  BY <1>1, <1>2, <1>3 DEF Readable, Sound

\* The places in a packet that the labels stand for.
LEMMA Halves ==
  ASSUME NEW g \in Kinds
  PROVE  /\ \A l \in {"head", "head_wait"} : Half(l, g) = Rest
         /\ \A l \in {"length", "length_wait"} : Half(l, g) = At(g, 0)
         /\ \A l \in {"body", "body_wait"} : Half(l, g) = At(g, 1)
         /\ Rest.part = 0 /\ Left(Rest) = LastPart("SUBACK") + 1
         /\ At(g, 0).part = 0 /\ At(g, 0).kind = g /\ ~Final(At(g, 0))
         /\ Left(At(g, 0)) = LastPart("SUBACK")
         /\ At(g, 1).part = 1 /\ At(g, 1).kind = g
         /\ g # "PINGRESP" => ~Final(At(g, 1)) /\ Left(At(g, 1)) = LastPart("SUBACK") - 1
<1>1. LastPart("SUBACK") \in 2 .. 3 /\ LastPart(g) \in 1 .. LastPart("SUBACK")
  BY Parts
<1>2. g # "PINGRESP" => LastPart(g) \in 2 .. 3
  BY Parts
<1>3. g # "none"
  BY DEF Kinds
<1> QED
  BY <1>1, <1>2, <1>3 DEF Half, Rest, At, Left, Final

LEMMA HeadSession ==
  ASSUME SessionInv, NEW t \in Threads, t = "mqtt_thread", HeadWait(t)
  PROVE  Session'
<1> DEFINE k == sock[mysock]
           k2 == sock'[mysock]
<1>0. /\ pc[t] = "head_wait" /\ UNCHANGED <<mysock, MQTT_Socket, PacketID>>
      /\ sock \in [Socks -> SlotType] /\ pc \in [Threads -> Labels]
      /\ got \in [Threads -> Kinds \cup {"none"}]
  BY ReaderTypes DEF HeadWait
<1>1. PICK stage : InRead(t, stage)
  BY <1>0, AtRead DEF Reading
<1>2. fd[t] = mysock /\ Readable(mysock) /\ stage \in {"login", "sub", "serve"} /\ k \in SlotType
  BY <1>0, <1>1 DEF HeadWait, InRead
<1>3. Half(pc[t], got[t]) = Rest
  BY <1>0 DEF Half
<1>4. CASE k.rx = <<>> /\ k.fin
  <2>1. Parsed(t, "fail", FALSE, 0) /\ sock' = sock
    BY <1>2, <1>4 DEF HeadWait
  <2> QED
    BY <1>0, <1>1, <1>4, <2>1, SlotRead, EndSession
<1>5. CASE k.rx # <<>> /\ k.phase = "cut" /\ stage = "serve"
  <2>1. /\ Stray(mysock, 1) /\ Goto(t, "length") /\ want' = want
        /\ \E type \in Kinds : got' = [got EXCEPT ![t] = type]
    BY <1>2, <1>5 DEF HeadWait, InPlace
  <2>2. Kept(k2) /\ k2.phase = "cut"
    BY <1>0, <1>1, <1>5, <2>1, SlotRead
  <2>3. pc'[t] = "length" /\ want'[t] = want[t] /\ got'[t] \in Kinds
    BY <1>0, <2>1 DEF Goto
  <2>4. Sound(k2, "serve", Half("length", got'[t]), FirstSubscribe)
    BY <1>1, <1>5, <2>2, CutServes
  <2> QED
    BY <1>1, <1>5, <2>2, <2>3, <2>4, OnSession
<1>6. CASE k.rx # <<>> /\ k.phase = "in" /\ InOrder(k, stage, Rest) /\ Len(k.rx) >= 1
  <2>1. Head(k.rx).part = 0 /\ Head(k.rx).kind \in Kinds
    BY <1>2, <1>6, TakeHead
  <2>2. /\ Take(mysock, 1) /\ Goto(t, "length") /\ want' = want
        /\ got' = [got EXCEPT ![t] = Head(k.rx).kind]
    BY <1>2, <1>6, <2>1 DEF HeadWait, InPlace
  <2>3. Kept(k2) /\ k2.phase = "in" /\ Taken(k, k2, 1)
    <3>1. 1 \in 1 .. Len(k.rx)
      BY <1>2, <1>6, LenProperties DEF SlotType
    <3> QED
      BY <1>0, <1>1, <1>6, <2>2, <3>1, SlotRead
  <2>4. pc'[t] = "length" /\ want'[t] = want[t] /\ got'[t] = Head(k.rx).kind
    BY <1>0, <2>2 DEF Goto
  <2>5. PICK g \in Kinds : g = Head(k.rx).kind
    BY <2>1
  <2>6. /\ Half("length", g).part = 0 /\ Half(pc[t], got[t]).part \in Nat
        /\ Left(Half("length", g)) = Left(Half(pc[t], got[t])) - 1
    BY <1>3, Halves, Parts
  <2>7. /\ got'[t] = g /\ Head(k.rx).kind = g /\ Head(k.rx).part = Half("length", g).part
    BY <2>1, <2>4, <2>5, <2>6
  <2> QED
    BY <1>1, <1>6, <2>3, <2>4, <2>6, <2>7, TakeOn
<1> QED
  BY <1>1, <1>2, <1>3, <1>4, <1>5, <1>6, ReadFinds

LEMMA LengthSession ==
  ASSUME SessionInv, NEW t \in Threads, t = "mqtt_thread", LengthWait(t)
  PROVE  Session'
<1> DEFINE k == sock[mysock]
           k2 == sock'[mysock]
           InBody == Goto(t, "body") /\ UNCHANGED <<want, got, subId, idle, written>>
<1>0. /\ pc[t] = "length_wait" /\ UNCHANGED <<mysock, MQTT_Socket, PacketID>>
      /\ sock \in [Socks -> SlotType] /\ pc \in [Threads -> Labels]
  BY ReaderTypes DEF LengthWait
<1>1. PICK stage : InRead(t, stage)
  BY <1>0, AtRead DEF Reading
<1>2. /\ fd[t] = mysock /\ Readable(mysock) /\ stage \in {"login", "sub", "serve"} /\ k \in SlotType
      /\ got[t] \in Kinds
  BY <1>0, <1>1 DEF LengthWait, InRead, PastHeader
<1>3. Half(pc[t], got[t]) = At(got[t], 0)
  BY <1>0 DEF Half
<1>4. CASE k.rx = <<>> /\ k.fin
  <2>1. sock' = sock /\ \E long : NoLength(t, long)
    BY <1>2, <1>4 DEF LengthWait, InPlace
  <2>2. \E type, ok : Parsed(t, type, ok, 0)
    BY <2>1 DEF NoLength, EmptyPacket
  <2> QED
    BY <1>0, <1>1, <1>4, <2>1, <2>2, SlotRead, EndSession
<1>5. CASE k.rx # <<>> /\ k.phase = "cut" /\ stage = "serve"
  <2>1. Stray(mysock, 1) /\ (InBody \/ Misparsed(t))
    BY <1>2, <1>5 DEF LengthWait, InPlace
  <2>2. Kept(k2) /\ k2.phase = "cut"
    BY <1>0, <1>1, <1>5, <2>1, SlotRead
  <2>3. CASE InBody
    <3>1. pc'[t] = "body" /\ want'[t] = want[t] /\ got'[t] \in Kinds
      BY <1>0, <1>2, <2>3 DEF Goto
    <3>2. Sound(k2, "serve", Half("body", got'[t]), FirstSubscribe)
      BY <1>1, <1>5, <2>2, CutServes
    <3> QED
      BY <1>1, <1>5, <2>2, <3>1, <3>2, OnSession
  <2>4. CASE Misparsed(t)
    <3>1. \E type, ok, id : Parsed(t, type, ok, id)
      BY <2>4 DEF Misparsed
    <3> QED
      BY <1>1, <1>5, <2>2, <3>1, CutSession
  <2> QED
    BY <2>1, <2>3, <2>4
<1>6. CASE k.rx # <<>> /\ k.phase = "in" /\ InOrder(k, stage, At(got[t], 0)) /\ Len(k.rx) >= 1
  <2>0. /\ At(got[t], 0).part = 0 /\ At(got[t], 0).kind = got[t] /\ ~Final(At(got[t], 0))
        /\ Left(At(got[t], 0)) = LastPart("SUBACK")
        /\ Half("body", got[t]) = At(got[t], 1) /\ At(got[t], 1).part = 1
        /\ got[t] # "PINGRESP" => Left(At(got[t], 1)) = LastPart("SUBACK") - 1
    BY <1>2, Halves
  <2>1. Head(k.rx).part = 1 /\ Head(k.rx).kind = got[t]
    <3> SUFFICES ASSUME NEW h, h = At(got[t], 0)
                 PROVE  Head(k.rx).part = 1 /\ Head(k.rx).kind = got[t]
      OBVIOUS
    <3>1. Head(k.rx).part = h.part + 1 /\ Head(k.rx).kind = h.kind
      BY <1>2, <1>6, <2>0, TakeNext
    <3> QED
      BY <2>0, <3>1
  <2>2. \/ Take(mysock, 1) /\ got[t] = "PINGRESP" /\ Parsed(t, got[t], TRUE, 0)
        \/ Take(mysock, 1) /\ got[t] # "PINGRESP" /\ InBody
        \/ GiveUp(t, mysock, 1)
    BY <1>2, <1>6, <2>1 DEF LengthWait, InPlace
  <2>3. 1 \in 1 .. Len(k.rx) /\ k.rx[1] = Head(k.rx)
    BY <1>2, <1>6, LenProperties DEF SlotType
  <2>4. Take(mysock, 1) => Kept(k2) /\ k2.phase = "in" /\ Taken(k, k2, 1)
    BY <1>0, <1>1, <1>6, <2>3, SlotRead
  <2>5. CASE Take(mysock, 1) /\ got[t] = "PINGRESP" /\ Parsed(t, got[t], TRUE, 0)
    <3>1. LastPart(got[t]) = 1
      BY <2>5, Parts DEF LastPart
    <3>2. 1 = LastPart(got[t]) - Half(pc[t], got[t]).part
      BY <1>3, <2>0, <3>1
    <3>3. k.rx[1].kind = got[t] /\ k.rx[1].part = LastPart(got[t])
      BY <2>1, <2>3, <3>1
    <3>4. ~Final(Half(pc[t], got[t])) /\ Half(pc[t], got[t]).part \in Nat
      BY <1>3, <2>0
    <3> QED
      BY <1>0, <1>1, <1>6, <2>4, <2>5, <3>2, <3>3, <3>4, TakeDone
  <2>6. CASE Take(mysock, 1) /\ got[t] # "PINGRESP" /\ InBody
    <3>1. pc'[t] = "body" /\ want'[t] = want[t] /\ got'[t] = got[t]
      BY <1>0, <2>6 DEF Goto
    <3>2. PICK g \in Kinds : g = got[t]
      BY <1>2
    <3>3. /\ g # "PINGRESP" /\ Head(k.rx).kind = g /\ Head(k.rx).part = Half("body", g).part
          /\ Half(pc[t], got[t]).part \in Nat
          /\ Left(Half("body", g)) = Left(Half(pc[t], got[t])) - 1
      BY <1>3, <2>0, <2>1, <2>6, <3>2
    <3>4. got'[t] = g
      BY <3>1, <3>2
    <3> QED
      BY <1>1, <1>6, <2>4, <2>6, <3>1, <3>3, <3>4, TakeOn
  <2>7. CASE GiveUp(t, mysock, 1)
    <3>1. Kept(k2) /\ k2.phase = "cut"
      BY <1>0, <1>1, <2>7, SlotRead
    <3>2. Parsed(t, "fail", FALSE, 0)
      BY <2>7 DEF GiveUp
    <3> QED
      BY <1>1, <1>6, <3>1, <3>2, CutSession
  <2> QED
    BY <2>2, <2>5, <2>6, <2>7
<1> QED
  BY <1>1, <1>2, <1>3, <1>4, <1>5, <1>6, ReadFinds

LEMMA BodySession ==
  ASSUME SessionInv, NEW t \in Threads, t = "mqtt_thread", BodyWait(t)
  PROVE  Session'
<1> DEFINE k == sock[mysock]
           k2 == sock'[mysock]
           n == LastPart(got[t]) - 1
<1>0. /\ pc[t] = "body_wait" /\ UNCHANGED <<mysock, MQTT_Socket, PacketID>>
      /\ sock \in [Socks -> SlotType]
  BY ReaderTypes DEF BodyWait
<1>1. PICK stage : InRead(t, stage)
  BY <1>0, AtRead DEF Reading
<1>2. /\ fd[t] = mysock /\ Readable(mysock) /\ stage \in {"login", "sub", "serve"} /\ k \in SlotType
      /\ got[t] \in Kinds /\ (k.phase = "in" => got[t] # "PINGRESP")
  BY <1>0, <1>1 DEF BodyWait, InRead, PastHeader
<1>3. Half(pc[t], got[t]) = At(got[t], 1)
  BY <1>0 DEF Half
<1>4. CASE k.rx = <<>> /\ k.fin
  <2>1. sock' = sock /\ Parsed(t, "fail", FALSE, 0)
    BY <1>2, <1>4 DEF BodyWait, InPlace
  <2> QED
    BY <1>0, <1>1, <1>4, <2>1, SlotRead, EndSession
<1>5. CASE k.rx # <<>> /\ k.phase = "cut" /\ stage = "serve"
  <2>1. Stray(mysock, Len(k.rx)) /\ Misparsed(t)
    BY <1>2, <1>5 DEF BodyWait, InPlace
  <2>2. Kept(k2) /\ k2.phase = "cut"
    BY <1>0, <1>1, <1>5, <2>1, SlotRead
  <2>3. \E type, ok, id : Parsed(t, type, ok, id)
    BY <2>1 DEF Misparsed
  <2> QED
    BY <1>1, <1>5, <2>2, <2>3, CutSession
<1>6. CASE k.rx # <<>> /\ k.phase = "in" /\ InOrder(k, stage, At(got[t], 1)) /\ Len(k.rx) >= 1
  <2>0. /\ At(got[t], 1).part = 1 /\ At(got[t], 1).kind = got[t] /\ ~Final(At(got[t], 1))
    BY <1>2, <1>6, Halves
  <2>1. Head(k.rx).part = 2 /\ Head(k.rx).kind = got[t]
    <3> SUFFICES ASSUME NEW h, h = At(got[t], 1)
                 PROVE  Head(k.rx).part = 2 /\ Head(k.rx).kind = got[t]
      OBVIOUS
    <3>1. Head(k.rx).part = h.part + 1 /\ Head(k.rx).kind = h.kind
      BY <1>2, <1>6, <2>0, TakeNext
    <3> QED
      BY <2>0, <3>1
  <2>2. \/ /\ Len(k.rx) >= n /\ Take(mysock, n)
           /\ Parsed(t, got[t], Head(k.rx).ok, Head(k.rx).id)
        \/ GiveUp(t, mysock, 1)
    BY <1>2, <1>6, <2>1 DEF BodyWait, InPlace
  <2>3. CASE /\ Len(k.rx) >= n /\ Take(mysock, n)
             /\ Parsed(t, got[t], Head(k.rx).ok, Head(k.rx).id)
    <3>1. n \in 1 .. Len(k.rx) /\ k.rx[n].kind = got[t] /\ k.rx[n].part = LastPart(got[t])
      <4>1. LastPart(got[t]) - 1 <= Len(k.rx)
        BY <1>2, <2>3, LenProperties, Parts DEF SlotType
      <4> QED
        BY <1>2, <1>6, <4>1, TakeBody
    <3>2. Kept(k2) /\ k2.phase = "in" /\ Taken(k, k2, n)
      BY <1>0, <1>1, <1>6, <2>3, <3>1, SlotRead
    <3>3. n = LastPart(got[t]) - Half(pc[t], got[t]).part
      BY <1>3, <2>0
    <3>4. ~Final(Half(pc[t], got[t])) /\ Half(pc[t], got[t]).part \in Nat
      BY <1>3, <2>0
    <3> QED
      BY <1>0, <1>1, <1>6, <2>3, <3>1, <3>2, <3>3, <3>4, TakeDone
  <2>4. CASE GiveUp(t, mysock, 1)
    <3>1. Kept(k2) /\ k2.phase = "cut"
      BY <1>0, <1>1, <2>4, SlotRead
    <3>2. Parsed(t, "fail", FALSE, 0)
      BY <2>4 DEF GiveUp
    <3> QED
      BY <1>1, <1>6, <3>1, <3>2, CutSession
  <2> QED
    BY <2>2, <2>3, <2>4
<1> QED
  BY <1>1, <1>2, <1>3, <1>4, <1>5, <1>6, ReadFinds

-----------------------------------------------------------------------------
(* mqtt_thread waits with select, and gives the connection up. *)

LEMMA WaitSession ==
  ASSUME SessionInv, NEW t \in Threads, t = "mqtt_thread",
         SelectReply(t) \/ LoopSelect(t) \/ LoopSelected(t)
  PROVE  Session'
<1>0. /\ Types /\ sock \in [Socks -> SlotType]
      /\ pc \in [Threads -> Labels] /\ fd \in [Threads -> Descriptors]
      /\ want[t] \in {"CONNACK", "SUBACK", "PINGRESP", "any"}
      /\ Place(Conn, mysock, MQTT_Socket, pc[t], fd[t], want[t], got[t], FirstSubscribe)
  BY ReaderTypes DEF SessionInv, Invariant
<1>1. /\ mysock' = mysock /\ MQTT_Socket' = MQTT_Socket /\ sock' = sock /\ PacketID' = PacketID
      /\ want' = want /\ got' = got
  BY DEF SelectReply, LoopSelect, LoopSelected, shared
<1>2. CASE SelectReply(t)
  <2>1. pc[t] = "select_reply" /\ want[t] # "CONNACK" /\ MQTT_Socket = mysock
    BY <1>0, <1>2 DEF SelectReply, Place
  <2>2. /\ Half(pc[t], got[t]) = Rest /\ Half("head", got[t]) = Rest
        /\ Stage(pc[t], want[t], fd[t]) # "none"
        /\ \A f : Stage("head", want[t], f) = Stage(pc[t], want[t], fd[t])
    BY <1>0, <2>1 DEF Half, Stage, Reading, Looping
  <2>3. /\ mysock \in Socks /\ sock[mysock].st = "up" /\ sock[mysock].phase # "out"
        /\ Sound(sock[mysock], Stage(pc[t], want[t], fd[t]), Rest, FirstSubscribe)
    BY <2>2, AtConn
  <2>4. CASE pc'[t] = "head"
    <3>1. Place(sock'[mysock], mysock, MQTT_Socket, pc'[t], fd'[t], want'[t], got'[t], FirstSubscribe)
      BY <1>1, <2>1, <2>2, <2>3, <2>4 DEF Place, Reading, Looping, PastHeader
    <3> QED
      BY <1>1, <2>3, <3>1, GoesOnSame
  <2>5. CASE pc'[t] = "shutdown"
    <3>1. Place(sock'[mysock], mysock, MQTT_Socket, pc'[t], fd'[t], want'[t], got'[t], FirstSubscribe)
      BY <1>1, <2>3, <2>5 DEF Place, Stage, Half, Sound, Reading, Looping, PastHeader
    <3> QED
      BY <1>1, <2>3, <3>1, GoesOnSame
  <2> QED
    BY <1>0, <1>2, <2>4, <2>5 DEF SelectReply, Goto
<1>3. CASE LoopSelect(t) \/ LoopSelected(t)
  <2>1. pc[t] \in {"loop", "select"} /\ want[t] = "any" /\ MQTT_Socket = mysock
    BY <1>0, <1>3 DEF LoopSelect, LoopSelected, Place, Looping
  <2>2. Half(pc[t], got[t]) = Rest /\ Stage(pc[t], want[t], fd[t]) = "serve"
    BY <2>1 DEF Half, Stage, Reading, Looping
  <2>3. /\ mysock \in Socks /\ sock[mysock].st = "up" /\ sock[mysock].phase # "out"
        /\ Sound(sock[mysock], "serve", Rest, FirstSubscribe)
    BY <2>2, AtConn
  <2>4. pc'[t] \in {"select", "head", "keepalive"}
    BY <1>0, <1>3 DEF LoopSelect, LoopSelected, Goto
  <2>5. Place(sock'[mysock], mysock, MQTT_Socket, pc'[t], fd'[t], want'[t], got'[t], FirstSubscribe)
    BY <1>1, <2>1, <2>3, <2>4 DEF Place, Stage, Half, Reading, Looping, PastHeader
  <2> QED
    BY <1>1, <2>3, <2>5, GoesOnSame
<1> QED
  BY <1>2, <1>3

LEMMA CloseSession ==
  ASSUME SessionInv, NEW t \in Threads, t = "mqtt_thread",
         Shutdown(t) \/ Drain(t) \/ DrainWait(t) \/ CloseSock(t)
  PROVE  Session'
<1>0. /\ Types /\ sock \in [Socks -> SlotType]
      /\ pc \in [Threads -> Labels] /\ fd \in [Threads -> Descriptors]
      /\ \A s \in Socks : sock[s].st # "free" => s = mysock
      /\ \A s \in Socks : sock[s].phase # "out"
      /\ Place(Conn, mysock, MQTT_Socket, pc[t], fd[t], want[t], got[t], FirstSubscribe)
  BY ReaderTypes DEF SessionInv, Invariant
<1>1. mysock' = mysock /\ MQTT_Socket' = MQTT_Socket /\ PacketID' = PacketID
  BY DEF Shutdown, Drain, DrainWait, CloseSock, shared
<1>2. mysock \in Socks /\ sock[mysock].st \in {"up", "shut"}
  <2>1. pc[t] \in {"shutdown", "drain", "drain_wait", "close"}
    BY DEF Shutdown, Drain, DrainWait, CloseSock
  <2>2. mysock \in Socks /\ Conn.st \in {"up", "shut"}
    BY <1>0, <2>1 DEF Place
  <2> QED
    BY <2>2 DEF Conn
\* What holds of a connection that is being given up.
<1>3. ASSUME pc'[t] \in {"drain", "drain_wait", "close"}, sock'[mysock].st \in {"up", "shut"},
             sock'[mysock].phase # "out", \A r \in Socks : r # mysock => sock'[r] = sock[r]
      PROVE  Session'
  <2>1. Place(sock'[mysock], mysock, MQTT_Socket, pc'[t], fd'[t], want'[t], got'[t], FirstSubscribe)
    BY <1>2, <1>3 DEF Place, Stage, Half, Sound, Reading, Looping, PastHeader
  <2> QED
    BY <1>1, <1>2, <1>3, <2>1, GoesOnSame
<1>4. CASE Shutdown(t)
  <2>1. pc'[t] = "drain"
    BY <1>0, <1>4 DEF Shutdown, Goto
  <2>2. /\ sock'[mysock].st \in {"up", "shut"} /\ sock'[mysock].phase # "out"
        /\ \A r \in Socks : r # mysock => sock'[r] = sock[r]
    BY <1>0, <1>2, <1>4 DEF Shutdown, SlotType
  <2> QED
    BY <1>3, <2>1, <2>2
<1>5. CASE Drain(t) \/ DrainWait(t)
  <2>1. pc'[t] \in {"drain_wait", "close"} /\ sock' = sock
    BY <1>0, <1>5 DEF Drain, DrainWait, Goto, shared
  <2> QED
    BY <1>0, <1>2, <1>3, <2>1
<1>6. CASE CloseSock(t)
  <2>1. Closable(mysock)
    BY <1>2 DEF Closable, Used
  <2>2. sock' = [sock EXCEPT ![mysock] = Free] /\ pc'[t] = "socket"
    BY <1>6, <2>1 DEF CloseSock, Close
  <2>3. \A s \in Socks : sock'[s].st = "free" /\ sock'[s].phase # "out"
    BY <1>0, <2>2 DEF Free
  <2>4. Conn'.st = "free"
    BY <1>1, <1>2, <2>3 DEF Conn
  <2>5. ReaderPlace(t)'
    BY <2>2, <2>4 DEF ReaderPlace, Place, Stage, Half, Sound, Reading, Looping, PastHeader
  <2> QED
    BY <2>3, <2>5 DEF Session, NeverGarbled
<1> QED
  BY <1>4, <1>5, <1>6

LEMMA ReaderStep ==
  ASSUME SessionInv, NEW t \in Threads, t = "mqtt_thread", Step(t)
  PROVE  Session'
<1>1. ~QueueTimeout(t) /\ ~Publish(t)
  <2>1. pc[t] # "queue"
    BY ReaderTypes DEF Place
  <2> QED
    BY <2>1 DEF QueueTimeout, Publish
<1> QED
  BY <1>1, OpeningSession, RequestSession, CallSession, HeadSession, LengthSession, BodySession,
     WaitSession, CloseSession DEF Step

-----------------------------------------------------------------------------
(* The other steps leave the session alone. *)

\* Slot s changes in a way that no stage of the session notices.
LEMMA SlotSession ==
  ASSUME SessionInv, NEW s \in Socks, sock[s].st \in {"up", "shut"},
         UNCHANGED <<mysock, MQTT_Socket, PacketID, fd, want, got>>,
         "mqtt_thread" \in Threads => pc'["mqtt_thread"] = pc["mqtt_thread"],
         \A r \in Socks : r # s => sock'[r] = sock[r],
         sock'[s].st = sock[s].st, sock'[s].phase = sock[s].phase,
         \A stage, h, first : Sound(sock[s], stage, h, first) => Sound(sock'[s], stage, h, first)
  PROVE  Session'
<1>1. "mqtt_thread" \in Threads /\ s = mysock
  BY DEF SessionInv, Session
<1> DEFINE t == "mqtt_thread"
<1>2. /\ \A r \in Socks : sock[r].phase # "out"
      /\ Place(Conn, mysock, MQTT_Socket, pc[t], fd[t], want[t], got[t], FirstSubscribe)
  BY <1>1, ReaderTypes
<1>3. Conn = sock[s] /\ mysock \in Socks
  BY <1>1 DEF Conn
<1>4. /\ sock[s] # [Free EXCEPT !.st = "new"]
      /\ sock[s] # [Free EXCEPT !.st = "connecting"]
  BY DEF Free
<1>5. Place(sock'[mysock], mysock, MQTT_Socket, pc'[t], fd'[t], want'[t], got'[t], FirstSubscribe)
  BY <1>1, <1>2, <1>3, <1>4 DEF Place
<1> QED
  BY <1>1, <1>2, <1>3, <1>5, GoesOnSame

LEMMA StaySession ==
  ASSUME Session, UNCHANGED <<sock, mysock, MQTT_Socket, PacketID, fd, want, got>>,
         "mqtt_thread" \in Threads => pc'["mqtt_thread"] = pc["mqtt_thread"]
  PROVE  Session'
BY DEF Session, NeverGarbled, Conn, ReaderPlace, FirstSubscribe

\* mqtt_send goes round its queue and its keep-alive test.
LEMMA SenderStep ==
  ASSUME SenderNeverDue, SessionInv, NEW t \in Threads, t = "mqtt_send", Step(t)
  PROVE  SenderOut' /\ Session'
<1>0. /\ pc \in [Threads -> Labels] /\ idle \in [Threads -> BOOLEAN]
      /\ written \in [Threads -> BOOLEAN]
      /\ sock \in [Socks -> SlotType] /\ Types
      /\ pc[t] \in {"queue", "keepalive"}
      /\ ~written[t] \/ ~idle[t]
  BY DEF SessionInv, Invariant, Types, SenderOut
<1>1. KeepAlive(t) \/ QueueTimeout(t) \/ Publish(t)
  BY <1>0 DEF Step, Socket, Connect, Connected, OpenFailed, Opened, Store, Login, SubscribeId,
              SubscribeSend, Ping, SelectReply, Head1, HeadWait, Length1, LengthWait, Body1, BodyWait,
              LoopSelect, LoopSelected, Puback, Shutdown, Drain, DrainWait, CloseSock
<1>2. "mqtt_thread" \in Threads => pc'["mqtt_thread"] = pc["mqtt_thread"]
  BY <1>0, <1>1 DEF KeepAlive, QueueTimeout, Publish, Goto
<1>3. UNCHANGED <<mysock, MQTT_Socket, PacketID, fd, want, got>>
  BY <1>1 DEF KeepAlive, QueueTimeout, Publish, shared, locals
<1>4. UNCHANGED sock => Session'
  BY <1>2, <1>3, StaySession DEF SessionInv
<1>5. CASE KeepAlive(t)
  <2>1. \E due \in Due(t) :
          /\ written' = IF due THEN [written EXCEPT ![t] = TRUE] ELSE written
          /\ Goto(t, IF due /\ idle[t] THEN "ping" ELSE Top(t))
    BY <1>5 DEF KeepAlive
  <2>2. ~written[t] => Due(t) \subseteq {FALSE}
    BY DEF Due, SenderNeverDue
  <2>3. idle' = idle /\ sock' = sock
    BY <1>5 DEF KeepAlive, shared
  <2>4. CASE ~written[t]
    <3>1. written' = written /\ Goto(t, "queue")
      BY <2>1, <2>2, <2>4 DEF Top
    <3> QED
      BY <1>0, <1>4, <2>3, <3>1 DEF SenderOut, Goto
  <2>5. CASE ~idle[t]
    <3>1. Goto(t, "queue")
      BY <2>1, <2>5 DEF Top
    <3> QED
      BY <1>0, <1>4, <2>3, <2>5, <3>1 DEF SenderOut, Goto
  <2> QED
    BY <1>0, <2>4, <2>5
<1>6. CASE QueueTimeout(t)
  BY <1>0, <1>4, <1>6 DEF QueueTimeout, Goto, shared, locals, SenderOut
<1>7. CASE Publish(t)
  <2>1. SenderOut'
    <3>1. pc'[t] = "keepalive"
      BY <1>0, <1>7 DEF Publish, Goto
    <3>2. ~written'[t] \/ ~idle'[t]
      BY <1>0, <1>7 DEF Publish
    <3> QED
      BY <3>1, <3>2 DEF SenderOut
  <2>2. CASE UNCHANGED sock
    BY <1>4, <2>1, <2>2
  <2>3. CASE ~UNCHANGED sock
    <3>1. PICK ok \in Refusals :
            CanWrite /\ sock' = [sock EXCEPT ![mysock] = Receives(@, "PUBLISH", ok, 0)]
      BY <1>7, <2>3 DEF Publish, Write
    <3>2. mysock \in Socks /\ sock[mysock].st = "up"
      BY <3>1 DEF CanWrite, Used
    <3>3. sock'[mysock] = Receives(sock[mysock], "PUBLISH", ok, 0)
      BY <1>0, <3>1, <3>2
    <3>4. /\ \A r \in Socks : r # mysock => sock'[r] = sock[r]
          /\ sock'[mysock].st = sock[mysock].st /\ sock'[mysock].phase = sock[mysock].phase
      BY <1>0, <3>1, <3>2, <3>3, ReceivesKeeps
    <3>5. \A stage, h, first : Sound(sock[mysock], stage, h, first) => Sound(sock'[mysock], stage, h, first)
      BY <1>0, <3>2, <3>3, QuietSound
    <3> QED
      BY <1>2, <1>3, <2>1, <3>2, <3>4, <3>5, SlotSession
  <2> QED
    BY <2>2, <2>3
<1> QED
  BY <1>1, <1>5, <1>6, <1>7

\* A task writes only its own curtick.
LEMMA TickApart ==
  ASSUME Types, InCall, NEW t \in Threads, Step(t)
  PROVE  \A u \in Threads \ {t} : written'[u] = written[u]
<1>0. /\ written \in [Threads -> BOOLEAN]
      /\ want[t] \in {"CONNACK", "SUBACK", "PINGRESP", "any"}
  BY DEF Types
<1> SUFFICES written' = written \/ written' = [written EXCEPT ![t] = TRUE]
  BY <1>0
<1>1. ASSUME NEW type, NEW ok, NEW id, Parsed(t, type, ok, id)
      PROVE  written' = written \/ written' = [written EXCEPT ![t] = TRUE]
  <2>1. CASE want[t] = "CONNACK"
    BY <1>1, <2>1 DEF Parsed
  <2>2. CASE want[t] = "SUBACK"
    BY <1>1, <2>2 DEF Parsed, Ready
  <2>3. CASE want[t] = "PINGRESP"
    BY <1>1, <2>3 DEF Parsed
  <2>4. CASE want[t] = "any"
    BY <1>1, <2>4 DEF Parsed, Handled
  <2> QED
    BY <1>0, <2>1, <2>2, <2>3, <2>4
<1>2. CASE Head1(t) \/ Length1(t) \/ Body1(t)
  BY <1>1, <1>2, CallForm DEF Calls
<1>3. CASE HeadWait(t) \/ LengthWait(t) \/ BodyWait(t)
  BY <1>1, <1>3, WaitForm DEF Returns
<1>4. CASE KeepAlive(t) \/ Puback(t) \/ Publish(t)
  BY <1>4 DEF KeepAlive, Puback, Publish, Handled
<1>5. CASE \/ Socket(t) \/ Connect(t) \/ Connected(t) \/ OpenFailed(t) \/ Opened(t) \/ Store(t)
           \/ Login(t) \/ SubscribeId(t) \/ SubscribeSend(t) \/ Ping(t) \/ SelectReply(t)
           \/ LoopSelect(t) \/ LoopSelected(t) \/ QueueTimeout(t)
           \/ Shutdown(t) \/ Drain(t) \/ DrainWait(t) \/ CloseSock(t)
  BY <1>5 DEF Socket, Connect, Connected, OpenFailed, Opened, Store, Login, SubscribeId,
              SubscribeSend, Ping, SelectReply, LoopSelect, LoopSelected, QueueTimeout,
              Shutdown, Drain, DrainWait, CloseSock, locals
<1> QED
  BY <1>2, <1>3, <1>4, <1>5 DEF Step

\* mqtt_thread moves mqtt_send nowhere.
LEMMA SenderStays ==
  ASSUME SessionInv, NEW t \in Threads, t # "mqtt_send", Step(t)
  PROVE  SenderOut'
<1> SUFFICES ASSUME "mqtt_send" \in Threads PROVE SenderOut'
  BY DEF SenderOut
<1>1. SenderSilent
  BY DEF SessionInv, SenderOut, SenderSilent
<1>2. /\ OthersStay(t) /\ idle'["mqtt_send"] = idle["mqtt_send"]
      /\ written'["mqtt_send"] = written["mqtt_send"]
  BY <1>1, StepApart, TickApart DEF Apart, SessionInv, Invariant
<1>3. pc'["mqtt_send"] = pc["mqtt_send"]
  BY <1>2 DEF OthersStay, Waits, SessionInv, SenderOut
<1> QED
  BY <1>2, <1>3 DEF SessionInv, SenderOut

LEMMA SurroundingsSession ==
  ASSUME SessionInv, NEW s \in Socks, Deliver(s) \/ BrokerPublish(s) \/ PeerClose(s)
  PROVE  SenderOut' /\ Session'
<1>0. sock \in [Socks -> SlotType] /\ sock[s] \in SlotType
  BY DEF SessionInv, Invariant, Types
<1>1. Open(s) /\ ~sock[s].fin /\ UNCHANGED <<mysock, MQTT_Socket, PacketID, pc, locals>>
  BY DEF Deliver, BrokerPublish, PeerClose, Open
<1>2. SenderOut'
  BY <1>1 DEF SenderOut, SessionInv, locals
<1>3. ASSUME NEW k, sock' = [sock EXCEPT ![s] = k], k.st = sock[s].st, k.phase = sock[s].phase,
             \A stage, h, first : Sound(sock[s], stage, h, first) => Sound(k, stage, h, first)
      PROVE  SenderOut' /\ Session'
  <2>1. /\ sock'[s] = k /\ \A r \in Socks : r # s => sock'[r] = sock[r]
        /\ sock[s].st \in {"up", "shut"}
    BY <1>0, <1>1, <1>3 DEF Open
  <2>2. Session'
    BY <1>1, <1>3, <2>1, SlotSession DEF locals
  <2> QED
    BY <1>2, <2>2
<1>4. CASE Deliver(s)
  <2> DEFINE next(n) == [sock[s] EXCEPT !.rx = @ \o SubSeq(sock[s].owed, 1, n),
                                        !.owed = SubSeq(@, n + 1, Len(@))]
  <2>1. PICK n \in Nat : n <= Len(sock[s].owed) /\ sock' = [sock EXCEPT ![s] = next(n)]
    <3> DEFINE n == IF Segmented THEN 1 ELSE LastPart(Head(sock[s].owed).kind) + 1
    <3>1. n \in Nat
      BY DEF LastPart
    <3>2. n <= Len(sock[s].owed) /\ sock' = [sock EXCEPT ![s] = next(n)]
      BY <1>4 DEF Deliver
    <3> QED
      BY <3>1, <3>2
  <2>2. /\ next(n).st = sock[s].st /\ next(n).phase = sock[s].phase
        /\ \A stage, h, first : Sound(sock[s], stage, h, first) => Sound(next(n), stage, h, first)
    BY <1>0, <1>1, <2>1, DeliverSound DEF SlotType
  <2> HIDE DEF next
  <2> QED
    BY <1>3, <2>1, <2>2
<1>5. CASE BrokerPublish(s)
  <2> DEFINE next == Owe(sock[s], Reply("PUBLISH", TRUE, 0))
  <2>1. sock' = [sock EXCEPT ![s] = next] /\ sock[s].broker = "subscribed"
    BY <1>0, <1>5 DEF BrokerPublish
  <2>2. next.st = sock[s].st /\ next.phase = sock[s].phase
    BY <1>0 DEF Owe, SlotType
  <2>3. \A stage, h, first : Sound(sock[s], stage, h, first) => Sound(next, stage, h, first)
    BY <1>0, <2>1, OweSound
  <2> HIDE DEF next
  <2> QED
    BY <1>3, <2>1, <2>2, <2>3
<1>6. CASE PeerClose(s)
  <2> DEFINE next == [sock[s] EXCEPT !.fin = TRUE, !.owed = <<>>]
  <2>1. sock' = [sock EXCEPT ![s] = next]
    BY <1>0, <1>6 DEF PeerClose
  <2>2. next.st = sock[s].st /\ next.phase = sock[s].phase
    BY <1>0 DEF SlotType
  <2>3. \A stage, h, first : Sound(sock[s], stage, h, first) => Sound(next, stage, h, first)
    BY <1>0, <1>1, CutSound
  <2> HIDE DEF next
  <2> QED
    BY <1>3, <2>1, <2>2, <2>3
<1> QED
  BY <1>4, <1>5, <1>6

LEMMA SessionStep ==
  ASSUME SenderNeverDue, SessionInv, [Next]_vars
  PROVE  SessionInv'
<1>1. Invariant'
  BY StepInvariant DEF SessionInv
<1>2. ASSUME NEW t \in Threads, Step(t) PROVE SenderOut' /\ Session'
  <2>1. t = "mqtt_thread" \/ t = "mqtt_send"
    BY MqttClientAssumption
  <2>2. CASE t = "mqtt_thread"
    <3>1. Step("mqtt_thread") /\ "mqtt_thread" \in Threads
      BY <1>2, <2>2
    <3>2. Session'
      BY <3>1, ReaderStep
    <3>3. SenderOut'
      BY <1>2, <2>2, SenderStays DEF SessionInv
    <3> QED
      BY <3>2, <3>3
  <2>3. CASE t = "mqtt_send"
    <3>1. Step("mqtt_send") /\ "mqtt_send" \in Threads
      BY <1>2, <2>3
    <3> QED
      BY <3>1, SenderStep
  <2> QED
    BY <2>1, <2>2, <2>3
<1>3. CASE UNCHANGED vars
  BY <1>1, <1>3, StaySession DEF SessionInv, SenderOut, vars, shared, locals
<1> QED
  BY <1>1, <1>2, <1>3, SurroundingsSession DEF Next, SessionInv

-----------------------------------------------------------------------------
(* What the session shows. *)

LEMMA SessionServes == SessionInv => ServesSubscription /\ NoSocketLeak /\ NeverGarbled
<1> SUFFICES ASSUME SessionInv PROVE ServesSubscription /\ NoSocketLeak /\ NeverGarbled
  OBVIOUS
<1>1. NoSocketLeak /\ NeverGarbled
  BY DEF SessionInv, Session, NoSocketLeak, Used
<1>2. ASSUME "mqtt_thread" \in Threads, Serving("mqtt_thread")
      PROVE  /\ MQTT_Socket = mysock /\ Used(mysock)
             /\ \/ sock[mysock].broker = "subscribed"
                \/ FirstSubscribe /\ sock[mysock].fin /\ sock[mysock].rx = <<>>
  <2> DEFINE t == "mqtt_thread"
  <2>1. /\ Place(Conn, mysock, MQTT_Socket, pc[t], fd[t], want[t], got[t], FirstSubscribe)
        /\ want[t] \in {"CONNACK", "SUBACK", "PINGRESP", "any"}
    BY <1>2, ReaderTypes
  <2>2. Stage(pc[t], want[t], fd[t]) = "serve"
    BY <1>2, <2>1 DEF Serving, Stage, Reading, Looping, PastHeader
  <2>3. /\ Used(mysock)
        /\ Sound(sock[mysock], "serve", Half(pc[t], got[t]), FirstSubscribe)
    BY <1>2, <2>2, AtConn
  <2>4. MQTT_Socket = mysock
    BY <1>2, <2>1 DEF Serving, Place, Reading, Looping, PastHeader
  <2> QED
    BY <2>3, <2>4 DEF Sound
<1> QED
  BY <1>1, <1>2 DEF ServesSubscription

\* A PINGRESP whose header is read is never the reason to give up.
LEMMA ReplyTaken ==
  ASSUME SessionInv, NEW t \in Threads, t = "mqtt_thread", want[t] = "PINGRESP",
         LengthWait(t) \/ BodyWait(t), pc'[t] = "shutdown"
  PROVE  got[t] = "PUBLISH" \/ sock[mysock].phase = "cut"
<1> SUFFICES ASSUME sock[mysock].phase # "cut", got[t] # "PUBLISH" PROVE FALSE
  OBVIOUS
<1> DEFINE k == sock[mysock]
<1>0. pc[t] \in {"length_wait", "body_wait"} /\ pc \in [Threads -> Labels]
  BY ReaderTypes DEF LengthWait, BodyWait
<1>1. PICK stage : InRead(t, stage)
  BY <1>0, AtRead DEF Reading
<1>2. /\ stage = "serve" /\ fd[t] = mysock /\ k \in SlotType /\ got[t] \in Kinds /\ k.phase = "in"
      /\ pc[t] = "body_wait" => got[t] # "PINGRESP"
      /\ InOrder(k, "serve", Half(pc[t], got[t]))
  <2>1. /\ stage = "serve" /\ fd[t] = mysock /\ k \in SlotType /\ got[t] \in Kinds /\ k.phase # "out"
        /\ pc[t] = "body_wait" /\ k.phase = "in" => got[t] # "PINGRESP"
        /\ Sound(k, stage, Half(pc[t], got[t]), FirstSubscribe)
    BY <1>0, <1>1 DEF InRead, PastHeader
  <2>2. k.phase = "in"
    BY <2>1 DEF SlotType
  <2> QED
    BY <2>1, <2>2 DEF Sound
<1>3. got[t] \in {"PUBLISH", "PINGRESP"}
  <2>1. Half(pc[t], got[t]).kind = got[t] /\ got[t] # "none"
    BY <1>0, <1>2 DEF Half, At, Kinds
  <2>2. Fits(k, Stream(k), "serve", Half(pc[t], got[t]))
    BY <1>2 DEF InOrder
  <2>3. Half(pc[t], got[t]).kind \in {"none", "PUBLISH", "PINGRESP"}
    BY <2>2 DEF Fits
  <2> QED
    BY <2>1, <2>3
<1>4. got[t] = "PINGRESP" /\ LengthWait(t)
  BY <1>0, <1>2, <1>3 DEF LengthWait, BodyWait
<1>5. pc[t] = "length_wait"
  BY <1>4 DEF LengthWait
<1>6. k.rx # <<>> => InPlace(k, 1, {got[t]})
  <2> SUFFICES ASSUME k.rx # <<>>, NEW h, h = At(got[t], 0) PROVE InPlace(k, 1, {got[t]})
    OBVIOUS
  <2>1. h.part = 0 /\ h.kind = got[t] /\ ~Final(h)
    BY <1>2, Halves
  <2>2. InOrder(k, "serve", h)
    BY <1>2, <1>5 DEF Half
  <2>3. Head(k.rx).part = h.part + 1 /\ Head(k.rx).kind = h.kind
    BY <1>2, <2>1, <2>2, TakeNext
  <2> QED
    BY <1>2, <2>1, <2>3 DEF InPlace
<1>7. \E ok, id : Parsed(t, "PINGRESP", ok, id)
  <2>1. CASE k.rx = <<>>
    <3>1. NoLength(t, FALSE)
      BY <1>2, <1>4, <2>1 DEF LengthWait, InPlace
    <3> QED
      BY <1>4, <3>1 DEF NoLength, EmptyPacket
  <2>2. CASE k.rx # <<>>
    BY <1>2, <1>4, <1>6, <2>2 DEF LengthWait
  <2> QED
    BY <2>1, <2>2
<1>8. Goto(t, "loop")
  BY <1>7 DEF Parsed, Top
<1> QED
  BY <1>0, <1>8 DEF Goto

\* The one step that gives a serving connection up, by what it found.
LEMMA PingLoses ==
  ASSUME SenderNeverDue, SessionInv, Next, NEW t \in Threads,
         want[t] = "PINGRESP", pc[t] # pc'[t], pc'[t] = "shutdown"
  PROVE  \/ pc[t] = "select_reply" /\ sock[mysock].rx = <<>>
         \/ pc[t] = "head_wait" /\ sock[fd[t]].fin
         \/ pc[t] \in {"length_wait", "body_wait"} /\ got[t] = "PUBLISH"
         \/ sock[mysock].phase = "cut"
<1>0. /\ pc \in [Threads -> Labels] /\ Types /\ InCall /\ sock \in [Socks -> SlotType]
  BY DEF SessionInv, Invariant, Types
<1>1. Step(t)
  <2>1. PICK u \in Threads : Step(u)
    BY DEF Next, Deliver, BrokerPublish, PeerClose
  <2>2. SenderSilent
    BY DEF SessionInv, SenderOut, SenderSilent
  <2>3. OthersStay(u)
    BY <1>0, <2>1, <2>2, StepApart DEF Apart
  <2> QED
    BY <2>1, <2>3 DEF OthersStay
<1>2. t = "mqtt_thread"
  <2>1. t # "mqtt_send"
    <3>1. ASSUME t = "mqtt_send" PROVE FALSE
      BY <1>1, <3>1, SenderStep DEF SenderOut
    <3> QED
      BY <3>1
  <2> QED
    BY <2>1, MqttClientAssumption
<1>4. CASE SelectReply(t)
  <2>1. pc[t] = "select_reply" /\ ~Selected(t)
    BY <1>0, <1>4 DEF SelectReply, SelectTimeout, Goto
  <2>2. Stage(pc[t], want[t], fd[t]) = "serve" /\ fd[t] = mysock
    BY <1>2, <2>1, ReaderTypes DEF Stage, Place, Reading, Looping
  <2>3. mysock \in Socks /\ fd[t] # NoSock
    <3>1. mysock \in Socks
      BY <1>2, <2>2, AtConn
    <3> QED
      BY <2>2, <3>1 DEF Socks, NoSock
  <2> QED
    BY <2>1, <2>2, <2>3 DEF Selected, Readable
<1>5. CASE Head1(t) \/ Length1(t) \/ Body1(t)
  <2>1. pc[t] \in Reading
    BY <1>5 DEF Head1, Length1, Body1, Reading
  <2>2. Used(mysock)
    BY <1>2, <2>1, AtRead DEF InRead
  <2>3. pc'[t] \in {"head_wait", "length_wait", "body_wait"}
    BY <1>0, <1>5, <2>2, CallForm DEF Calls, Goto
  <2> QED
    BY <2>3
<1>6. CASE HeadWait(t)
  <2>1. pc[t] = "head_wait" /\ Readable(fd[t])
    BY <1>6 DEF HeadWait
  <2>2. fd[t] = mysock /\ sock[mysock].st = "up"
    BY <1>2, <2>1, AtRead DEF InRead, Reading
  <2>3. sock[fd[t]].rx = <<>>
    BY <1>0, <1>6 DEF HeadWait, Goto
  <2> QED
    BY <2>1, <2>2, <2>3 DEF Readable
<1>7. CASE LengthWait(t) \/ BodyWait(t)
  <2>1. pc[t] \in {"length_wait", "body_wait"}
    BY <1>7 DEF LengthWait, BodyWait
  <2> QED
    BY <1>2, <1>7, <2>1, ReplyTaken
<1>8. CASE \/ Socket(t) \/ Connect(t) \/ Connected(t) \/ OpenFailed(t) \/ Opened(t) \/ Store(t)
           \/ Login(t) \/ SubscribeId(t) \/ KeepAlive(t) \/ Ping(t) \/ LoopSelect(t) \/ LoopSelected(t)
           \/ Puback(t) \/ QueueTimeout(t) \/ Publish(t)
           \/ Shutdown(t) \/ Drain(t) \/ DrainWait(t) \/ CloseSock(t)
  BY <1>0, <1>8 DEF Socket, Connect, Connected, OpenFailed, Opened, Store, Login, SubscribeId,
                    KeepAlive, Ping, LoopSelect, LoopSelected, Puback, Handled, QueueTimeout,
                    Publish, Shutdown, Drain, DrainWait, CloseSock, Close, Goto, Top
<1>9. CASE SubscribeSend(t)
  <2>1. pc[t] = "subscribe_send"
    BY <1>9 DEF SubscribeSend
  <2>2. Stage(pc[t], want[t], fd[t]) # "none"
    BY <2>1 DEF Stage, Reading, Looping
  <2>3. CanWrite
    BY <1>2, <2>2, AtConn
  <2> QED
    BY <1>0, <1>9, <2>3 DEF SubscribeSend, Goto
<1> QED
  BY <1>1, <1>4, <1>5, <1>6, <1>7, <1>8, <1>9 DEF Step

LEMMA SessionAlways ==
  ASSUME SenderNeverDue
  PROVE  Spec => []SessionInv
<1>1. Init => SessionInv
  BY InitInvariant, SessionInit DEF SessionInv
<1>2. SessionInv /\ [Next]_vars => SessionInv'
  BY SessionStep
<1> QED
  BY <1>1, <1>2, PTL DEF Spec

\* If the test of mqtt_send on its unwritten curtick never says that a PINGREQ is
\* due, so that mqtt_send only publishes, the broker holds a subscription on the
\* connection mqtt_thread serves, and mysock and MQTT_Socket both name it; or the
\* broker ended the stream within the SUBACK of the first SUBSCRIBE.  This holds for
\* any number of sockets and a broker that refuses, keeps silent, closes when it
\* likes, and sends packets in pieces that may end anywhere.
THEOREM OneSession ==
  ASSUME SenderNeverDue
  PROVE  Spec => []ServesSubscription
BY SessionAlways, SessionServes, PTL

\* Under the same condition the client holds at most one socket, the one mysock
\* names: transport_open and transport_close pair up on every path of
\* Client_Connect, the receiving loop and the keep-alive.
THEOREM OneSocket ==
  ASSUME SenderNeverDue
  PROVE  Spec => []NoSocketLeak
BY SessionAlways, SessionServes, PTL

\* Under the same condition a body given up with its rest unread
\* (MQTTPacket.c:307-309) is the only way mqtt_thread loses its place in the stream.
THEOREM InPhase ==
  ASSUME SenderNeverDue
  PROVE  Spec => []NeverGarbled
BY SessionAlways, SessionServes, PTL

\* Under the same condition the keep-alive of mqtt_thread gives a connection up only
\* at its end, after silence, for a PUBLISH that overtakes the PINGRESP, or once a
\* body given up before has put the reader out of phase; no reply to an earlier
\* request is left in the stream to be taken for the PINGRESP.
THEOREM PingSound ==
  ASSUME SenderNeverDue
  PROVE  Spec => PingLosesOnlyToPublish
<1>1. SessionInv /\ [Next]_vars =>
        [\A t \in Threads :
           want[t] = "PINGRESP" /\ pc[t] # pc'[t] /\ pc'[t] = "shutdown" =>
             \/ pc[t] = "select_reply" /\ sock[mysock].rx = <<>>
             \/ pc[t] = "head_wait" /\ sock[fd[t]].fin
             \/ pc[t] \in {"length_wait", "body_wait"} /\ got[t] = "PUBLISH"
             \/ sock[mysock].phase = "cut"]_vars
  BY PingLoses
<1> QED
  BY <1>1, SessionAlways, PTL DEF Spec, PingLosesOnlyToPublish
=============================================================================
