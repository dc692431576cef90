# TLA+ models of the STM32F407 FreeRTOS / lwIP / MQTT firmware

The repository is the firmware of an STM32F407 board: it reads a DHT11 sensor,
keeps an MQTT connection to a cloud broker over lwIP and its own Ethernet
driver, reads the time by NTP and drives an LVGL display, all as FreeRTOS
tasks. FreeRTOS 9, lwIP 2.1.3, LVGL 8.3, the ST HAL, CMSIS, the Paho packet
codec and cJSON are vendored. The project's own code, and what is modelled
here, is `src/User`, `src/MQTT/transport.c` and the vendored functions that
code depends on for its correctness.

Everything is written in plain TLA+, checked with TLC on small instances and,
in the `*Proofs` modules, proved with TLAPS for all values of the constants.

## 1. The system

### Tasks and interrupts

| task | prio | source | role |
|---|---|---|---|
| `mqtt_thread` | 1 | `User/mqttclient.c:610` | connects, logs in, subscribes, receives |
| `mqtt_send` | 1 | `User/mqttclient.c:692` | publishes readings; has its own keep-alive and reconnection |
| `DHT11_Task` | 2 | `User/main.c:199` | reads the sensor every 8 s, queues a pointer to the reading |
| `Test2_Task` | 3 | `User/main.c:234` | LVGL |
| `ETHIN` | 3 | `User/arch/ethernetif.c:486` | drains the receive ring into lwIP |
| tcpip thread | 3 | lwIP | the protocol stack |
| `NTP_init` | 4 | `User/NTP_NETCONN_udp/NTP_Task.c:183` | asks for the time |
| `ETH_IRQHandler` | - | `User/eth/bsp_eth.c:204` | wakes `ETHIN` |

The scheduler is preemptive with time slicing at 1 kHz. Tasks of one priority
interleave at any instruction; the model lets them interleave at every call
into lwIP and every access to a shared variable.

### Components, their state and what makes them correct

* **MQTT client** (`mqttclient.c`, `transport.c`). State: the descriptor
  `mysock` all transport functions use, its copy `MQTT_Socket`, the counter
  `PacketID`, and in each task `no_mqtt_msg_exchange` and `curtick`. Operations:
  open, CONNECT, SUBSCRIBE, PINGREQ, PUBLISH, PUBACK, read a packet, close.
  Hard: two tasks share the descriptor without a lock; some waits have no
  timeout; the keep-alive reply races a message. Correct when the client, while
  it serves, holds the subscription it believes it holds, on the connection it
  reads from; when reconnections leak nothing; when it always comes back.
* **lwIP sockets** (`LwIP/api/sockets.c`, `api_msg.c`). A table of four slots,
  lowest free slot first, `LWIP_NETCONN_FULLDUPLEX` off: closing a descriptor
  another task is blocked on strands that task, closing during a blocking
  connect is refused.
* **Ethernet receive path** (`ethernetif.c`, `bsp_eth.c`, `stm32f4xx_hal_eth.c`).
  State: the descriptor ring with its OWN/FS/LS bits, the HAL's position and
  segment count, `heth.Lock`, the receive flag, the counting semaphore, the
  tcpip mailbox. Hard: interrupts coalesce, the flag is cleared after the
  semaphore is given, the lock is released by an interrupt that did not take it,
  a drain can stop with frames left. Correct when no frame is left in the ring
  with nobody to look at it, frames stay in order, the ring's accounting is exact.
* **Ethernet transmit path** (`low_level_output`, `HAL_ETH_TransmitFrame`). State:
  the descriptors' OWN bits, `heth.TxDesc`, `heth.Lock`, the semaphore `ousem`,
  made by the first call. Hard: the descriptor is chosen before `ousem` is taken,
  an early exit signals an `ousem` it does not hold, the HAL's result is ignored,
  the DMA stops on underflow. Callers are kept apart by lwIP's core lock, but
  for `netif_set_up` at boot (`sys_arch.c:461-469`). Correct when one caller is
  in at a time, what is sent is what was copied, and nothing is left unsent.
* **Packet codec** (`MQTT/*.c`): packet length code, blocking and non-blocking
  packet readers, serialisers.
* **Sensor pipeline** (`main.c`, `bsp_dht11.c`): one global reading, two queues
  of four pointers, one of which nobody reads.
* **NTP** (`NTP_Task.c`): a UDP loop over lwIP's pool of two netbufs, with several
  error paths, and date arithmetic. Correct when every netbuf is in one place and
  the date is the one the answer told.
* **sys_arch** (`User/arch/sys_arch.c`) over `queue.c` and `tasks.c`: lwIP's
  semaphores and mailboxes. State: the queue's ring and count, its lock count,
  two event lists, the delayed lists, the pending ready list, the tick count. Hard:
  interrupts between looking at the queue and sleeping on it, time-outs that race
  a message, a tick count that wraps. Correct when it is a bounded FIFO in which
  nobody sleeps beside what he waits for.
* **Touch panel** (`gt9xx.c`, `lv_port_indev.c`): an interrupt that writes
  `is_pressed` and a point, a task that reads them without a lock.
* **cJSON_Process**, **boot** (`main`, `AppTaskCreate`, `TCPIP_Init`),
  **display, flash, LED and serial drivers**, and the **vendored libraries**
  themselves.

`PROJECT.json` lists every component with its status, and under `hazards` each
place where this code is hard to test, with the properties that watch it or the reason
why none does.

## 2. The modules

| module | models | uses |
|---|---|---|
| `MqttClient` | both MQTT tasks, `transport.c`, the socket table, the broker | - |
| `MqttClientProofs` | theorems about it | `MqttClient`, the library's facts on sequences and finite sets, TLAPS |
| `MCMqttClient` | instances for TLC | `MqttClient` |
| `EthRx` | DMA ring, interrupt, `ETHIN`, HAL lock, tcpip mailbox | - |
| `EthRxProofs` | theorems about it | `EthRx`, the library's facts on sequences, TLAPS |
| `MCEthRx` | instances for TLC | `EthRx` |
| `MqttBytes` | length byte, length field, packet size | - |
| `MqttLength` | the loops of `MQTTPacket_encode` and `MQTTPacket_decode` | `MqttBytes` |
| `MqttLengthProofs` | theorems about it | `MqttLength`, the library's facts on sequences and well-founded sets, TLAPS |
| `PacketSource` | abstract: each packet once, whole, in order | - |
| `MqttFraming` | `MQTTPacket_read`, `MQTTPacket_readnb` over a byte stream | `MqttBytes`, `PacketSource` |
| `MqttFramingProofs` | theorems about it | `MqttFraming`, the library's facts on sequences and well-founded sets, TLAPS |
| `SensorPipeline` | `DHT11_Task`, the driver, both queues, the publisher | - |
| `SensorPipelineProofs` | theorems about it | `SensorPipeline`, TLAPS |
| `EthTx` | `low_level_output`, `HAL_ETH_TransmitFrame`, transmit DMA | - |
| `EthTxProofs` | theorems about it | `EthTx`, TLAPS |
| `Mailbox` | abstract: a bounded FIFO with time-outs | - |
| `SysMbox` | mailboxes and semaphores down to FreeRTOS's queue and scheduler | `Mailbox` |
| `SysMboxProofs` | theorems about it | `SysMbox`, the library's facts on sequences and finite sets, TLAPS |
| `NtpClock` | `lwip_calc_date_time` | - |
| `NtpTask` | the NTP task, netbufs and their pool | `NtpClock` |
| `NtpTaskProofs` | theorems about both | `NtpTask`, TLAPS |
| `MCMqttLength`, `MCMqttFraming`, `MCSensorPipeline`, `MCEthTx`, `MCSysMbox`, `MCNtpTask` | instances for TLC | the above |

`MqttClient` takes a packet as a few units, header, length and a body in one or two
pieces, that arrive in any segments; `MqttFraming` looks at the same reader byte by
byte, with one connection and no other task. `SensorPipeline` takes up `mqtt_send` between receiving a
pointer and publishing, the part `MqttClient` abstracts to `Publish`. `EthRx` and
`EthTx` share `heth.Lock`: each has the other as the action that takes and frees
it. `SysMbox` is what the semaphores and mailboxes of all of these are made of,
which is why the others may take a semaphore as a counter and a mailbox as a
sequence.

Definitions whose name begins with `Mut` are deliberate faults: each is a
definition of the module changed as a plausible programming error would change
it. No specification uses them. They stand beside the original so that one can
see that the property named in `PROJECT.json` notices the difference.

### MqttClient

`sock` is lwIP's table; a slot has a state (`new`, `connecting`, `up`, `dead`,
`shut`), the units received and not read (`rx`), those the broker has under way
(`owed`), whether the peer has closed (`fin`) and what the broker knows of the
connection (`broker`). `pc[t]` is the place of task `t` in the code, `fd[t]` the
descriptor it passed to the call it is in, which is not re-read while it waits
even if `mysock` changes: that is where the races come from. `want[t]` tells
which caller of `MQTTPacket_read` it is in.

Each action is one call into lwIP, or one access to a shared variable, with
everything the code does up to the next: `Socket`, `Connect`, `Connected`,
`OpenFailed`, `Opened` are `transport_open`; `Store` is the assignment to
`MQTT_Socket`; `Login` and the `CONNACK` case of `Parsed` are `MQTT_Connect`;
`SubscribeId`, `SubscribeSend`, `SelectReply` and the `SUBACK` case are
`MQTTSubscribe`; `KeepAlive`, `Ping` and the `PINGRESP` case the keep-alive;
`Head1`, `HeadWait`, `Length1`, `LengthWait`, `Body1`, `BodyWait` are
`MQTTPacket_read` with its recv calls, `Parsed` what its caller makes of the result; `LoopSelect`, `LoopSelected`, `Puback` the loop of `mqtt_thread`;
`QueueTimeout`, `Publish` the loop of `mqtt_send`; `Shutdown`, `Drain`,
`DrainWait`, `CloseSock` are `transport_close`.

What the reader does with an incomplete packet is the code's. A stream that ends
before the length field gives an empty packet (`NoLength`, `EmptyPacket`): the result of
`MQTTPacket_decode` is ignored, and the deserialisers leave with a result that is no
error, the identifier 0 and the return code never written. A body of which recv has
only a part, or one too long for the buffer, is given up with the rest unread
(`GiveUp`, phase `cut`), and later reads take what they find there for anything
(`Stray`, `Misparsed`). Phase `out` is a reader that takes a unit of something else
without such a cause.

Abstractions. A body comes in one piece, or with `Segmented` in two whose boundary is
anywhere, and each unit arrives whenever TCP brings it; a length field of several bytes is
one unit, but for a stream that ends in it. `lwip_close` and `lwip_recv` act at one point
each. The store of `PacketID++` is joined with the write that follows it. Of `curtick` the
model keeps whether it has been written (`written`): if it has, the interval may or may
not be over at each test, if not, it compares as `UnwrittenDue` says. The 3 s pause
between connection attempts is not visible in the state. Incoming messages are QoS 1,
outgoing QoS 0, which is what the code subscribes and publishes with. With `Timely`
set, select does not time out while an answer is under way.

### EthRx

`desc` is the ring with the OWN, FS and LS bits and the number of the frame in
each descriptor; `dmaPos` is the DMA's position, `rxPos`, `fsPos` and
`segCount` are `heth.RxDesc`, `FSRxDesc` and `SegCount`. `rxFlag` is the DMA's
receive flag, `isr` whether the handler is between giving the semaphore and
clearing the flag. `pc` is the place of `ETHIN`: `wait` at the semaphore, `get`
before the first `low_level_input`, `input` with a pbuf in hand, `next` before
a further `low_level_input`, in a critical section. `tx[c]` is whether the
transmitter `c` is inside `HAL_ETH_TransmitFrame`: `core`, who has the core lock, or
`boot`, who calls without it (`sys_arch.c:461-469`). Here the two may meet at any time;
the semaphore that mostly keeps them apart is in `EthTx`. `drain` records how the last
drain ended. `halLock` is `heth.Lock`.

The DMA never waits for the processor. The interrupt runs to completion with
respect to tasks and is masked in critical sections (`TaskLevel`), and the DMA
may store a frame between its two steps. The poll demand after `RBUS` is left
out: the model's DMA looks at its descriptor again whenever it has a frame.
Frame contents are abstracted to the frame's number.

### MqttBytes, MqttLength

`Base` is 128 in the code and `Power` the weights of the digits; that each is `Base`
times the one before is an assumption that TLC evaluates. A length byte is a number below `2 * Base`: the digit
and the top bit. `EncodeByte` and `DecodeByte` are one turn of each loop,
`DecodeFails` its two early exits. A behaviour either encodes a length and
decodes what was written, or decodes a field of arbitrary bytes, which is what a
reader that has lost its place finds. `quotient` is a history of the encoder.
`PacketLen` is `MQTTPacket_len` with its bounds as they stand in the code.

### MqttFraming, PacketSource

`wire` holds, per packet, the bytes that have not arrived; `Arrive` moves any
first part of them to `rx`, what lwIP has for the socket. `pc`, `head`, `len`,
`value` and `body` are the reader's place and buffer: `ReadHead`, `ReadLength`,
`ReadBody` and `ReadBodyPart` are the calls of the `getfn`, `LengthFails` and
`BodyFails` its failures. `mode` is chosen at the start and says which reader
runs and what the transport may do. When a call fails in the middle of a packet
its caller calls again, as the loop of `mqtt_thread` does, and the next byte is
taken for a header. `PacketSource` is instantiated twice with a mapping that
shows it the behaviours of some modes only; in the others it sees nothing sent
and nothing read.

`MQTTPacket_readnb` is not called by the tasks; it is the vendored library's own
answer to partial bodies and is modelled for that comparison.

### SensorPipeline

A reading is its number; `data` says for each half of `DHT11_Data` which reading
it is from. The queues hold copies of one pointer, so they are counters.
`ReadTransfer` is a transfer inside the critical section, with the outcomes of
five calls of `DHT11_ReadByte`: any of them may be ended at once by its uninitialised
`count` (`Slips`), which puts the later bytes places late (`Places`), and from the byte
in which the line hangs, if it does, all are zeros. The two loads of `mqtt_send` are two steps, each of
one aligned double.

### EthTx

`pc[c]` is the place of caller `c` in `low_level_output`; the labels `hal`, `commit`,
`advance` and `poll` lie in `HAL_ETH_TransmitFrame`. The three reads before `ousem` are
three steps: the buffer (`Aim`), the descriptor (`Choose`) and its OWN bit (`Look`). The callers are `core`, who
holds the core lock, and `boot`, who at boot calls without it; `MayRun` is their
priorities, 3 against 1. `own`, `txDesc` and `dmaPos` are the ring, `dest` and `cur` the descriptors the
locals `buffer` and `DmaTxDesc` stand for. `buffer` and `meant` say whose part of a frame lies in a buffer and
whose it was handed over for; the histories `moved`, `stale` and `refused` mark
the two ways in which the guard fails. `Finish` and `Refuse` are the code after the
label `error`, reached with and without `ousem`. The DMA sends, or stops for
want of a frame or of data in time.

The frame is cut into buffers as the loop at line 250 does. With `NETIF_MTU` 1500 a
frame is never longer than one buffer, so the instance with two shows what the
code promises, not what happens on the board; both failures below need only one.

### Mailbox, SysMbox

`Mailbox` says what lwIP is promised: messages put and taken in order, a post
that fails only when full, a fetch that gives up only when there is nothing and
its time is over, and that calls which can be served are.

`SysMbox` is one queue with the tasks that call it. Each action is one critical
section of `queue.c` or `tasks.c`, or one call between two of them: `Send`, `Receive`,
`Refuse` and `Wait` are the first half of `xQueueGenericSend` and
`xQueueGenericReceive`; `SuspendAll`, `Lock`, `CheckForTimeOut`, `Test`, `Place`, `Unlock`,
`ResumeAll` the way to sleep; `Late` the look at the queue after the time has run
out. `SendFromISR` and `Tick` are interrupts and come between any two. A semaphore
is the same queue with messages nobody looks at: `Initial` is its first count.
`recvList` and `sendList` are the event lists by their members, `pendReady` the
pending ready list, `wake` a task's item in the delayed lists with the list it is
in, `entered` its `TimeOut_t` with the overflow count as far as it differs.
`waited` is a history: the ticks since the call.

The refinement shows `Mailbox` the content of the ring from `pcReadFrom`, and the
calls. Which of several tasks of one priority is woken first is left open.

### NtpClock, NtpTask

A free netbuf keeps the link of the free list in its first word, which is its
field `p` when in use; `word` is that word and `tab` the head, so that a netbuf
freed twice does to the list what it does in memory. `pc` is the place in `NTP_init`,
`wire` the answers under way, `recvmbox` the connection's mailbox. `fault` stands
for the ends that are none: a null pointer used, or the task function returning;
`nopbuf` is the one for want of a pbuf, with the netbuf already taken from the pool.
`Listed` says what it is for a sequence of netbufs to be the free list, and
`NetbufsAccounted` asks for one; it is false of a circle, which has no end.

`CalcDateTime` takes hours, since minutes and seconds are split off before and do
not meet the calendar. Its loops over years and months are read as what they look
for; the reference in `DateRight` is the Gregorian calendar by day numbers.

## 3. What TLC checks

| run | properties | instance |
|---|---|---|
| `client_steady` | `TypeOK`, `ServesSubscription`, `NoSocketLeak`, `NeverGarbled`, `PingLosesOnlyToPublish` | both tasks, 2 sockets, broker that refuses, is mute, closes; packets and bodies in pieces; failing connects; `mqtt_send` never due before its first success |
| `client_live` | `AlwaysServesAgain` | both tasks, 1 socket, broker that answers in time or not at all, packets and bodies in pieces |
| `client_race` | `SenderSilent`, `ConnectingOwned` | both tasks reconnecting, 2 sockets, never-written `curtick`, broker that answers in time |
| `EthRx_all` | `TypeOK`, `NoLostWakeup`, `DeafOnlyByLockOrSegments`, `RefusedOnlyByAnother`, `InOrder`, `RingWindow`, `EventuallyDrained` | two transmitters, ring of 3, semaphore maximum 2, mailbox of 2, frames of 1 or 2 segments, 6 frames |
| `EthTx_all` | `TypeOK`, `ExclusiveUnlessRefused`, `SentAsMeant`, `OkMeansSent`, `NothingStranded` | ring of 2, frames of 1 or 2 buffers, one frame from boot, any number from the stack |
| `mailbox` | `TypeOK`, `NoSleeperBesideWork`, `ImplementsMailbox` | queue of 2, two receivers and a sender of three priorities, waits of none, one tick and for ever, tick count modulo 3, one pended tick, an interrupt that sends |
| `NtpTask_all` | `NetbufsAccounted`, `DateRight` | pool of 2, up to 2 answers under way, every day from 1970 to 7 February 2036 |
| `length` | `TypeOK`, `RoundTrip`, `LoopIsEncode`, `ValueInRange`, `LenCoversPacket` | base 8, four length bytes, every length below 8^4, fields of up to five bytes, small and large digits with and without the top bit |
| `framing` | `TypeOK`, `RightUntilFailure`, `DeliversAll`, `DeliversInOrder`, `GivesUpOnlyOnErrorOrShortBody` | base 2, two length bytes, bodies of 0 to 3 bytes, 3 packets, a buffer the longest just fills; blocking reader with whole bodies, blocking reader with cut bodies and breaks, non-blocking reader with both |
| `sensor_all` | `TypeOK`, `DeceivedByTwoSlips`, `FreshGetsOut`, `NeverGoesBack`, `SensorKeepsSampling` | queues of 2, 4 transfers of 5 measurements, any calls slipping, the line hanging anywhere |

The bounds. Two sockets are one more than a client that leaks nothing needs,
so a leak or a second open socket shows; one socket in `client_live` makes a
leak fatal at the next reconnection. Identifiers modulo 2 or 3 against a counter
modulo 4 keep what matters of 2^16 against 2^32. `client_race` uses one
identifier, whole packets and an answer to everything: its properties do not look at
these. `MaxUnits` bounds the units on a connection when the broker may publish once more,
and how long a reader out of phase may stay inside one unit. In `EthRx_all` six frames go round
a ring of three twice, the semaphore saturates, the mailbox fills and the ring
runs full.

In `length` base 8 keeps four bytes within reach while every digit,
with and without the top bit, occurs; the theorems cover 128. In `framing` a
body of three bytes needs two length bytes in base 2, and the bytes of bodies are
themselves headers and lengths, so that a reader out of step does find packets
there. In `sensor_all` four transfers overrun queues of two; the code's queues
have four places and the argument does not count them.

In `EthTx_all` a ring of two is the shortest in which a frame of two buffers meets
its own end and `heth.TxDesc` may be one ahead of the DMA; what the code's eight
add is distance. In `mailbox` two receivers are needed for a message to be stolen
from a woken task, and a queue of two for an interrupt to send twice into a locked
queue. A tick count modulo 3 wraps within every wait; one pended tick is due
together with a pending task. A send waits not at all or for ever, as lwIP's do. The
pool of `NtpTask_all` is the code's own, and so is the calendar, day by day, for all
the days the 32 bits of NTP's seconds last.

Steady and race differ in one thing: whether `mqtt_send` may find its
keep-alive due before it first wrote `curtick`. If it may, both tasks reconnect
and almost nothing of `ServesSubscription`, `NoSocketLeak` or `NeverGarbled`
survives; `client_race` states what does.

Fairness. Both MQTT tasks are time-sliced at priority 1 and everything above
them blocks in each round, so a step that stays possible is taken (`WF` per
task). `Deliver` is fair because TCP retransmits; the broker's close is fair
only where it owes one. In `EthRx` the interrupt and the steps of `ETHIN` are
weakly fair; neither the DMA, nor the transmitter, nor the tcpip thread is.

In `MqttFraming` delivery and the reader are fair. In
`SensorPipeline` both tasks are: `DHT11_Task` sleeps in every round, and for
`mqtt_send` fairness stands for the assumption that its send and its
reconnection return, which `MqttClient` is about. `FreshGetsOut` means that a
reading is handed to the MQTT library; QoS 0 promises no more.

In `SysMbox` a task that is ready again and again gets the processor (`SF` per
task: tasks of one priority are time-sliced and those above block), and ticks come.
In `EthTx` the step of `core` is weakly fair, which is all a task above the other
needs; `boot` runs in the gaps `core` leaves again and again (`SF`), and the DMA is not
too slow each time it tries (`SF`); that the stack goes on calling is a premise of
`NothingStranded`, since only a call resumes a DMA that has stopped.

`AlwaysServesAgain` excepts four cases, all reachable and all from the code:
`mqtt_send` publishing before the login, again and again; answers to CONNECT and
SUBSCRIBE whose body keeps coming in pieces; a CONNECT that is never
answered, since `MQTT_Connect` reads the reply without a time-out; and `PacketID`
outgrowing 16 bits. In the last case the check at `mqttclient.c:175` compares the
16-bit identifier of the SUBACK with the 32-bit counter and refuses every right
answer.

`ServesSubscription` excepts one case: the broker ends the stream within the SUBACK of
the first SUBSCRIBE. The empty packet is a success (`MQTTSubscribeClient.c:114`), its
identifier 0 the one that was sent, and the client serves until it reads the end of the
stream. `NeverGarbled` and `PingLosesOnlyToPublish` except what follows a body that was
given up (`MQTTPacket.c:307-309`): the stream is out of step from there on, and nothing
in the client notices. `DeceivedByTwoSlips` says which wrong readings the checksum lets
through.

`RefusedOnlyByAnother` says when `HAL_BUSY`, which `low_level_output` ignores, can occur:
while the other transmitter is inside the HAL. That the two get there at once takes the
first of the cases in the next paragraph.

`ExclusiveUnlessRefused`, `SentAsMeant`, `OkMeansSent` and `NothingStranded` except two
cases, reachable and from the code. A call that finds its descriptor in use leaves
through the label `error` and signals `ousem` (`ethernetif.c:239`, `:300`) though it has
not taken it; the next two callers are both let in, and if a received frame's
interrupt frees the HAL's lock between them, `heth.TxDesc` passes a descriptor that
was never given to the DMA, which then waits there for ever. And a descriptor is
looked at before `ousem` is taken (`:229-244`): when the semaphore comes it may be in
use, and the frame is written over another. Both need `boot` and `core` at once; with
the priorities as they are the second task waits for nothing else, which is why
the two steps in which `ousem` is made do no harm (the mutant of `MayRun` shows that
they would between equals).

`NetbufsAccounted` excepts what follows a failed `netconn_send`: the netbuf is
deleted at `NTP_Task.c:225` and again at `:227`, the free list becomes a circle and
the next two users are given the same netbuf.

### Disagreements between comments and code

Each run of this table checks one statement taken from a comment and ends with
a counterexample; `PROJECT.json` quotes the comment.

| run | statement | what happens |
|---|---|---|
| `client_order` | connect, log in, subscribe, then exchange | `mqtt_send` writes before the login |
| `sensor_unchecked` | the data read are checked | a later transfer that fails its checksum overwrites the reading a queued pointer stands for |

Further disagreements the models reach, without a run of their own: an unanswered
login is not reported (`mqttclient.c:61`, against "MQTT连接无响应！" at `:76`; the
exception `LoginUnanswered` of `AlwaysServesAgain`); `MQTT_PingReq`, whose failure is
said to be one of sending (`:85`), fails when a PUBLISH comes before the reply
(`:112`; `PingLosesOnlyToPublish`); `MQTTPacket_read` answers -1 to a source that
gives part of what was asked (`MQTTPacket.c:309`), for which its comment leaves
room (`:286-287`; `GivesUpOnlyOnErrorOrShortBody`); `low_level_output` returns `ERR_OK`
for a frame the HAL refused (`ethernetif.c:284`, against "ERR_OK if the packet could
be sent" at `:209`; the exceptions of `OkMeansSent`); `netconn_new` is used
(`NTP_Task.c:197`) before its result is tested (`:199`), and two late answers empty
the pool so that the next request goes through a null pointer (`:218-220`;
`NetbufsAccounted`); with
timeout 0 `ReadPacketTimeout` still waits in recv for the rest of a packet
(`mqttclient.c:327`, `:349`); `low_level_input` returns NULL also when a preempted
transmitter holds `heth.Lock` (`ethernetif.c:310`, `:327`; `drain = "busy"` in
`DeafOnlyByLockOrSegments`); a stream that ends inside the length field gives a
packet type (`MQTTPacket.c:287`, `:303`; `ignored` in `RightUntilFailure`); a line
that hangs in the first byte gives a successful reading of zeros
(`bsp_dht11.c:147`, `:124`), and so may two slipped calls (`:100`;
`DeceivedByTwoSlips`). `NeverGoesBack`
leaves room for a humidity newer than the temperature beside it: a reading may
come between the two loads of `mqtt_send`.

## 4. What is proved

From the assumptions on the constants, which only say that they are of the right
kind:

* `EthRxProofs!TypeCorrect`, `RefusalsExplained`: the type invariant is
  inductive as it stands; `LockInv` adds that a locked handle has a transmitter inside:
  `ETHIN` takes and frees the lock in one stretch above the transmitters, and every
  return of `HAL_ETH_TransmitFrame` but the refused one frees it.
* `EthRxProofs!NoWakeupLost`: `NoLostWakeup` is not inductive. `WakeInv` adds
  that a frame at `rxPos` is `Announced` by the flag, a running handler, the
  semaphore or a drain in progress. The step that matters is `IrqClear`, which
  wipes the flag of a frame stored since the give: the count just given covers it.
* `EthRxProofs!DeafnessCauses`: `RoomInv` carries that a drain ended by
  `nomem` or `mboxfull` has handed at least one descriptor back, and that it
  stays the DMA's until a frame is stored in it, which raises the flag.
* `EthRxProofs!RingWindowHolds`, `ArrivalOrder`: for any ring, semaphore and mailbox
  and frames of any number of segments up to the ring. `RingWindow` is not inductive:
  `RingInv` adds what lies in the window (`Frames`: whole frames, numbered in the order
  of arrival, all later than the one in hand), without which the walk over `SegCount`
  descriptors from `FSRxDesc` could start or end elsewhere (`AtHead`). `RingFrame` also
  gives the order: the frame taken is later than any before it, and `OrderInv` carries
  that through the mailbox.
* `MqttClientProofs!TypeCorrect`: a task blocked in connect or recv passed a
  descriptor of the table, and one past the header byte has its type; with that the
  types are inductive.
* `MqttClientProofs!SenderGoesSilent`: `SenderSilent` is inductive with the types;
  the lemma `StepApart` says what a step of one task leaves of the other.
* `MqttClientProofs!OneOwner`: `ConnectingOwned` counts tasks and sockets; what is
  inductive is that the tasks inside connect and the sockets that are connecting
  correspond one to one (`Owned`), through both tasks opening and closing the one
  descriptor `mysock`. No hypothesis: this is what survives of the race. It does not say
  that a task connects the socket it has opened.
* `MqttClientProofs!OneSession`, `OneSocket`, `InPhase`, `PingSound`: under
  `SenderNeverDue`, the case of `client_steady`, in which the never-written `curtick`
  of `mqtt_send` does not make it ping; `client_race` and `client_order` show what is
  left otherwise. None of the four is inductive. `Session` gives for each place of
  `mqtt_thread` in the code the stage its connection is in (`Stage`, `Place`), and for
  each stage what may stand in the stream, read, unread and owed together, down to
  which unit of a packet is next (`Sound`): before the CONNACK nothing else, after the
  SUBACK packets and at most one reply to a ping. A step of the broker, the network or
  `mqtt_send` only lengthens or cuts that stream, a read takes its first units, and one
  that is given up makes the phase `cut`, of which no more is claimed. An empty SUBACK
  is accepted only with the first identifier and at the end of a stream.

* `MqttLengthProofs!TypeCorrect`, `DecodeUndoesEncode`, `ValueBounded`,
  `LenIsEnough`: from `BytesAssumption` and `LengthAssumption`, for any base, up
  to four length bytes and any lengths. What an induction over the field would
  show is carried by the history `quotient`: each byte is tied to the quotients
  before and after it (`Encoded`), and the decoder's value plus its multiplier
  times the quotient it has reached is the length that went in (`Decoded`).
* `MqttLengthProofs!LoopComputes`: what the loop has written followed by what `Encode`
  says of the rest is the whole field (`Written`). `Encode` is a recursive function,
  and that it satisfies its equation at all has to be proved: two partial solutions
  agree (`SolvesOnce`), there is one up to every number (`Solvable`), together they are
  a solution (`EncodeIs`). The inductions in this take a least counterexample
  (`LeastNumber`, from the library's theorem that `<` on the naturals is well-founded).
* `MqttFramingProofs!TypeCorrect`, `RightPackets`: for packets of any length, any
  segments and any break. `RightUntilFailure` says nothing of the stream; `Sound` ties
  each byte that has arrived to the packet and the place in it that it was sent at
  (`Flow`), the last to what is still under way (`Ends`), and the reader to the first
  (`Place`): inside the length field the digits read and the quotient still to come
  make the length (`Inside`), inside the body what was read is its beginning.
* `MqttFramingProofs!GivesUpForAReason`: with `Encodable` (every body is one the length
  field can carry, which MQTT demands of the sender). `NonBlockingSource` and
  `WholeSourceSafe`: with `PacketsFit` (`Encodable`, and every packet fits the caller's
  buffer, since one that does not is dropped), the steps of `MQTTPacket_readnb`, and of
  `MQTTPacket_read` over whole bodies, are steps of `PacketSource` or show nothing of
  it. This is the safety part of `DeliversAll`, and all of `DeliversInOrder`.
* `EthTxProofs!TypeCorrect`, `OneCallerInside`: from `EthTxAssumption`, for any ring,
  frame sizes and boot frames. `ExclusiveUnlessRefused` is not inductive: `GuardInv`
  adds which semaphore `ousem` is (`Made`: who is past the test of line 221 finds it
  made, `core` makes it only where there is none and while `boot` is not yet past
  making one of its own, nobody waits for another) and what its count says
  (`Counted`: 0 while somebody is inside, 1 when nobody is and its maker has given
  it).
* `EthTxProofs!SendsWhatWasMeant`, `OkIsSent`: with `RingInv`, as long as neither
  exception has happened. The descriptors of the DMA are those from `dmaPos` up to
  `heth.TxDesc` (`Window`); what the caller inside has copied lies where it will be
  committed (`Copied`), so that committing hands over whole parts only; and the
  transmitter finds the HAL's lock free (`Locked`), so that an answer of ERR_OK is true.
* `SysMboxProofs!TypeCorrect`: `TypeInv` adds where the task that has suspended the
  scheduler is (`Suspension`) and that the lock's count never exceeds the messages,
  and that only that task holds the lock (`LockCount`); otherwise an interrupt could
  count past the queue's length.
* `SysMboxProofs!MailboxSafe`: every step of the queue functions is one of
  `Mailbox` or shows nothing of it, for any number of tasks, length of the queue and
  width of the tick count: the safety half of `ImplementsMailbox`. `SafeInv` says how the ring
  is read as a sequence (`RingInv`) and how time is kept (`Timing`): what has been
  taken off a block time, counted since the entry time (`Since`, across a wrap) or is still
  pended has passed since the call. So a task that gives up has waited its wait.
  A task held up for more than one turn of the tick count waits longer, not shorter.
* `SysMboxProofs!NobodyForgotten`: `NoSleeperBesideWork` with `Listed` (who is on an
  event list is blocked or about to be) and `Settled` (between finding nothing to
  do and going on the list, whatever comes is in the count of the lock). Each woken
  task stands for one message more, each answered call takes one with it.
* `SensorPipelineProofs!TypeCorrect`, `PublishedInOrder`: `Newer` orders what is
  published, the copies of `mqtt_send` and `DHT11_Data` by their readings.
* `SensorPipelineProofs!WrongChecked`: with a humidity of at least 10 and decimals of
  one digit (`SensorRange`), which the sensor keeps to, by the number of slipped calls: the
  byte in the place of the checksum is one of the earlier bytes or 0, and agrees with the
  sum of the others for five zeros, or after exactly two slips if the temperature is the
  sum of the humidity's bytes. A transfer of <30, 0, 30, 5> read as <0, 0, 30, 0, 30>
  shows that this case is real. Without that range there are more.
* `NtpTaskProofs!NoNetbufLost`: for any number of netbufs. `NetbufsAccounted` is not
  inductive because it does not count: `Places` adds that free, waiting and held
  netbufs are together all of them, from which it follows that an empty free list
  means a full mailbox.
* `NtpTaskProofs!DateIsRight`: with `Before2100`, a bound on what the answer tells that
  NTP's 32 bits keep until 2036; from March 2100, no leap year, the code is a day
  off. Before that the leap years since 1970 are every fourth (`LeapYears`), and month
  and day give back the day of the year (`DayOfYear`).

Every invariant and every action property of a passing run is proved. Only
model-checked, being liveness under fairness and out of the prover's reach, are
`EventuallyDrained`, `AlwaysServesAgain`, `FreshGetsOut`, `SensorKeepsSampling`,
`NothingStranded` and the fairness in `DeliversAll` and `ImplementsMailbox`.

## 5. Plan

Done: the client and its sockets, both halves of the Ethernet driver, the length
code and the packet readers, the sensor pipeline, mailboxes and semaphores down to
the queue, the NTP task and its calendar.

Every safety property of the passing runs has its theorem. Next: what the theorems
about the session leave out, the client in which both tasks reconnect, beyond
`ConnectingOwned`; and the hypotheses `Encodable` and `PacketsFit` of the framing, as
properties of the serialisers that make the packets.

## 6. Not modelled

* MQTT: the QoS 2 exchange of `mqtt_pktype_ctl` and the QoS 1 and 2 branches of
  `MQTTMsgPublish`. The client subscribes with QoS 1 (`mqttclient.c:544`) and publishes
  with QoS 0 (`:759`), so that they are not reached. That a message whose PUBACK
  fails is lost follows from its clean session. The field-by-field serialisers are
  straight-line copying.
* sys_arch: `sys_mutex_*` (priority inheritance), `sys_thread_new`, freeing a queue,
  the elapsed time the fetch functions return, receiving from an interrupt, which
  nobody does, and `sys_mbox_trypost_fromisr`, which nobody calls. Queue sets are
  not configured. `sys_sem_new` signals the queue through `*sem`; that works
  because `pcHead` of a queue without storage points to the queue itself.
* NTP: minutes and seconds; times before 1970 and after the end of the NTP era,
  for which the subtraction at `NTP_Task.c:152` wraps in 64 bits and the test behind
  it does nothing; answers that are too short, which are read as zeros. The hour
  is printed with 8 added and not carried (`:251-255`), so that it may be 24 to 31.
* The touch panel. What its interrupt finds depends on when the chip raises its
  line again after a report that was not fetched, which nothing in the repository
  says; that the interrupt may come between the reads of `lv_port_indev.c:203-233`,
  and that a second finger's track id does not fit the arrays of one element
  (`gt9xx.c:422`), is plain from the code.
* Boot: `main` and `AppTaskCreate` run once and in sequence; where boot meets a
  running task it is the caller `boot` of `EthTx`. `cJSON_Process` builds one document
  in sequence. LVGL and its port, LCD, flash, LED and serial drivers are bus and
  register access. Of the vendored libraries only what the components above
  depend on is modelled: queue, event lists, time-outs and ticks of FreeRTOS,
  lwIP's sockets and netbuf pool, the Ethernet HAL, the packet readers.
