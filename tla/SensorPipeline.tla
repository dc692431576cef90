---------------------------- MODULE SensorPipeline ----------------------------
(* From the DHT11 to the broker: DHT11_Task of src/User/main.c reads the       *)
(* sensor into the one DHT11_Data and queues a pointer to it twice, for        *)
(* mqtt_send of src/User/mqttclient.c and for a display task that no longer    *)
(* receives; mqtt_send follows its pointer and publishes.                      *)
EXTENDS Integers, Sequences, FiniteSets

CONSTANTS
  QueueLen,      \* MQTT_DHT11_QUEUE_LEN and LVGL_DHT11_QUEUE_LEN, 4 in the code
  Transfers,     \* what the sensor sends: four bytes, humidity and temperature
  MaxReadings    \* bound: readings that change DHT11_Data

ASSUME SensorAssumption ==
  /\ QueueLen \in Nat \ {0}
  /\ Transfers \subseteq [1..4 -> 0..255]
  /\ MaxReadings \in Nat

VARIABLES
  task,        \* where DHT11_Task is
  data,        \* DHT11_Data: for temperature and humidity, the reading they are from
  readings,    \* how many readings have been put there
  checked,     \* history: the readings for which the driver returned SUCCESS
  deceived,    \* history: the transfers that went wrong and were called SUCCESS
  mqttQueue,   \* pointers waiting in MQTT_DHT11_Data_Queue
  lvglQueue,   \* pointers waiting in LVGL_DHT11_Data_Queue
  sender,      \* where mqtt_send is
  a, b,        \* its copies of temperature and humidity
  published    \* history: the last pair handed to MQTTMsgPublish2dp

sensor == <<data, readings, checked, deceived>>
publisher == <<sender, a, b, published>>
vars == <<task, data, readings, checked, deceived, mqttQueue, lvglQueue, sender, a, b, published>>

Reading == 0..MaxReadings
Pair == [temperature : Reading, humidity : Reading]

(* Reading 0 is the zeroed DHT11_Data of the start.                            *)
Init ==
  /\ task = "read"
  /\ data = [temperature |-> 0, humidity |-> 0]
  /\ readings = 0
  /\ checked = {}
  /\ deceived = {}
  /\ mqttQueue = 0
  /\ lvglQueue = 0
  /\ sender = "receive"
  /\ a = 0
  /\ b = 0
  /\ published = [temperature |-> 0, humidity |-> 0]
-------------------------------------------------------------------------------
Sum(f) == (f[1] + f[2] + f[3] + f[4]) % 256

(* The five bytes of a transfer, the last one the sensor's checksum.           *)
Whole(f) == [i \in 1..5 |-> IF i = 5 THEN Sum(f) ELSE f[i]]

(* DHT11_ReadByte does not set the counter of its wait before the first bit:   *)
(* whatever it holds, in any of the five calls, may end the call before a bit  *)
(* is taken. slip[i] = 1 says that call i ends so.                             *)
Slips == [1..5 -> 0..1]
Total(slip) == slip[1] + slip[2] + slip[3] + slip[4] + slip[5]

(* The place in the transfer where each call begins: a call that slipped takes *)
(* nothing off the line.                                                       *)
Places(slip) ==
  << 1,
     2 - slip[1],
     3 - slip[1] - slip[2],
     4 - slip[1] - slip[2] - slip[3],
     5 - slip[1] - slip[2] - slip[3] - slip[4] >>

(* What the five calls return. A call that slips returns 0; when the line      *)
(* hangs in byte hang, the call that reads it and every later one wait too     *)
(* long for an edge and return 0. There is no sixth byte: 6 is no hang.        *)
ReadBytes(f, slip, hang) ==
  [i \in 1..5 |-> IF slip[i] = 1 \/ Places(slip)[i] >= hang THEN 0
                  ELSE Whole(f)[Places(slip)[i]]]

AllZero == [i \in 1..5 |-> 0]

(* The reading returned without a look at the checksum.                        *)
MutChecksumRight(r) == TRUE

(* The comparison of check_sum with the 8-bit sum of the other bytes.          *)
ChecksumRight(r) == r[5] = Sum(r)

(* The sensor does not answer, or holds its answer too long: ERROR, nothing is *)
(* written.                                                                    *)
ReadNothing ==
  /\ task = "read"
  /\ task' = "delay"
  /\ UNCHANGED <<sensor, mqttQueue, lvglQueue, publisher>>

(* A transfer, in the critical section of DHT11_Task. DHT11_Data is written    *)
(* before the checksum is looked at, and stays written when it is wrong.       *)
ReadTransfer ==
  /\ task = "read"
  /\ readings < MaxReadings
  /\ \E f \in Transfers, slip \in Slips, hang \in 1..6 :
       LET n == readings + 1
           r == ReadBytes(f, slip, hang)
       IN  /\ readings' = n
           /\ data' = [temperature |-> n, humidity |-> n]
           /\ \/ /\ ChecksumRight(r)
                 /\ checked' = checked \cup {n}
                 /\ deceived' = IF r = Whole(f) \/ r = AllZero THEN deceived
                                ELSE deceived \cup {[sent |-> f, slips |-> Total(slip)]}
                 /\ task' = "sendMqtt"
              \/ /\ ~ChecksumRight(r)
                 /\ UNCHANGED <<checked, deceived>>
                 /\ task' = "delay"
  /\ UNCHANGED <<mqttQueue, lvglQueue, publisher>>

(* A queue without its limit, and one that is emptied when it is full.         *)
MutSentNoLimit(queue) == queue + 1
MutSentResets(queue) == IF queue < QueueLen THEN queue + 1 ELSE 0

(* xQueueSend with waiting time 0: a pointer more, or none if the queue is     *)
(* full; DHT11_Task does not look at the result.                               *)
Sent(queue) == IF queue < QueueLen THEN queue + 1 ELSE queue

SendMqtt ==
  /\ task = "sendMqtt"
  /\ mqttQueue' = Sent(mqttQueue)
  /\ task' = "sendLvgl"
  /\ UNCHANGED <<sensor, lvglQueue, publisher>>

(* The display queue waited for.                                               *)
MutSendLvglWaits ==
  /\ task = "sendLvgl"
  /\ lvglQueue < QueueLen
  /\ lvglQueue' = lvglQueue + 1
  /\ task' = "delay"
  /\ UNCHANGED <<sensor, mqttQueue, publisher>>

SendLvgl ==
  /\ task = "sendLvgl"
  /\ lvglQueue' = Sent(lvglQueue)
  /\ task' = "delay"
  /\ UNCHANGED <<sensor, mqttQueue, publisher>>

(* vTaskDelay(8000).                                                           *)
Delayed ==
  /\ task = "delay"
  /\ task' = "read"
  /\ UNCHANGED <<sensor, mqttQueue, lvglQueue, publisher>>
-------------------------------------------------------------------------------
(* xQueueReceive; when it times out mqtt_send only looks after the connection, *)
(* which the module MqttClient models, and receives again.                     *)
Receive ==
  /\ sender = "receive"
  /\ mqttQueue > 0
  /\ mqttQueue' = mqttQueue - 1
  /\ sender' = "temperature"
  /\ UNCHANGED <<task, sensor, lvglQueue, a, b, published>>

(* recv_data->temperature and recv_data->humidity are two loads, with          *)
(* DHT11_Task, of higher priority, free to run between them.                   *)
LoadTemperature ==
  /\ sender = "temperature"
  /\ a' = data.temperature
  /\ sender' = "humidity"
  /\ UNCHANGED <<task, sensor, mqttQueue, lvglQueue, b, published>>

LoadHumidity ==
  /\ sender = "humidity"
  /\ b' = data.humidity
  /\ sender' = "publish"
  /\ UNCHANGED <<task, sensor, mqttQueue, lvglQueue, a, published>>

(* The two copies exchanged.                                                   *)
MutPublishSwapped ==
  /\ sender = "publish"
  /\ published' = [temperature |-> b, humidity |-> a]
  /\ sender' = "receive"
  /\ UNCHANGED <<task, sensor, mqttQueue, lvglQueue, a, b>>

(* One MQTTMsgPublish2dp for the pair, whatever becomes of it: the pointer is  *)
(* gone and nothing is tried again.                                            *)
Publish ==
  /\ sender = "publish"
  /\ published' = [temperature |-> a, humidity |-> b]
  /\ sender' = "receive"
  /\ UNCHANGED <<task, sensor, mqttQueue, lvglQueue, a, b>>

SensorTask == ReadNothing \/ ReadTransfer \/ SendMqtt \/ SendLvgl \/ Delayed
Sender == Receive \/ LoadTemperature \/ LoadHumidity \/ Publish

Next == SensorTask \/ Sender

(* DHT11_Task sleeps 8 s in each round, which leaves the processor to          *)
(* mqtt_send. The fairness of Sender says that its connection comes back.      *)
Spec == Init /\ [][Next]_vars /\ WF_vars(SensorTask) /\ WF_vars(Sender)
-------------------------------------------------------------------------------
(* Types of every variable, the queues never above their length.               *)
TypeOK ==
  /\ task \in {"read", "sendMqtt", "sendLvgl", "delay"}
  /\ data \in Pair
  /\ readings \in Reading
  /\ checked \subseteq 1..readings
  /\ deceived \subseteq [sent : Transfers, slips : 0..5]
  /\ mqttQueue \in 0..QueueLen
  /\ lvglQueue \in 0..QueueLen
  /\ sender \in {"receive", "temperature", "humidity", "publish"}
  /\ a \in Reading
  /\ b \in Reading
  /\ published \in Pair

(* Though pointers are dropped when MQTT_DHT11_Data_Queue is full, and all     *)
(* point to the one DHT11_Data, a reading the driver called SUCCESS is always  *)
(* followed by a publication at least as new, in both its values.              *)
FreshGetsOut ==
  \A n \in 1..MaxReadings :
    n \in checked ~> published.temperature >= n /\ published.humidity >= n

(* However mqtt_send is delayed and preempted, the broker never gets an older  *)
(* value after a newer one, nor a humidity older than the temperature it is    *)
(* published with.                                                             *)
NeverGoesBack ==
  [][ /\ published'.temperature >= published.humidity
      /\ published'.humidity >= published'.temperature ]_published

(* DHT11_Task comes back to the sensor for ever, although nothing empties      *)
(* LVGL_DHT11_Data_Queue.                                                      *)
SensorKeepsSampling == []<>(task = "read")

(* A transfer that went wrong passes the check of DHT11_Read_TempAndHumidity   *)
(* in two ways only, wherever the line hangs and whichever calls of            *)
(* DHT11_ReadByte slip: as five zeros, which count as a measurement, and when  *)
(* exactly two calls slip and the temperature sent, now in the place of the    *)
(* checksum, happens to be the sum of the two humidity bytes.                  *)
DeceivedByTwoSlips ==
  \A x \in deceived : x.slips = 2 /\ x.sent[3] = x.sent[1] + x.sent[2]

(* The comment of the check in DHT11_Read_TempAndHumidity: whether the data    *)
(* read are right is found out there, so what is published passed it.          *)
OnlyCheckedPublished ==
  {published.temperature, published.humidity} \subseteq checked \cup {0}
===============================================================================
