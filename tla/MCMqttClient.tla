----------------------------- MODULE MCMqttClient -----------------------------
(* Model-checking instances of MqttClient. *)
EXTENDS MqttClient

Reader == {"mqtt_thread"}
BothTasks == {"mqtt_thread", "mqtt_send"}

EitherWay == BOOLEAN
NeverDue == {FALSE}
AnyAnswer == BOOLEAN
AlwaysAccepted == {TRUE}
=============================================================================
