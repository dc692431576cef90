---------------------------- MODULE MCMqttFraming -----------------------------
(* Instances of MqttFraming. Base 2 lets lengths of two bytes occur with short *)
(* bodies, whose bytes look like headers and lengths to a reader out of step.  *)
EXTENDS MqttFraming

MCPower == [k \in 0..MaxLenBytes |-> Base ^ k]

Bodies == {<<>>, <<3>>, <<2, 1>>, <<3, 3, 0>>}
SomePackets == [head : {1, 2}, body : Bodies]

Reads == [nonBlocking |-> FALSE, cutBodies |-> FALSE, breaks |-> FALSE]
Cut == [Reads EXCEPT !.cutBodies = TRUE]
MCModes ==
  { Reads,
    [Cut EXCEPT !.breaks = TRUE],
    [Cut EXCEPT !.breaks = TRUE, !.nonBlocking = TRUE] }
===============================================================================
