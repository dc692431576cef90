------------------------------ MODULE Mailbox ------------------------------
(***************************************************************************)
(* What lwIP asks of a mailbox or semaphore of the port (sys_arch.c): a    *)
(* bounded FIFO.  A message is put once and taken once, in order; a post   *)
(* that may not wait fails only when the mailbox is full, a fetch gives up *)
(* only when it is empty and the time it was given is over.  A semaphore   *)
(* is the same with messages that say nothing.                             *)
(***************************************************************************)
EXTENDS Integers, Sequences

CONSTANTS
  Posters,  \* the tasks that put messages into it
  Fetchers, \* the tasks that take them out
  Cap,      \* how many the mailbox holds
  Waits,    \* the times a call may wait, in ticks
  Forever   \* the wait that never ends

VARIABLES
  chan,      \* the messages in the mailbox
  call,      \* what each task has asked for
  waited     \* ticks since it asked

vars == <<chan, call, waited>>

Tasks == Posters \cup Fetchers
Idle == [op |-> "none"]
Items == Posters \cup {"isr"}   \* a message is known by its sender
Posts == [op : {"post"}, wait : {0, Forever}]
Fetches == [op : {"fetch"}, wait : Waits]

Ask(t) ==
  /\ call[t] = Idle
  /\ \/ t \in Posters /\ \E c \in Posts : call' = [call EXCEPT ![t] = c]
     \/ t \in Fetchers /\ \E c \in Fetches : call' = [call EXCEPT ![t] = c]
  /\ waited' = [waited EXCEPT ![t] = 0]
  /\ UNCHANGED chan

Answered(t) == call' = [call EXCEPT ![t] = Idle] /\ UNCHANGED waited

Put(t) ==
  /\ call[t].op = "post"
  /\ Len(chan) < Cap
  /\ chan' = Append(chan, t)
  /\ Answered(t)

Full(t) ==
  /\ call[t].op = "post"
  /\ call[t].wait = 0
  /\ Len(chan) = Cap
  /\ Answered(t)
  /\ UNCHANGED chan

\* The fetch returns Head(chan).
Take(t) ==
  /\ call[t].op = "fetch"
  /\ chan # <<>>
  /\ chan' = Tail(chan)
  /\ Answered(t)

TimeOut(t) ==
  /\ call[t].op = "fetch"
  /\ call[t].wait # Forever
  /\ waited[t] >= call[t].wait
  /\ chan = <<>>
  /\ Answered(t)
  /\ UNCHANGED chan

\* An interrupt puts a message, if there is room.
PutFromISR ==
  /\ Len(chan) < Cap
  /\ chan' = Append(chan, "isr")
  /\ UNCHANGED <<call, waited>>

Bounded(t) == call[t] # Idle /\ call[t].wait # Forever

\* Time passes for the tasks whose wait has an end.
Tick ==
  /\ waited' = [t \in Tasks |-> IF Bounded(t) /\ waited[t] < call[t].wait
                                THEN waited[t] + 1 ELSE waited[t]]
  /\ UNCHANGED <<chan, call>>

Next ==
  \/ \E t \in Tasks : Ask(t) \/ Put(t) \/ Full(t) \/ Take(t) \/ TimeOut(t)
  \/ PutFromISR
  \/ Tick

Init ==
  /\ chan \in UNION {[1 .. n -> Items] : n \in 0 .. Cap}
  /\ call = [t \in Tasks |-> Idle]
  /\ waited = [t \in Tasks |-> 0]

\* A message that waits while somebody fetches is taken, and room that is there
\* while somebody posts is used; a bounded fetch comes back.
Fairness ==
  /\ WF_vars(\E t \in Tasks : Take(t))
  /\ WF_vars(\E t \in Tasks : Put(t))
  /\ \A t \in Tasks : WF_vars(TimeOut(t))

Spec == Init /\ [][Next]_vars /\ Fairness
=============================================================================
