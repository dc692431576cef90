------------------------------ MODULE SysMbox ------------------------------
(***************************************************************************)
(* Mailboxes and semaphores of lwIP's port, sys_arch.c, over a queue of    *)
(* FreeRTOS: queue.c's xQueueGenericSend, xQueueGenericReceive and their   *)
(* ISR counterpart, with the parts of tasks.c they wait by: event lists,   *)
(* suspending the scheduler, the pending ready list, ticks and time-outs.  *)
(*                                                                         *)
(* There is one processor.  A task executes one critical section, or one   *)
(* call made between two, at a time; any ready task may be the next one to *)
(* run, unless the scheduler is suspended.  Interrupts may come between    *)
(* any two steps.                                                          *)
(***************************************************************************)
EXTENDS Integers, Sequences, FiniteSets

CONSTANTS
  Posters,   \* the tasks that call sys_mbox_post, sys_mbox_trypost or sys_sem_signal
  Fetchers,  \* the tasks that call sys_arch_mbox_fetch, _tryfetch or sys_arch_sem_wait
  Prio,      \* the priority of each task
  Cap,       \* uxLength
  Initial,   \* what may be in it at the start: sys_sem_new gives a semaphore of count 1
  Waits,     \* for each task the xTicksToWait of its calls: 0 for the try functions
  TickMod,   \* 2^32: xTickCount wraps
  MaxPended, \* bound: ticks that come while the scheduler is suspended
  Isr        \* whether an interrupt gives as well

Tasks == Posters \cup Fetchers
Items == Posters \cup {"isr"}   \* a message is known by its sender
Forever == TickMod - 1   \* portMAX_DELAY
Ticks == 0 .. TickMod - 1

ASSUME SysMboxAssumption ==
  /\ Prio \in [Tasks -> Nat]
  /\ IsFiniteSet(Tasks) /\ "none" \notin Tasks
  /\ Cap \in Nat \ {0}
  /\ Initial \subseteq 0 .. Cap
  /\ TickMod \in Nat \ {0, 1}
  /\ Waits \in [Tasks -> SUBSET Ticks]
  /\ \A t \in Posters : Waits[t] \subseteq {0, Forever}
  /\ MaxPended \in Nat
  /\ Isr \in BOOLEAN

Idle == [op |-> "none"]
None == "none"
Unlocked == -1
NoTime == [at |-> -1, wrapped |-> FALSE]
NoWake == [at |-> -1, overflow |-> FALSE]

VARIABLES
  slots, writeTo, readFrom, waiting, \* the storage ring, pcWriteTo, pcReadFrom, uxMessagesWaiting
  cTxLock,     \* Unlocked, or what was sent while the queue was locked
  recvList,    \* xTasksWaitingToReceive
  sendList,    \* xTasksWaitingToSend
  suspended,   \* the task that has suspended the scheduler
  pendReady,   \* xPendingReadyList
  xTickCount, uxPendedTicks,
  pc,          \* where each task is in the queue function
  call,        \* what it was called for
  ticksToWait, \* its xTicksToWait
  entered,     \* its xTimeOut: tick and whether the count has wrapped since
  wake,        \* its item in the delayed lists: wake time and list
  waited       \* history: ticks since the call, as far as its wait

ring  == <<slots, writeTo, readFrom, waiting>>
lists == <<recvList, sendList>>
kernel == <<suspended, pendReady, xTickCount, uxPendedTicks>>
vars  == <<ring, cTxLock, lists, kernel, pc, call, ticksToWait, entered, wake, waited>>

Init ==
  /\ slots \in [0 .. Cap - 1 -> Items]
  /\ waiting \in Initial
  /\ writeTo = waiting % Cap
  /\ readFrom = Cap - 1
  /\ cTxLock = Unlocked
  /\ recvList = {} /\ sendList = {}
  /\ suspended = None /\ pendReady = {}
  /\ xTickCount \in Ticks /\ uxPendedTicks = 0
  /\ pc = [t \in Tasks |-> "idle"]
  /\ call = [t \in Tasks |-> Idle]
  /\ ticksToWait = [t \in Tasks |-> 0]
  /\ entered = [t \in Tasks |-> NoTime]
  /\ wake = [t \in Tasks |-> NoWake]
  /\ waited = [t \in Tasks |-> 0]

-----------------------------------------------------------------------------
(* Tasks. *)

Blocked == recvList \cup sendList \cup pendReady
MayRun(t) == IF suspended = None THEN t \notin Blocked ELSE suspended = t

At(t, label) == pc[t] = label /\ MayRun(t)
Goto(t, label) == pc' = [pc EXCEPT ![t] = label]

\* The n tasks at the front of an event list: it is kept in order of priority.
\* Which of equal priority comes first is left open.
Front(list, n) ==
  {W \in SUBSET list : /\ Cardinality(W) = n
                       /\ \A u \in W, v \in list \ W : Prio[u] >= Prio[v]}

\* xTaskRemoveFromEventList for the tasks of W: at once, or through the
\* pending ready list while the scheduler is suspended.
Unblock(W) ==
  IF suspended = None
  THEN wake' = [t \in Tasks |-> IF t \in W THEN NoWake ELSE wake[t]] /\ UNCHANGED pendReady
  ELSE pendReady' = pendReady \cup W /\ UNCHANGED wake

WakeReceiver ==
  IF recvList = {}
  THEN UNCHANGED <<recvList, pendReady, wake>>
  ELSE \E W \in Front(recvList, 1) : recvList' = recvList \ W /\ Unblock(W)

WakeSender ==
  IF sendList = {}
  THEN UNCHANGED <<sendList, pendReady, wake>>
  ELSE \E W \in Front(sendList, 1) : sendList' = sendList \ W /\ Unblock(W)

-----------------------------------------------------------------------------
(* The calls. *)

\* sys_mbox_post waits without end, sys_mbox_trypost not at all.  The loop around
\* xQueueSend in sys_mbox_post never turns.
CallPost(t) ==
  /\ pc[t] = "idle" /\ t \in Posters /\ MayRun(t)
  /\ \E w \in Waits[t] :
       /\ call' = [call EXCEPT ![t] = [op |-> "post", wait |-> w]]
       /\ ticksToWait' = [ticksToWait EXCEPT ![t] = w]
  /\ Goto(t, "try")
  /\ waited' = [waited EXCEPT ![t] = 0]
  /\ UNCHANGED <<ring, cTxLock, lists, kernel, entered, wake>>

\* sys_arch_mbox_fetch and sys_arch_sem_wait, for which a time-out of 0 becomes
\* portMAX_DELAY, and the try functions, which do not wait.
CallFetch(t) ==
  /\ pc[t] = "idle" /\ t \in Fetchers /\ MayRun(t)
  /\ \E w \in Waits[t] :
       /\ call' = [call EXCEPT ![t] = [op |-> "fetch", wait |-> w]]
       /\ ticksToWait' = [ticksToWait EXCEPT ![t] = w]
  /\ Goto(t, "try")
  /\ waited' = [waited EXCEPT ![t] = 0]
  /\ UNCHANGED <<ring, cTxLock, lists, kernel, entered, wake>>

Return(t) ==
  /\ Goto(t, "idle")
  /\ call' = [call EXCEPT ![t] = Idle]
  /\ entered' = [entered EXCEPT ![t] = NoTime]
  /\ ticksToWait' = [ticksToWait EXCEPT ![t] = 0]

\* prvCopyDataToQueue
CopyIn(item) ==
  /\ slots' = [slots EXCEPT ![writeTo] = item]
  /\ writeTo' = (writeTo + 1) % Cap
  /\ waiting' = waiting + 1
  /\ UNCHANGED readFrom

\* There is room: copy, wake a receiver, return.
Send(t) ==
  /\ At(t, "try") /\ call[t].op = "post"
  /\ waiting < Cap
  /\ CopyIn(t)
  /\ WakeReceiver
  /\ Return(t)
  /\ UNCHANGED <<cTxLock, sendList, suspended, xTickCount, uxPendedTicks, waited>>

\* There is something: copy slots[readFrom'] out, wake a sender, return.
Receive(t) ==
  /\ At(t, "try") /\ call[t].op = "fetch"
  /\ waiting > 0
  /\ readFrom' = (readFrom + 1) % Cap
  /\ waiting' = waiting - 1
  /\ WakeSender
  /\ Return(t)
  /\ UNCHANGED <<slots, writeTo, cTxLock, recvList, suspended, xTickCount, uxPendedTicks, waited>>

\* Nothing to be done for the call at present.
Stuck(t) == IF call[t].op = "post" THEN waiting = Cap ELSE waiting = 0

\* No block time was given: errQUEUE_FULL or errQUEUE_EMPTY.
Refuse(t) ==
  /\ At(t, "try")
  /\ Stuck(t)
  /\ ticksToWait[t] = 0
  /\ Return(t)
  /\ UNCHANGED <<ring, cTxLock, lists, kernel, wake, waited>>

Now == [at |-> xTickCount, wrapped |-> FALSE]

\* Otherwise the entry time is noted once, and the task goes on to wait.  It is
\* never looked at when the wait has no end, and left out then.
Wait(t) ==
  /\ At(t, "try")
  /\ Stuck(t)
  /\ ticksToWait[t] # 0
  /\ entered' = IF entered[t] = NoTime /\ ticksToWait[t] # Forever THEN [entered EXCEPT ![t] = Now] ELSE entered
  /\ Goto(t, "suspend")
  /\ UNCHANGED <<ring, cTxLock, lists, kernel, call, ticksToWait, wake, waited>>

-----------------------------------------------------------------------------
(* Waiting. *)

\* vTaskSuspendAll
SuspendAll(t) ==
  /\ At(t, "suspend")
  /\ suspended' = t
  /\ Goto(t, "lock")
  /\ UNCHANGED <<ring, cTxLock, lists, pendReady, xTickCount, uxPendedTicks, call,
                 ticksToWait, entered, wake, waited>>

\* Mutant of Lock: the queue is not locked.
MutLockNot(t) ==
  /\ At(t, "lock")
  /\ Goto(t, "check")
  /\ UNCHANGED <<ring, cTxLock, lists, kernel, call, ticksToWait, entered, wake, waited>>

\* prvLockQueue
Lock(t) ==
  /\ At(t, "lock")
  /\ cTxLock' = IF cTxLock = Unlocked THEN 0 ELSE cTxLock
  /\ Goto(t, "check")
  /\ UNCHANGED <<ring, lists, kernel, call, ticksToWait, entered, wake, waited>>

\* Mutant of Elapsed: the tick count has not wrapped.
MutElapsed(t) == xTickCount - entered[t].at

\* Ticks since the entry time, in the width of TickType_t.
Elapsed(t) == (xTickCount - entered[t].at) % TickMod

\* xTaskCheckForTimeOut: has the block time run out?
TimedOut(t) ==
  /\ ticksToWait[t] # Forever
  /\ \/ entered[t].wrapped /\ xTickCount >= entered[t].at
     \/ Elapsed(t) >= ticksToWait[t]

\* If not, the rest of it counts from now on.
CheckForTimeOut(t) ==
  /\ At(t, "check")
  /\ IF TimedOut(t)
     THEN Goto(t, "unlock_late") /\ UNCHANGED <<ticksToWait, entered>>
     ELSE /\ ticksToWait' = IF ticksToWait[t] = Forever THEN ticksToWait
                            ELSE [ticksToWait EXCEPT ![t] = @ - Elapsed(t)]
          /\ entered' = IF ticksToWait[t] = Forever THEN entered ELSE [entered EXCEPT ![t] = Now]
          /\ Goto(t, "test")
  /\ UNCHANGED <<ring, cTxLock, lists, kernel, call, wake, waited>>

\* prvIsQueueFull, prvIsQueueEmpty
Test(t) ==
  /\ At(t, "test")
  /\ Goto(t, IF Stuck(t) THEN "place" ELSE "unlock")
  /\ UNCHANGED <<ring, cTxLock, lists, kernel, call, ticksToWait, entered, wake, waited>>

\* vTaskPlaceOnEventList: into the event list and, unless the wait has no end,
\* into the delayed list of this turn of the tick count or of the next.
Place(t) ==
  /\ At(t, "place")
  /\ recvList' = IF call[t].op = "fetch" THEN recvList \cup {t} ELSE recvList
  /\ sendList' = IF call[t].op = "post" THEN sendList \cup {t} ELSE sendList
  /\ wake' = IF ticksToWait[t] = Forever THEN wake
             ELSE [wake EXCEPT ![t] = [at |-> (xTickCount + ticksToWait[t]) % TickMod,
                                       overflow |-> xTickCount + ticksToWait[t] >= TickMod]]
  /\ Goto(t, "unlock")
  /\ UNCHANGED <<ring, cTxLock, kernel, call, ticksToWait, entered, waited>>

Smaller(m, n) == IF m < n THEN m ELSE n

\* Mutant of Unlock: the count of what was sent meanwhile is thrown away.
MutUnlockForgets(t) ==
  /\ At(t, "unlock") \/ At(t, "unlock_late")
  /\ cTxLock' = Unlocked
  /\ Goto(t, IF pc[t] = "unlock" THEN "resume" ELSE "resume_late")
  /\ UNCHANGED <<ring, lists, kernel, call, ticksToWait, entered, wake, waited>>

\* prvUnlockQueue: for every message sent by an interrupt meanwhile, one receiver.
Unlock(t) ==
  /\ At(t, "unlock") \/ At(t, "unlock_late")
  /\ cTxLock' = Unlocked
  /\ \E W \in Front(recvList, Smaller(cTxLock, Cardinality(recvList))) :
       /\ recvList' = recvList \ W
       /\ pendReady' = pendReady \cup W
  /\ Goto(t, IF pc[t] = "unlock" THEN "resume" ELSE "resume_late")
  /\ UNCHANGED <<ring, sendList, suspended, xTickCount, uxPendedTicks, call, ticksToWait,
                 entered, wake, waited>>

\* The tick count n ticks from now, and who has then left the delayed lists.  An
\* item of the overflow list counts only once the count has wrapped.
TickAfter(n) == (xTickCount + n) % TickMod
WrapsIn(n) == xTickCount + n >= TickMod
DueIn(n) == {t \in Tasks : /\ wake[t] # NoWake
                           /\ wake[t].at + (IF wake[t].overflow THEN TickMod ELSE 0) <= xTickCount + n}

\* xTaskIncrementTick, n times, on the delayed lists as they are without the tasks of W.
IncrementTick(n, W) ==
  LET woken == DueIn(n) \ W IN
  /\ xTickCount' = TickAfter(n)
  /\ recvList' = recvList \ woken
  /\ sendList' = sendList \ woken
  /\ wake' = [t \in Tasks |->
                IF t \in woken \cup W \/ wake[t] = NoWake THEN NoWake
                ELSE [at |-> wake[t].at, overflow |-> wake[t].overflow /\ ~WrapsIn(n)]]
  /\ entered' = [t \in Tasks |->
                   IF entered[t] = NoTime THEN NoTime
                   ELSE [at |-> entered[t].at, wrapped |-> entered[t].wrapped \/ WrapsIn(n)]]

\* xTaskResumeAll: the pending tasks become ready, then the pended ticks are counted.
ResumeAll(t) ==
  /\ At(t, "resume") \/ At(t, "resume_late")
  /\ suspended' = None
  /\ pendReady' = {}
  /\ uxPendedTicks' = 0
  /\ IncrementTick(uxPendedTicks, pendReady)
  /\ Goto(t, IF pc[t] = "resume" THEN "try" ELSE "late")
  /\ UNCHANGED <<ring, cTxLock, call, ticksToWait, waited>>

\* The block time is over.  The queue is looked at once more.
Late(t) ==
  /\ At(t, "late")
  /\ IF Stuck(t)
     THEN Return(t)
     ELSE Goto(t, "try") /\ UNCHANGED <<call, entered, ticksToWait>>
  /\ UNCHANGED <<ring, cTxLock, lists, kernel, wake, waited>>

-----------------------------------------------------------------------------
(* Interrupts. *)

\* xQueueGenericSendFromISR and xQueueGiveFromISR, when there is room.
SendFromISR ==
  /\ Isr
  /\ waiting < Cap
  /\ CopyIn("isr")
  /\ IF cTxLock = Unlocked
     THEN WakeReceiver /\ UNCHANGED cTxLock
     ELSE cTxLock' = cTxLock + 1 /\ UNCHANGED <<recvList, pendReady, wake>>
  /\ UNCHANGED <<sendList, suspended, xTickCount, uxPendedTicks, pc, call, ticksToWait,
                 entered, waited>>

Bounded(t) == call[t] # Idle /\ call[t].wait # Forever

\* The tick interrupt.  A tick that finds the scheduler suspended is pended.
Tick ==
  /\ IF suspended = None
     THEN IncrementTick(1, {}) /\ UNCHANGED uxPendedTicks
     ELSE /\ uxPendedTicks < MaxPended
          /\ uxPendedTicks' = uxPendedTicks + 1
          /\ UNCHANGED <<xTickCount, lists, wake, entered>>
  /\ waited' = [t \in Tasks |-> IF Bounded(t) /\ waited[t] < call[t].wait
                                THEN waited[t] + 1 ELSE waited[t]]
  /\ UNCHANGED <<ring, cTxLock, suspended, pendReady, pc, call, ticksToWait>>

-----------------------------------------------------------------------------
Step(t) ==
  \/ Send(t) \/ Receive(t) \/ Refuse(t) \/ Wait(t)
  \/ SuspendAll(t) \/ Lock(t) \/ CheckForTimeOut(t) \/ Test(t) \/ Place(t)
  \/ Unlock(t) \/ ResumeAll(t) \/ Late(t)

Next ==
  \/ \E t \in Tasks : CallPost(t) \/ CallFetch(t) \/ Step(t)
  \/ SendFromISR
  \/ Tick

\* A ready task gets the processor again and again: tasks of one priority are
\* time-sliced and those above block.
Spec == Init /\ [][Next]_vars /\ WF_vars(Tick) /\ \A t \in Tasks : SF_vars(Step(t))

-----------------------------------------------------------------------------
Labels == {"idle", "try", "suspend", "lock", "check", "test", "place", "unlock", "resume",
           "unlock_late", "resume_late", "late"}

Calls == {Idle} \cup [op : {"post"}, wait : {0, Forever}] \cup [op : {"fetch"}, wait : Ticks]
Times == {NoTime} \cup [at : Ticks, wrapped : BOOLEAN]
Wakes == {NoWake} \cup [at : Ticks, overflow : BOOLEAN]

TypeOK ==
  /\ slots \in [0 .. Cap - 1 -> Items]
  /\ writeTo \in 0 .. Cap - 1
  /\ readFrom \in 0 .. Cap - 1
  /\ waiting \in 0 .. Cap
  /\ cTxLock \in -1 .. Cap
  /\ recvList \in SUBSET Fetchers
  /\ sendList \in SUBSET Posters
  /\ suspended \in Tasks \cup {None}
  /\ pendReady \in SUBSET Tasks
  /\ xTickCount \in Ticks
  /\ uxPendedTicks \in 0 .. MaxPended
  /\ pc \in [Tasks -> Labels]
  /\ call \in [Tasks -> Calls]
  /\ ticksToWait \in [Tasks -> Ticks]
  /\ entered \in [Tasks -> Times]
  /\ wake \in [Tasks -> Wakes]
  /\ waited \in [Tasks -> Ticks]

\* The messages in the ring, oldest first.
Content == [i \in 1 .. waiting |-> slots[(readFrom + i) % Cap]]

Mbox == INSTANCE Mailbox WITH chan <- Content, Waits <- Ticks

\* The queue functions, with their locks, lists and retries, are a bounded FIFO:
\* nothing lost, doubled or reordered, no time-out early or with a message there
\* (across the wrap of the tick count too), and no waiting task forgotten.
ImplementsMailbox == Mbox!Spec

\* A task that has been taken off its event list, or was never on it, and will
\* look at the queue again before it waits.
WillLook(t) ==
  /\ pc[t] \in {"try", "suspend", "lock", "check", "test", "resume", "unlock"}
  /\ t \notin recvList \cup sendList

\* A receiver whose time has run out looks once more as well.
AwakeReceivers == {t \in Tasks : /\ call[t].op = "fetch"
                                 /\ WillLook(t) \/ pc[t] \in {"unlock_late", "resume_late", "late"}}
AwakeSenders == {t \in Tasks : call[t].op = "post" /\ WillLook(t)}

\* What interrupts have sent since the queue was locked.
Counted == IF cTxLock = Unlocked THEN 0 ELSE cTxLock

\* While a task sleeps in xQueueGenericReceive, every message in the queue is spoken
\* for by a receiver that is awake, or by the count of the lock; and likewise for
\* room and senders: no interleaving of interrupts, time-outs and thefts of a message
\* by a task that just came leaves a sleeper beside what it waits for.
NoSleeperBesideWork ==
  /\ recvList # {} => waiting <= Cardinality(AwakeReceivers) + Counted
  /\ sendList # {} => Cap - waiting <= Cardinality(AwakeSenders)
=============================================================================
