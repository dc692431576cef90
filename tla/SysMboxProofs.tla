---------------------------- MODULE SysMboxProofs ----------------------------
(***************************************************************************)
(* Proofs about SysMbox, for any tasks and priorities, any length of the   *)
(* queue, width of the tick count and number of pended ticks.              *)
(***************************************************************************)
EXTENDS SysMbox, SequenceTheorems, FiniteSetTheorems, TLAPS

(***************************************************************************)
(* Facts about remainders, for positions in a ring: the prover knows % for *)
(* numbers, not for a modulus that is a parameter.                         *)
(***************************************************************************)

\* Remainders over the first three turns of the ring.
LEMMA Turns ==
  ASSUME NEW a \in Nat, NEW m \in Nat, m # 0, a < m + m + m
  PROVE  /\ a < m => a % m = a
         /\ a >= m /\ a < m + m => a % m = a - m
         /\ a >= m + m => a % m = a - m - m
<1>1. (a < m => a % m = a) /\ (a >= m /\ a < m + m => a % m = a - m)
  OBVIOUS
<1>2. ASSUME a >= m + m PROVE a % m = a - m - m
  <2> DEFINE q == a \div m
             r == a % m
  <2>1. a = m * q + r /\ q \in Int /\ r \in 0 .. m - 1
    OBVIOUS
  <2> HIDE DEF q, r
  <2>2. q >= 2
    <3>1. ASSUME q <= 1 PROVE FALSE
      <4>1. m * q <= m
        BY <2>1, <3>1
      <4> QED
        BY <1>2, <2>1, <4>1
    <3> QED
      BY <2>1, <3>1
  <2>3. q <= 2
    <3>1. ASSUME q >= 3 PROVE FALSE
      <4>1. m * q >= m * 3
        BY <2>1, <3>1
      <4> QED
        BY <2>1, <4>1
    <3> QED
      BY <2>1, <3>1
  <2>4. q = 2 /\ m * 2 = m + m
    BY <2>1, <2>2, <2>3
  <2> QED
    BY <2>1, <2>4 DEF r
<1> QED
  BY <1>1, <1>2

\* Places of a ring less than a turn apart are different.
LEMMA Apart ==
  ASSUME NEW a \in Nat, NEW b \in Nat, NEW m \in Nat, m # 0, a < b, b < a + m, b < m + m + m
  PROVE  a % m # b % m
<1>1. a < m + m + m
  OBVIOUS
<1>2. (a < m => a % m = a) /\ (a >= m /\ a < m + m => a % m = a - m) /\ (a >= m + m => a % m = a - m - m)
  BY <1>1, Turns
<1>3. (b < m => b % m = b) /\ (b >= m /\ b < m + m => b % m = b - m) /\ (b >= m + m => b % m = b - m - m)
  BY Turns
<1> QED
  BY <1>2, <1>3

\* The turn of the ring does not matter.
LEMMA RemainderSum ==
  ASSUME NEW m \in Nat, m # 0, NEW a \in 0 .. m, NEW b \in 0 .. m
  PROVE  ((a % m) + b) % m = (a + b) % m
<1>1. a \in Nat /\ b \in Nat /\ a + b \in Nat /\ a < m + m + m /\ a + b < m + m + m
  OBVIOUS
<1>2. (a < m => a % m = a) /\ (a = m => a % m = 0)
  BY <1>1, Turns
<1>3. a % m \in Nat /\ (a % m) + b \in Nat /\ (a % m) + b < m + m + m
  BY <1>2
<1> DEFINE c == (a % m) + b
           d == a + b
<1>4. (c < m => c % m = c) /\ (c >= m /\ c < m + m => c % m = c - m)
  BY <1>3, Turns
<1>5. (d < m => d % m = d) /\ (d >= m /\ d < m + m => d % m = d - m) /\ (d >= m + m => d % m = d - m - m)
  BY <1>1, Turns
<1>6. c = IF a < m THEN d ELSE d - m
  BY <1>1, <1>2
<1>7. c < m + m
  BY <1>1, <1>2
<1> HIDE DEF c
<1>8. c % m = d % m
  BY <1>1, <1>4, <1>5, <1>6, <1>7
<1> QED
  BY <1>8 DEF c


-----------------------------------------------------------------------------
(* Types. *)

\* Where a task is while it holds the scheduler, and while it has locked the queue.
Inside == {"lock", "check", "test", "place", "unlock", "resume", "unlock_late", "resume_late"}
Locking == {"check", "test", "place", "unlock", "unlock_late"}

\* The task that has suspended the scheduler is the one in between.
Suspension == \A t \in Tasks : pc[t] \in Inside <=> suspended = t

\* While the queue is locked nobody receives, so that what is counted is there.
LockCount ==
  cTxLock # Unlocked =>
    /\ cTxLock <= waiting
    /\ suspended \in Tasks /\ pc[suspended] \in Locking

\* What a task has called for, and when it has called at all.
Calling ==
  \A t \in Tasks :
    /\ pc[t] = "idle" <=> call[t] = Idle
    /\ call[t] # Idle => \/ call[t].op = "post" /\ t \in Posters
                         \/ call[t].op = "fetch" /\ t \in Fetchers

TypeInv == TypeOK /\ Suspension /\ LockCount /\ Calling

LEMMA Constants ==
  /\ Cap \in Nat /\ Cap # 0
  /\ TickMod \in Nat /\ TickMod # 0 /\ TickMod # 1
  /\ Forever \in Ticks /\ 0 \in Ticks /\ Forever # 0
  /\ MaxPended \in Nat
BY SysMboxAssumption DEF Forever, Ticks

\* A remainder is a tick, and never above what it is taken of.
LEMMA Remainder ==
  ASSUME NEW a \in Int, NEW m \in Nat, m # 0
  PROVE  /\ a % m \in 0 .. m - 1
         /\ a \in 0 .. m - 1 => a % m = a
         /\ a >= 0 => a % m <= a
         /\ a >= m => a % m <= a - m
         /\ a >= 0 /\ a < m + m => a % m = IF a < m THEN a ELSE a - m
         /\ a < 0 /\ a + m >= 0 => a % m = a + m
OBVIOUS

LEMMA TypeInit == Init => TypeInv
<1> SUFFICES ASSUME Init PROVE TypeInv
  OBVIOUS
<1>1. waiting % Cap \in 0 .. Cap - 1 /\ waiting \in 0 .. Cap
  BY SysMboxAssumption, Remainder DEF Init
<1>2. Cap - 1 \in 0 .. Cap - 1 /\ 0 \in 0 .. MaxPended /\ 0 \in Ticks
  BY Constants DEF Ticks
<1>3. TypeOK
  BY <1>1, <1>2, Constants DEF Init, TypeOK, Labels, Unlocked, Calls, Times, Wakes
<1> QED
  BY <1>3, SysMboxAssumption
  DEF Init, TypeInv, Suspension, LockCount, Calling, Inside, Locking, None, Unlocked

\* What one more message in the ring, or one fewer, leaves of its types.
LEMMA RingTypes ==
  ASSUME TypeOK
  PROVE  /\ (writeTo + 1) % Cap \in 0 .. Cap - 1
         /\ (readFrom + 1) % Cap \in 0 .. Cap - 1
         /\ waiting < Cap => waiting + 1 \in 0 .. Cap
         /\ waiting > 0 => waiting - 1 \in 0 .. Cap
         /\ \A x \in Items : [slots EXCEPT ![writeTo] = x] \in [0 .. Cap - 1 -> Items]
BY Constants, Remainder DEF TypeOK

\* Waking tasks leaves lists of tasks.
LEMMA UnblockTypes ==
  ASSUME TypeOK, NEW W \in SUBSET Tasks, Unblock(W)
  PROVE  pendReady' \in SUBSET Tasks /\ wake' \in [Tasks -> Wakes]
<1>1. [t \in Tasks |-> IF t \in W THEN NoWake ELSE wake[t]] \in [Tasks -> Wakes]
  BY DEF TypeOK, Wakes
<1> QED
  BY <1>1 DEF Unblock, TypeOK

LEMMA WakeTypes ==
  ASSUME TypeOK
  PROVE  /\ WakeReceiver => /\ recvList' \in SUBSET Fetchers
                            /\ pendReady' \in SUBSET Tasks /\ wake' \in [Tasks -> Wakes]
         /\ WakeSender => /\ sendList' \in SUBSET Posters
                          /\ pendReady' \in SUBSET Tasks /\ wake' \in [Tasks -> Wakes]
<1>1. \A W \in Front(recvList, 1) \cup Front(sendList, 1) : W \in SUBSET Tasks
  BY DEF Front, TypeOK, Tasks
<1> QED
  BY <1>1, UnblockTypes DEF WakeReceiver, WakeSender, TypeOK

\* The records that the steps make.
LEMMA RecordTypes ==
  /\ Idle \in Calls /\ NoTime \in Times /\ NoWake \in Wakes
  /\ \A w \in {0, Forever} : [op |-> "post", wait |-> w] \in Calls
  /\ \A w \in Ticks : [op |-> "fetch", wait |-> w] \in Calls
  /\ TypeOK => Now \in Times
  /\ \A a \in Ticks, o \in BOOLEAN : [at |-> a, overflow |-> o] \in Wakes
BY DEF Calls, Times, Wakes, Now, TypeOK

LEMMA ReturnTypes ==
  ASSUME TypeOK, NEW t \in Tasks, Return(t)
  PROVE  /\ pc' \in [Tasks -> Labels] /\ call' \in [Tasks -> Calls]
         /\ entered' \in [Tasks -> Times] /\ ticksToWait' \in [Tasks -> Ticks]
BY RecordTypes, Constants DEF Return, Goto, TypeOK, Labels

\* Counting ticks keeps the types of what it touches.
LEMMA TickTypes ==
  ASSUME TypeOK, NEW n \in Nat, NEW W, IncrementTick(n, W)
  PROVE  /\ xTickCount' \in Ticks
         /\ recvList' \in SUBSET Fetchers /\ sendList' \in SUBSET Posters
         /\ entered' \in [Tasks -> Times] /\ wake' \in [Tasks -> Wakes]
<1>1. xTickCount' \in Ticks
  BY Constants, Remainder DEF IncrementTick, TickAfter, TypeOK, Ticks
<1>2. recvList' \in SUBSET Fetchers /\ sendList' \in SUBSET Posters
  BY DEF IncrementTick, TypeOK
<1>3. ASSUME NEW t \in Tasks
      PROVE  (IF entered[t] = NoTime THEN NoTime
              ELSE [at |-> entered[t].at, wrapped |-> entered[t].wrapped \/ WrapsIn(n)]) \in Times
  <2> DEFINE w == entered[t].wrapped \/ WrapsIn(n)
  <2>1. CASE entered[t] = NoTime
    BY <2>1 DEF Times
  <2>2. CASE entered[t] # NoTime
    <3>1. entered[t] \in [at : Ticks, wrapped : BOOLEAN]
      BY <2>2 DEF TypeOK, Times
    <3>2. entered[t].at \in Ticks /\ w \in BOOLEAN
      BY <3>1
    <3> HIDE DEF w
    <3>3. [at |-> entered[t].at, wrapped |-> w] \in Times
      BY <3>2 DEF Times
    <3> QED
      BY <2>2, <3>3 DEF w
  <2> QED
    BY <2>1, <2>2
<1>4. ASSUME NEW t \in Tasks
      PROVE  (IF t \in (DueIn(n) \ W) \cup W \/ wake[t] = NoWake THEN NoWake
              ELSE [at |-> wake[t].at, overflow |-> wake[t].overflow /\ ~WrapsIn(n)]) \in Wakes
  <2> DEFINE o == wake[t].overflow /\ ~WrapsIn(n)
  <2>1. CASE t \in (DueIn(n) \ W) \cup W \/ wake[t] = NoWake
    BY <2>1 DEF Wakes
  <2>2. CASE ~(t \in (DueIn(n) \ W) \cup W \/ wake[t] = NoWake)
    <3>1. wake[t] \in [at : Ticks, overflow : BOOLEAN]
      BY <2>2 DEF TypeOK, Wakes
    <3>2. wake[t].at \in Ticks /\ o \in BOOLEAN
      BY <3>1
    <3> HIDE DEF o
    <3>3. [at |-> wake[t].at, overflow |-> o] \in Wakes
      BY <3>2 DEF Wakes
    <3> QED
      BY <2>2, <3>3 DEF o
  <2> QED
    BY <2>1, <2>2
<1>5. entered' \in [Tasks -> Times]
  BY <1>3 DEF IncrementTick
<1>6. wake' \in [Tasks -> Wakes]
  BY <1>4 DEF IncrementTick
<1> QED
  BY <1>1, <1>2, <1>5, <1>6

\* TypeInv is inductive.
LEMMA TypeStep == TypeInv /\ [Next]_vars => TypeInv'
<1> SUFFICES ASSUME TypeInv, [Next]_vars PROVE TypeInv'
  OBVIOUS
<1> USE DEF TypeInv
<1>0. TypeOK /\ Suspension /\ LockCount /\ Calling /\ None \notin Tasks
  BY SysMboxAssumption DEF None
<1>1. ASSUME NEW t \in Tasks, CallPost(t) PROVE TypeInv'
  <2>0. PICK w \in Waits[t] : /\ call' = [call EXCEPT ![t] = [op |-> "post", wait |-> w]]
                              /\ ticksToWait' = [ticksToWait EXCEPT ![t] = w]
    BY <1>1 DEF CallPost
  <2>5. w \in Ticks /\ [op |-> "post", wait |-> w] \in Calls
    BY <1>1, <2>0, RecordTypes, SysMboxAssumption, Constants DEF CallPost
  <2>1. TypeOK'
    BY <1>0, <1>1, <2>0, <2>5, Constants DEF CallPost, TypeOK, Labels, Goto, ring, lists, kernel
  <2>2. Suspension'
    BY <1>0, <1>1 DEF CallPost, TypeOK, Suspension, Inside, At, Goto, MayRun, ring, lists, kernel
  <2>3. LockCount'
    BY <1>0, <1>1 DEF CallPost, TypeOK, Suspension, LockCount, Inside, Locking, Unlocked, At, Goto, MayRun, ring, lists, kernel
  <2>4. Calling'
    BY <1>0, <1>1 DEF CallPost, TypeOK, Calling, Idle, At, Goto, MayRun, ring, lists, kernel
  <2> QED
    BY <2>1, <2>2, <2>3, <2>4
<1>2. ASSUME NEW t \in Tasks, CallFetch(t) PROVE TypeInv'
  <2>0. PICK w \in Waits[t] : /\ call' = [call EXCEPT ![t] = [op |-> "fetch", wait |-> w]]
                              /\ ticksToWait' = [ticksToWait EXCEPT ![t] = w]
    BY <1>2 DEF CallFetch
  <2>5. w \in Ticks /\ [op |-> "fetch", wait |-> w] \in Calls
    BY <1>2, <2>0, RecordTypes, SysMboxAssumption, Constants DEF CallFetch
  <2>1. TypeOK'
    BY <1>0, <1>2, <2>0, <2>5, Constants DEF CallFetch, TypeOK, Labels, Goto, ring, lists, kernel
  <2>2. Suspension'
    BY <1>0, <1>2 DEF CallFetch, TypeOK, Suspension, Inside, At, Goto, MayRun, ring, lists, kernel
  <2>3. LockCount'
    BY <1>0, <1>2 DEF CallFetch, TypeOK, Suspension, LockCount, Inside, Locking, Unlocked, At, Goto, MayRun, ring, lists, kernel
  <2>4. Calling'
    BY <1>0, <1>2 DEF CallFetch, TypeOK, Calling, Idle, At, Goto, MayRun, ring, lists, kernel
  <2> QED
    BY <2>1, <2>2, <2>3, <2>4
<1>3. ASSUME NEW t \in Tasks, Send(t) PROVE TypeInv'
  <2>0. t \in Items /\ waiting < Cap
    BY <1>0, <1>3 DEF Send, Calling, Items, Idle
  <2>5. /\ slots' \in [0 .. Cap - 1 -> Items] /\ writeTo' \in 0 .. Cap - 1
        /\ readFrom' \in 0 .. Cap - 1 /\ waiting' \in 0 .. Cap
    BY <1>0, <1>3, <2>0, RingTypes DEF Send, CopyIn, TypeOK
  <2>1. TypeOK'
    BY <1>0, <1>3, <2>5, WakeTypes, ReturnTypes DEF Send, TypeOK
  <2>2. Suspension'
    BY <1>0, <1>3 DEF Send, TypeOK, Suspension, Inside, At, Goto, MayRun, ring, lists, kernel, CopyIn, Return
  <2>3. LockCount'
    BY <1>0, <1>3 DEF Send, TypeOK, Suspension, LockCount, Inside, Locking, Unlocked, At, Goto, MayRun, ring, lists, kernel, CopyIn, Return
  <2>4. Calling'
    BY <1>0, <1>3 DEF Send, TypeOK, Calling, Idle, At, Goto, MayRun, ring, lists, kernel, CopyIn, Return
  <2> QED
    BY <2>1, <2>2, <2>3, <2>4
<1>4. ASSUME NEW t \in Tasks, Receive(t) PROVE TypeInv'
  <2>1. TypeOK'
    BY <1>0, <1>4, RecordTypes, Constants, RingTypes, WakeTypes, ReturnTypes DEF Receive, TypeOK, Labels, At, Goto, MayRun, ring, lists, kernel
  <2>2. Suspension'
    BY <1>0, <1>4 DEF Receive, TypeOK, Suspension, Inside, At, Goto, MayRun, ring, lists, kernel, Return
  <2>3. LockCount'
    BY <1>0, <1>4 DEF Receive, TypeOK, Suspension, LockCount, Inside, Locking, Unlocked, At, Goto, MayRun, ring, lists, kernel, Return
  <2>4. Calling'
    BY <1>0, <1>4 DEF Receive, TypeOK, Calling, Idle, At, Goto, MayRun, ring, lists, kernel, Return
  <2> QED
    BY <2>1, <2>2, <2>3, <2>4
<1>5. ASSUME NEW t \in Tasks, Refuse(t) PROVE TypeInv'
  <2>1. TypeOK'
    BY <1>0, <1>5, RecordTypes, Constants, ReturnTypes DEF Refuse, TypeOK, Labels, At, Goto, MayRun, ring, lists, kernel
  <2>2. Suspension'
    BY <1>0, <1>5 DEF Refuse, TypeOK, Suspension, Inside, At, Goto, MayRun, ring, lists, kernel, Return
  <2>3. LockCount'
    BY <1>0, <1>5 DEF Refuse, TypeOK, Suspension, LockCount, Inside, Locking, Unlocked, At, Goto, MayRun, ring, lists, kernel, Return
  <2>4. Calling'
    BY <1>0, <1>5 DEF Refuse, TypeOK, Calling, Idle, At, Goto, MayRun, ring, lists, kernel, Return
  <2> QED
    BY <2>1, <2>2, <2>3, <2>4
<1>6. ASSUME NEW t \in Tasks, Wait(t) PROVE TypeInv'
  <2>1. TypeOK'
    BY <1>0, <1>6, RecordTypes, Constants DEF Wait, TypeOK, Labels, At, Goto, MayRun, ring, lists, kernel, Now
  <2>2. Suspension'
    BY <1>0, <1>6 DEF Wait, TypeOK, Suspension, Inside, At, Goto, MayRun, ring, lists, kernel, Now
  <2>3. LockCount'
    BY <1>0, <1>6 DEF Wait, TypeOK, Suspension, LockCount, Inside, Locking, Unlocked, At, Goto, MayRun, ring, lists, kernel, Now
  <2>4. Calling'
    BY <1>0, <1>6 DEF Wait, TypeOK, Calling, Idle, At, Goto, MayRun, ring, lists, kernel, Now
  <2> QED
    BY <2>1, <2>2, <2>3, <2>4
<1>7. ASSUME NEW t \in Tasks, SuspendAll(t) PROVE TypeInv'
  <2>1. TypeOK'
    BY <1>0, <1>7, RecordTypes, Constants DEF SuspendAll, TypeOK, Labels, At, Goto, MayRun, ring, lists, kernel
  <2>2. Suspension'
    BY <1>0, <1>7 DEF SuspendAll, TypeOK, Suspension, Inside, At, Goto, MayRun, ring, lists, kernel
  <2>3. LockCount'
    BY <1>0, <1>7 DEF SuspendAll, TypeOK, Suspension, LockCount, Inside, Locking, Unlocked, At, Goto, MayRun, ring, lists, kernel
  <2>4. Calling'
    BY <1>0, <1>7 DEF SuspendAll, TypeOK, Calling, Idle, At, Goto, MayRun, ring, lists, kernel
  <2> QED
    BY <2>1, <2>2, <2>3, <2>4
<1>8. ASSUME NEW t \in Tasks, Lock(t) PROVE TypeInv'
  <2>1. TypeOK'
    BY <1>0, <1>8, RecordTypes, Constants DEF Lock, TypeOK, Labels, At, Goto, MayRun, ring, lists, kernel
  <2>2. Suspension'
    BY <1>0, <1>8 DEF Lock, TypeOK, Suspension, Inside, At, Goto, MayRun, ring, lists, kernel
  <2>3. LockCount'
    BY <1>0, <1>8 DEF Lock, TypeOK, Suspension, LockCount, Inside, Locking, Unlocked, At, Goto, MayRun, ring, lists, kernel
  <2>4. Calling'
    BY <1>0, <1>8 DEF Lock, TypeOK, Calling, Idle, At, Goto, MayRun, ring, lists, kernel
  <2> QED
    BY <2>1, <2>2, <2>3, <2>4
<1>9. ASSUME NEW t \in Tasks, CheckForTimeOut(t) PROVE TypeInv'
  <2>0. ~TimedOut(t) /\ ticksToWait[t] # Forever => ticksToWait[t] - Elapsed(t) \in Ticks
    <3>1. entered[t].at \in Int /\ xTickCount \in Int /\ ticksToWait[t] \in Ticks
      BY <1>0 DEF TypeOK, Times, NoTime, Ticks
    <3>2. Elapsed(t) \in 0 .. TickMod - 1
      <4>1. xTickCount - entered[t].at \in Int
        BY <3>1
      <4> QED
        BY <4>1, Remainder, Constants DEF Elapsed
    <3>3. ~TimedOut(t) /\ ticksToWait[t] # Forever => ~(Elapsed(t) >= ticksToWait[t])
      BY DEF TimedOut
    <3> QED
      BY <3>1, <3>2, <3>3, Constants DEF Ticks
  <2>1. TypeOK'
    BY <1>0, <1>9, <2>0, RecordTypes DEF CheckForTimeOut, TypeOK, Labels, Goto, ring, lists, kernel
  <2>2. Suspension'
    BY <1>0, <1>9 DEF CheckForTimeOut, TypeOK, Suspension, Inside, At, Goto, MayRun, ring, lists, kernel, Now, TimedOut, Elapsed
  <2>3. LockCount'
    BY <1>0, <1>9 DEF CheckForTimeOut, TypeOK, Suspension, LockCount, Inside, Locking, Unlocked, At, Goto, MayRun, ring, lists, kernel, Now, TimedOut, Elapsed
  <2>4. Calling'
    BY <1>0, <1>9 DEF CheckForTimeOut, TypeOK, Calling, Idle, At, Goto, MayRun, ring, lists, kernel, Now, TimedOut, Elapsed
  <2> QED
    BY <2>1, <2>2, <2>3, <2>4
<1>10. ASSUME NEW t \in Tasks, Test(t) PROVE TypeInv'
  <2>1. TypeOK'
    BY <1>0, <1>10, RecordTypes, Constants DEF Test, TypeOK, Labels, At, Goto, MayRun, ring, lists, kernel
  <2>2. Suspension'
    BY <1>0, <1>10 DEF Test, TypeOK, Suspension, Inside, At, Goto, MayRun, ring, lists, kernel
  <2>3. LockCount'
    BY <1>0, <1>10 DEF Test, TypeOK, Suspension, LockCount, Inside, Locking, Unlocked, At, Goto, MayRun, ring, lists, kernel
  <2>4. Calling'
    BY <1>0, <1>10 DEF Test, TypeOK, Calling, Idle, At, Goto, MayRun, ring, lists, kernel
  <2> QED
    BY <2>1, <2>2, <2>3, <2>4
<1>11. ASSUME NEW t \in Tasks, Place(t) PROVE TypeInv'
  <2>0. (xTickCount + ticksToWait[t]) % TickMod \in Ticks
    <3>1. xTickCount + ticksToWait[t] \in Int
      BY <1>0, Constants DEF TypeOK, Ticks
    <3> QED
      BY <3>1, Remainder, Constants DEF Ticks
  <2>5. wake' \in [Tasks -> Wakes]
    <3> DEFINE o == xTickCount + ticksToWait[t] >= TickMod
               new == [at |-> (xTickCount + ticksToWait[t]) % TickMod, overflow |-> o]
    <3>1. new \in Wakes
      <4>1. o \in BOOLEAN
        OBVIOUS
      <4> HIDE DEF o
      <4> QED
        BY <2>0, <4>1, RecordTypes
    <3>2. wake' = wake \/ wake' = [wake EXCEPT ![t] = new]
      BY <1>11 DEF Place
    <3> HIDE DEF new
    <3> QED
      BY <1>0, <3>1, <3>2 DEF TypeOK
  <2>6. recvList' \in SUBSET Fetchers /\ sendList' \in SUBSET Posters
    BY <1>0, <1>11 DEF Place, TypeOK, Calling, Idle, At
  <2>1. TypeOK'
    BY <1>0, <1>11, <2>5, <2>6 DEF Place, TypeOK, Labels, Goto, ring, kernel
  <2>2. Suspension'
    BY <1>0, <1>11 DEF Place, TypeOK, Suspension, Inside, At, Goto, MayRun, ring, lists, kernel
  <2>3. LockCount'
    BY <1>0, <1>11 DEF Place, TypeOK, Suspension, LockCount, Inside, Locking, Unlocked, At, Goto, MayRun, ring, lists, kernel
  <2>4. Calling'
    BY <1>0, <1>11 DEF Place, TypeOK, Calling, Idle, At, Goto, MayRun, ring, lists, kernel
  <2> QED
    BY <2>1, <2>2, <2>3, <2>4
<1>12. ASSUME NEW t \in Tasks, Unlock(t) PROVE TypeInv'
  <2>0. recvList' \in SUBSET Fetchers /\ pendReady' \in SUBSET Tasks
    BY <1>0, <1>12 DEF Unlock, Front, TypeOK, Tasks
  <2>1. TypeOK'
    BY <1>0, <1>12, <2>0, Constants DEF Unlock, TypeOK, Labels, Goto, ring, Unlocked
  <2>2. Suspension'
    BY <1>0, <1>12 DEF Unlock, TypeOK, Suspension, Inside, At, Goto, MayRun, ring, lists, kernel
  <2>3. LockCount'
    BY <1>0, <1>12 DEF Unlock, TypeOK, Suspension, LockCount, Inside, Locking, Unlocked, At, Goto, MayRun, ring, lists, kernel
  <2>4. Calling'
    BY <1>0, <1>12 DEF Unlock, TypeOK, Calling, Idle, At, Goto, MayRun, ring, lists, kernel
  <2> QED
    BY <2>1, <2>2, <2>3, <2>4
<1>13. ASSUME NEW t \in Tasks, ResumeAll(t) PROVE TypeInv'
  <2>1. TypeOK'
    BY <1>0, <1>13, RecordTypes, Constants, TickTypes DEF ResumeAll, TypeOK, Labels, At, Goto, MayRun, ring, lists, kernel
  <2>2. Suspension'
    BY <1>0, <1>13 DEF ResumeAll, TypeOK, Suspension, Inside, At, Goto, MayRun, ring, lists, kernel
  <2>3. LockCount'
    BY <1>0, <1>13 DEF ResumeAll, TypeOK, Suspension, LockCount, Inside, Locking, Unlocked, At, Goto, MayRun, ring, lists, kernel
  <2>4. Calling'
    BY <1>0, <1>13 DEF ResumeAll, TypeOK, Calling, Idle, At, Goto, MayRun, ring, lists, kernel
  <2> QED
    BY <2>1, <2>2, <2>3, <2>4
<1>14. ASSUME NEW t \in Tasks, Late(t) PROVE TypeInv'
  <2>1. TypeOK'
    BY <1>0, <1>14, RecordTypes, Constants, ReturnTypes DEF Late, TypeOK, Labels, At, Goto, MayRun, ring, lists, kernel
  <2>2. Suspension'
    BY <1>0, <1>14 DEF Late, TypeOK, Suspension, Inside, At, Goto, MayRun, ring, lists, kernel, Return
  <2>3. LockCount'
    BY <1>0, <1>14 DEF Late, TypeOK, Suspension, LockCount, Inside, Locking, Unlocked, At, Goto, MayRun, ring, lists, kernel, Return
  <2>4. Calling'
    BY <1>0, <1>14 DEF Late, TypeOK, Calling, Idle, At, Goto, MayRun, ring, lists, kernel, Return
  <2> QED
    BY <2>1, <2>2, <2>3, <2>4
<1>15. CASE SendFromISR
  <2>0. /\ slots' \in [0 .. Cap - 1 -> Items] /\ writeTo' \in 0 .. Cap - 1
        /\ readFrom' \in 0 .. Cap - 1 /\ waiting' \in 0 .. Cap
    BY <1>0, <1>15, RingTypes DEF SendFromISR, CopyIn, TypeOK, Items
  <2>2. cTxLock' \in -1 .. Cap
    BY <1>0, <1>15, Constants DEF SendFromISR, TypeOK, LockCount, Unlocked
  <2>1. TypeOK'
    BY <1>0, <1>15, <2>0, <2>2, WakeTypes DEF SendFromISR, TypeOK
  <2> QED
    BY <1>0, <1>15, <2>1 DEF SendFromISR, CopyIn, TypeOK, Suspension, LockCount, Calling, Unlocked
<1>16. CASE Tick
  <2>0. waited' \in [Tasks -> Ticks]
    <3>1. ASSUME NEW t \in Tasks, Bounded(t), waited[t] < call[t].wait
          PROVE  waited[t] + 1 \in Ticks
      <4>1. call[t] \in Calls /\ waited[t] \in Ticks
        BY <1>0 DEF TypeOK
      <4>2. call[t].wait \in Ticks
        BY <3>1, <4>1, Constants DEF Calls, Bounded
      <4> QED
        BY <3>1, <4>1, <4>2, Constants DEF Ticks
    <3> QED
      BY <1>0, <1>16, <3>1 DEF Tick, TypeOK
  <2>4. UNCHANGED <<ring, cTxLock, suspended, pendReady, pc, call, ticksToWait>>
    BY <1>16 DEF Tick
  <2>2. ASSUME suspended = None PROVE TypeOK'
    <3>1. IncrementTick(1, {}) /\ UNCHANGED uxPendedTicks
      BY <1>16, <2>2 DEF Tick
    <3>2. /\ xTickCount' \in Ticks
          /\ recvList' \in SUBSET Fetchers /\ sendList' \in SUBSET Posters
          /\ entered' \in [Tasks -> Times] /\ wake' \in [Tasks -> Wakes]
      BY <1>0, <3>1, TickTypes
    <3> QED
      BY <1>0, <2>0, <2>4, <3>1, <3>2 DEF TypeOK, ring
  <2>3. ASSUME suspended # None PROVE TypeOK'
    <3>1. uxPendedTicks' \in 0 .. MaxPended /\ UNCHANGED <<xTickCount, lists, wake, entered>>
      BY <1>0, <1>16, <2>3, Constants DEF Tick, TypeOK
    <3> QED
      BY <1>0, <2>0, <2>4, <3>1 DEF TypeOK, ring, lists
  <2>1. TypeOK'
    BY <2>2, <2>3
  <2> QED
    BY <1>0, <1>16, <2>1 DEF Tick, Suspension, LockCount, Calling, ring
<1>17. CASE UNCHANGED vars
  BY <1>17 DEF vars, TypeOK, Suspension, LockCount, Calling, ring, lists, kernel
<1> QED
  BY <1>1, <1>2, <1>3, <1>4, <1>5, <1>6, <1>7, <1>8, <1>9, <1>10, <1>11, <1>12, <1>13, <1>14, <1>15, <1>16, <1>17 DEF Next, Step

\* The types of queue, scheduler and callers, through every interleaving of tasks
\* and interrupts in xQueueGenericSend and xQueueGenericReceive.
THEOREM TypeCorrect == Spec => []TypeOK
<1>1. TypeInv => TypeOK
  BY DEF TypeInv
<1>2. Spec => []TypeInv
  BY TypeInit, TypeStep, PTL DEF Spec
<1> QED
  BY <1>1, <1>2, PTL

-----------------------------------------------------------------------------
(* The ring as a sequence. *)

\* The next message goes behind the last one.
RingInv == writeTo = (readFrom + 1 + waiting) % Cap

\* One more, or one fewer, message keeps RingInv.
LEMMA RingStep ==
  ASSUME TypeOK, RingInv
  PROVE  /\ waiting < Cap => (writeTo + 1) % Cap = (readFrom + 1 + (waiting + 1)) % Cap
         /\ waiting > 0 => writeTo = (((readFrom + 1) % Cap) + 1 + (waiting - 1)) % Cap
<1>1. readFrom \in 0 .. Cap - 1 /\ waiting \in 0 .. Cap /\ writeTo \in 0 .. Cap - 1
  BY DEF TypeOK
<1>2. waiting < Cap => (writeTo + 1) % Cap = (readFrom + 1 + (waiting + 1)) % Cap
  <2>1. SUFFICES ASSUME waiting < Cap PROVE (writeTo + 1) % Cap = (readFrom + 1 + (waiting + 1)) % Cap
    OBVIOUS
  <2>2. /\ readFrom + 1 + waiting < Cap => writeTo = readFrom + 1 + waiting
        /\ readFrom + 1 + waiting >= Cap => writeTo = (readFrom + 1 + waiting) - Cap
    <3>1. readFrom + 1 + waiting \in Nat /\ readFrom + 1 + waiting < Cap + Cap
      BY <1>1, <2>1, Constants
    <3> DEFINE s == readFrom + 1 + waiting
    <3>2. (s < Cap => s % Cap = s) /\ (s >= Cap /\ s < Cap + Cap => s % Cap = s - Cap)
      BY <3>1, Turns, Constants
    <3>3. writeTo = s % Cap
      BY DEF RingInv
    <3> HIDE DEF s
    <3>4. (s < Cap => writeTo = s) /\ (s >= Cap => writeTo = s - Cap)
      BY <1>1, <3>1, <3>2, <3>3, Constants DEF s
    <3> QED
      BY <3>4 DEF s
  <2>3. writeTo + 1 \in Nat /\ writeTo + 1 < Cap + Cap
    BY <1>1, Constants
  <2>4. (writeTo + 1 < Cap => (writeTo + 1) % Cap = writeTo + 1) /\ (writeTo + 1 = Cap => (writeTo + 1) % Cap = 0)
    BY <2>3, Turns, Constants
  <2>5. readFrom + 1 + (waiting + 1) \in Nat /\ readFrom + 1 + (waiting + 1) < Cap + Cap + Cap
    BY <1>1, <2>1, Constants
  <2> DEFINE s == readFrom + 1 + (waiting + 1)
  <2>6. (s < Cap => s % Cap = s) /\ (s >= Cap /\ s < Cap + Cap => s % Cap = s - Cap) /\ (s >= Cap + Cap => s % Cap = s - Cap - Cap)
    BY <2>5, Turns, Constants
  <2> QED
    BY <1>1, <2>1, <2>2, <2>4, <2>6, Constants
<1>3. waiting > 0 => writeTo = (((readFrom + 1) % Cap) + 1 + (waiting - 1)) % Cap
  <2>1. readFrom + 1 \in 0 .. Cap
    BY <1>1, Constants
  <2>2. (((readFrom + 1) % Cap) + waiting) % Cap = (readFrom + 1 + waiting) % Cap
    BY <1>1, <2>1, RemainderSum, Constants
  <2>3. (readFrom + 1) % Cap \in Int
    BY <2>1, Remainder, Constants
  <2>4. ((readFrom + 1) % Cap) + 1 + (waiting - 1) = ((readFrom + 1) % Cap) + waiting
    BY <1>1, <2>3
  <2> QED
    BY <2>2, <2>4 DEF RingInv
<1> QED
  BY <1>2, <1>3

\* Content is a sequence of messages.
LEMMA ContentSeq ==
  ASSUME TypeOK
  PROVE  Content \in [1 .. waiting -> Items] /\ Content \in Seq(Items) /\ Len(Content) = waiting
<1>1. waiting \in Nat /\ readFrom \in Nat
  BY DEF TypeOK
<1>2. \A i \in 1 .. waiting : slots[(readFrom + i) % Cap] \in Items
  BY <1>1, Remainder, Constants DEF TypeOK
<1>3. Content \in [1 .. waiting -> Items]
  BY <1>2 DEF Content
<1> QED
  BY <1>1, <1>3

\* Append and Tail as functions.
LEMMA AppendFunction ==
  ASSUME NEW S, NEW s \in Seq(S), NEW x \in S
  PROVE  Append(s, x) = [i \in 1 .. Len(s) + 1 |-> IF i = Len(s) + 1 THEN x ELSE s[i]]
<1>1. /\ Append(s, x) \in Seq(S) /\ Len(Append(s, x)) = Len(s) + 1
      /\ \A i \in 1 .. Len(s) : Append(s, x)[i] = s[i]
      /\ Append(s, x)[Len(s) + 1] = x
  BY AppendProperties
<1>2. Len(s) \in Nat
  OBVIOUS
<1>3. Append(s, x) = [i \in 1 .. Len(s) + 1 |-> Append(s, x)[i]]
  BY <1>1, LenProperties
<1>4. \A i \in 1 .. Len(s) + 1 : Append(s, x)[i] = IF i = Len(s) + 1 THEN x ELSE s[i]
  BY <1>1, <1>2
<1> QED
  BY <1>3, <1>4

LEMMA TailFunction ==
  ASSUME NEW S, NEW s \in Seq(S), s # <<>>
  PROVE  Tail(s) = [i \in 1 .. Len(s) - 1 |-> s[i + 1]]
<1>1. /\ Tail(s) \in Seq(S) /\ Len(Tail(s)) = Len(s) - 1
      /\ \A i \in 1 .. Len(Tail(s)) : Tail(s)[i] = s[i + 1]
  BY HeadTailProperties
<1>2. Tail(s) = [i \in 1 .. Len(s) - 1 |-> Tail(s)[i]]
  BY <1>1, LenProperties
<1> QED
  BY <1>1, <1>2

\* prvCopyDataToQueue puts a message behind the others.
LEMMA ContentPut ==
  ASSUME TypeOK, RingInv, NEW x \in Items, waiting < Cap, CopyIn(x)
  PROVE  Content' = Append(Content, x)
<1>1. waiting \in Nat /\ readFrom \in Nat /\ readFrom' = readFrom /\ waiting' = waiting + 1
  BY DEF TypeOK, CopyIn
<1>2. slots' = [slots EXCEPT ![writeTo] = x] /\ slots \in [0 .. Cap - 1 -> Items]
      /\ writeTo = (readFrom + (waiting + 1)) % Cap /\ writeTo \in 0 .. Cap - 1
  <2>1. readFrom + 1 + waiting = readFrom + (waiting + 1)
    BY <1>1
  <2> QED
    BY <2>1 DEF TypeOK, CopyIn, RingInv
<1>3. ASSUME NEW i \in 1 .. waiting
      PROVE  slots'[(readFrom + i) % Cap] = slots[(readFrom + i) % Cap]
  <2>1. /\ readFrom + i \in Nat /\ readFrom + (waiting + 1) \in Nat
        /\ readFrom + i < readFrom + (waiting + 1)
        /\ readFrom + (waiting + 1) < readFrom + i + Cap
        /\ readFrom + (waiting + 1) < Cap + Cap + Cap
    BY <1>1, Constants DEF TypeOK
  <2>2. (readFrom + i) % Cap # writeTo
    BY <1>2, <2>1, Apart, Constants
  <2>3. (readFrom + i) % Cap \in 0 .. Cap - 1
    <3>1. readFrom + i \in Int
      BY <2>1
    <3> QED
      BY <3>1, Remainder, Constants
  <2> QED
    BY <1>2, <2>2, <2>3
<1>4. slots'[(readFrom + (waiting + 1)) % Cap] = x
  BY <1>2
<1>5. Content' = [i \in 1 .. waiting + 1 |-> slots'[(readFrom + i) % Cap]]
  BY <1>1 DEF Content
<1>6. Append(Content, x) = [i \in 1 .. waiting + 1 |-> IF i = waiting + 1 THEN x ELSE Content[i]]
  <2> HIDE DEF Content
  <2> QED
    BY <1>1, ContentSeq, AppendFunction
<1>7. ASSUME NEW i \in 1 .. waiting + 1
      PROVE  slots'[(readFrom + i) % Cap] = IF i = waiting + 1 THEN x ELSE Content[i]
  <2>1. CASE i = waiting + 1
    BY <1>4, <2>1
  <2>2. CASE i # waiting + 1
    <3>1. i \in 1 .. waiting
      BY <1>1, <2>2
    <3>2. Content[i] = slots[(readFrom + i) % Cap]
      BY <3>1 DEF Content
    <3> QED
      BY <1>3, <2>2, <3>1, <3>2
  <2> QED
    BY <2>1, <2>2
<1> QED
  BY <1>5, <1>6, <1>7

\* A receiver takes the first of them.
LEMMA ContentTake ==
  ASSUME TypeOK, waiting > 0, UNCHANGED slots,
         readFrom' = (readFrom + 1) % Cap, waiting' = waiting - 1
  PROVE  Content' = Tail(Content)
<1>1. waiting \in Nat /\ readFrom \in Nat
  BY DEF TypeOK
<1>2. ASSUME NEW i \in 1 .. waiting - 1
      PROVE  slots'[(readFrom' + i) % Cap] = Content[i + 1]
  <2>1. (((readFrom + 1) % Cap) + i) % Cap = (readFrom + 1 + i) % Cap
    <3>1. readFrom + 1 \in 0 .. Cap /\ i \in 0 .. Cap
      BY Constants DEF TypeOK
    <3> QED
      BY <3>1, RemainderSum, Constants
  <2>2. readFrom + 1 + i = readFrom + (i + 1) /\ i + 1 \in 1 .. waiting
    BY <1>1
  <2> QED
    BY <2>1, <2>2 DEF Content
<1>3. Tail(Content) = [i \in 1 .. waiting - 1 |-> Content[i + 1]]
  BY <1>1, ContentSeq, TailFunction
<1>4. Content' = [i \in 1 .. waiting - 1 |-> slots'[(readFrom' + i) % Cap]]
  BY DEF Content
<1> QED
  BY <1>2, <1>3, <1>4

-----------------------------------------------------------------------------
(* Time. *)

\* Ticks counted since the entry time, if the count has wrapped once at most.
Since(t) == xTickCount - entered[t].at + (IF entered[t].wrapped THEN TickMod ELSE 0)

\* The rest of the block time is part of the wait, nothing of it was lost.
Rest(t) ==
  call[t] # Idle =>
    /\ ticksToWait[t] <= call[t].wait
    /\ ticksToWait[t] = 0 => call[t].wait = 0
    /\ ticksToWait[t] = Forever <=> call[t].wait = Forever
    /\ entered[t] = NoTime => ticksToWait[t] = call[t].wait

\* A task that waits has time to wait, and an entry time if the wait has an end.
Entry(t) ==
  pc[t] \notin {"idle", "try"} =>
    /\ ticksToWait[t] # 0
    /\ ticksToWait[t] # Forever => entered[t] # NoTime

\* What was taken off the block time, and what has been counted or pended since the
\* entry time, has passed since the call.
Passed(t) ==
  entered[t] # NoTime =>
    /\ Bounded(t)
    /\ ~entered[t].wrapped => entered[t].at <= xTickCount
    /\ \/ waited[t] >= call[t].wait
       \/ waited[t] >= call[t].wait - ticksToWait[t] + Since(t) + uxPendedTicks

\* A task that gives up has waited long enough.
GivesUp(t) ==
  pc[t] \in {"unlock_late", "resume_late", "late"} =>
    call[t].op = "fetch" /\ call[t].wait # Forever /\ waited[t] >= call[t].wait

Timely(t) == Rest(t) /\ Entry(t) /\ Passed(t) /\ GivesUp(t)
Timing == \A t \in Tasks : Timely(t)

\* Ticks are pended only while the scheduler is suspended.
Pended == suspended = None => uxPendedTicks = 0

SafeInv == TypeInv /\ RingInv /\ Timing /\ Pended

\* Counting n ticks makes the time since an entry n ticks longer at most.
LEMMA CountArith ==
  ASSUME NEW x \in Ticks, NEW a \in Ticks, NEW n \in Nat, NEW b \in BOOLEAN, NEW c \in BOOLEAN,
         c <=> b \/ x + n >= TickMod,
         ~b => a <= x
  PROVE  /\ x - a + (IF b THEN TickMod ELSE 0) \in Nat
         /\ ~c => a <= (x + n) % TickMod
         /\ ((x + n) % TickMod) - a + (IF c THEN TickMod ELSE 0) \in Nat
         /\ ((x + n) % TickMod) - a + (IF c THEN TickMod ELSE 0) <= x - a + (IF b THEN TickMod ELSE 0) + n
<1>1. TickMod \in Nat /\ x \in 0 .. TickMod - 1 /\ a \in 0 .. TickMod - 1 /\ x + n \in Nat
  BY Constants DEF Ticks
<1> DEFINE y == (x + n) % TickMod
<1>2. /\ y \in 0 .. TickMod - 1
      /\ x + n < TickMod => y = x + n
      /\ x + n >= TickMod => y <= x + n - TickMod
  <2> DEFINE z == x + n
  <2>1. z \in Nat /\ TickMod # 0
    BY <1>1, Constants
  <2> HIDE DEF z
  <2>2. /\ z % TickMod \in 0 .. TickMod - 1
        /\ z < TickMod => z % TickMod = z
        /\ z >= TickMod => z % TickMod <= z - TickMod
    <3>1. z \in Int /\ TickMod \in Nat /\ TickMod # 0
      BY <1>1, <2>1
    <3>2. z % TickMod \in 0 .. TickMod - 1
      BY <3>1, Remainder
    <3>3. z < TickMod => z % TickMod = z
      BY <2>1, <3>1, Remainder
    <3>4. z >= TickMod => z % TickMod <= z - TickMod
      BY <2>1, <3>1, Remainder
    <3> QED
      BY <3>2, <3>3, <3>4
  <2> QED
    BY <1>1, <2>1, <2>2 DEF z
<1> HIDE DEF y
<1>3. CASE b
  BY <1>1, <1>2, <1>3 DEF y
<1>4. CASE ~b /\ c
  BY <1>1, <1>2, <1>4 DEF y
<1>5. CASE ~b /\ ~c
  BY <1>1, <1>2, <1>5 DEF y
<1> QED
  BY <1>3, <1>4, <1>5

LEMMA EntryTypes ==
  ASSUME TypeOK, NEW t \in Tasks, entered[t] # NoTime
  PROVE  entered[t].at \in Ticks /\ entered[t].wrapped \in BOOLEAN
BY DEF TypeOK, Times

LEMMA CountUp ==
  ASSUME TypeOK, NEW n \in Nat, NEW W, IncrementTick(n, W), NEW t \in Tasks
  PROVE  /\ entered[t] = NoTime => entered'[t] = NoTime
         /\ entered[t] # NoTime /\ (~entered[t].wrapped => entered[t].at <= xTickCount) =>
              /\ entered'[t] # NoTime
              /\ ~entered'[t].wrapped => entered'[t].at <= xTickCount'
              /\ Since(t) \in Nat /\ Since(t)' \in Nat
              /\ Since(t)' <= Since(t) + n
<1>1. entered[t] = NoTime => entered'[t] = NoTime
  BY DEF IncrementTick
<1>2. ASSUME entered[t] # NoTime, ~entered[t].wrapped => entered[t].at <= xTickCount
      PROVE  /\ entered'[t] # NoTime
             /\ ~entered'[t].wrapped => entered'[t].at <= xTickCount'
             /\ Since(t) \in Nat /\ Since(t)' \in Nat
             /\ Since(t)' <= Since(t) + n
  <2> DEFINE a == entered[t].at
             b == entered[t].wrapped
             c == entered[t].wrapped \/ WrapsIn(n)
  <2>1. a \in Ticks /\ b \in BOOLEAN
    BY <1>2, EntryTypes
  <2>2. c \in BOOLEAN /\ (c <=> b \/ xTickCount + n >= TickMod)
    BY DEF WrapsIn
  <2>3. entered'[t] = [at |-> a, wrapped |-> c]
    BY <1>2 DEF IncrementTick
  <2>4. xTickCount' = (xTickCount + n) % TickMod /\ xTickCount \in Ticks
    BY DEF IncrementTick, TickAfter, TypeOK
  <2>5. Since(t) = xTickCount - a + (IF b THEN TickMod ELSE 0)
    BY DEF Since
  <2>6. ~b => a <= xTickCount
    BY <1>2
  <2> HIDE DEF a, b, c
  <2>7. entered'[t].at = a /\ entered'[t].wrapped = c
    BY <2>3
  <2>8. Since(t)' = ((xTickCount + n) % TickMod) - a + (IF c THEN TickMod ELSE 0)
    BY <2>4, <2>7 DEF Since
  <2>9. entered'[t] # NoTime
    BY <2>1, <2>7, Constants DEF NoTime, Ticks
  <2> QED
    BY <2>1, <2>2, <2>4, <2>5, <2>6, <2>7, <2>8, <2>9, CountArith
<1> QED
  BY <1>1, <1>2

\* The ring keeps its invariant.
LEMMA RingKept == TypeInv /\ RingInv /\ [Next]_vars => RingInv'
<1> SUFFICES ASSUME TypeInv, RingInv, [Next]_vars PROVE RingInv'
  OBVIOUS
<1>0. TypeOK
  BY DEF TypeInv
<1>1. ASSUME NEW x, waiting < Cap, CopyIn(x) PROVE RingInv'
  BY <1>0, <1>1, RingStep DEF CopyIn, RingInv
<1>2. ASSUME NEW t \in Tasks, Receive(t) PROVE RingInv'
  BY <1>0, <1>2, RingStep DEF Receive, RingInv
<1>3. ASSUME UNCHANGED <<writeTo, readFrom, waiting>> PROVE RingInv'
  BY <1>3 DEF RingInv
<1>4. ASSUME NEW t \in Tasks, Send(t) PROVE RingInv'
  BY <1>1, <1>4 DEF Send
<1>5. CASE SendFromISR
  BY <1>1, <1>5 DEF SendFromISR
<1>6. ASSUME NEW t \in Tasks,
             CallPost(t) \/ CallFetch(t) \/ Refuse(t) \/ Wait(t) \/ SuspendAll(t) \/ Lock(t) \/ CheckForTimeOut(t)
             \/ Test(t) \/ Place(t) \/ Unlock(t) \/ ResumeAll(t) \/ Late(t)
      PROVE  RingInv'
  BY <1>3, <1>6 DEF CallPost, CallFetch, Refuse, Wait, SuspendAll, Lock, CheckForTimeOut, Test, Place, Unlock,
                    ResumeAll, Late, ring
<1>7. CASE Tick \/ UNCHANGED vars
  BY <1>3, <1>7 DEF Tick, vars, ring
<1> QED
  BY <1>2, <1>4, <1>5, <1>6, <1>7 DEF Next, Step

LEMMA PendedKept == TypeInv /\ Pended /\ [Next]_vars => Pended'
<1> SUFFICES ASSUME TypeInv, Pended, [Next]_vars PROVE Pended'
  OBVIOUS
<1>1. ASSUME UNCHANGED <<suspended, uxPendedTicks>> PROVE Pended'
  BY <1>1 DEF Pended
<1>2. ASSUME NEW t \in Tasks,
             CallPost(t) \/ CallFetch(t) \/ Refuse(t) \/ Wait(t) \/ Lock(t) \/ CheckForTimeOut(t)
             \/ Test(t) \/ Place(t) \/ Unlock(t) \/ Late(t) \/ Send(t) \/ Receive(t)
      PROVE  Pended'
  BY <1>1, <1>2 DEF CallPost, CallFetch, Refuse, Wait, Lock, CheckForTimeOut, Test, Place, Unlock, Late, Send,
                    Receive, kernel
<1>3. ASSUME NEW t \in Tasks, SuspendAll(t) \/ ResumeAll(t) PROVE Pended'
  BY <1>3, SysMboxAssumption DEF SuspendAll, ResumeAll, Pended, None
<1>4. CASE SendFromISR \/ Tick \/ UNCHANGED vars
  BY <1>1, <1>4 DEF SendFromISR, Tick, vars, kernel, Pended
<1> QED
  BY <1>2, <1>3, <1>4 DEF Next, Step

\* What a step does not touch of a task stays timely.
LEMMA Untouched ==
  ASSUME NEW u \in Tasks, Timely(u),
         pc'[u] = pc[u], call'[u] = call[u], ticksToWait'[u] = ticksToWait[u],
         entered'[u] = entered[u], waited'[u] = waited[u],
         xTickCount' = xTickCount, uxPendedTicks' = uxPendedTicks
  PROVE  Timely(u)'
<1>1. Since(u)' = Since(u) /\ Bounded(u)' = Bounded(u)
  BY DEF Since, Bounded
<1> QED
  BY <1>1 DEF Timely, Rest, Entry, Passed, GivesUp

\* A call that returns leaves nothing to be timed.
LEMMA ReturnTimely ==
  ASSUME TypeOK, Timing, NEW t \in Tasks, Return(t), UNCHANGED <<xTickCount, uxPendedTicks, waited>>
  PROVE  Timing'
<1> SUFFICES ASSUME NEW u \in Tasks PROVE Timely(u)'
  BY DEF Timing
<1>1. CASE u = t
  BY <1>1 DEF Return, Goto, TypeOK, Timely, Rest, Entry, Passed, GivesUp
<1>2. CASE u # t
  BY <1>2, Untouched DEF Return, Goto, TypeOK, Timing
<1> QED
  BY <1>1, <1>2

\* Nor does going on change anything, to where no more is asked of a task.
LEMMA GotoTimely ==
  ASSUME TypeOK, Timing, NEW t \in Tasks, NEW label, Goto(t, label),
         UNCHANGED <<call, ticksToWait, entered, xTickCount, uxPendedTicks, waited>>,
         label \in {"idle", "try"} \/ pc[t] \notin {"idle", "try"},
         label \in {"unlock_late", "resume_late", "late"} => pc[t] \in {"unlock_late", "resume_late", "late"}
  PROVE  Timing'
<1> SUFFICES ASSUME NEW u \in Tasks PROVE Timely(u)'
  BY DEF Timing
<1>1. CASE u = t
  <2>1. Since(u)' = Since(u) /\ Bounded(u)' = Bounded(u)
    BY DEF Since, Bounded
  <2>2. pc'[t] = label /\ Timely(t)
    BY DEF Goto, TypeOK, Timing
  <2> QED
    BY <1>1, <2>1, <2>2 DEF Timely, Rest, Entry, Passed, GivesUp
<1>2. CASE u # t
  BY <1>2, Untouched DEF Goto, TypeOK, Timing
<1> QED
  BY <1>1, <1>2

\* Counting n ticks that have passed keeps tasks timely; waited may have grown as well.
LEMMA CountTimely ==
  ASSUME TypeOK, NEW u \in Tasks, Timely(u), NEW n \in Nat, NEW W, IncrementTick(n, W),
         call'[u] = call[u], ticksToWait'[u] = ticksToWait[u],
         pc'[u] = pc[u] \/ (pc[u] = "resume" /\ pc'[u] = "try") \/ (pc[u] = "resume_late" /\ pc'[u] = "late"),
         uxPendedTicks' \in Nat, waited'[u] \in Ticks, waited'[u] >= waited[u],
         entered[u] # NoTime =>
           \/ waited'[u] >= call[u].wait
           \/ waited'[u] + uxPendedTicks >= waited[u] + n + uxPendedTicks'
  PROVE  Timely(u)'
<1>1. CASE entered[u] = NoTime
  <2>1. entered'[u] = NoTime
    BY <1>1, CountUp
  <2>2. waited[u] \in Ticks /\ (GivesUp(u) => GivesUp(u)')
    <3>1. waited[u] \in Int /\ waited'[u] \in Int /\ waited[u] \in Ticks
      BY DEF TypeOK, Ticks
    <3>2. call[u].wait \in Int \/ call[u] = Idle
      BY Constants DEF TypeOK, Calls, Ticks
    <3> QED
      BY <3>1, <3>2 DEF GivesUp, Idle
  <2> QED
    BY <1>1, <2>1, <2>2 DEF Timely, Rest, Entry, Passed
<1>2. CASE entered[u] # NoTime
  <2>1. /\ ~entered[u].wrapped => entered[u].at <= xTickCount
        /\ Bounded(u)
        /\ \/ waited[u] >= call[u].wait
           \/ waited[u] >= call[u].wait - ticksToWait[u] + Since(u) + uxPendedTicks
    BY <1>2 DEF Timely, Passed
  <2>2. /\ entered'[u] # NoTime
        /\ ~entered'[u].wrapped => entered'[u].at <= xTickCount'
        /\ Since(u) \in Nat /\ Since(u)' \in Nat
        /\ Since(u)' <= Since(u) + n
    BY <1>2, <2>1, CountUp
  <2>3. /\ call[u].wait \in Int /\ ticksToWait[u] \in Int /\ waited[u] \in Int /\ uxPendedTicks \in Int
        /\ waited'[u] \in Int
    BY <2>1, Constants DEF TypeOK, Ticks, Bounded, Calls
  <2>4. \/ waited'[u] >= call[u].wait
        \/ waited'[u] >= call[u].wait - ticksToWait[u] + Since(u)' + uxPendedTicks'
    BY <1>2, <2>1, <2>2, <2>3
  <2>5. Bounded(u)'
    BY <2>1 DEF Bounded
  <2>6. Passed(u)'
    BY <2>2, <2>4, <2>5 DEF Passed
  <2>7. Rest(u)' /\ Entry(u)'
    BY <1>2, <2>2 DEF Timely, Rest, Entry
  <2>8. GivesUp(u)'
    BY <2>3 DEF Timely, GivesUp
  <2> QED
    BY <2>6, <2>7, <2>8 DEF Timely
<1> QED
  BY <1>1, <1>2

LEMMA TimingKept == SafeInv /\ [Next]_vars => Timing'
<1> SUFFICES ASSUME SafeInv, [Next]_vars PROVE Timing'
  OBVIOUS
<1>0. TypeOK /\ Suspension /\ Calling /\ Timing /\ Pended /\ None \notin Tasks
  BY SysMboxAssumption DEF SafeInv, TypeInv, None
<1>1. ASSUME NEW t \in Tasks, NEW c \in Calls, c # Idle, pc[t] = "idle",
             call' = [call EXCEPT ![t] = c], ticksToWait' = [ticksToWait EXCEPT ![t] = c.wait],
             Goto(t, "try"), UNCHANGED <<entered, xTickCount, uxPendedTicks>>,
             waited' = [waited EXCEPT ![t] = 0]
      PROVE  Timing'
  <2> SUFFICES ASSUME NEW u \in Tasks PROVE Timely(u)'
    BY DEF Timing
  <2>1. CASE u = t
    <3>1. entered[t] = NoTime
      BY <1>0, <1>1 DEF Calling, Timing, Timely, Passed, Bounded
    <3>2. /\ pc'[t] = "try" /\ call'[t] = c /\ ticksToWait'[t] = c.wait
          /\ entered'[t] = NoTime
      BY <1>0, <1>1, <3>1 DEF Goto, TypeOK
    <3>3. c.wait \in Ticks
      BY <1>1, Constants DEF Calls
    <3> QED
      BY <2>1, <3>2, <3>3 DEF Timely, Rest, Entry, Passed, GivesUp, Ticks
  <2>2. CASE u # t
    BY <1>0, <1>1, <2>2, Untouched DEF Goto, TypeOK, Timing
  <2> QED
    BY <2>1, <2>2
<1>2. ASSUME NEW t \in Tasks, CallPost(t) PROVE Timing'
  <2>1. PICK w \in Waits[t] : /\ call' = [call EXCEPT ![t] = [op |-> "post", wait |-> w]]
                              /\ ticksToWait' = [ticksToWait EXCEPT ![t] = w]
    BY <1>2 DEF CallPost
  <2> DEFINE c == [op |-> "post", wait |-> w]
  <2>2. c \in Calls /\ c # Idle /\ c.wait = w
    BY <1>2, RecordTypes, SysMboxAssumption DEF CallPost, Idle
  <2> HIDE DEF c
  <2> QED
    BY <1>1, <1>2, <2>1, <2>2 DEF CallPost, kernel, c
<1>3. ASSUME NEW t \in Tasks, CallFetch(t) PROVE Timing'
  <2>1. PICK w \in Waits[t] : /\ call' = [call EXCEPT ![t] = [op |-> "fetch", wait |-> w]]
                              /\ ticksToWait' = [ticksToWait EXCEPT ![t] = w]
    BY <1>3 DEF CallFetch
  <2> DEFINE c == [op |-> "fetch", wait |-> w]
  <2>2. c \in Calls /\ c # Idle /\ c.wait = w
    BY <1>3, RecordTypes, SysMboxAssumption DEF CallFetch, Idle
  <2> HIDE DEF c
  <2> QED
    BY <1>1, <1>3, <2>1, <2>2 DEF CallFetch, kernel, c
<1>4. ASSUME NEW t \in Tasks, Send(t) \/ Receive(t) \/ Refuse(t) PROVE Timing'
  BY <1>0, <1>4, ReturnTimely DEF Send, Receive, Refuse, kernel
<1>5. ASSUME NEW t \in Tasks, Late(t) PROVE Timing'
  <2>1. CASE Stuck(t)
    BY <1>0, <1>5, <2>1, ReturnTimely DEF Late, kernel
  <2>2. CASE ~Stuck(t)
    BY <1>0, <1>5, <2>2, GotoTimely DEF Late, kernel
  <2> QED
    BY <2>1, <2>2
<1>6. ASSUME NEW t \in Tasks, SuspendAll(t) \/ Lock(t) \/ Test(t) \/ Place(t) \/ Unlock(t) PROVE Timing'
  <2>1. PICK label : /\ Goto(t, label)
                     /\ label \notin {"idle", "try"} => pc[t] \notin {"idle", "try"}
                     /\ label \in {"unlock_late", "resume_late", "late"} =>
                          pc[t] \in {"unlock_late", "resume_late", "late"}
    <3>1. CASE SuspendAll(t)
      BY <3>1 DEF SuspendAll, At
    <3>2. CASE Lock(t)
      BY <3>2 DEF Lock, At
    <3>3. CASE Test(t)
      BY <3>3 DEF Test, At
    <3>4. CASE Place(t)
      BY <3>4 DEF Place, At
    <3>5. CASE Unlock(t)
      BY <3>5 DEF Unlock, At
    <3> QED
      BY <1>6, <3>1, <3>2, <3>3, <3>4, <3>5
  <2>2. UNCHANGED <<call, ticksToWait, entered, xTickCount, uxPendedTicks, waited>>
    BY <1>6 DEF SuspendAll, Lock, Test, Place, Unlock, kernel
  <2> QED
    BY <1>0, <2>1, <2>2, GotoTimely
<1>7. ASSUME NEW t \in Tasks, Wait(t) PROVE Timing'
  <2> SUFFICES ASSUME NEW u \in Tasks PROVE Timely(u)'
    BY DEF Timing
  <2>1. CASE u # t
    BY <1>0, <1>7, <2>1, Untouched DEF Wait, Goto, TypeOK, Timing, kernel
  <2>2. CASE u = t
    <3>1. /\ pc[t] = "try" /\ pc'[t] = "suspend" /\ ticksToWait[t] # 0 /\ call[t] # Idle /\ Timely(t)
          /\ UNCHANGED <<call, ticksToWait, waited, xTickCount, uxPendedTicks>>
      BY <1>0, <1>7 DEF Wait, At, Goto, TypeOK, Timing, Calling, kernel
    <3>2. uxPendedTicks = 0
      BY <1>0, <1>7, <3>1 DEF Wait, At, MayRun, Suspension, Inside, Pended
    <3>3. CASE entered[t] = NoTime /\ ticksToWait[t] # Forever
      <4>1. /\ entered'[t] = Now
            /\ Now.at = xTickCount /\ Now.wrapped = FALSE /\ Now # NoTime
        BY <1>0, <1>7, <3>3 DEF Wait, TypeOK, Now, NoTime, Ticks
      <4>2. xTickCount \in Int /\ waited[t] \in Nat /\ call[t].wait \in Int
        BY <1>0, <3>1, Constants DEF TypeOK, Ticks, Calls
      <4>3. Since(t)' = 0
        BY <3>1, <4>1, <4>2 DEF Since
      <4>4. ticksToWait[t] = call[t].wait /\ call[t].wait # Forever
        BY <3>1, <3>3 DEF Timely, Rest
      <4>5. Passed(t)'
        BY <3>1, <3>2, <4>1, <4>2, <4>3, <4>4 DEF Passed, Bounded
      <4>6. Rest(t)' /\ Entry(t)' /\ GivesUp(t)'
        BY <3>1, <4>1 DEF Timely, Rest, Entry, GivesUp
      <4> QED
        BY <2>2, <4>5, <4>6 DEF Timely
    <3>4. CASE ~(entered[t] = NoTime /\ ticksToWait[t] # Forever)
      <4>1. entered' = entered /\ Since(t)' = Since(t)
        BY <1>7, <3>1, <3>4 DEF Wait, Since
      <4> QED
        BY <2>2, <3>1, <3>4, <4>1 DEF Timely, Rest, Entry, Passed, GivesUp, Bounded
    <3> QED
      BY <3>3, <3>4
  <2> QED
    BY <2>1, <2>2
<1>8. ASSUME NEW t \in Tasks, CheckForTimeOut(t) PROVE Timing'
  <2> SUFFICES ASSUME NEW u \in Tasks PROVE Timely(u)'
    BY DEF Timing
  <2>1. CASE u # t
    BY <1>0, <1>8, <2>1, Untouched DEF CheckForTimeOut, Goto, TypeOK, Timing, kernel
  <2>2. CASE u = t
    <3>1. /\ pc[t] = "check" /\ call[t] # Idle /\ Timely(t) /\ ticksToWait[t] # 0
          /\ UNCHANGED <<call, waited, xTickCount, uxPendedTicks>>
      BY <1>0, <1>8 DEF CheckForTimeOut, At, Timing, Timely, Entry, Calling, kernel
    <3>2. /\ xTickCount \in Ticks /\ waited[t] \in Ticks /\ call[t].wait \in Ticks /\ ticksToWait[t] \in Ticks
          /\ uxPendedTicks \in Nat
      BY <1>0, <3>1, Constants DEF TypeOK, Calls
    <3>3. CASE ticksToWait[t] = Forever
      <4>1. /\ pc'[t] = "test" /\ UNCHANGED <<ticksToWait, entered>>
        BY <1>0, <1>8, <3>3 DEF CheckForTimeOut, TimedOut, Goto, TypeOK
      <4>2. Since(t)' = Since(t)
        BY <3>1, <4>1 DEF Since
      <4> QED
        BY <2>2, <3>1, <4>1, <4>2 DEF Timely, Rest, Entry, Passed, GivesUp, Bounded
    <3>4. CASE ticksToWait[t] # Forever
      <4>1. /\ entered[t] # NoTime
            /\ Bounded(t) /\ call[t].wait # Forever
            /\ ~entered[t].wrapped => entered[t].at <= xTickCount
            /\ \/ waited[t] >= call[t].wait
               \/ waited[t] >= call[t].wait - ticksToWait[t] + Since(t) + uxPendedTicks
            /\ ticksToWait[t] <= call[t].wait
        BY <3>1, <3>4 DEF Timely, Entry, Passed, Bounded, Rest
      <4>2. entered[t].at \in Ticks /\ entered[t].wrapped \in BOOLEAN
        BY <1>0, <4>1, EntryTypes
      <4>3. /\ Since(t) \in Nat
            /\ entered[t].wrapped /\ xTickCount >= entered[t].at => Since(t) >= TickMod
            /\ ~(entered[t].wrapped /\ xTickCount >= entered[t].at) => Elapsed(t) = Since(t)
        <5> DEFINE a == entered[t].at
                   b == entered[t].wrapped
        <5>1. a \in 0 .. TickMod - 1 /\ xTickCount \in 0 .. TickMod - 1 /\ TickMod \in Nat /\ TickMod # 0
              /\ b \in BOOLEAN /\ (~b => a <= xTickCount)
          BY <3>2, <4>1, <4>2, Constants DEF Ticks
        <5>2. Since(t) = xTickCount - a + (IF b THEN TickMod ELSE 0) /\ Elapsed(t) = (xTickCount - a) % TickMod
          BY DEF Since, Elapsed
        <5> HIDE DEF a, b
        <5>3. CASE xTickCount >= a
          <6>1. xTickCount - a \in 0 .. TickMod - 1 /\ xTickCount - a \in Int
            BY <5>1, <5>3
          <6>2. (xTickCount - a) % TickMod = xTickCount - a
            BY <5>1, <6>1, Remainder
          <6> QED
            BY <5>1, <5>2, <5>3, <6>1, <6>2 DEF a, b
        <5>4. CASE xTickCount < a
          <6>1. xTickCount - a \in Int /\ xTickCount - a < 0 /\ xTickCount - a + TickMod >= 0 /\ b
            BY <5>1, <5>4
          <6>2. (xTickCount - a) % TickMod = xTickCount - a + TickMod
            BY <5>1, <6>1, Remainder
          <6> QED
            BY <5>1, <5>2, <5>4, <6>1, <6>2 DEF a, b
        <5> QED
          BY <5>1, <5>3, <5>4
      <4>4. CASE TimedOut(t)
        <5>1. /\ pc'[t] = "unlock_late" /\ UNCHANGED <<ticksToWait, entered>>
          BY <1>0, <1>8, <4>4 DEF CheckForTimeOut, Goto, TypeOK
        <5>2. Since(t) >= ticksToWait[t]
          BY <3>2, <4>3, <4>4, Constants DEF TimedOut, Ticks
        <5>3. waited[t] >= call[t].wait
          BY <3>2, <4>1, <4>3, <5>2, Constants DEF Ticks
        <5>4. call[t].op = "fetch"
          <6>1. call[t].wait # 0
            BY <3>1, <3>2, <4>1, Constants DEF Ticks
          <6> QED
            BY <1>0, <3>1, <4>1, <6>1 DEF TypeOK, Calls
        <5>5. Since(t)' = Since(t)
          BY <3>1, <5>1 DEF Since
        <5> QED
          BY <2>2, <3>1, <4>1, <5>1, <5>3, <5>4, <5>5 DEF Timely, Rest, Entry, Passed, GivesUp, Bounded
      <4>5. CASE ~TimedOut(t)
        <5>1. /\ pc'[t] = "test" /\ entered'[t] = Now /\ ticksToWait'[t] = ticksToWait[t] - Elapsed(t)
          BY <1>0, <1>8, <3>4, <4>5 DEF CheckForTimeOut, Goto, TypeOK
        <5>2. Elapsed(t) = Since(t) /\ Since(t) < ticksToWait[t]
          BY <3>2, <3>4, <4>2, <4>3, <4>5, Constants DEF TimedOut, Ticks
        <5>3. Now.at = xTickCount /\ Now.wrapped = FALSE /\ Now # NoTime
          BY <3>2, Constants DEF Now, NoTime, Ticks
        <5>4. Since(t)' = 0
          BY <3>1, <3>2, <5>1, <5>3 DEF Since, Ticks
        <5>5. /\ ticksToWait'[t] \in Int /\ ticksToWait'[t] > 0 /\ ticksToWait'[t] <= ticksToWait[t]
              /\ ticksToWait'[t] < Forever
          BY <3>2, <3>4, <4>3, <5>1, <5>2, Constants DEF Ticks, Forever
        <5>6. Passed(t)'
          BY <3>1, <3>2, <4>1, <4>3, <5>1, <5>2, <5>3, <5>4, Constants DEF Passed, Bounded, Ticks
        <5>7. Rest(t)'
          BY <3>1, <3>2, <4>1, <5>1, <5>3, <5>5, Constants DEF Rest, Ticks, Forever
        <5>8. Entry(t)' /\ GivesUp(t)'
          BY <5>1, <5>3, <5>5 DEF Entry, GivesUp
        <5> QED
          BY <2>2, <5>6, <5>7, <5>8 DEF Timely
      <4> QED
        BY <4>4, <4>5
    <3> QED
      BY <3>3, <3>4
  <2> QED
    BY <2>1, <2>2
<1>9. ASSUME NEW t \in Tasks, ResumeAll(t) PROVE Timing'
  <2> SUFFICES ASSUME NEW u \in Tasks PROVE Timely(u)'
    BY DEF Timing
  <2>1. /\ IncrementTick(uxPendedTicks, pendReady) /\ uxPendedTicks' = 0 /\ uxPendedTicks \in Nat
        /\ UNCHANGED <<call, ticksToWait, waited>> /\ waited[u] \in Ticks /\ waited[u] \in Int
    BY <1>0, <1>9, Constants DEF ResumeAll, TypeOK, Ticks
  <2>2. pc'[u] = pc[u] \/ (pc[u] = "resume" /\ pc'[u] = "try") \/ (pc[u] = "resume_late" /\ pc'[u] = "late")
    BY <1>0, <1>9 DEF ResumeAll, At, Goto, TypeOK
  <2>3. Timely(u)
    BY <1>0 DEF Timing
  <2> QED
    BY <1>0, <2>1, <2>2, <2>3, CountTimely
<1>10. CASE SendFromISR
  BY <1>0, <1>10, Untouched DEF SendFromISR, Timing
<1>11. CASE Tick
  <2> SUFFICES ASSUME NEW u \in Tasks PROVE Timely(u)'
    BY DEF Timing
  <2>1. /\ UNCHANGED <<pc, call, ticksToWait>> /\ Timely(u) /\ waited[u] \in Nat /\ waited[u] \in Ticks
        /\ waited'[u] = IF Bounded(u) /\ waited[u] < call[u].wait THEN waited[u] + 1 ELSE waited[u]
    BY <1>0, <1>11 DEF Tick, Timing, TypeOK, Ticks
  <2>2. entered[u] # NoTime => Bounded(u)
    BY <2>1 DEF Timely, Passed
  <2>3. Bounded(u) => call[u].wait \in Ticks
    BY <1>0, Constants DEF Bounded, TypeOK, Calls
  <2>4. waited'[u] \in Ticks /\ waited'[u] >= waited[u]
    BY <2>1, <2>3, Constants DEF Ticks
  <2>5. entered[u] # NoTime => \/ waited'[u] >= call[u].wait
                               \/ waited'[u] >= waited[u] + 1
    BY <2>1, <2>2, <2>3, Constants DEF Ticks
  <2>6. CASE suspended = None
    <3>1. IncrementTick(1, {}) /\ uxPendedTicks' = uxPendedTicks /\ uxPendedTicks \in Nat
      BY <1>0, <1>11, <2>6 DEF Tick, TypeOK
    <3>2. entered[u] # NoTime => \/ waited'[u] >= call[u].wait
                                 \/ waited'[u] + uxPendedTicks >= waited[u] + 1 + uxPendedTicks'
      BY <2>1, <2>4, <2>5, <3>1 DEF Ticks
    <3> QED
      BY <1>0, <2>1, <2>4, <3>1, <3>2, CountTimely
  <2>7. CASE suspended # None
    <3>1. /\ uxPendedTicks' = uxPendedTicks + 1 /\ uxPendedTicks \in Nat
          /\ UNCHANGED <<xTickCount, entered>>
      BY <1>0, <1>11, <2>7 DEF Tick, TypeOK
    <3>2. Since(u)' = Since(u) /\ Bounded(u)' = Bounded(u)
      BY <2>1, <3>1 DEF Since, Bounded
    <3>3. entered[u] # NoTime => Since(u) \in Int /\ call[u].wait \in Int /\ ticksToWait[u] \in Int
      <4>1. SUFFICES ASSUME entered[u] # NoTime PROVE Since(u) \in Int /\ call[u].wait \in Int /\ ticksToWait[u] \in Int
        OBVIOUS
      <4>2. entered[u].at \in Int /\ xTickCount \in Int /\ TickMod \in Int /\ ticksToWait[u] \in Int
        BY <1>0, <4>1, EntryTypes, Constants DEF TypeOK, Ticks
      <4> QED
        BY <2>2, <2>3, <4>1, <4>2, Constants DEF Since, Ticks
    <3>4. Passed(u)'
      BY <2>1, <2>2, <2>5, <3>1, <3>2, <3>3 DEF Timely, Passed
    <3>5. Rest(u)' /\ Entry(u)'
      BY <2>1, <3>1 DEF Timely, Rest, Entry
    <3>6. GivesUp(u)'
      <4>1. SUFFICES ASSUME pc[u] \in {"unlock_late", "resume_late", "late"} PROVE GivesUp(u)'
        BY <2>1 DEF GivesUp
      <4>2. call[u].op = "fetch" /\ call[u].wait # Forever /\ waited[u] >= call[u].wait
        BY <2>1, <4>1 DEF Timely, GivesUp
      <4>3. call[u].wait \in Int
        BY <1>0, <4>2, Constants DEF TypeOK, Calls, Ticks, Idle
      <4> QED
        BY <2>1, <2>4, <4>2, <4>3 DEF GivesUp, Ticks
    <3> QED
      BY <3>4, <3>5, <3>6 DEF Timely
  <2> QED
    BY <2>6, <2>7
<1>12. CASE UNCHANGED vars
  BY <1>0, <1>12, Untouched DEF vars, kernel, Timing
<1> QED
  BY <1>2, <1>3, <1>4, <1>5, <1>6, <1>7, <1>8, <1>9, <1>10, <1>11, <1>12 DEF Next, Step

LEMMA SafeInit == Init => SafeInv
<1> SUFFICES ASSUME Init PROVE SafeInv
  OBVIOUS
<1>1. TypeInv
  BY TypeInit
<1>2. RingInv
  <2>1. Cap - 1 + 1 + waiting = Cap + waiting /\ waiting \in 0 .. Cap /\ Cap \in Nat /\ Cap # 0
    BY <1>1, Constants DEF TypeInv, TypeOK
  <2> DEFINE s == Cap + waiting
  <2>2. /\ s \in Nat /\ s < Cap + Cap + Cap /\ s >= Cap
        /\ waiting \in Nat /\ waiting < Cap + Cap + Cap
    BY <2>1
  <2>3. (s < Cap + Cap => s % Cap = s - Cap) /\ (s >= Cap + Cap => s % Cap = s - Cap - Cap)
    BY <2>1, <2>2, Turns
  <2>4. (waiting < Cap => waiting % Cap = waiting) /\ (waiting = Cap => waiting % Cap = waiting - Cap)
    BY <2>1, <2>2, Turns
  <2>5. s % Cap = waiting % Cap
    <3>1. CASE waiting < Cap
      <4>1. s < Cap + Cap /\ s - Cap = waiting
        BY <2>1, <3>1
      <4> QED
        BY <2>3, <2>4, <3>1, <4>1
    <3>2. CASE waiting = Cap
      <4>1. s >= Cap + Cap /\ s - Cap - Cap = waiting - Cap
        BY <2>1, <3>2
      <4> QED
        BY <2>3, <2>4, <3>2, <4>1
    <3> QED
      BY <2>1, <3>1, <3>2
  <2> QED
    BY <2>1, <2>5 DEF Init, RingInv
<1>3. Timing
  BY DEF Init, Timing, Timely, Rest, Entry, Passed, GivesUp
<1>4. Pended
  BY DEF Init, Pended
<1> QED
  BY <1>1, <1>2, <1>3, <1>4 DEF SafeInv

LEMMA SafeStep == SafeInv /\ [Next]_vars => SafeInv'
BY TypeStep, RingKept, TimingKept, PendedKept DEF SafeInv

-----------------------------------------------------------------------------
(* The mailbox. *)

LEMMA MailboxInit == Init => Mbox!Init
<1> SUFFICES ASSUME Init PROVE Mbox!Init
  OBVIOUS
<1>1. Content \in [1 .. waiting -> Items] /\ waiting \in 0 .. Cap
  BY TypeInit, ContentSeq DEF TypeInv, TypeOK
<1> QED
  BY <1>1 DEF Init, Mbox!Init, Mbox!Items, Items, Mbox!Tasks, Tasks, Mbox!Idle, Idle

\* Every step of the queue is one of the mailbox, or changes nothing that it shows.
LEMMA MailboxStep == SafeInv /\ [Next]_vars => [Mbox!Next]_(Mbox!vars)
<1> SUFFICES ASSUME SafeInv, [Next]_vars PROVE [Mbox!Next]_(Mbox!vars)
  OBVIOUS
<1> USE DEF Mbox!Tasks, Tasks, Mbox!Idle, Mbox!Items
<1>0. TypeOK /\ Suspension /\ Calling /\ Timing /\ RingInv
  BY DEF SafeInv, TypeInv
<1>a. Len(Content) = waiting /\ waiting \in 0 .. Cap /\ (Content = <<>> <=> waiting = 0)
  <2>1. Len(Content) = waiting /\ Content \in Seq(Items) /\ waiting \in 0 .. Cap
    BY <1>0, ContentSeq DEF TypeOK
  <2> HIDE DEF Content
  <2> QED
    BY <2>1, EmptySeq
<1>b. UNCHANGED ring => UNCHANGED Content
  BY DEF ring, Content
<1>1. ASSUME NEW t \in Tasks, CallPost(t) PROVE Mbox!Ask(t)
  <2>1. PICK w \in Waits[t] : call' = [call EXCEPT ![t] = [op |-> "post", wait |-> w]]
    BY <1>1 DEF CallPost
  <2>2. [op |-> "post", wait |-> w] \in Mbox!Posts
    BY <1>1, <2>1, SysMboxAssumption DEF CallPost, Mbox!Posts
  <2>3. call[t] = Idle /\ t \in Posters /\ UNCHANGED Content /\ waited' = [waited EXCEPT ![t] = 0]
    BY <1>0, <1>1, <1>b DEF CallPost, Calling
  <2> QED
    BY <2>1, <2>2, <2>3 DEF Mbox!Ask, Idle
<1>2. ASSUME NEW t \in Tasks, CallFetch(t) PROVE Mbox!Ask(t)
  <2>1. PICK w \in Waits[t] : call' = [call EXCEPT ![t] = [op |-> "fetch", wait |-> w]]
    BY <1>2 DEF CallFetch
  <2>2. [op |-> "fetch", wait |-> w] \in Mbox!Fetches
    BY <1>2, <2>1, SysMboxAssumption DEF CallFetch, Mbox!Fetches
  <2>3. call[t] = Idle /\ t \in Fetchers /\ UNCHANGED Content /\ waited' = [waited EXCEPT ![t] = 0]
    BY <1>0, <1>2, <1>b DEF CallFetch, Calling
  <2> QED
    BY <2>1, <2>2, <2>3 DEF Mbox!Ask, Idle
<1>3. ASSUME NEW t \in Tasks, Send(t) PROVE Mbox!Put(t)
  <2>1. t \in Items
    BY <1>0, <1>3 DEF Send, At, Calling, Items, Idle
  <2>2. Content' = Append(Content, t)
    BY <1>0, <1>3, <2>1, ContentPut DEF Send
  <2> HIDE DEF Content
  <2> QED
    BY <1>3, <1>a, <2>2 DEF Send, Return, Mbox!Put, Mbox!Answered, Idle
<1>4. ASSUME NEW t \in Tasks, Receive(t) PROVE Mbox!Take(t)
  <2>1. Content' = Tail(Content)
    BY <1>0, <1>4, ContentTake DEF Receive
  <2>2. Content # <<>>
    BY <1>4, <1>a DEF Receive
  <2> HIDE DEF Content
  <2> QED
    BY <1>4, <2>1, <2>2 DEF Receive, Return, Mbox!Take, Mbox!Answered, Idle
<1>5. ASSUME NEW t \in Tasks, Refuse(t) PROVE Mbox!Full(t) \/ Mbox!TimeOut(t)
  <2>1. /\ Stuck(t) /\ call[t] # Idle /\ UNCHANGED Content
        /\ call' = [call EXCEPT ![t] = Idle] /\ UNCHANGED waited
    BY <1>0, <1>5, <1>b DEF Refuse, At, Calling, Return
  <2>2. call[t].wait = 0
    BY <1>0, <1>5, <2>1 DEF Refuse, Timing, Timely, Rest
  <2>3. waited[t] >= 0 /\ 0 # Forever
    BY <1>0, Constants DEF TypeOK, Ticks
  <2> HIDE DEF Content
  <2>4. CASE call[t].op = "post"
    BY <1>a, <2>1, <2>2, <2>4 DEF Mbox!Full, Mbox!Answered, Stuck, Idle
  <2>5. CASE call[t].op = "fetch"
    BY <1>a, <2>1, <2>2, <2>3, <2>5 DEF Mbox!TimeOut, Mbox!Answered, Stuck, Idle
  <2> QED
    BY <1>0, <2>1, <2>4, <2>5 DEF Calling
<1>6. ASSUME NEW t \in Tasks, Late(t) PROVE Mbox!TimeOut(t) \/ UNCHANGED Mbox!vars
  <2>1. UNCHANGED <<Content, waited>>
    BY <1>6, <1>b DEF Late
  <2>2. call[t].op = "fetch" /\ call[t].wait # Forever /\ waited[t] >= call[t].wait
    BY <1>0, <1>6 DEF Late, At, Timing, Timely, GivesUp
  <2> HIDE DEF Content
  <2>3. CASE Stuck(t)
    BY <1>6, <1>a, <2>1, <2>2, <2>3 DEF Late, Return, Mbox!TimeOut, Mbox!Answered, Stuck, Idle
  <2>4. CASE ~Stuck(t)
    BY <1>6, <2>1, <2>4 DEF Late, Mbox!vars
  <2> QED
    BY <2>3, <2>4
<1>7. ASSUME NEW t \in Tasks,
             Wait(t) \/ SuspendAll(t) \/ Lock(t) \/ CheckForTimeOut(t) \/ Test(t) \/ Place(t) \/ Unlock(t)
             \/ ResumeAll(t)
      PROVE  UNCHANGED Mbox!vars
  <2>1. UNCHANGED <<ring, call, waited>>
    BY <1>7 DEF Wait, SuspendAll, Lock, CheckForTimeOut, Test, Place, Unlock, ResumeAll
  <2>2. UNCHANGED Content
    BY <1>b, <2>1
  <2> HIDE DEF Content
  <2> QED
    BY <2>1, <2>2 DEF Mbox!vars
<1>8. CASE SendFromISR
  <2>1. Content' = Append(Content, "isr")
    <3>1. "isr" \in Items /\ waiting < Cap /\ CopyIn("isr")
      BY <1>8 DEF Items, SendFromISR
    <3> QED
      BY <1>0, <3>1, ContentPut
  <2> HIDE DEF Content
  <2>2. Mbox!PutFromISR
    BY <1>8, <1>a, <2>1 DEF SendFromISR, Mbox!PutFromISR
  <2> QED
    BY <2>2 DEF Mbox!Next
<1>9. CASE Tick
  <2>1. UNCHANGED <<Content, call>>
    BY <1>9, <1>b DEF Tick
  <2> HIDE DEF Content
  <2>2. Mbox!Tick
    BY <1>9, <2>1 DEF Tick, Mbox!Tick, Bounded, Mbox!Bounded, Idle
  <2> QED
    BY <2>2 DEF Mbox!Next
<1>10. CASE UNCHANGED vars
  <2>1. UNCHANGED <<Content, call, waited>>
    BY <1>10, <1>b DEF vars
  <2> HIDE DEF Content
  <2> QED
    BY <2>1 DEF Mbox!vars
<1> QED
  BY <1>1, <1>2, <1>3, <1>4, <1>5, <1>6, <1>7, <1>8, <1>9, <1>10 DEF Next, Step, Mbox!Next

\* The queue functions never lose, double or reorder a message, never refuse a post
\* with room in the queue, and never give a fetch up before its time is over or with a
\* message there: their locks, event lists, time-outs and retries make the steps of a
\* bounded FIFO.  This is ImplementsMailbox without its fairness.
THEOREM MailboxSafe == Spec => Mbox!Init /\ [][Mbox!Next]_(Mbox!vars)
<1>1. Spec => []SafeInv
  BY SafeInit, SafeStep, PTL DEF Spec
<1> QED
  BY <1>1, MailboxInit, MailboxStep, PTL DEF Spec
-----------------------------------------------------------------------------
(***************************************************************************)
(* No task sleeps beside what it waits for, for any tasks and priorities,  *)
(* any length of the queue and any interrupts.                             *)
(***************************************************************************)
\* A task on an event list is blocked in the call, or on its way to be.
Listed ==
  \A t \in recvList \cup sendList :
    /\ pc[t] \in {"try", "unlock", "resume"}
    /\ t \in recvList => call[t].op = "fetch"
    /\ t \in sendList => call[t].op = "post"

\* While a task looks at the locked queue the queue stays locked; if it found nothing
\* to do, what came since is in the count of the lock.
Settled ==
  \A t \in Tasks :
    /\ pc[t] \in Locking => cTxLock # Unlocked
    /\ pc[t] = "place" => IF call[t].op = "post" THEN waiting = Cap ELSE waiting <= cTxLock

ReceiversServed == recvList # {} => waiting <= Cardinality(AwakeReceivers) + Counted
SendersServed == sendList # {} => Cap - waiting <= Cardinality(AwakeSenders)

WakeInv == SafeInv /\ Listed /\ Settled /\ NoSleeperBesideWork

\* How sets of tasks compare.
LEMMA Counting ==
  ASSUME NEW R \in SUBSET Tasks, NEW S \in SUBSET Tasks
  PROVE  /\ Cardinality(R) \in Nat /\ Cardinality(S) \in Nat
         /\ R \subseteq S => Cardinality(R) <= Cardinality(S)
         /\ R \subseteq S /\ Cardinality(R) = Cardinality(S) => R = S
         /\ \A x : R \subseteq S \cup {x} => Cardinality(R) <= Cardinality(S) + 1
         /\ \A W \in SUBSET S : R \subseteq S /\ R \cap W = {} => Cardinality(R) + Cardinality(W) <= Cardinality(S)
<1>1. IsFiniteSet(R) /\ IsFiniteSet(S)
  BY SysMboxAssumption, FS_Subset
<1>2. Cardinality(R) \in Nat /\ Cardinality(S) \in Nat
  BY <1>1, FS_CardinalityType
<1>3. R \subseteq S => Cardinality(R) <= Cardinality(S) /\ (Cardinality(R) = Cardinality(S) => R = S)
  BY <1>1, FS_Subset
<1>4. ASSUME NEW x, R \subseteq S \cup {x} PROVE Cardinality(R) <= Cardinality(S) + 1
  <2>1. IsFiniteSet(S \cup {x}) /\ Cardinality(S \cup {x}) <= Cardinality(S) + 1
    <3>1. IsFiniteSet(S \cup {x})
      BY <1>1, FS_AddElement
    <3>2. Cardinality(S \cup {x}) = IF x \in S THEN Cardinality(S) ELSE Cardinality(S) + 1
      BY <1>1, FS_AddElement
    <3> QED
      BY <1>2, <3>1, <3>2
  <2>2. Cardinality(R) <= Cardinality(S \cup {x})
    BY <1>4, <2>1, FS_Subset
  <2>3. Cardinality(S \cup {x}) \in Nat
    BY <2>1, FS_CardinalityType
  <2> QED
    BY <1>2, <2>1, <2>2, <2>3
<1>5. ASSUME NEW W \in SUBSET S, R \subseteq S, R \cap W = {}
      PROVE  Cardinality(R) + Cardinality(W) <= Cardinality(S)
  <2>1. IsFiniteSet(W) /\ Cardinality(W) \in Nat
    BY <1>1, FS_Subset, FS_CardinalityType
  <2>2. Cardinality(R \cup W) = Cardinality(R) + Cardinality(W) /\ IsFiniteSet(R \cup W)
    <3>1. Cardinality(R \cap W) = 0
      BY <1>5, FS_EmptySet
    <3>2. Cardinality(R \cup W) = Cardinality(R) + Cardinality(W) - Cardinality(R \cap W) /\ IsFiniteSet(R \cup W)
      BY <1>1, <2>1, FS_Union
    <3> QED
      BY <1>2, <2>1, <3>1, <3>2
  <2>3. Cardinality(R \cup W) <= Cardinality(S)
    BY <1>1, <1>5, FS_Subset
  <2> QED
    BY <2>2, <2>3
<1> QED
  BY <1>2, <1>3, <1>4, <1>5

\* A task that runs is on no event list, unless it has just put itself there.
LEMMA Runs ==
  ASSUME TypeInv, Listed, NEW t \in Tasks, MayRun(t), pc[t] \notin {"unlock", "resume"}
  PROVE  t \notin recvList \cup sendList
BY DEF TypeInv, Listed, MayRun, Blocked, Suspension, Inside

\* And when it is not inside, nobody is.
LEMMA NobodyInside ==
  ASSUME TypeInv, NEW t \in Tasks, MayRun(t), pc[t] \notin Inside, NEW u \in Tasks
  PROVE  pc[u] \notin Inside /\ suspended = None
BY SysMboxAssumption DEF TypeInv, Suspension, MayRun, None

\* The one inside is the only one.
LEMMA OneInside ==
  ASSUME TypeInv, NEW t \in Tasks, pc[t] \in Inside, NEW u \in Tasks, pc[u] \in Inside
  PROVE  u = t
BY DEF TypeInv, Suspension

\* Waking makes the lists no longer.
LEMMA ListsShrink ==
  /\ WakeReceiver => recvList' \subseteq recvList
  /\ WakeSender => sendList' \subseteq sendList
  /\ \A n, W : IncrementTick(n, W) => recvList' \subseteq recvList /\ sendList' \subseteq sendList
BY DEF WakeReceiver, WakeSender, IncrementTick

LEMMA ListedKept == TypeInv /\ Listed /\ [Next]_vars => Listed'
<1> SUFFICES ASSUME TypeInv, Listed, [Next]_vars PROVE Listed'
  OBVIOUS
<1>0. /\ TypeOK /\ Calling
      /\ \A u \in recvList \cup sendList : u \in Tasks
  BY DEF TypeInv, TypeOK, Tasks
<1>1. ASSUME NEW t \in Tasks, recvList' \subseteq recvList, sendList' \subseteq sendList,
             t \notin recvList \cup sendList,
             \A u \in Tasks \ {t} : pc'[u] = pc[u] /\ call'[u] = call[u]
      PROVE  Listed'
  BY <1>0, <1>1 DEF Listed
<1>2. ASSUME UNCHANGED <<pc, call>>, recvList' \subseteq recvList, sendList' \subseteq sendList
      PROVE  Listed'
  BY <1>2 DEF Listed
<1>3. ASSUME NEW t \in Tasks,
             CallPost(t) \/ CallFetch(t) \/ Send(t) \/ Receive(t) \/ Refuse(t) \/ Wait(t) \/ SuspendAll(t) \/ Lock(t)
             \/ CheckForTimeOut(t) \/ Test(t) \/ Late(t)
      PROVE  Listed'
  <2>1. MayRun(t) /\ pc[t] \notin {"unlock", "resume"}
    BY <1>3 DEF CallPost, CallFetch, Send, Receive, Refuse, Wait, SuspendAll, Lock, CheckForTimeOut, Test, Late, At
  <2>2. t \notin recvList \cup sendList
    BY <2>1, Runs
  <2>3. recvList' \subseteq recvList /\ sendList' \subseteq sendList
    BY <1>3, ListsShrink DEF CallPost, CallFetch, Send, Receive, Refuse, Wait, SuspendAll, Lock, CheckForTimeOut,
                             Test, Late, lists
  <2>4. \A u \in Tasks \ {t} : pc'[u] = pc[u] /\ call'[u] = call[u]
    BY <1>0, <1>3 DEF CallPost, CallFetch, Send, Receive, Refuse, Wait, SuspendAll, Lock, CheckForTimeOut, Test, Late,
                      Return, Goto, TypeOK
  <2> QED
    BY <1>1, <2>2, <2>3, <2>4
<1>4. ASSUME NEW t \in Tasks, Place(t) PROVE Listed'
  <2>1. /\ pc' = [pc EXCEPT ![t] = "unlock"] /\ pc \in [Tasks -> Labels] /\ UNCHANGED call
        /\ recvList' = IF call[t].op = "fetch" THEN recvList \cup {t} ELSE recvList
        /\ sendList' = IF call[t].op = "post" THEN sendList \cup {t} ELSE sendList
    BY <1>0, <1>4 DEF Place, Goto, TypeOK
  <2> SUFFICES ASSUME NEW u \in recvList' \cup sendList'
               PROVE  /\ pc'[u] \in {"try", "unlock", "resume"}
                      /\ u \in recvList' => call'[u].op = "fetch"
                      /\ u \in sendList' => call'[u].op = "post"
    BY DEF Listed
  <2>2. t \notin recvList \cup sendList
    BY <1>4, Runs DEF Place, At
  <2>3. CASE u = t
    BY <2>1, <2>2, <2>3
  <2>4. CASE u # t
    BY <1>0, <2>1, <2>4 DEF Listed
  <2> QED
    BY <2>3, <2>4
<1>5. ASSUME NEW t \in Tasks, Unlock(t) \/ ResumeAll(t) PROVE Listed'
  <2>1. recvList' \subseteq recvList /\ sendList' \subseteq sendList /\ UNCHANGED call
    BY <1>5, ListsShrink DEF Unlock, ResumeAll, lists
  <2>2. \A u \in Tasks : \/ pc'[u] = pc[u]
                         \/ pc[u] = "unlock" /\ pc'[u] = "resume"
                         \/ pc[u] = "resume" /\ pc'[u] = "try"
                         \/ pc[u] \in {"unlock_late", "resume_late"}
    BY <1>0, <1>5 DEF Unlock, ResumeAll, At, Goto, TypeOK
  <2> QED
    BY <1>0, <2>1, <2>2 DEF Listed
<1>6. CASE SendFromISR
  BY <1>2, <1>6, ListsShrink DEF SendFromISR
<1>7. CASE Tick
  BY <1>2, <1>7, ListsShrink DEF Tick, lists
<1>8. CASE UNCHANGED vars
  BY <1>2, <1>8 DEF vars, lists
<1> QED
  BY <1>3, <1>4, <1>5, <1>6, <1>7, <1>8 DEF Next, Step

LEMMA SettledKept == TypeInv /\ Settled /\ [Next]_vars => Settled'
<1> SUFFICES ASSUME TypeInv, Settled, [Next]_vars PROVE Settled'
  OBVIOUS
<1>0. TypeOK /\ Calling /\ LockCount /\ waiting \in Nat /\ cTxLock \in Int
  BY Constants DEF TypeInv, TypeOK
<1>1. ASSUME NEW t \in Tasks, pc'[t] \notin Inside, \A u \in Tasks \ {t} : pc'[u] = pc[u] /\ pc[u] \notin Inside
      PROVE  Settled'
  BY <1>1 DEF Settled, Locking, Inside
<1>2. ASSUME NEW t \in Tasks,
             CallPost(t) \/ CallFetch(t) \/ Send(t) \/ Receive(t) \/ Refuse(t) \/ Wait(t) \/ Late(t)
      PROVE  Settled'
  <2>1. MayRun(t) /\ pc[t] \notin Inside
    BY <1>2 DEF CallPost, CallFetch, Send, Receive, Refuse, Wait, Late, At, Inside
  <2>2. pc'[t] \notin Inside /\ \A u \in Tasks \ {t} : pc'[u] = pc[u]
    BY <1>0, <1>2 DEF CallPost, CallFetch, Send, Receive, Refuse, Wait, Late, Return, Goto, TypeOK, Inside
  <2> QED
    BY <1>1, <2>1, <2>2, NobodyInside
<1>3. ASSUME NEW t \in Tasks, SuspendAll(t) \/ ResumeAll(t) PROVE Settled'
  <2>1. UNCHANGED <<cTxLock, waiting, call>> /\ pc'[t] \notin Locking /\ \A u \in Tasks \ {t} : pc'[u] = pc[u]
    BY <1>0, <1>3 DEF SuspendAll, ResumeAll, Goto, TypeOK, Locking, ring
  <2> QED
    BY <2>1 DEF Settled, Locking
<1>4. ASSUME NEW t \in Tasks, Lock(t) \/ CheckForTimeOut(t) \/ Test(t) \/ Place(t) \/ Unlock(t) PROVE Settled'
  <2>1. pc[t] \in Inside /\ UNCHANGED <<waiting, call>>
    BY <1>4 DEF Lock, CheckForTimeOut, Test, Place, Unlock, At, Inside, ring
  <2>2. \A u \in Tasks \ {t} : pc'[u] = pc[u] /\ pc[u] \notin Inside
    BY <1>0, <1>4, <2>1, OneInside DEF Lock, CheckForTimeOut, Test, Place, Unlock, Goto, TypeOK
  <2>3. /\ pc'[t] \in Locking => cTxLock' # Unlocked
        /\ pc'[t] = "place" => IF call[t].op = "post" THEN waiting = Cap ELSE waiting <= cTxLock'
    <3>1. CASE Lock(t)
      BY <1>0, <3>1 DEF Lock, Goto, TypeOK, Unlocked
    <3>2. CASE CheckForTimeOut(t)
      BY <1>0, <3>2 DEF CheckForTimeOut, At, Goto, TypeOK, Settled, Locking
    <3>3. CASE Test(t)
      <4>1. cTxLock' = cTxLock /\ cTxLock # Unlocked /\ cTxLock >= 0
        BY <1>0, <3>3 DEF Test, At, Settled, Locking, TypeOK, Unlocked
      <4>2. pc'[t] = "place" => Stuck(t)
        BY <1>0, <3>3 DEF Test, Goto, TypeOK
      <4> QED
        BY <1>0, <4>1, <4>2 DEF Stuck
    <3>4. CASE Place(t)
      BY <1>0, <3>4 DEF Place, At, Goto, TypeOK, Settled, Locking
    <3>5. CASE Unlock(t)
      BY <1>0, <3>5 DEF Unlock, Goto, TypeOK, Locking
    <3> QED
      BY <1>4, <3>1, <3>2, <3>3, <3>4, <3>5
  <2>4. ASSUME NEW u \in Tasks \ {t} PROVE pc'[u] \notin Locking /\ pc'[u] # "place"
    BY <2>2 DEF Inside, Locking
  <2> QED
    BY <2>1, <2>3, <2>4 DEF Settled
<1>5. CASE SendFromISR
  <2>1. /\ UNCHANGED <<pc, call>> /\ waiting < Cap /\ waiting' = waiting + 1
        /\ cTxLock' = IF cTxLock = Unlocked THEN cTxLock ELSE cTxLock + 1
    BY <1>5 DEF SendFromISR, CopyIn
  <2>2. cTxLock # Unlocked => cTxLock + 1 # Unlocked
    BY <1>0 DEF TypeOK, Unlocked
  <2>3. waiting <= cTxLock => waiting + 1 <= cTxLock + 1
    BY <1>0
  <2> QED
    BY <1>0, <2>1, <2>2, <2>3 DEF Settled, Locking
<1>6. CASE Tick \/ UNCHANGED vars
  BY <1>6 DEF Tick, vars, ring, Settled
<1> QED
  BY <1>2, <1>3, <1>4, <1>5, <1>6 DEF Next, Step

-----------------------------------------------------------------------------
(* Nobody sleeps beside work. *)

LEMMA AwakeTasks ==
  /\ AwakeReceivers \in SUBSET Tasks /\ AwakeSenders \in SUBSET Tasks
  /\ AwakeReceivers' \in SUBSET Tasks /\ AwakeSenders' \in SUBSET Tasks
BY DEF AwakeReceivers, AwakeSenders

LEMMA CountType == TypeOK => Counted \in Nat /\ waiting \in 0 .. Cap /\ Cap \in Nat
BY Constants DEF Counted, TypeOK, Unlocked

\* No message more, and no receiver less: they are served as before.
LEMMA ReceiversKept ==
  ASSUME TypeOK, ReceiversServed, recvList' \subseteq recvList, AwakeReceivers \subseteq AwakeReceivers',
         waiting' \in Int, waiting' <= waiting, Counted' = Counted
  PROVE  ReceiversServed'
<1>1. Cardinality(AwakeReceivers) <= Cardinality(AwakeReceivers')
      /\ Cardinality(AwakeReceivers) \in Nat /\ Cardinality(AwakeReceivers') \in Nat
  BY AwakeTasks, Counting
<1>2. Counted \in Nat /\ waiting \in Int
  BY CountType
<1>3. CASE recvList = {}
  BY <1>3 DEF ReceiversServed
<1>4. CASE recvList # {}
  BY <1>1, <1>2, <1>4 DEF ReceiversServed
<1> QED
  BY <1>3, <1>4

LEMMA SendersKept ==
  ASSUME TypeOK, SendersServed, sendList' \subseteq sendList, AwakeSenders \subseteq AwakeSenders',
         waiting' \in Int, waiting' >= waiting
  PROVE  SendersServed'
<1>1. Cardinality(AwakeSenders) <= Cardinality(AwakeSenders')
      /\ Cardinality(AwakeSenders) \in Nat /\ Cardinality(AwakeSenders') \in Nat
  BY AwakeTasks, Counting
<1>2. waiting \in Int /\ Cap \in Int
  BY CountType
<1>3. CASE sendList = {}
  BY <1>3 DEF SendersServed
<1>4. CASE sendList # {}
  BY <1>1, <1>2, <1>4 DEF SendersServed
<1> QED
  BY <1>3, <1>4

\* With nothing there, nobody sleeps beside it.
LEMMA NothingToServe ==
  ASSUME TypeOK, TypeOK'
  PROVE  /\ waiting' = 0 => ReceiversServed'
         /\ waiting' <= Counted' => ReceiversServed'
         /\ waiting' = Cap => SendersServed'
<1>1. /\ Cardinality(AwakeReceivers') \in Nat /\ Cardinality(AwakeSenders') \in Nat
  BY AwakeTasks, Counting
<1>2. Counted' \in Nat /\ waiting' \in Int /\ Cap \in Int
  BY CountType, Constants DEF Counted, TypeOK, Unlocked
<1> QED
  BY <1>1, <1>2 DEF ReceiversServed, SendersServed

\* A step that goes on, with the lists no longer and the others left alone, keeps
\* awake whoever was.
LEMMA StillAwake ==
  ASSUME NEW u \in Tasks, call'[u] = call[u],
         recvList' \subseteq recvList, sendList' \subseteq sendList
  PROVE  /\ pc'[u] = pc[u] => /\ u \in AwakeReceivers => u \in AwakeReceivers'
                              /\ u \in AwakeSenders => u \in AwakeSenders'
         /\ WillLook(u)' => /\ u \in AwakeReceivers => u \in AwakeReceivers'
                            /\ u \in AwakeSenders => u \in AwakeSenders'
BY DEF AwakeReceivers, AwakeSenders, WillLook

\* Each task that is woken serves for one message, or for one place, more.
LEMMA ReceiversWoken ==
  ASSUME TypeOK, Listed, ReceiversServed, NEW W \in SUBSET recvList,
         recvList' = recvList \ W, sendList' \subseteq sendList,
         \A w \in W : call'[w] = call[w] /\ pc'[w] \in {"try", "unlock", "resume"},
         AwakeReceivers \subseteq AwakeReceivers',
         waiting' \in Int, Counted' \in Int,
         waiting' + Counted <= waiting + Cardinality(W) + Counted'
  PROVE  ReceiversServed'
<1>1. W \subseteq AwakeReceivers' /\ AwakeReceivers \cap W = {}
  <2>1. ASSUME NEW w \in W PROVE w \in AwakeReceivers' /\ w \notin AwakeReceivers
    <3>1. /\ w \in Tasks /\ call[w].op = "fetch" /\ call'[w] = call[w] /\ w \in recvList /\ w \notin sendList
          /\ pc[w] \in {"try", "unlock", "resume"} /\ pc'[w] \in {"try", "unlock", "resume"}
      BY DEF Listed, TypeOK, Tasks
    <3> QED
      BY <3>1 DEF AwakeReceivers, WillLook
  <2> QED
    BY <2>1
<1>2. /\ Cardinality(AwakeReceivers) + Cardinality(W) <= Cardinality(AwakeReceivers')
      /\ Cardinality(AwakeReceivers) \in Nat /\ Cardinality(AwakeReceivers') \in Nat
  BY <1>1, AwakeTasks, Counting
<1>3. Cardinality(W) \in Nat
  <2>1. W \in SUBSET Tasks
    BY DEF TypeOK, Tasks
  <2> QED
    BY <2>1, Counting
<1>4. Counted \in Nat /\ waiting \in Int
  BY CountType
<1>5. CASE recvList = {}
  BY <1>5 DEF ReceiversServed
<1>6. CASE recvList # {}
  <2>1. waiting <= Cardinality(AwakeReceivers) + Counted
    BY <1>6 DEF ReceiversServed
  <2>2. waiting' <= Cardinality(AwakeReceivers') + Counted'
    BY <1>2, <1>3, <1>4, <2>1
  <2> QED
    BY <2>2 DEF ReceiversServed
<1> QED
  BY <1>5, <1>6

LEMMA SendersWoken ==
  ASSUME TypeOK, Listed, SendersServed, NEW W \in SUBSET sendList,
         sendList' = sendList \ W, recvList' \subseteq recvList,
         \A w \in W : call'[w] = call[w] /\ pc'[w] \in {"try", "unlock", "resume"},
         AwakeSenders \subseteq AwakeSenders',
         waiting' \in Int, waiting <= waiting' + Cardinality(W)
  PROVE  SendersServed'
<1>1. W \subseteq AwakeSenders' /\ AwakeSenders \cap W = {}
  <2>1. ASSUME NEW w \in W PROVE w \in AwakeSenders' /\ w \notin AwakeSenders
    <3>1. /\ w \in Tasks /\ call[w].op = "post" /\ call'[w] = call[w] /\ w \in sendList /\ w \notin recvList
          /\ pc[w] \in {"try", "unlock", "resume"} /\ pc'[w] \in {"try", "unlock", "resume"}
      BY DEF Listed, TypeOK, Tasks
    <3> QED
      BY <3>1 DEF AwakeSenders, WillLook
  <2> QED
    BY <2>1
<1>2. /\ Cardinality(AwakeSenders) + Cardinality(W) <= Cardinality(AwakeSenders')
      /\ Cardinality(AwakeSenders) \in Nat /\ Cardinality(AwakeSenders') \in Nat
  BY <1>1, AwakeTasks, Counting
<1>3. Cardinality(W) \in Nat
  <2>1. W \in SUBSET Tasks
    BY DEF TypeOK, Tasks
  <2> QED
    BY <2>1, Counting
<1>4. waiting \in Int /\ Cap \in Int
  BY CountType
<1>5. CASE sendList = {}
  BY <1>5 DEF SendersServed
<1>6. CASE sendList # {}
  <2>1. Cap - waiting <= Cardinality(AwakeSenders)
    BY <1>6 DEF SendersServed
  <2>2. Cap - waiting' <= Cardinality(AwakeSenders')
    BY <1>2, <1>3, <1>4, <2>1
  <2> QED
    BY <2>2 DEF SendersServed
<1> QED
  BY <1>5, <1>6

\* A call that is answered takes what it was awake for with it.
LEMMA ReceiverLeaves ==
  ASSUME TypeOK, ReceiversServed, NEW t, recvList' \subseteq recvList,
         AwakeReceivers \subseteq AwakeReceivers' \cup {t},
         waiting' = waiting - 1, Counted' = Counted
  PROVE  ReceiversServed'
<1>1. Cardinality(AwakeReceivers) <= Cardinality(AwakeReceivers') + 1
      /\ Cardinality(AwakeReceivers) \in Nat /\ Cardinality(AwakeReceivers') \in Nat
  BY AwakeTasks, Counting
<1>2. Counted \in Nat /\ waiting \in Int
  BY CountType
<1>3. CASE recvList = {}
  BY <1>3 DEF ReceiversServed
<1>4. CASE recvList # {}
  BY <1>1, <1>2, <1>4 DEF ReceiversServed
<1> QED
  BY <1>3, <1>4

LEMMA SenderLeaves ==
  ASSUME TypeOK, SendersServed, NEW t, sendList' \subseteq sendList,
         AwakeSenders \subseteq AwakeSenders' \cup {t}, waiting' = waiting + 1
  PROVE  SendersServed'
<1>1. Cardinality(AwakeSenders) <= Cardinality(AwakeSenders') + 1
      /\ Cardinality(AwakeSenders) \in Nat /\ Cardinality(AwakeSenders') \in Nat
  BY AwakeTasks, Counting
<1>2. waiting \in Int /\ Cap \in Int
  BY CountType
<1>3. CASE sendList = {}
  BY <1>3 DEF SendersServed
<1>4. CASE sendList # {}
  BY <1>1, <1>2, <1>4 DEF SendersServed
<1> QED
  BY <1>3, <1>4

LEMMA ServedKept ==
  ASSUME WakeInv, TypeOK', Timing', [Next]_vars
  PROVE  ReceiversServed' /\ SendersServed'
<1>0. /\ TypeInv /\ TypeOK /\ Calling /\ Suspension /\ Timing /\ Listed /\ Settled /\ LockCount
      /\ ReceiversServed /\ SendersServed
      /\ waiting \in Int /\ waiting' \in Int /\ Counted \in Nat /\ Counted' \in Nat
  BY CountType, Constants
  DEF WakeInv, SafeInv, TypeInv, NoSleeperBesideWork, ReceiversServed, SendersServed, TypeOK, Counted, Unlocked
<1>f. \A u \in recvList \cup sendList : u \in Tasks
  BY <1>0 DEF TypeOK, Tasks
\* What goes for the steps of t that neither answer a call nor wake anybody.
<1>1. ASSUME NEW t \in Tasks, UNCHANGED <<waiting, call>>, Counted' = Counted,
             \A u \in Tasks \ {t} : pc'[u] = pc[u],
             recvList' \subseteq recvList, sendList' \subseteq sendList
      PROVE  /\ (t \in AwakeReceivers => t \in AwakeReceivers') => ReceiversServed'
             /\ (t \in AwakeSenders => t \in AwakeSenders') => SendersServed'
  <2>1. \A u \in Tasks \ {t} : /\ u \in AwakeReceivers => u \in AwakeReceivers'
                               /\ u \in AwakeSenders => u \in AwakeSenders'
    BY <1>1, StillAwake
  <2>2. (t \in AwakeReceivers => t \in AwakeReceivers') => AwakeReceivers \subseteq AwakeReceivers'
    BY <2>1, AwakeTasks
  <2>3. (t \in AwakeSenders => t \in AwakeSenders') => AwakeSenders \subseteq AwakeSenders'
    BY <2>1, AwakeTasks
  <2> QED
    BY <1>0, <1>1, <2>2, <2>3, ReceiversKept, SendersKept
<1>2. ASSUME NEW t \in Tasks, Send(t) PROVE ReceiversServed' /\ SendersServed'
  <2>1. /\ call[t].op = "post" /\ waiting' = waiting + 1 /\ cTxLock' = cTxLock /\ sendList' = sendList
        /\ \A u \in Tasks \ {t} : pc'[u] = pc[u] /\ call'[u] = call[u]
        /\ recvList' \subseteq recvList
    BY <1>0, <1>2, ListsShrink DEF Send, CopyIn, Return, Goto, TypeOK
  <2>2. Counted' = Counted
    BY <2>1 DEF Counted
  <2>3. \A u \in Tasks \ {t} : /\ u \in AwakeReceivers => u \in AwakeReceivers'
                               /\ u \in AwakeSenders => u \in AwakeSenders'
    BY <2>1, StillAwake
  <2>4. AwakeReceivers \subseteq AwakeReceivers' /\ AwakeSenders \subseteq AwakeSenders' \cup {t}
    <3>1. t \notin AwakeReceivers
      BY <2>1 DEF AwakeReceivers
    <3> QED
      BY <2>3, <3>1, AwakeTasks
  <2>5. SendersServed'
    BY <1>0, <2>1, <2>4, SenderLeaves
  <2>6. ReceiversServed'
    <3>1. CASE recvList = {}
      BY <2>1, <3>1 DEF ReceiversServed
    <3>2. CASE recvList # {}
      <4>1. PICK W \in Front(recvList, 1) : recvList' = recvList \ W
        BY <1>2, <3>2 DEF Send, WakeReceiver
      <4>2. W \in SUBSET recvList /\ Cardinality(W) = 1
        BY DEF Front
      <4>3. t \notin recvList
        BY <1>0, <1>2, Runs DEF Send, At
      <4>4. \A w \in W : call'[w] = call[w] /\ pc'[w] \in {"try", "unlock", "resume"}
        BY <1>0, <1>f, <2>1, <4>2, <4>3 DEF Listed
      <4>5. waiting' + Counted <= waiting + Cardinality(W) + Counted'
        BY <1>0, <2>1, <2>2, <4>2
      <4> QED
        BY <1>0, <2>1, <2>4, <4>1, <4>2, <4>4, <4>5, ReceiversWoken
    <3> QED
      BY <3>1, <3>2
  <2> QED
    BY <2>5, <2>6
<1>3. ASSUME NEW t \in Tasks, Receive(t) PROVE ReceiversServed' /\ SendersServed'
  <2>1. /\ call[t].op = "fetch" /\ waiting' = waiting - 1 /\ cTxLock' = cTxLock /\ recvList' = recvList
        /\ \A u \in Tasks \ {t} : pc'[u] = pc[u] /\ call'[u] = call[u]
        /\ sendList' \subseteq sendList
    BY <1>0, <1>3, ListsShrink DEF Receive, Return, Goto, TypeOK
  <2>2. Counted' = Counted
    BY <2>1 DEF Counted
  <2>3. \A u \in Tasks \ {t} : /\ u \in AwakeReceivers => u \in AwakeReceivers'
                               /\ u \in AwakeSenders => u \in AwakeSenders'
    BY <2>1, StillAwake
  <2>4. AwakeReceivers \subseteq AwakeReceivers' \cup {t} /\ AwakeSenders \subseteq AwakeSenders'
    <3>1. t \notin AwakeSenders
      BY <2>1 DEF AwakeSenders
    <3> QED
      BY <2>3, <3>1, AwakeTasks
  <2>5. ReceiversServed'
    BY <1>0, <2>1, <2>2, <2>4, ReceiverLeaves
  <2>6. SendersServed'
    <3>1. CASE sendList = {}
      BY <2>1, <3>1 DEF SendersServed
    <3>2. CASE sendList # {}
      <4>1. PICK W \in Front(sendList, 1) : sendList' = sendList \ W
        BY <1>3, <3>2 DEF Receive, WakeSender
      <4>2. W \in SUBSET sendList /\ Cardinality(W) = 1
        BY DEF Front
      <4>3. t \notin sendList
        BY <1>0, <1>3, Runs DEF Receive, At
      <4>4. \A w \in W : call'[w] = call[w] /\ pc'[w] \in {"try", "unlock", "resume"}
        BY <1>0, <1>f, <2>1, <4>2, <4>3 DEF Listed
      <4>5. waiting <= waiting' + Cardinality(W)
        BY <1>0, <2>1, <4>2
      <4> QED
        BY <1>0, <2>1, <2>4, <4>1, <4>2, <4>4, <4>5, SendersWoken
    <3> QED
      BY <3>1, <3>2
  <2> QED
    BY <2>5, <2>6
<1>4. ASSUME NEW t \in Tasks, Refuse(t) \/ Late(t) PROVE ReceiversServed' /\ SendersServed'
  <2>1. /\ UNCHANGED <<waiting, cTxLock, recvList, sendList>> /\ call[t] # Idle
        /\ \A u \in Tasks \ {t} : pc'[u] = pc[u] /\ call'[u] = call[u]
    BY <1>0, <1>4 DEF Refuse, Late, At, Return, Goto, TypeOK, Calling, ring, lists
  <2>2. Counted' = Counted
    BY <2>1 DEF Counted
  <2>3. \A u \in Tasks \ {t} : /\ u \in AwakeReceivers => u \in AwakeReceivers'
                               /\ u \in AwakeSenders => u \in AwakeSenders'
    BY <2>1, StillAwake
  <2>4. CASE ~Stuck(t)
    <3>1. Late(t) /\ UNCHANGED call /\ pc'[t] = "try" /\ pc[t] = "late"
      BY <1>0, <1>4, <2>4 DEF Refuse, Late, At, Goto, TypeOK
    <3>2. t \notin recvList \cup sendList
      BY <1>0, <3>1, Runs DEF Late, At
    <3>3. WillLook(t)'
      BY <2>1, <3>1, <3>2 DEF WillLook
    <3>4. (t \in AwakeReceivers => t \in AwakeReceivers') /\ (t \in AwakeSenders => t \in AwakeSenders')
      BY <2>1, <3>1, <3>3, StillAwake
    <3> QED
      BY <1>1, <2>1, <2>2, <3>1, <3>4
  <2>5. CASE Stuck(t) /\ call[t].op = "post"
    <3>1. waiting' = Cap
      BY <2>1, <2>5 DEF Stuck
    <3>2. AwakeReceivers \subseteq AwakeReceivers'
      <4>1. t \notin AwakeReceivers
        BY <2>5 DEF AwakeReceivers
      <4> QED
        BY <2>3, <4>1, AwakeTasks
    <3> QED
      BY <1>0, <2>1, <2>2, <3>1, <3>2, NothingToServe, ReceiversKept
  <2>6. CASE Stuck(t) /\ call[t].op = "fetch"
    <3>1. waiting' = 0
      BY <2>1, <2>6 DEF Stuck
    <3>2. AwakeSenders \subseteq AwakeSenders'
      <4>1. t \notin AwakeSenders
        BY <2>6 DEF AwakeSenders
      <4> QED
        BY <2>3, <4>1, AwakeTasks
    <3> QED
      BY <1>0, <2>1, <2>2, <3>1, <3>2, NothingToServe, SendersKept
  <2> QED
    BY <1>0, <2>1, <2>4, <2>5, <2>6 DEF Calling
<1>5. ASSUME NEW t \in Tasks, CallPost(t) \/ CallFetch(t) PROVE ReceiversServed' /\ SendersServed'
  <2>1. /\ UNCHANGED <<waiting, cTxLock, recvList, sendList>> /\ call[t] = Idle
        /\ \A u \in Tasks \ {t} : pc'[u] = pc[u] /\ call'[u] = call[u]
    BY <1>0, <1>5 DEF CallPost, CallFetch, Goto, TypeOK, Calling, ring, lists
  <2>2. Counted' = Counted
    BY <2>1 DEF Counted
  <2>3. \A u \in Tasks \ {t} : /\ u \in AwakeReceivers => u \in AwakeReceivers'
                               /\ u \in AwakeSenders => u \in AwakeSenders'
    BY <2>1, StillAwake
  <2>4. t \notin AwakeReceivers /\ t \notin AwakeSenders
    BY <2>1 DEF AwakeReceivers, AwakeSenders, Idle
  <2>5. AwakeReceivers \subseteq AwakeReceivers' /\ AwakeSenders \subseteq AwakeSenders'
    BY <2>3, <2>4, AwakeTasks
  <2> QED
    BY <1>0, <2>1, <2>2, <2>5, ReceiversKept, SendersKept
<1>6. ASSUME NEW t \in Tasks, Wait(t) \/ SuspendAll(t) \/ Lock(t) PROVE ReceiversServed' /\ SendersServed'
  <2>1. /\ UNCHANGED <<waiting, recvList, sendList, call>> /\ \A u \in Tasks \ {t} : pc'[u] = pc[u]
        /\ pc'[t] \in {"suspend", "lock", "check"} /\ pc[t] \in {"try", "suspend", "lock"} /\ MayRun(t)
    BY <1>0, <1>6 DEF Wait, SuspendAll, Lock, At, Goto, TypeOK, ring, lists
  <2>2. Counted' = Counted
    BY <1>6 DEF Wait, SuspendAll, Lock, Counted, Unlocked
  <2>3. t \notin recvList \cup sendList
    BY <1>0, <2>1, Runs
  <2>4. WillLook(t)'
    BY <2>1, <2>3 DEF WillLook
  <2> QED
    BY <1>1, <2>1, <2>2, <2>4, StillAwake
<1>7. ASSUME NEW t \in Tasks, CheckForTimeOut(t) PROVE ReceiversServed' /\ SendersServed'
  <2>1. /\ UNCHANGED <<waiting, recvList, sendList, call, cTxLock>> /\ \A u \in Tasks \ {t} : pc'[u] = pc[u]
        /\ pc'[t] \in {"test", "unlock_late"} /\ pc[t] = "check" /\ MayRun(t) /\ call[t] # Idle
    BY <1>0, <1>7 DEF CheckForTimeOut, At, Goto, TypeOK, Calling, ring, lists
  <2>2. Counted' = Counted
    BY <2>1 DEF Counted
  <2>3. t \notin recvList \cup sendList
    BY <1>0, <2>1, Runs
  <2>4. CASE pc'[t] = "test"
    <3>1. WillLook(t)'
      BY <2>1, <2>3, <2>4 DEF WillLook
    <3> QED
      BY <1>1, <2>1, <2>2, <3>1, StillAwake
  <2>5. CASE pc'[t] = "unlock_late"
    <3>1. call'[t].op = "fetch"
      BY <2>5 DEF Timing, Timely, GivesUp
    <3>2. t \in AwakeReceivers' /\ t \notin AwakeSenders
      BY <2>1, <2>5, <3>1 DEF AwakeReceivers, AwakeSenders
    <3> QED
      BY <1>1, <2>1, <2>2, <3>2
  <2> QED
    BY <2>1, <2>4, <2>5
<1>8. ASSUME NEW t \in Tasks, Test(t) PROVE ReceiversServed' /\ SendersServed'
  <2>1. /\ UNCHANGED <<waiting, recvList, sendList, call, cTxLock>> /\ \A u \in Tasks \ {t} : pc'[u] = pc[u]
        /\ pc'[t] = IF Stuck(t) THEN "place" ELSE "unlock"
        /\ pc[t] = "test" /\ MayRun(t) /\ call[t] # Idle
    BY <1>0, <1>8 DEF Test, At, Goto, TypeOK, Calling, ring, lists
  <2>2. Counted' = Counted
    BY <2>1 DEF Counted
  <2>3. t \notin recvList \cup sendList
    BY <1>0, <2>1, Runs
  <2>4. CASE ~Stuck(t)
    <3>1. WillLook(t)'
      BY <2>1, <2>3, <2>4 DEF WillLook
    <3> QED
      BY <1>1, <2>1, <2>2, <3>1, StillAwake
  <2>5. CASE Stuck(t) /\ call[t].op = "post"
    <3>1. waiting' = Cap /\ t \notin AwakeReceivers
      BY <2>1, <2>5 DEF Stuck, AwakeReceivers
    <3> QED
      BY <1>0, <1>1, <2>1, <2>2, <3>1, NothingToServe
  <2>6. CASE Stuck(t) /\ call[t].op = "fetch"
    <3>1. waiting' = 0 /\ t \notin AwakeSenders
      BY <2>1, <2>6 DEF Stuck, AwakeSenders
    <3> QED
      BY <1>0, <1>1, <2>1, <2>2, <3>1, NothingToServe
  <2> QED
    BY <1>0, <2>1, <2>4, <2>5, <2>6 DEF Calling
<1>9. ASSUME NEW t \in Tasks, Place(t) PROVE ReceiversServed' /\ SendersServed'
  <2>1. /\ UNCHANGED <<waiting, call, cTxLock>> /\ \A u \in Tasks \ {t} : pc'[u] = pc[u]
        /\ recvList' = IF call[t].op = "fetch" THEN recvList \cup {t} ELSE recvList
        /\ sendList' = IF call[t].op = "post" THEN sendList \cup {t} ELSE sendList
        /\ pc[t] = "place" /\ call[t] # Idle
    BY <1>0, <1>9 DEF Place, At, Goto, TypeOK, Calling, ring
  <2>2. Counted' = Counted /\ cTxLock # Unlocked
    BY <1>0, <2>1 DEF Counted, Settled, Locking
  <2>3. \A u \in Tasks \ {t} : /\ u \in AwakeReceivers => u \in AwakeReceivers'
                               /\ u \in AwakeSenders => u \in AwakeSenders'
    BY <2>1 DEF AwakeReceivers, AwakeSenders, WillLook
  <2>4. t \notin AwakeReceivers /\ t \notin AwakeSenders
    BY <2>1 DEF AwakeReceivers, AwakeSenders, WillLook
  <2>5. AwakeReceivers \subseteq AwakeReceivers' /\ AwakeSenders \subseteq AwakeSenders'
    BY <2>3, <2>4, AwakeTasks
  <2>6. CASE call[t].op = "post"
    <3>1. waiting' = Cap /\ recvList' = recvList
      BY <1>0, <2>1, <2>6 DEF Settled
    <3> QED
      BY <1>0, <2>1, <2>2, <2>5, <3>1, NothingToServe, ReceiversKept
  <2>7. CASE call[t].op = "fetch"
    <3>1. waiting' <= Counted' /\ sendList' = sendList
      BY <1>0, <2>1, <2>2, <2>7 DEF Settled, Counted
    <3> QED
      BY <1>0, <2>1, <2>5, <3>1, NothingToServe, SendersKept
  <2> QED
    BY <1>0, <2>1, <2>6, <2>7 DEF Calling
<1>10. ASSUME NEW t \in Tasks, Unlock(t) PROVE ReceiversServed' /\ SendersServed'
  <2>1. PICK W \in Front(recvList, Smaller(cTxLock, Cardinality(recvList))) : recvList' = recvList \ W
    BY <1>10 DEF Unlock
  <2>2. W \in SUBSET recvList /\ Cardinality(W) = Smaller(cTxLock, Cardinality(recvList))
    BY DEF Front
  <2>3. /\ UNCHANGED <<waiting, call, sendList>> /\ \A u \in Tasks \ {t} : pc'[u] = pc[u]
        /\ \/ pc[t] = "unlock" /\ pc'[t] = "resume"
           \/ pc[t] = "unlock_late" /\ pc'[t] = "resume_late"
        /\ cTxLock' = Unlocked /\ Counted' = 0
    BY <1>0, <1>10 DEF Unlock, At, Goto, TypeOK, ring, Counted
  <2>4. cTxLock # Unlocked /\ Counted = cTxLock /\ cTxLock \in Nat
    <3>1. cTxLock # Unlocked
      BY <1>0, <2>3 DEF Settled, Locking
    <3> QED
      BY <1>0, <3>1 DEF Counted
  <2>5. recvList' \subseteq recvList /\ sendList' \subseteq sendList
    BY <2>1, <2>3
  <2>6. \A u \in Tasks : /\ u \in AwakeReceivers => u \in AwakeReceivers'
                         /\ u \in AwakeSenders => u \in AwakeSenders'
    BY <2>3, <2>5 DEF AwakeReceivers, AwakeSenders, WillLook
  <2>7. AwakeReceivers \subseteq AwakeReceivers' /\ AwakeSenders \subseteq AwakeSenders'
    BY <2>6, AwakeTasks
  <2>8. SendersServed'
    BY <1>0, <2>3, <2>5, <2>7, SendersKept
  <2>9. recvList \in SUBSET Tasks /\ W \in SUBSET Tasks
    BY <1>0, <2>2 DEF TypeOK, Tasks
  <2>10. Cardinality(recvList) \in Nat
    BY <2>9, Counting
  <2>11. CASE Cardinality(W) = Cardinality(recvList)
    <3>1. W = recvList
      BY <2>2, <2>9, <2>11, Counting
    <3> QED
      BY <2>1, <2>8, <3>1 DEF ReceiversServed
  <2>12. CASE Cardinality(W) = cTxLock
    <3>1. \A w \in W : call'[w] = call[w] /\ pc'[w] \in {"try", "unlock", "resume"}
      BY <1>0, <1>f, <2>2, <2>3 DEF Listed
    <3>2. waiting' + Counted <= waiting + Cardinality(W) + Counted'
      BY <1>0, <2>3, <2>4, <2>12
    <3> QED
      BY <1>0, <2>1, <2>2, <2>5, <2>7, <2>8, <3>1, <3>2, ReceiversWoken
  <2> QED
    BY <2>2, <2>11, <2>12 DEF Smaller
<1>11. ASSUME NEW t \in Tasks, ResumeAll(t) PROVE ReceiversServed' /\ SendersServed'
  <2>1. /\ UNCHANGED <<waiting, call, cTxLock>> /\ \A u \in Tasks \ {t} : pc'[u] = pc[u]
        /\ recvList' \subseteq recvList /\ sendList' \subseteq sendList
        /\ \/ pc[t] = "resume" /\ pc'[t] = "try"
           \/ pc[t] = "resume_late" /\ pc'[t] = "late"
    BY <1>0, <1>11, ListsShrink DEF ResumeAll, At, Goto, TypeOK, ring
  <2>2. Counted' = Counted
    BY <2>1 DEF Counted
  <2>3. (t \in AwakeReceivers => t \in AwakeReceivers') /\ (t \in AwakeSenders => t \in AwakeSenders')
    BY <2>1 DEF AwakeReceivers, AwakeSenders, WillLook
  <2> QED
    BY <1>1, <2>1, <2>2, <2>3
<1>12. CASE SendFromISR
  <2>1. /\ UNCHANGED <<pc, call, sendList>> /\ waiting' = waiting + 1 /\ recvList' \subseteq recvList
    BY <1>12, ListsShrink DEF SendFromISR, CopyIn
  <2>2. AwakeReceivers \subseteq AwakeReceivers' /\ AwakeSenders \subseteq AwakeSenders'
    BY <2>1, StillAwake, AwakeTasks
  <2>3. SendersServed'
    BY <1>0, <2>1, <2>2, SendersKept
  <2>4. CASE cTxLock # Unlocked
    <3>1. cTxLock' = cTxLock + 1 /\ recvList' = recvList
      BY <1>12, <2>4 DEF SendFromISR
    <3>2. Counted = cTxLock /\ Counted' = cTxLock + 1 /\ cTxLock \in Nat
      <4>1. cTxLock \in Nat /\ cTxLock + 1 # Unlocked
        BY <1>0, <2>4, Constants DEF TypeOK, Unlocked
      <4> QED
        BY <2>4, <3>1, <4>1 DEF Counted
    <3>3. Cardinality({}) = 0 /\ {} \in SUBSET recvList
      BY FS_EmptySet
    <3>4. /\ waiting' + Counted <= waiting + Cardinality({}) + Counted'
          /\ recvList' = recvList \ {}
      BY <1>0, <2>1, <3>1, <3>2, <3>3
    <3> QED
      BY <1>0, <2>1, <2>2, <2>3, <3>3, <3>4, ReceiversWoken
  <2>5. CASE cTxLock = Unlocked
    <3>1. WakeReceiver /\ Counted = 0 /\ Counted' = 0
      BY <1>12, <2>5 DEF SendFromISR, Counted
    <3>2. CASE recvList = {}
      BY <2>1, <2>3, <3>2 DEF ReceiversServed
    <3>3. CASE recvList # {}
      <4>1. PICK W \in Front(recvList, 1) : recvList' = recvList \ W
        BY <3>1, <3>3 DEF WakeReceiver
      <4>2. W \in SUBSET recvList /\ Cardinality(W) = 1
        BY DEF Front
      <4>3. \A w \in W : call'[w] = call[w] /\ pc'[w] \in {"try", "unlock", "resume"}
        BY <1>0, <2>1, <4>2 DEF Listed
      <4>4. waiting' + Counted <= waiting + Cardinality(W) + Counted'
        BY <1>0, <2>1, <3>1, <4>2
      <4>5. sendList' \subseteq sendList /\ Counted' \in Int
        BY <2>1, <3>1
      <4>6. ReceiversServed'
        BY <1>0, <2>2, <4>1, <4>2, <4>3, <4>4, <4>5, ReceiversWoken
      <4> QED
        BY <2>3, <4>6
    <3> QED
      BY <3>2, <3>3
  <2> QED
    BY <2>4, <2>5
<1>13. CASE Tick \/ UNCHANGED vars
  <2>1. /\ UNCHANGED <<pc, call, waiting, cTxLock>> /\ recvList' \subseteq recvList /\ sendList' \subseteq sendList
    BY <1>13, ListsShrink DEF Tick, vars, ring, lists
  <2>2. AwakeReceivers \subseteq AwakeReceivers' /\ AwakeSenders \subseteq AwakeSenders'
    BY <2>1, StillAwake, AwakeTasks
  <2>3. Counted' = Counted
    BY <2>1 DEF Counted
  <2> QED
    BY <1>0, <2>1, <2>2, <2>3, ReceiversKept, SendersKept
<1> QED
  BY <1>2, <1>3, <1>4, <1>5, <1>6, <1>7, <1>8, <1>9, <1>10, <1>11, <1>12, <1>13 DEF Next, Step

LEMMA WakeInit == Init => WakeInv
BY SafeInit DEF Init, WakeInv, Listed, Settled, NoSleeperBesideWork, Locking

LEMMA WakeStep == WakeInv /\ [Next]_vars => WakeInv'
<1> SUFFICES ASSUME WakeInv, [Next]_vars PROVE WakeInv'
  OBVIOUS
<1>1. SafeInv' /\ TypeOK' /\ Timing'
  BY SafeStep DEF WakeInv, SafeInv, TypeInv
<1>2. Listed' /\ Settled'
  BY ListedKept, SettledKept DEF WakeInv, SafeInv
<1>3. ReceiversServed' /\ SendersServed'
  BY <1>1, ServedKept
<1> QED
  BY <1>1, <1>2, <1>3 DEF WakeInv, NoSleeperBesideWork, ReceiversServed, SendersServed

\* No interleaving of tasks, interrupts and ticks leaves a task asleep in
\* xQueueGenericReceive or xQueueGenericSend beside a message, or room, that nobody
\* awake will use.
THEOREM NobodyForgotten == Spec => []NoSleeperBesideWork
<1>1. WakeInv => NoSleeperBesideWork
  BY DEF WakeInv
<1>2. Spec => []WakeInv
  BY WakeInit, WakeStep, PTL DEF Spec
<1> QED
  BY <1>1, <1>2, PTL
=============================================================================
