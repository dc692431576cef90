------------------------------- MODULE EthTx -------------------------------
(***************************************************************************)
(* The transmit path of the Ethernet interface: low_level_output           *)
(* (ethernetif.c) copies a frame into the buffers of the DMA's descriptors *)
(* and HAL_ETH_TransmitFrame (stm32f4xx_hal_eth.c) hands them over.  The   *)
(* semaphore ousem is made by the first call and guards the copying.       *)
(*                                                                         *)
(* There are at most two callers.  "core" is whoever holds the core lock   *)
(* of lwIP; "boot" is AppTaskCreate inside netif_set_up, which TCPIP_Init  *)
(* calls without that lock when the tcpip thread already runs.             *)
(***************************************************************************)
EXTENDS Integers

CONSTANTS
  NDesc,     \* ETH_TXBUFNB, descriptors in the transmit ring (8)
  Sizes,     \* how many buffers a frame takes; never above 1 with NETIF_MTU = 1500
  BootFrames \* frames netif_set_up sends: the reports of the interface's address

Callers == {"boot", "core"}
Idx == 0 .. NDesc - 1

ASSUME EthTxAssumption ==
  /\ NDesc \in Nat \ {0}
  /\ Sizes \subseteq 1 .. NDesc
  /\ BootFrames \in Nat

NULL == "NULL"
\* A part of a frame, known by the caller.
Part == [from : Callers, part : Nat]
Nothing == [from |-> "boot", part |-> 0]

VARIABLES
  own,      \* which descriptors have their OWN bit set
  buffer,   \* what is in the buffer of each descriptor
  meant,    \* history: what the caller that set OWN wanted it to carry
  txDesc,   \* heth.TxDesc
  dmaPos,   \* the descriptor the DMA reads next
  dmasr,    \* the DMA: running, or suspended with TBUS or TUS set
  halLock,  \* heth.Lock
  ousem,    \* the static ousem: NULL, or the semaphore its maker made
  count,    \* the count of each semaphore
  pc,       \* where each caller is
  sem,      \* the semaphore it has passed to xSemaphoreTake
  dest,     \* the descriptor whose buffer its pointer buffer is
  cur,      \* its DmaTxDesc
  size,     \* buffers its frame takes
  part,     \* which of them it is at
  calls,    \* frames boot has still to send
  moved,    \* history: another caller has moved heth.TxDesc since the first look at it
  stale,    \* history: a frame was copied to a descriptor chosen before such a move
  refused   \* history: ousem was signalled by a call that had not taken it

ring == <<own, buffer, meant, txDesc>>
mac == <<dmaPos, dmasr>>
guard == <<ousem, count>>
local == <<sem, dest, cur, size, part>>
history == <<moved, stale, refused>>
vars == <<ring, mac, halLock, guard, pc, local, calls, history>>

Init ==
  /\ own = [d \in Idx |-> FALSE]
  /\ buffer = [d \in Idx |-> Nothing]
  /\ meant = [d \in Idx |-> Nothing]
  /\ txDesc = 0
  /\ dmaPos = 0 /\ dmasr = "run"
  /\ halLock = FALSE
  /\ ousem = NULL
  /\ count = [c \in Callers |-> 0]
  /\ pc = [c \in Callers |-> "idle"]
  /\ sem = [c \in Callers |-> NULL]
  /\ dest = [c \in Callers |-> 0]
  /\ cur = [c \in Callers |-> 0]
  /\ size = [c \in Callers |-> 1]
  /\ part = [c \in Callers |-> 1]
  /\ calls = BootFrames
  /\ moved = [c \in Callers |-> FALSE]
  /\ stale = FALSE /\ refused = FALSE

NextDesc(d) == (d + 1) % NDesc

-----------------------------------------------------------------------------
(* Who runs. *)

Blocked(c) == pc[c] = "take" /\ count[sem[c]] = 0

\* Mutant of MayRun: AppTaskCreate has the priority of the tcpip thread.
MutMayRun(c) == TRUE

\* AppTaskCreate has priority 1 and the tcpip thread 3: once that has a frame to
\* send it runs until it is done or has to wait for ousem.
MayRun(c) == c = "core" \/ pc["core"] = "idle" \/ Blocked("core")

At(c, label) == pc[c] = label /\ MayRun(c)
Goto(c, label) == pc' = [pc EXCEPT ![c] = label]

-----------------------------------------------------------------------------
(* low_level_output. *)

\* The stack has a frame to send; the first thing is if (ousem == NULL).
Call(c) ==
  /\ At(c, "idle")
  /\ c = "boot" => calls > 0
  /\ calls' = IF c = "boot" THEN calls - 1 ELSE calls
  /\ \E n \in Sizes : size' = [size EXCEPT ![c] = n]
  /\ Goto(c, IF ousem = NULL THEN "create" ELSE "aim")
  /\ UNCHANGED <<ring, mac, halLock, guard, sem, dest, cur, part, history>>

\* sys_sem_new(&ousem, 0)
Create(c) ==
  /\ At(c, "create")
  /\ ousem' = c
  /\ count' = [count EXCEPT ![c] = 0]
  /\ Goto(c, "give")
  /\ UNCHANGED <<ring, mac, halLock, local, calls, history>>

\* Mutant of Signal: ousem counts.
MutSignal == count' = [count EXCEPT ![ousem] = @ + 1]

\* sys_sem_signal: a binary semaphore that is given already stays so.
Signal == count' = [count EXCEPT ![ousem] = 1]

Give(c) ==
  /\ At(c, "give")
  /\ Signal
  /\ Goto(c, "aim")
  /\ UNCHANGED <<ring, mac, halLock, ousem, local, calls, history>>

\* Between taking ousem and signalling it.
Holding == {c \in Callers : pc[c] \in {"copy", "hal", "commit", "advance", "poll", "finish"}}

\* buffer, of the descriptor heth.TxDesc is at.
Aim(c) ==
  /\ At(c, "aim")
  /\ dest' = [dest EXCEPT ![c] = txDesc]
  /\ moved' = [moved EXCEPT ![c] = FALSE]
  /\ Goto(c, "choose")
  /\ UNCHANGED <<ring, mac, halLock, guard, sem, cur, size, part, calls, stale, refused>>

\* DmaTxDesc, the descriptor heth.TxDesc is at by now.
Choose(c) ==
  /\ At(c, "choose")
  /\ cur' = [cur EXCEPT ![c] = txDesc]
  /\ Goto(c, "look")
  /\ UNCHANGED <<ring, mac, halLock, guard, sem, dest, size, part, calls, history>>

\* Mutant of Look: the OWN bit is not looked at.
MutLook(c) ==
  /\ At(c, "look")
  /\ Goto(c, "wait")
  /\ UNCHANGED <<ring, mac, halLock, guard, local, calls, history>>

\* The OWN bit of DmaTxDesc is looked at before ousem is taken; with OWN set the
\* call is over with ERR_USE.
Look(c) ==
  /\ At(c, "look")
  /\ Goto(c, IF own[cur[c]] THEN "refuse" ELSE "wait")
  /\ UNCHANGED <<ring, mac, halLock, guard, local, calls, history>>

\* sys_sem_wait(&ousem)
Wait(c) ==
  /\ At(c, "wait")
  /\ sem' = [sem EXCEPT ![c] = ousem]
  /\ Goto(c, "take")
  /\ UNCHANGED <<ring, mac, halLock, guard, dest, cur, size, part, calls, history>>

Take(c) ==
  /\ At(c, "take")
  /\ ~Blocked(c)
  /\ count' = [count EXCEPT ![sem[c]] = 0]
  /\ sem' = [sem EXCEPT ![c] = NULL]
  /\ Goto(c, "copy")
  /\ UNCHANGED <<ring, mac, halLock, ousem, dest, cur, size, part, calls, history>>

Mine(c) == [from |-> c, part |-> part[c]]

\* memcpy into one buffer.  If the frame goes on, the next descriptor's OWN bit
\* is looked at, and with OWN set the call is over with ERR_USE.
Copy(c) ==
  /\ At(c, "copy")
  /\ buffer' = [buffer EXCEPT ![dest[c]] = Mine(c)]
  /\ stale' = (stale \/ moved[c])
  /\ \/ /\ part[c] = size[c]
        /\ Goto(c, "hal")
        /\ UNCHANGED <<dest, cur, part>>
     \/ /\ part[c] < size[c]
        /\ cur' = [cur EXCEPT ![c] = NextDesc(@)]
        /\ IF own[cur'[c]] THEN Goto(c, "finish") /\ UNCHANGED <<dest, part>>
           ELSE /\ dest' = [dest EXCEPT ![c] = cur'[c]]
                /\ part' = [part EXCEPT ![c] = @ + 1]
                /\ UNCHANGED pc
  /\ UNCHANGED <<own, meant, txDesc, mac, halLock, guard, sem, size, calls, moved, refused>>

\* The end of low_level_output: an underflow is cleared and the DMA resumed.
Resume == dmasr' = IF dmasr = "tus" THEN "run" ELSE dmasr

Return(c) ==
  /\ Goto(c, "idle")
  /\ dest' = [dest EXCEPT ![c] = 0]
  /\ cur' = [cur EXCEPT ![c] = 0]
  /\ size' = [size EXCEPT ![c] = 1]
  /\ part' = [part EXCEPT ![c] = 1]
  /\ moved' = [moved EXCEPT ![c] = FALSE]

Finish(c) ==
  /\ At(c, "finish")
  /\ Resume
  /\ Signal
  /\ Return(c)
  /\ UNCHANGED <<ring, dmaPos, halLock, ousem, sem, calls, stale, refused>>

\* Mutant of Refuse: ERR_USE is returned at once.
MutRefuse(c) ==
  /\ At(c, "refuse")
  /\ Return(c)
  /\ UNCHANGED <<ring, mac, halLock, guard, sem, calls, stale, refused>>

\* The same after ERR_USE: ousem, which this call does not hold, is signalled too.
Refuse(c) ==
  /\ At(c, "refuse")
  /\ Resume
  /\ Signal
  /\ refused' = (refused \/ Holding # {})
  /\ Return(c)
  /\ UNCHANGED <<ring, dmaPos, halLock, ousem, sem, calls, stale>>

-----------------------------------------------------------------------------
(* HAL_ETH_TransmitFrame, whose result low_level_output does not look at. *)

HalLock(c) ==
  /\ At(c, "hal")
  /\ halLock' = TRUE
  /\ part' = [part EXCEPT ![c] = 1]
  /\ dest' = [dest EXCEPT ![c] = 0]
  /\ cur' = [cur EXCEPT ![c] = 0]
  /\ moved' = [moved EXCEPT ![c] = FALSE]
  /\ Goto(c, IF halLock THEN "finish" ELSE "commit")
  /\ UNCHANGED <<ring, mac, guard, sem, size, calls, stale, refused>>

\* The first descriptor's OWN bit is looked at again: HAL_ERROR.
HalError(c) ==
  /\ At(c, "commit")
  /\ part[c] = 1 /\ own[txDesc]
  /\ halLock' = FALSE
  /\ Goto(c, "finish")
  /\ UNCHANGED <<ring, mac, guard, local, calls, moved, stale, refused>>

\* FS, LS, size and at last OWN of a descriptor.
Commit(c) ==
  /\ At(c, "commit")
  /\ part[c] = 1 => ~own[txDesc]
  /\ own' = [own EXCEPT ![txDesc] = TRUE]
  /\ meant' = [meant EXCEPT ![txDesc] = Mine(c)]
  /\ Goto(c, "advance")
  /\ UNCHANGED <<buffer, txDesc, mac, halLock, guard, local, calls, history>>

\* heth->TxDesc = Buffer2NextDescAddr
Advance(c) ==
  /\ At(c, "advance")
  /\ txDesc' = NextDesc(txDesc)
  /\ IF part[c] < size[c]
     THEN part' = [part EXCEPT ![c] = @ + 1] /\ Goto(c, "commit")
     ELSE Goto(c, "poll") /\ UNCHANGED part
  /\ moved' = [b \in Callers |-> b # c /\ pc[b] \in {"choose", "look", "wait", "take", "copy"}]
  /\ UNCHANGED <<own, buffer, meant, mac, halLock, guard, sem, dest, cur, size, calls,
                 stale, refused>>

\* TBUS is cleared and the DMA resumed; the handle is unlocked.
Poll(c) ==
  /\ At(c, "poll")
  /\ dmasr' = IF dmasr = "tbus" THEN "run" ELSE dmasr
  /\ halLock' = FALSE
  /\ Goto(c, "finish")
  /\ UNCHANGED <<ring, dmaPos, guard, local, calls, history>>

-----------------------------------------------------------------------------
(* The hardware. *)

\* The DMA sends a buffer and clears its OWN bit.  What is left there is of no
\* interest to anybody.
DmaSend ==
  /\ dmasr = "run" /\ own[dmaPos]
  /\ own' = [own EXCEPT ![dmaPos] = FALSE]
  /\ buffer' = [buffer EXCEPT ![dmaPos] = Nothing]
  /\ meant' = [meant EXCEPT ![dmaPos] = Nothing]
  /\ dmaPos' = NextDesc(dmaPos)
  /\ UNCHANGED <<txDesc, dmasr, halLock, guard, pc, local, calls, history>>

\* It finds nothing to send, or the memory too slow.
DmaSuspend ==
  /\ dmasr = "run"
  /\ dmasr' = IF own[dmaPos] THEN "tus" ELSE "tbus"
  /\ UNCHANGED <<ring, dmaPos, halLock, guard, pc, local, calls, history>>

\* HAL_ETH_IRQHandler for a received frame unlocks the handle, whoever locked it.
IrqUnlock ==
  /\ halLock
  /\ halLock' = FALSE
  /\ UNCHANGED <<ring, mac, guard, pc, local, calls, history>>

-----------------------------------------------------------------------------
Step(c) ==
  \/ Create(c) \/ Give(c) \/ Aim(c) \/ Choose(c) \/ Look(c) \/ Wait(c) \/ Take(c) \/ Copy(c)
  \/ HalLock(c) \/ HalError(c) \/ Commit(c) \/ Advance(c) \/ Poll(c)
  \/ Finish(c) \/ Refuse(c)

Next ==
  \/ \E c \in Callers : Call(c) \/ Step(c)
  \/ DmaSend \/ DmaSuspend \/ IrqUnlock

\* Whoever may run does so: core unless it waits, boot in the gaps core leaves.
\* The memory is not too slow every time.
Fairness ==
  /\ WF_vars(Step("core"))
  /\ SF_vars(Step("boot"))
  /\ SF_vars(DmaSend)

Spec == Init /\ [][Next]_vars /\ Fairness

-----------------------------------------------------------------------------
Labels == {"idle", "create", "give", "aim", "choose", "look", "wait", "take", "copy", "hal",
           "commit", "advance", "poll", "finish", "refuse"}

TypeOK ==
  /\ own \in [Idx -> BOOLEAN]
  /\ buffer \in [Idx -> Part] /\ meant \in [Idx -> Part]
  /\ txDesc \in Idx /\ dmaPos \in Idx
  /\ dmasr \in {"run", "tbus", "tus"}
  /\ halLock \in BOOLEAN
  /\ ousem \in Callers \cup {NULL}
  /\ count \in [Callers -> {0, 1}]
  /\ pc \in [Callers -> Labels]
  /\ sem \in [Callers -> Callers \cup {NULL}]
  /\ dest \in [Callers -> Idx] /\ cur \in [Callers -> Idx]
  /\ size \in [Callers -> 1 .. NDesc] /\ part \in [Callers -> 1 .. NDesc]
  /\ calls \in 0 .. BootFrames
  /\ moved \in [Callers -> BOOLEAN]
  /\ {stale, refused} \subseteq BOOLEAN

\* One caller at a time copies and transmits, though ousem is made in two steps
\* that both may be in and a second one may replace the first: the only way in
\* beside another is the signal of a call that left with ERR_USE.
ExclusiveUnlessRefused == ~refused => \A c, d \in Holding : c = d

\* No buffer is written that the DMA has been given, every descriptor it has been
\* given carries what it was given for, and these lie in one piece from the DMA's
\* position to heth.TxDesc.  Two things break this: a frame copied to a descriptor
\* chosen before another call sent, and two callers at once.
SentAsMeant ==
  ~stale /\ ~refused =>
    /\ \A c \in Callers : pc[c] = "copy" /\ ~moved[c] => ~own[dest[c]]
    /\ \A d \in Idx : own[d] => buffer[d] = meant[d]
    /\ \E k \in 0 .. NDesc :
         /\ {d \in Idx : own[d]} = {(dmaPos + i) % NDesc : i \in 0 .. k - 1}
         /\ (dmaPos + k) % NDesc = IF \E c \in Callers : pc[c] = "advance"
                                  THEN NextDesc(txDesc) ELSE txDesc

\* "@return ERR_OK if the packet could be sent" (ethernetif.c:209): the ignored
\* result of HAL_ETH_TransmitFrame is HAL_OK, unless two callers met.
OkMeansSent ==
  [][\A c \in Callers : pc[c] \in {"hal", "commit"} /\ pc'[c] = "finish" => stale \/ refused]_vars

\* What has been given to the DMA is sent, as long as the stack goes on calling:
\* every call, one that ends with ERR_USE too, resumes a DMA that has stopped.
\* After two callers have met the DMA may stand at a descriptor heth.TxDesc has
\* passed over, with OWN set in all others, and nothing is ever sent again.
NothingStranded ==
  []<>(pc["core"] = "look") => \A d \in Idx : own[d] ~> ~own[d] \/ stale \/ refused
=============================================================================
