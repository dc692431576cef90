------------------------------- MODULE EthRx -------------------------------
(***************************************************************************)
(* The receive path of the Ethernet interface: the MAC's DMA fills a ring  *)
(* of descriptors and raises the receive flag; ETH_IRQHandler              *)
(* (bsp_eth.c) gives the counting semaphore s_xSemaphore; the task ETHIN   *)
(* (ethernetif_input, ethernetif.c) takes it and drains the ring through   *)
(* low_level_input into the mailbox of the tcpip thread.  The HAL handle   *)
(* carries one lock, shared with the transmit path and released by the     *)
(* interrupt handler whoever holds it.                                     *)
(***************************************************************************)
EXTENDS Integers, Sequences

CONSTANTS
  NDesc,      \* ETH_RXBUFNB, descriptors in the receive ring (8)
  SemMax,     \* maximal count of s_xSemaphore (40)
  MboxSize,   \* TCPIP_MBOX_SIZE, capacity of the tcpip mailbox (8)
  SegSizes,   \* numbers of descriptors a frame can occupy ({1}; {1,2} with frames over 1524 bytes)
  Transmits,  \* whether the transmit path runs beside the receive path
  MaxFrame    \* bound: number of frames the DMA stores

ASSUME EthRxAssumption ==
  /\ NDesc \in Nat \ {0}
  /\ SemMax \in Nat \ {0}
  /\ MboxSize \in Nat \ {0}
  /\ SegSizes \subseteq 1 .. NDesc
  /\ Transmits \in BOOLEAN
  /\ MaxFrame \in Nat

Idx == 0 .. NDesc - 1

\* Who transmits: "core", whichever task holds the core lock of lwIP, and "boot",
\* AppTaskCreate inside netif_set_up, which TCPIP_Init calls without that lock.
\* The semaphore ousem, which mostly keeps them apart, is in module EthTx; here
\* they may meet at any time.
Senders == {"boot", "core"}

\* A receive descriptor: who owns it, FS and LS of its Status, and its frame.
Descriptor == [own : {"dma", "cpu"}, fs : BOOLEAN, ls : BOOLEAN, id : Nat]

\* How a run of low_level_input calls ended: the ring was empty, the HAL lock
\* was taken, a frame was only begun, no pbuf, or the mailbox was full.
Endings == {"empty", "busy", "partial", "nomem", "mboxfull"}

VARIABLES
  desc,      \* DMARxDscrTab: Status of each descriptor (OWN, FS, LS) and the frame in it
  dmaPos,    \* descriptor the DMA fills next
  nextId,    \* number of the next frame on the wire
  rxFlag,    \* ETH_DMA_FLAG_R, the pending receive interrupt
  isr,       \* ETH_IRQHandler: "idle", or "clear" between the give and the clearing of the flag
  sem,       \* count of s_xSemaphore
  pc,        \* where ETHIN is in ethernetif_input
  frame,     \* the frame ETHIN holds as pbuf p
  rxPos,     \* heth.RxDesc
  fsPos,     \* heth.RxFrameInfos.FSRxDesc
  segCount,  \* heth.RxFrameInfos.SegCount
  drain,     \* how the last drain of the ring ended (history)
  halLock,   \* heth.Lock
  tx,        \* each transmitter: "idle" or inside HAL_ETH_TransmitFrame
  mbox,      \* tcpip_mbox: the frames posted and not yet fetched
  fetched    \* the last frame the tcpip thread fetched (history)

ring   == <<desc, rxPos, fsPos, segCount>>
dma    == <<dmaPos, nextId>>
irq    == <<rxFlag, isr>>
stack  == <<mbox, fetched>>
vars   == <<ring, dma, irq, stack, sem, pc, frame, drain, halLock, tx>>

Init ==
  /\ desc = [i \in Idx |-> [own |-> "dma", fs |-> FALSE, ls |-> FALSE, id |-> 0]]
  /\ dmaPos = 0
  /\ nextId = 1
  /\ rxFlag = FALSE
  /\ isr = "idle"
  /\ sem = 0
  /\ pc = "wait"
  /\ frame = 0
  /\ rxPos = 0
  /\ fsPos = 0
  /\ segCount = 0
  /\ drain = "empty"
  /\ halLock = FALSE
  /\ tx = [c \in Senders |-> "idle"]
  /\ mbox = <<>>
  /\ fetched = 0

Next1(i) == (i + 1) % NDesc

\* The k descriptors that start at i, in ring order.
Span(i, k) == {(i + j) % NDesc : j \in 0 .. k - 1}

\* No interrupt handler is running and ETHIN is not in a critical section:
\* another task may run.
TaskLevel == isr = "idle" /\ pc # "next"

-----------------------------------------------------------------------------
(* The hardware.  It runs whatever the processor does. *)

\* The DMA stores a frame of s segments, the first marked FS and the last LS,
\* and sets the receive flag.  A frame that finds no room is lost.
DmaReceive(s) ==
  /\ nextId <= MaxFrame
  /\ \A i \in Span(dmaPos, s) : desc[i].own = "dma"
  /\ desc' = [i \in Idx |->
                IF i \in Span(dmaPos, s)
                THEN [own |-> "cpu",
                      fs  |-> i = dmaPos,
                      ls  |-> i = (dmaPos + s - 1) % NDesc,
                      id  |-> nextId]
                ELSE desc[i]]
  /\ dmaPos' = (dmaPos + s) % NDesc
  /\ nextId' = nextId + 1
  /\ rxFlag' = TRUE
  /\ UNCHANGED <<isr, sem, pc, frame, rxPos, fsPos, segCount, drain, halLock, tx, stack>>

-----------------------------------------------------------------------------
(* ETH_IRQHandler.  It runs to completion above every task, is masked by   *)
(* critical sections, and first gives the semaphore, then clears the flag. *)

\* HAL_ETH_RxCpltCallback: xSemaphoreGiveFromISR, which fails at the maximum.
IrqGive ==
  /\ rxFlag
  /\ TaskLevel
  /\ sem' = IF sem < SemMax THEN sem + 1 ELSE sem
  /\ isr' = "clear"
  /\ UNCHANGED <<rxFlag, pc, frame, drain, halLock, tx, ring, dma, stack>>

\* The rest of HAL_ETH_IRQHandler: clear the flag, even one set by a frame that
\* arrived since the give, and unlock the handle, whoever locked it.
IrqClear ==
  /\ isr = "clear"
  /\ rxFlag' = FALSE
  /\ isr' = "idle"
  /\ halLock' = FALSE
  /\ UNCHANGED <<sem, pc, frame, drain, tx, ring, dma, stack>>

-----------------------------------------------------------------------------
(* The task ETHIN. *)

\* xSemaphoreTake(s_xSemaphore, portMAX_DELAY)
Take ==
  /\ pc = "wait"
  /\ isr = "idle"
  /\ sem > 0
  /\ sem' = sem - 1
  /\ pc' = "get"
  /\ UNCHANGED <<frame, drain, halLock, tx, ring, dma, irq, stack>>

\* Back to the semaphore.
StopDrain(why) ==
  /\ pc' = "wait"
  /\ drain' = why
  /\ UNCHANGED frame

\* low_level_input finds the handle locked: HAL_BUSY.
GetBusy ==
  /\ halLock
  /\ StopDrain("busy")
  /\ UNCHANGED ring

\* HAL_ETH_GetReceivedFrame finds the DMA's descriptor: HAL_ERROR.
GetEmpty ==
  /\ ~halLock
  /\ desc[rxPos].own = "dma"
  /\ StopDrain("empty")
  /\ UNCHANGED ring

\* HAL_ETH_GetReceivedFrame finds a segment that is not the last of its frame:
\* it steps over it and returns HAL_ERROR.
GetPartial ==
  /\ ~halLock
  /\ desc[rxPos].own = "cpu"
  /\ ~desc[rxPos].ls
  /\ fsPos' = IF desc[rxPos].fs THEN rxPos ELSE fsPos
  /\ segCount' = IF desc[rxPos].fs THEN 1 ELSE segCount + 1
  /\ rxPos' = Next1(rxPos)
  /\ StopDrain("partial")
  /\ UNCHANGED desc

\* Mutant of Released: the loop over SegCount descriptors runs once too often.
MutReleasedOffByOne(first, count) ==
  [i \in Idx |-> IF i \in Span(first, count + 1) THEN [desc[i] EXCEPT !.own = "dma"] ELSE desc[i]]

\* Mutant of Released: the OWN bit is never set back.
MutReleasedNone(first, count) == desc

\* The ring after count descriptors from first on are handed back to the DMA.
Released(first, count) ==
  [i \in Idx |-> IF i \in Span(first, count) THEN [desc[i] EXCEPT !.own = "dma"] ELSE desc[i]]

\* Mutant of GetFrame: "p == NULL" returns before the descriptors are released.
MutGetFrameKeepsOnNoMem(allocated) ==
  /\ ~halLock
  /\ desc[rxPos].own = "cpu"
  /\ desc[rxPos].ls
  /\ fsPos' = IF segCount = 0 THEN rxPos ELSE fsPos
  /\ segCount' = 0
  /\ rxPos' = Next1(rxPos)
  /\ IF allocated
     THEN /\ pc' = "input" /\ frame' = desc[rxPos].id /\ UNCHANGED drain
          /\ desc' = Released(fsPos', segCount + 1)
     ELSE StopDrain("nomem") /\ UNCHANGED desc

\* HAL_ETH_GetReceivedFrame finds the last segment; low_level_input allocates a
\* pbuf, which may fail, copies, and in both cases hands the frame's
\* descriptors back to the DMA.
GetFrame(allocated) ==
  LET count == segCount + 1
      first == IF count = 1 THEN rxPos ELSE fsPos
  IN
  /\ ~halLock
  /\ desc[rxPos].own = "cpu"
  /\ desc[rxPos].ls
  /\ fsPos' = first
  /\ segCount' = 0
  /\ rxPos' = Next1(rxPos)
  /\ desc' = Released(first, count)
  /\ IF allocated
     THEN pc' = "input" /\ frame' = desc[rxPos].id /\ UNCHANGED drain
     ELSE StopDrain("nomem")

\* Mutant of LowLevelInput: the handle stays locked when the ring is empty.
MutLowLevelInputLeavesLock ==
  /\ pc \in {"get", "next"}
  /\ isr = "idle"
  /\ \/ GetBusy /\ UNCHANGED halLock
     \/ GetEmpty /\ halLock' = TRUE
     \/ GetPartial /\ UNCHANGED halLock
     \/ \E allocated \in BOOLEAN : GetFrame(allocated) /\ UNCHANGED halLock
  /\ UNCHANGED <<sem, tx, dma, irq, stack>>

\* low_level_input, inside the critical section that ends with it.
LowLevelInput ==
  /\ pc \in {"get", "next"}
  /\ isr = "idle"
  /\ \/ GetBusy
     \/ GetEmpty
     \/ GetPartial
     \/ \E allocated \in BOOLEAN : GetFrame(allocated)
  /\ UNCHANGED <<sem, halLock, tx, dma, irq, stack>>

\* Mutant of InputOk: the loop without goto that ethernetif.c keeps in a
\* comment (lines 456-485): one frame per count of the semaphore.
MutInputOkOneFrame ==
  /\ pc = "input"
  /\ isr = "idle"
  /\ Len(mbox) < MboxSize
  /\ mbox' = Append(mbox, frame)
  /\ StopDrain("empty")
  /\ UNCHANGED <<sem, halLock, tx, ring, dma, irq, fetched>>

\* Mutant of InputOk: the count is taken without looking whether there is one.
MutInputOkTakesAlways ==
  /\ pc = "input"
  /\ isr = "idle"
  /\ Len(mbox) < MboxSize
  /\ mbox' = Append(mbox, frame)
  /\ sem' = sem - 1
  /\ pc' = "next"
  /\ UNCHANGED <<frame, drain, halLock, tx, ring, dma, irq, fetched>>

\* netif->input posts the pbuf to the mailbox and ETHIN, still in the critical
\* section, takes one count without waiting and goes for the next frame.
InputOk ==
  /\ pc = "input"
  /\ isr = "idle"
  /\ Len(mbox) < MboxSize
  /\ mbox' = Append(mbox, frame)
  /\ sem' = IF sem > 0 THEN sem - 1 ELSE 0
  /\ pc' = "next"
  /\ UNCHANGED <<frame, drain, halLock, tx, ring, dma, irq, fetched>>

\* The mailbox is full: the frame is freed and the drain abandoned.
InputFull ==
  /\ pc = "input"
  /\ isr = "idle"
  /\ Len(mbox) >= MboxSize
  /\ StopDrain("mboxfull")
  /\ UNCHANGED <<sem, halLock, tx, ring, dma, irq, stack>>

-----------------------------------------------------------------------------
(* The other tasks. *)

\* AppTaskCreate has the lowest priority and waits while another task transmits.
MayTransmit(c) == TaskLevel /\ (c = "boot" => tx["core"] = "idle")

\* HAL_ETH_TransmitFrame: __HAL_LOCK, and HAL_BUSY when the handle is locked already.
TxLock(c) ==
  /\ Transmits
  /\ MayTransmit(c)
  /\ tx[c] = "idle"
  /\ tx' = [tx EXCEPT ![c] = IF halLock THEN "refused" ELSE "sending"]
  /\ halLock' = TRUE
  /\ UNCHANGED <<sem, pc, frame, drain, ring, dma, irq, stack>>

\* It returns HAL_BUSY, which low_level_output does not look at.
TxBusy(c) ==
  /\ MayTransmit(c)
  /\ tx[c] = "refused"
  /\ tx' = [tx EXCEPT ![c] = "idle"]
  /\ UNCHANGED <<sem, pc, frame, drain, halLock, ring, dma, irq, stack>>

\* __HAL_UNLOCK on every other return of HAL_ETH_TransmitFrame.
TxUnlock(c) ==
  /\ MayTransmit(c)
  /\ tx[c] = "sending"
  /\ tx' = [tx EXCEPT ![c] = "idle"]
  /\ halLock' = FALSE
  /\ UNCHANGED <<sem, pc, frame, drain, ring, dma, irq, stack>>

\* The tcpip thread fetches a message from its mailbox.
TcpipFetch ==
  /\ TaskLevel
  /\ mbox # <<>>
  /\ fetched' = Head(mbox)
  /\ mbox' = Tail(mbox)
  /\ UNCHANGED <<sem, pc, frame, drain, halLock, tx, ring, dma, irq>>

-----------------------------------------------------------------------------
Next ==
  \/ \E s \in SegSizes : DmaReceive(s)
  \/ IrqGive \/ IrqClear
  \/ Take \/ LowLevelInput \/ InputOk \/ InputFull
  \/ \E c \in Senders : TxLock(c) \/ TxBusy(c) \/ TxUnlock(c)
  \/ TcpipFetch

\* A pending interrupt is served once it is not masked.  ETHIN shares its
\* priority with the tcpip thread and the display task under time slicing, and
\* the one task above it (NTP_init) blocks in each of its rounds.
Fairness ==
  /\ WF_vars(IrqGive)
  /\ WF_vars(IrqClear)
  /\ WF_vars(Take)
  /\ WF_vars(LowLevelInput)
  /\ WF_vars(InputOk)
  /\ WF_vars(InputFull)

Spec == Init /\ [][Next]_vars /\ Fairness

-----------------------------------------------------------------------------
TypeOK ==
  /\ desc \in [Idx -> Descriptor]
  /\ dmaPos \in Idx
  /\ nextId \in Nat
  /\ rxFlag \in BOOLEAN
  /\ isr \in {"idle", "clear"}
  /\ sem \in 0 .. SemMax
  /\ pc \in {"wait", "get", "input", "next"}
  /\ frame \in Nat
  /\ rxPos \in Idx
  /\ fsPos \in Idx
  /\ segCount \in Nat
  /\ drain \in Endings
  /\ halLock \in BOOLEAN
  /\ tx \in [Senders -> {"idle", "sending", "refused"}]
  /\ mbox \in Seq(Nat)
  /\ fetched \in Nat

\* ETHIN sleeps, the semaphore is empty and no interrupt is pending or running:
\* nothing will look at the ring until another frame is stored.
Asleep == pc = "wait" /\ sem = 0 /\ ~rxFlag /\ isr = "idle"

\* No lost wake-up: when nothing will look at the ring and its last drain ended
\* because it was empty, no frame waits in it.  This is what the order "give,
\* then clear the flag" in HAL_ETH_IRQHandler, the drain loop of
\* ethernetif_input and its extra xSemaphoreTake(.., 0) must not break.
NoLostWakeup ==
  Asleep /\ desc[rxPos].own = "cpu" => drain # "empty"

\* The interface goes deaf (every descriptor with the CPU, so no frame is
\* stored, no interrupt raised, ETHIN never woken) only if the last drain was
\* stopped by the HAL lock or by a frame of several segments.  A shortage of
\* pbufs or a full mailbox never does it, because low_level_input hands the
\* descriptors back before either is known to matter.
Deaf == Asleep /\ \A i \in Idx : desc[i].own = "cpu"
DeafOnlyByLockOrSegments == Deaf => drain \in {"busy", "partial"}

\* HAL_ETH_TransmitFrame is refused with HAL_BUSY, which low_level_output ignores
\* so that the frame is lost silently, only while another task is inside it: never
\* by a lock that the receive path or an earlier transmission has left behind,
\* although the interrupt handler takes the lock away from whoever has it.
RefusedOnlyByAnother ==
  [][\A c \in Senders : tx[c] = "idle" /\ tx'[c] = "refused" =>
       \E d \in Senders \ {c} : tx[d] = "sending"]_vars

\* Frames reach the tcpip thread in the order of the wire, none twice.
InOrder ==
  /\ \A i \in 1 .. Len(mbox) : fetched < mbox[i]
  /\ \A i, j \in 1 .. Len(mbox) : i < j => mbox[i] < mbox[j]
  /\ pc = "input" => fetched < frame /\ \A i \in 1 .. Len(mbox) : mbox[i] < frame

\* The CPU's part of the ring is the stretch from the first unreleased segment
\* to the DMA's position, in the order of arrival: no descriptor is handed back
\* early, late or twice by the walk over SegCount descriptors from FSRxDesc.
RingWindow ==
  LET cpu == {i \in Idx : desc[i].own = "cpu"}
      held == (rxPos + NDesc - segCount) % NDesc
  IN \E k \in 0 .. NDesc :
       /\ segCount <= k
       /\ cpu = Span(held, k)
       /\ (held + k) % NDesc = dmaPos

\* A frame in the ring is eventually looked at, or the drain that left it
\* there ended in one of the four failures.
EventuallyDrained ==
  desc[rxPos].own = "cpu" ~> (desc[rxPos].own = "dma" \/ drain # "empty")
=============================================================================
