----------------------------- MODULE EthRxProofs -----------------------------
(***************************************************************************)
(* Proofs about EthRx, for every ring length, semaphore maximum, mailbox   *)
(* capacity and set of frame sizes.                                        *)
(***************************************************************************)
EXTENDS EthRx, SequenceTheorems, TLAPS

(***************************************************************************)
(* Facts about remainders, for positions in a ring: the prover knows % for *)
(* numbers, not for a modulus that is a parameter.                         *)
(***************************************************************************)

\* Remainders over the first three turns of the ring.
LEMMA Turns ==
  ASSUME NEW a \in Nat, NEW m \in Nat, m # 0, a < m + m + m
  PROVE  /\ a < m => a % m = a
         /\ a >= m /\ a < m + m => a % m = a - m
         /\ a >= m + m => a % m = a - m - m
<1>1. (a < m => a % m = a) /\ (a >= m /\ a < m + m => a % m = a - m)
  OBVIOUS
<1>2. ASSUME a >= m + m PROVE a % m = a - m - m
  <2> DEFINE q == a \div m
             r == a % m
  <2>1. a = m * q + r /\ q \in Int /\ r \in 0 .. m - 1
    OBVIOUS
  <2> HIDE DEF q, r
  <2>2. q >= 2
    <3>1. ASSUME q <= 1 PROVE FALSE
      <4>1. m * q <= m
        BY <2>1, <3>1
      <4> QED
        BY <1>2, <2>1, <4>1
    <3> QED
      BY <2>1, <3>1
  <2>3. q <= 2
    <3>1. ASSUME q >= 3 PROVE FALSE
      <4>1. m * q >= m * 3
        BY <2>1, <3>1
      <4> QED
        BY <2>1, <4>1
    <3> QED
      BY <2>1, <3>1
  <2>4. q = 2 /\ m * 2 = m + m
    BY <2>1, <2>2, <2>3
  <2> QED
    BY <2>1, <2>4 DEF r
<1> QED
  BY <1>1, <1>2

\* Places of a ring less than a turn apart are different.
LEMMA Apart ==
  ASSUME NEW a \in Nat, NEW b \in Nat, NEW m \in Nat, m # 0, a < b, b < a + m, b < m + m + m
  PROVE  a % m # b % m
<1>1. a < m + m + m
  OBVIOUS
<1>2. (a < m => a % m = a) /\ (a >= m /\ a < m + m => a % m = a - m) /\ (a >= m + m => a % m = a - m - m)
  BY <1>1, Turns
<1>3. (b < m => b % m = b) /\ (b >= m /\ b < m + m => b % m = b - m) /\ (b >= m + m => b % m = b - m - m)
  BY Turns
<1> QED
  BY <1>2, <1>3

\* Every place of a ring is so and so far from a given one.
LEMMA Distance ==
  ASSUME NEW m \in Nat, m # 0, NEW a \in 0 .. m - 1, NEW b \in 0 .. m - 1
  PROVE  \E d \in 0 .. m - 1 : b = (a + d) % m
<1>1. CASE a <= b
  <2>1. b - a \in 0 .. m - 1 /\ a + (b - a) = b /\ b \in Nat /\ b < m
    BY <1>1
  <2>2. b % m = b
    BY <2>1, Turns, b < m + m + m
  <2> QED
    BY <2>1, <2>2
<1>2. CASE a > b
  <2>1. /\ (b - a) + m \in 0 .. m - 1 /\ a + ((b - a) + m) = b + m
        /\ b + m \in Nat /\ b + m >= m /\ b + m < m + m /\ b + m < m + m + m
    BY <1>2
  <2>2. (b + m) % m = (b + m) - m
    BY <2>1, Turns
  <2>3. (b + m) - m = b
    OBVIOUS
  <2> QED
    BY <2>1, <2>2, <2>3
<1> QED
  BY <1>1, <1>2

\* Going on by a and then by b is going on by both.
LEMMA TwoSteps ==
  ASSUME NEW m \in Nat, m # 0, NEW h \in 0 .. m - 1, NEW a \in 0 .. m, NEW b \in 0 .. m
  PROVE  (((h + a) % m) + b) % m = (h + (a + b)) % m
<1> DEFINE c == h + a
           e == h + (a + b)
<1>1. c \in Nat /\ c < m + m /\ e = c + b /\ e \in Nat /\ e < m + m + m /\ c < m + m + m
  OBVIOUS
<1>2. (c < m => c % m = c) /\ (c >= m => c % m = c - m)
  BY <1>1, Turns
<1> DEFINE f == (c % m) + b
<1>3. f \in Nat /\ f < m + m /\ f < m + m + m
  BY <1>1, <1>2
<1>4. (f < m => f % m = f) /\ (f >= m => f % m = f - m)
  BY <1>3, Turns
<1>5. (e < m => e % m = e) /\ (e >= m /\ e < m + m => e % m = e - m) /\ (e >= m + m => e % m = e - m - m)
  BY <1>1, Turns
<1>6. (c < m => f = e) /\ (c >= m => f = e - m)
  BY <1>1, <1>2
<1> HIDE DEF f, e
<1>7. f % m = e % m
  BY <1>1, <1>3, <1>4, <1>5, <1>6
<1> QED
  BY <1>7 DEF f, e


\* Positions computed modulo the ring length are positions.
LEMMA ModIdx ==
  ASSUME NEW a \in Nat
  PROVE  a % NDesc \in Idx
BY EthRxAssumption DEF Idx

\* TypeOK is inductive.
LEMMA TypeStep == TypeOK /\ [Next]_vars => TypeOK'
<1> SUFFICES ASSUME TypeOK, [Next]_vars PROVE TypeOK'
  OBVIOUS
<1> USE EthRxAssumption
<1>1. ASSUME NEW s \in SegSizes, DmaReceive(s) PROVE TypeOK'
  <2>1. dmaPos + s \in Nat /\ s \in Nat
    BY DEF TypeOK, Idx
  <2>2. dmaPos' \in Idx
    BY <1>1, <2>1, ModIdx DEF DmaReceive
  <2>3. desc' \in [Idx -> Descriptor]
    BY <1>1 DEF DmaReceive, TypeOK, Descriptor
  <2> QED
    BY <1>1, <2>2, <2>3 DEF DmaReceive, TypeOK, stack
<1>2. CASE IrqGive
  BY <1>2 DEF IrqGive, TypeOK, ring, dma, stack
<1>3. CASE IrqClear
  BY <1>3 DEF IrqClear, TypeOK, ring, dma, stack
<1>4. CASE Take
  BY <1>4 DEF Take, TypeOK, ring, dma, irq, stack
<1>5. CASE LowLevelInput
  <2>0. Next1(rxPos) \in Idx
    <3>1. rxPos + 1 \in Nat
      BY DEF TypeOK, Idx
    <3> QED
      BY <3>1, ModIdx DEF Next1
  <2> DEFINE Scalars == /\ pc' \in {"wait", "input"} /\ drain' \in Endings
                        /\ frame' \in Nat /\ segCount' \in Nat
                        /\ fsPos' \in Idx /\ rxPos' \in Idx
  <2>1. Scalars
    <3>1. CASE GetBusy
      BY <3>1 DEF GetBusy, StopDrain, Endings, TypeOK, ring
    <3>2. CASE GetEmpty
      BY <3>2 DEF GetEmpty, StopDrain, Endings, TypeOK, ring
    <3>3. CASE GetPartial
      BY <2>0, <3>3 DEF GetPartial, StopDrain, Endings, TypeOK
    <3>4. ASSUME NEW allocated \in BOOLEAN, GetFrame(allocated)
          PROVE  Scalars
      BY <2>0, <3>4 DEF GetFrame, Released, StopDrain, Endings, TypeOK, Descriptor
    <3> QED
      BY <1>5, <3>1, <3>2, <3>3, <3>4 DEF LowLevelInput
  <2>2. desc' \in [Idx -> Descriptor]
    <3>1. \A i \in Idx : [desc[i] EXCEPT !.own = "dma"] \in Descriptor
      BY DEF TypeOK, Descriptor
    <3>2. CASE UNCHANGED desc
      BY <3>2 DEF TypeOK
    <3>3. ASSUME NEW allocated \in BOOLEAN, GetFrame(allocated)
          PROVE  desc' \in [Idx -> Descriptor]
      BY <3>1, <3>3 DEF GetFrame, Released, TypeOK
    <3> QED
      BY <1>5, <3>2, <3>3 DEF LowLevelInput, GetBusy, GetEmpty, GetPartial, ring
  <2> QED
    BY <1>5, <2>1, <2>2 DEF LowLevelInput, TypeOK, dma, irq, stack
<1>6. CASE InputOk
  BY <1>6 DEF InputOk, TypeOK, ring, dma, irq
<1>7. CASE InputFull
  BY <1>7 DEF InputFull, StopDrain, Endings, TypeOK, ring, dma, irq, stack
<1>8. ASSUME NEW c \in Senders, TxLock(c) PROVE TypeOK'
  BY <1>8 DEF TxLock, TypeOK, ring, dma, irq, stack
<1>9. ASSUME NEW c \in Senders, TxBusy(c) \/ TxUnlock(c) PROVE TypeOK'
  BY <1>9 DEF TxBusy, TxUnlock, TypeOK, ring, dma, irq, stack
<1>10. CASE TcpipFetch
  BY <1>10 DEF TcpipFetch, TypeOK, ring, dma, irq
<1>11. CASE UNCHANGED vars
  BY <1>11 DEF vars, TypeOK, ring, dma, irq, stack
<1> QED
  BY <1>1, <1>2, <1>3, <1>4, <1>5, <1>6, <1>7, <1>8, <1>9, <1>10, <1>11 DEF Next

\* Every variable keeps its type: positions stay inside the ring and the
\* semaphore inside its bounds.
THEOREM TypeCorrect == Spec => []TypeOK
<1>1. Init => TypeOK
  <2> SUFFICES ASSUME Init PROVE TypeOK
    OBVIOUS
  <2>1. 0 \in Idx
    BY EthRxAssumption DEF Idx
  <2>2. desc \in [Idx -> Descriptor]
    BY DEF Init, Descriptor
  <2>3. mbox \in Seq(Nat)
    BY DEF Init
  <2>4. sem \in 0 .. SemMax
    BY EthRxAssumption DEF Init
  <2> QED
    BY <2>1, <2>2, <2>3, <2>4 DEF Init, TypeOK, Endings
<1> QED
  BY <1>1, TypeStep, PTL DEF Spec

-----------------------------------------------------------------------------
\* The inductive form of NoLostWakeup and DeafOnlyByLockOrSegments.  While a
\* drain is over, the frame at RxDesc was either left by a failure, or is
\* announced: by the flag, or by a count of the semaphore.  The flag may be
\* wiped only while such a count exists, which is why the give comes first.
Announced == rxFlag \/ sem > 0

WakeInv ==
  /\ isr = "clear" => sem > 0
  /\ pc = "wait" /\ drain = "empty" => Announced \/ desc[rxPos].own = "dma"

\* After a drain that a shortage of memory stopped, and while ETHIN carries a
\* frame to the mailbox, the DMA has a descriptor or the next frame is announced.
RoomInv ==
  /\ pc = "wait" /\ drain \in {"nomem", "mboxfull"} =>
       Announced \/ \E i \in Idx : desc[i].own = "dma"
  /\ pc = "input" => Announced \/ \E i \in Idx : desc[i].own = "dma"

\* A frame that was complete has a descriptor to give back: its first one.
LEMMA ReleaseMakesRoom ==
  ASSUME TypeOK, NEW allocated \in BOOLEAN, GetFrame(allocated)
  PROVE  \E i \in Idx : desc'[i].own = "dma"
<1> DEFINE count == segCount + 1
           first == IF count = 1 THEN rxPos ELSE fsPos
<1>1. first \in Idx /\ count \in Nat /\ count >= 1
  BY DEF TypeOK
<1>2. first = (first + 0) % NDesc
  BY <1>1, EthRxAssumption DEF Idx
<1>3. first \in Span(first, count)
  BY <1>1, <1>2 DEF Span
<1>4. desc'[first] = [desc[first] EXCEPT !.own = "dma"]
  BY <1>1, <1>3 DEF GetFrame, Released
<1>5. desc'[first].own = "dma"
  BY <1>1, <1>4 DEF TypeOK, Descriptor
<1> QED
  BY <1>1, <1>5

\* Every step preserves the strengthened invariant.
LEMMA WakeStep ==
  TypeOK /\ WakeInv /\ RoomInv /\ [Next]_vars => WakeInv' /\ RoomInv'
<1> SUFFICES ASSUME TypeOK, WakeInv, RoomInv, [Next]_vars
             PROVE  WakeInv' /\ RoomInv'
  OBVIOUS
<1> USE EthRxAssumption DEF WakeInv, RoomInv, Announced
<1>1. ASSUME NEW s \in SegSizes, DmaReceive(s) PROVE WakeInv' /\ RoomInv'
  BY <1>1 DEF DmaReceive
<1>2. CASE IrqGive
  BY <1>2 DEF IrqGive, ring, TypeOK
<1>3. CASE IrqClear
  BY <1>3 DEF IrqClear, ring
<1>4. CASE Take
  BY <1>4 DEF Take, ring, irq
<1>5. CASE LowLevelInput
  <2>1. UNCHANGED <<sem, rxFlag, isr>> /\ isr = "idle"
    BY <1>5 DEF LowLevelInput, irq
  <2>2. CASE GetBusy
    BY <2>1, <2>2 DEF GetBusy, StopDrain
  <2>3. CASE GetEmpty
    BY <2>1, <2>3 DEF GetEmpty, StopDrain, ring
  <2>4. CASE GetPartial
    BY <2>1, <2>4 DEF GetPartial, StopDrain
  <2>5. ASSUME NEW allocated \in BOOLEAN, GetFrame(allocated)
        PROVE  WakeInv' /\ RoomInv'
    <3>1. pc' = "wait" => drain' = "nomem"
      BY <2>5 DEF GetFrame, Released, StopDrain
    <3> QED
      BY <2>1, <2>5, <3>1, ReleaseMakesRoom
  <2> QED
    BY <1>5, <2>2, <2>3, <2>4, <2>5 DEF LowLevelInput
<1>6. CASE InputOk
  BY <1>6 DEF InputOk, irq
<1>7. CASE InputFull
  BY <1>7 DEF InputFull, StopDrain, ring, irq
<1>8. ASSUME NEW c \in Senders, TxLock(c) PROVE WakeInv' /\ RoomInv'
  BY <1>8 DEF TxLock, ring, irq
<1>9. ASSUME NEW c \in Senders, TxBusy(c) \/ TxUnlock(c) PROVE WakeInv' /\ RoomInv'
  BY <1>9 DEF TxBusy, TxUnlock, ring, irq
<1>10. CASE TcpipFetch
  BY <1>10 DEF TcpipFetch, ring, irq
<1>11. CASE UNCHANGED vars
  BY <1>11 DEF vars, ring, irq
<1> QED
  BY <1>1, <1>2, <1>3, <1>4, <1>5, <1>6, <1>7, <1>8, <1>9, <1>10, <1>11 DEF Next

LEMMA WakeInvariant == Spec => [](TypeOK /\ WakeInv /\ RoomInv)
<1>1. Init => WakeInv /\ RoomInv
  <2> SUFFICES ASSUME Init PROVE WakeInv /\ RoomInv
    OBVIOUS
  <2>1. 0 \in Idx
    BY EthRxAssumption DEF Idx
  <2> QED
    BY <2>1 DEF Init, WakeInv, RoomInv
<1> QED
  BY <1>1, TypeCorrect, WakeStep, PTL DEF Spec

\* No wake-up of ETHIN is ever lost: it sleeps over a received frame only if
\* its own last drain failed.
THEOREM NoWakeupLost == Spec => []NoLostWakeup
<1>1. TypeOK /\ WakeInv => NoLostWakeup
  BY DEF TypeOK, WakeInv, Announced, NoLostWakeup, Asleep, Descriptor
<1> QED
  BY <1>1, WakeInvariant, PTL

\* Only the HAL lock or a frame of several segments can leave the interface
\* deaf; a shortage of pbufs or of mailbox room never does.
THEOREM DeafnessCauses == Spec => []DeafOnlyByLockOrSegments
<1>1. TypeOK /\ WakeInv /\ RoomInv => DeafOnlyByLockOrSegments
  BY DEF TypeOK, WakeInv, RoomInv, Announced, DeafOnlyByLockOrSegments, Deaf,
         Asleep, Descriptor, Endings
<1> QED
  BY <1>1, WakeInvariant, PTL

\* Whoever finds the handle locked finds another task inside the HAL.
LockInv ==
  /\ tx \in [Senders -> {"idle", "sending", "refused"}]
  /\ halLock => \E d \in Senders : tx[d] = "sending"

LEMMA LockStep == LockInv /\ [Next]_vars => LockInv'
<1> SUFFICES ASSUME LockInv, [Next]_vars PROVE LockInv'
  OBVIOUS
<1> USE DEF LockInv
<1>1. CASE UNCHANGED <<halLock, tx>>
  BY <1>1
<1>2. CASE IrqClear
  BY <1>2 DEF IrqClear
<1>3. ASSUME NEW c \in Senders, TxLock(c) PROVE LockInv'
  <2>1. CASE halLock
    <3>1. PICK d \in Senders : tx[d] = "sending"
      BY <2>1
    <3>2. d # c /\ tx'[d] = "sending"
      BY <1>3, <3>1 DEF TxLock
    <3> QED
      BY <1>3, <3>2 DEF TxLock
  <2>2. CASE ~halLock
    <3>1. tx'[c] = "sending"
      BY <1>3, <2>2 DEF TxLock
    <3> QED
      BY <1>3, <3>1 DEF TxLock
  <2> QED
    BY <2>1, <2>2
<1>4. ASSUME NEW c \in Senders, TxBusy(c) PROVE LockInv'
  BY <1>4 DEF TxBusy
<1>5. ASSUME NEW c \in Senders, TxUnlock(c) PROVE LockInv'
  BY <1>5 DEF TxUnlock
<1>6. CASE (\E s \in SegSizes : DmaReceive(s)) \/ IrqGive \/ Take \/ LowLevelInput
             \/ InputOk \/ InputFull \/ TcpipFetch \/ UNCHANGED vars
  BY <1>1, <1>6 DEF DmaReceive, IrqGive, Take, LowLevelInput, InputOk, InputFull, TcpipFetch, vars
<1> QED
  BY <1>2, <1>3, <1>4, <1>5, <1>6 DEF Next

\* A transmission is refused, and its frame silently lost, only while another
\* task is inside HAL_ETH_TransmitFrame: neither the receive path nor an earlier
\* transmission ever leaves the lock of the handle behind.
THEOREM RefusalsExplained == Spec => RefusedOnlyByAnother
<1> DEFINE Explained == \A c \in Senders : tx[c] = "idle" /\ tx'[c] = "refused" =>
                           \E d \in Senders \ {c} : tx[d] = "sending"
<1>1. Init => LockInv
  BY DEF Init, LockInv, Senders
<1>2. LockInv /\ [Next]_vars => [Explained]_vars
  <2> SUFFICES ASSUME LockInv, [Next]_vars, NEW c \in Senders, tx[c] = "idle", tx'[c] = "refused"
               PROVE  \E d \in Senders \ {c} : tx[d] = "sending"
    OBVIOUS
  <2>1. CASE UNCHANGED tx
    BY <2>1
  <2>2. ASSUME NEW b \in Senders, TxLock(b)
        PROVE  \E d \in Senders \ {c} : tx[d] = "sending"
    <3>1. b = c /\ halLock
      BY <2>2 DEF TxLock, LockInv
    <3> QED
      BY <3>1 DEF LockInv
  <2>3. ASSUME NEW b \in Senders, TxBusy(b) \/ TxUnlock(b)
        PROVE  \E d \in Senders \ {c} : tx[d] = "sending"
    BY <2>3 DEF TxBusy, TxUnlock, LockInv
  <2>4. CASE (\E s \in SegSizes : DmaReceive(s)) \/ IrqGive \/ IrqClear \/ Take \/ LowLevelInput
               \/ InputOk \/ InputFull \/ TcpipFetch \/ UNCHANGED vars
    BY <2>1, <2>4 DEF DmaReceive, IrqGive, IrqClear, Take, LowLevelInput, InputOk, InputFull, TcpipFetch, vars
  <2> QED
    BY <2>2, <2>3, <2>4 DEF Next
<1> QED
  BY <1>1, <1>2, LockStep, PTL DEF Spec, RefusedOnlyByAnother

-----------------------------------------------------------------------------
(* The ring. *)

\* The descriptor j places on from h.
Place(h, j) == (h + j) % NDesc

\* The k descriptors from h on are the CPU's; ETHIN has stepped over the first
\* segCount of them and the DMA goes on behind the last.
Held(h, k) ==
  /\ rxPos = Place(h, segCount)
  /\ dmaPos = Place(h, k)
  /\ segCount = 0 \/ segCount < k
  /\ segCount > 0 => fsPos = h
  /\ \A j \in 0 .. NDesc - 1 : desc[Place(h, j)].own = "cpu" <=> j < k

\* Whole frames lie in them, in the order of arrival, later than the one in hand.
Frames(h, k) ==
  /\ \A j \in 0 .. k - 1 :
       /\ desc[Place(h, j)].id < nextId
       /\ frame < desc[Place(h, j)].id
       /\ j < segCount => ~desc[Place(h, j)].ls
       /\ j = k - 1 => desc[Place(h, j)].ls
       /\ desc[Place(h, j)].fs <=> j = 0 \/ desc[Place(h, j - 1)].ls
  /\ \A i, j \in 0 .. k - 1 : i < j =>
       /\ desc[Place(h, i)].id <= desc[Place(h, j)].id
       /\ desc[Place(h, i)].ls => desc[Place(h, i)].id < desc[Place(h, j)].id

RingInv == frame < nextId /\ \E h \in Idx, k \in 0 .. NDesc : Held(h, k) /\ Frames(h, k)

LEMMA Places ==
  ASSUME NEW h \in Idx
  PROVE  /\ \A a \in 0 .. NDesc : Place(h, a) \in Idx
         /\ \A a, b \in 0 .. NDesc - 1 : a # b => Place(h, a) # Place(h, b)
         /\ \A i \in Idx : \E d \in 0 .. NDesc - 1 : i = Place(h, d)
         /\ \A a, b \in 0 .. NDesc : Place(Place(h, a), b) = Place(h, a + b)
         /\ Place(h, 0) = h /\ Place(h, NDesc) = h
<1>0. NDesc \in Nat /\ NDesc # 0 /\ h \in 0 .. NDesc - 1 /\ Idx = 0 .. NDesc - 1
  BY EthRxAssumption DEF Idx
<1>1. \A a \in 0 .. NDesc : Place(h, a) \in Idx
  <2>1. \A a \in 0 .. NDesc : h + a \in Nat
    BY <1>0
  <2> QED
    BY <2>1, ModIdx DEF Place
<1>2. ASSUME NEW a \in 0 .. NDesc - 1, NEW b \in 0 .. NDesc - 1, a < b PROVE Place(h, a) # Place(h, b)
  <2>1. /\ h + a \in Nat /\ h + b \in Nat /\ h + a < h + b /\ h + b < h + a + NDesc
        /\ h + b < NDesc + NDesc + NDesc
    BY <1>0, <1>2
  <2> QED
    BY <1>0, <2>1, Apart DEF Place
<1>3. \A a, b \in 0 .. NDesc - 1 : a # b => Place(h, a) # Place(h, b)
  <2> SUFFICES ASSUME NEW a \in 0 .. NDesc - 1, NEW b \in 0 .. NDesc - 1, a # b
               PROVE  Place(h, a) # Place(h, b)
    OBVIOUS
  <2>1. a < b \/ b < a
    BY <1>0
  <2> QED
    BY <1>2, <2>1
<1>4. \A i \in Idx : \E d \in 0 .. NDesc - 1 : i = Place(h, d)
  BY <1>0, Distance DEF Place
<1>5. \A a, b \in 0 .. NDesc : Place(Place(h, a), b) = Place(h, a + b)
  BY <1>0, TwoSteps DEF Place
<1>6. Place(h, 0) = h /\ Place(h, NDesc) = h
  <2>1. /\ h + 0 = h /\ h \in Nat /\ h < NDesc /\ h < NDesc + NDesc + NDesc
        /\ h + NDesc \in Nat /\ h + NDesc >= NDesc /\ h + NDesc < NDesc + NDesc /\ h + NDesc < NDesc + NDesc + NDesc
    BY <1>0
  <2>2. h % NDesc = h
    BY <1>0, <2>1, Turns
  <2>3. (h + NDesc) % NDesc = (h + NDesc) - NDesc
    BY <1>0, <2>1, Turns
  <2> QED
    BY <1>0, <2>1, <2>2, <2>3 DEF Place
<1> QED
  BY <1>1, <1>3, <1>4, <1>5, <1>6

LEMMA SamePlace ==
  ASSUME NEW h \in Idx, NEW a \in 0 .. NDesc - 1, NEW b \in 0 .. NDesc - 1
  PROVE  Place(h, a) = Place(h, b) <=> a = b
BY Places

LEMMA DescTypes ==
  ASSUME TypeOK, NEW i \in Idx
  PROVE  /\ desc[i].own \in {"dma", "cpu"} /\ desc[i].fs \in BOOLEAN /\ desc[i].ls \in BOOLEAN
         /\ desc[i].id \in Nat
BY DEF TypeOK, Descriptor

\* Spans of the ring, seen from h.
LEMMA Spans ==
  ASSUME NEW h \in Idx, NEW a \in 0 .. NDesc, NEW n \in 0 .. NDesc, a + n <= NDesc, NEW j \in 0 .. NDesc - 1
  PROVE  Place(h, j) \in Span(Place(h, a), n) <=> a <= j /\ j < a + n
<1>0. NDesc \in Nat /\ NDesc # 0
  BY EthRxAssumption
<1>1. ASSUME a <= j, j < a + n PROVE Place(h, j) \in Span(Place(h, a), n)
  <2>1. j - a \in 0 .. n - 1 /\ j - a \in 0 .. NDesc /\ a + (j - a) = j
    BY <1>0, <1>1
  <2>2. Place(h, j) = Place(Place(h, a), j - a)
    BY <2>1, Places
  <2> QED
    BY <2>1, <2>2 DEF Span, Place
<1>2. ASSUME Place(h, j) \in Span(Place(h, a), n) PROVE a <= j /\ j < a + n
  <2>1. PICK d \in 0 .. n - 1 : Place(h, j) = Place(Place(h, a), d)
    BY <1>2 DEF Span, Place
  <2>2. d \in 0 .. NDesc /\ a + d \in 0 .. NDesc - 1
    BY <1>0
  <2>3. Place(h, j) = Place(h, a + d)
    BY <2>1, <2>2, Places
  <2>4. j = a + d
    BY <2>2, <2>3, Places
  <2> QED
    BY <1>0, <2>4
<1> QED
  BY <1>1, <1>2

\* The DMA stores a frame behind the last.
LEMMA RingReceive ==
  ASSUME TypeOK, RingInv, NEW s \in SegSizes, DmaReceive(s)
  PROVE  RingInv'
<1>0. NDesc \in Nat /\ NDesc # 0 /\ s \in 1 .. NDesc /\ nextId \in Nat /\ frame \in Nat /\ segCount \in Nat
  BY EthRxAssumption DEF TypeOK
<1>1. PICK h \in Idx, k \in 0 .. NDesc : Held(h, k) /\ Frames(h, k)
  BY DEF RingInv
<1>2. dmaPos = Place(h, k) /\ \A j \in 0 .. NDesc - 1 : Place(h, j) \in Idx
  BY <1>0, <1>1, Places DEF Held
<1> DEFINE S == Span(dmaPos, s)
           n == k + s
\* There is room for it.
<1>3. n \in 0 .. NDesc
  <2>1. SUFFICES ASSUME k + s > NDesc PROVE FALSE
    BY <1>0
  <2>2. NDesc - k \in 0 .. s - 1 /\ k > 0 /\ NDesc - k \in 0 .. NDesc /\ k + (NDesc - k) = NDesc
    BY <1>0, <2>1
  <2>3. Place(dmaPos, NDesc - k) = h
    BY <1>2, <2>2, Places
  <2>4. h \in S
    BY <2>2, <2>3 DEF Span, Place
  <2>5. desc[h].own = "dma"
    BY <2>4 DEF DmaReceive
  <2>6. desc[Place(h, 0)].own = "cpu" /\ Place(h, 0) = h
    BY <1>0, <1>1, <2>2, Places DEF Held
  <2> QED
    BY <2>5, <2>6
<1>4. \A j \in 0 .. NDesc - 1 : Place(h, j) \in S <=> k <= j /\ j < n
  BY <1>0, <1>2, <1>3, Spans
<1>5. ASSUME NEW j \in 0 .. NDesc - 1, ~(k <= j /\ j < n) PROVE desc'[Place(h, j)] = desc[Place(h, j)]
  BY <1>2, <1>4, <1>5 DEF DmaReceive
<1>6. ASSUME NEW j \in k .. n - 1
      PROVE  /\ desc'[Place(h, j)].own = "cpu" /\ desc'[Place(h, j)].id = nextId
             /\ desc'[Place(h, j)].fs <=> j = k
             /\ desc'[Place(h, j)].ls <=> j = n - 1
  <2>1. j \in 0 .. NDesc - 1 /\ Place(h, j) \in S /\ Place(h, j) \in Idx
    BY <1>0, <1>2, <1>3, <1>4
  <2> DEFINE first == Place(h, j) = dmaPos
             last == Place(h, j) = (dmaPos + s - 1) % NDesc
  <2>2. desc'[Place(h, j)] = [own |-> "cpu", fs |-> first, ls |-> last, id |-> nextId]
    BY <2>1 DEF DmaReceive
  <2>3. first \in BOOLEAN /\ last \in BOOLEAN
    OBVIOUS
  <2>4. first <=> j = k
    <3>1. k \in 0 .. NDesc - 1
      BY <1>0, <1>3
    <3>2. Place(h, j) = Place(h, k) <=> j = k
      BY <2>1, <3>1, SamePlace
    <3> QED
      BY <1>2, <3>2
  <2>5. last <=> j = n - 1
    <3>1. (dmaPos + s - 1) % NDesc = Place(dmaPos, s - 1)
      <4>1. dmaPos + s - 1 = dmaPos + (s - 1)
        BY <1>0 DEF TypeOK, Idx
      <4> QED
        BY <4>1 DEF Place
    <3>2. Place(dmaPos, s - 1) = Place(h, n - 1)
      <4>1. s - 1 \in 0 .. NDesc /\ k + (s - 1) = n - 1
        BY <1>0
      <4> QED
        BY <1>2, <4>1, Places
    <3>3. n - 1 \in 0 .. NDesc - 1
      BY <1>0, <1>3
    <3>4. Place(h, j) = Place(h, n - 1) <=> j = n - 1
      BY <2>1, <3>3, SamePlace
    <3> QED
      BY <3>1, <3>2, <3>4
  <2> HIDE DEF first, last
  <2>6. /\ desc'[Place(h, j)].own = "cpu" /\ desc'[Place(h, j)].id = nextId
        /\ desc'[Place(h, j)].fs = first /\ desc'[Place(h, j)].ls = last
    BY <2>2
  <2> QED
    BY <2>3, <2>4, <2>5, <2>6
<1>7. /\ UNCHANGED <<rxPos, segCount, fsPos, frame>> /\ dmaPos' = (dmaPos + s) % NDesc /\ nextId' = nextId + 1
  BY DEF DmaReceive
<1>8. Held(h, n)'
  <2>1. dmaPos' = Place(h, n)
    <3>1. s \in 0 .. NDesc
      BY <1>0
    <3>2. Place(dmaPos, s) = Place(h, n)
      BY <1>2, <3>1, Places
    <3> QED
      BY <1>7, <3>2 DEF Place
  <2>2. \A j \in 0 .. NDesc - 1 : desc'[Place(h, j)].own = "cpu" <=> j < n
    <3> SUFFICES ASSUME NEW j \in 0 .. NDesc - 1 PROVE desc'[Place(h, j)].own = "cpu" <=> j < n
      OBVIOUS
    <3>1. CASE j < k \/ j >= n
      <4>1. desc'[Place(h, j)] = desc[Place(h, j)]
        BY <1>0, <1>3, <1>5, <3>1
      <4>2. desc[Place(h, j)].own = "cpu" <=> j < k
        BY <1>1 DEF Held
      <4> QED
        BY <1>0, <1>3, <3>1, <4>1, <4>2
    <3>2. CASE j \in k .. n - 1
      BY <1>0, <1>3, <1>6, <3>2
    <3> QED
      BY <1>0, <1>3, <3>1, <3>2
  <2>3. segCount = 0 \/ segCount < n
    BY <1>0, <1>1 DEF Held
  <2> QED
    BY <1>1, <1>7, <2>1, <2>2, <2>3 DEF Held, Place
<1>9. Frames(h, n)'
  <2>1. ASSUME NEW j \in 0 .. k - 1
        PROVE  j \in 0 .. NDesc - 1 /\ desc'[Place(h, j)] = desc[Place(h, j)]
    BY <1>0, <1>3, <1>5
  <2>2. ASSUME NEW j \in 0 .. n - 1
        PROVE  /\ desc'[Place(h, j)].id < nextId'
               /\ frame' < desc'[Place(h, j)].id
               /\ j < segCount' => ~desc'[Place(h, j)].ls
               /\ j = n - 1 => desc'[Place(h, j)].ls
               /\ desc'[Place(h, j)].fs <=> j = 0 \/ desc'[Place(h, j - 1)].ls
    <3>1. CASE j \in 0 .. k - 1
      <4>1. /\ desc'[Place(h, j)] = desc[Place(h, j)] /\ desc[Place(h, j)].id \in Nat
            /\ j > 0 => desc'[Place(h, j - 1)] = desc[Place(h, j - 1)]
        BY <1>0, <1>2, <2>1, <3>1, DescTypes
      <4>2. j # n - 1
        BY <1>0, <1>3, <3>1
      <4> QED
        BY <1>0, <1>1, <1>7, <3>1, <4>1, <4>2 DEF Frames
    <3>2. CASE j \in k .. n - 1
      <4>1. /\ desc'[Place(h, j)].id = nextId
            /\ desc'[Place(h, j)].fs <=> j = k
            /\ desc'[Place(h, j)].ls <=> j = n - 1
        BY <1>6, <3>2
      <4>2. ~(j < segCount')
        BY <1>0, <1>1, <1>7, <3>2 DEF Held
      <4>3. desc'[Place(h, j)].fs <=> j = 0 \/ desc'[Place(h, j - 1)].ls
        <5>1. CASE j = k /\ k = 0
          BY <4>1, <5>1
        <5>2. CASE j = k /\ k > 0
          <6>1. k - 1 \in 0 .. k - 1 /\ j - 1 = k - 1
            BY <1>0, <5>2
          <6>2. desc'[Place(h, k - 1)] = desc[Place(h, k - 1)] /\ desc[Place(h, k - 1)].ls
            BY <1>1, <2>1, <6>1 DEF Frames
          <6> QED
            BY <4>1, <5>2, <6>1, <6>2
        <5>3. CASE j > k
          <6>1. j - 1 \in k .. n - 1 /\ j - 1 # n - 1 /\ j # 0 /\ j # k
            BY <1>0, <1>3, <3>2, <5>3
          <6> QED
            BY <1>6, <4>1, <6>1
        <5> QED
          BY <1>0, <3>2, <5>1, <5>2, <5>3
      <4> QED
        BY <1>0, <1>7, <4>1, <4>2, <4>3 DEF RingInv
    <3> QED
      BY <1>0, <1>3, <3>1, <3>2
  <2>3. ASSUME NEW i \in 0 .. n - 1, NEW j \in 0 .. n - 1, i < j
        PROVE  /\ desc'[Place(h, i)].id <= desc'[Place(h, j)].id
               /\ desc'[Place(h, i)].ls => desc'[Place(h, i)].id < desc'[Place(h, j)].id
    <3>1. CASE j \in 0 .. k - 1
      <4>1. i \in 0 .. k - 1
        BY <2>3, <3>1
      <4> QED
        BY <1>1, <2>1, <2>3, <3>1, <4>1 DEF Frames
    <3>2. CASE j \in k .. n - 1 /\ i \in 0 .. k - 1
      <4>1. desc'[Place(h, j)].id = nextId /\ desc[Place(h, i)].id < nextId /\ desc'[Place(h, i)] = desc[Place(h, i)]
        BY <1>1, <1>6, <2>1, <3>2 DEF Frames
      <4>2. desc[Place(h, i)].id \in Nat
        BY <1>0, <1>2, <2>1, <3>2, DescTypes
      <4> QED
        BY <1>0, <4>1, <4>2
    <3>3. CASE j \in k .. n - 1 /\ i \in k .. n - 1
      <4>1. desc'[Place(h, j)].id = nextId /\ desc'[Place(h, i)].id = nextId /\ i # n - 1
        BY <1>0, <1>3, <1>6, <2>3, <3>3
      <4>2. ~desc'[Place(h, i)].ls
        BY <1>6, <3>3, <4>1
      <4> QED
        BY <1>0, <4>1, <4>2
    <3> QED
      BY <1>0, <1>3, <2>3, <3>1, <3>2, <3>3
  <2> QED
    BY <2>2, <2>3 DEF Frames, Place
<1> QED
  BY <1>0, <1>3, <1>7, <1>8, <1>9 DEF RingInv
\* The descriptor low_level_input looks at, when it is the CPU's.
LEMMA AtHead ==
  ASSUME TypeOK, NEW h \in Idx, NEW k \in 0 .. NDesc, Held(h, k), Frames(h, k), desc[rxPos].own = "cpu"
  PROVE  /\ segCount \in 0 .. k - 1
         /\ desc[rxPos].fs <=> segCount = 0
         /\ segCount > 0 => fsPos = h
         /\ segCount = 0 => rxPos = h
         /\ Next1(rxPos) = Place(h, segCount + 1)
         /\ desc[rxPos].ls = desc[Place(h, segCount)].ls /\ desc[rxPos].id = desc[Place(h, segCount)].id
<1>0. NDesc \in Nat /\ NDesc # 0 /\ segCount \in 0 .. NDesc - 1 /\ rxPos = Place(h, segCount)
  BY EthRxAssumption DEF TypeOK, Held
<1>1. segCount \in 0 .. k - 1
  BY <1>0 DEF Held
<1>2. desc[rxPos].fs <=> segCount = 0
  <2>1. CASE segCount = 0
    BY <1>0, <1>1, <2>1 DEF Frames
  <2>2. CASE segCount > 0
    <3>1. segCount - 1 \in 0 .. k - 1 /\ segCount - 1 < segCount /\ segCount # 0
      BY <1>1, <2>2
    <3>2. ~desc[Place(h, segCount - 1)].ls
      BY <3>1 DEF Frames
    <3> QED
      BY <1>0, <1>1, <3>1, <3>2 DEF Frames
  <2> QED
    BY <1>0, <2>1, <2>2
<1>3. Next1(rxPos) = Place(h, segCount + 1)
  <2>1. Next1(rxPos) = Place(rxPos, 1) /\ 1 \in 0 .. NDesc /\ segCount \in 0 .. NDesc
    BY <1>0 DEF Next1, Place
  <2> QED
    BY <1>0, <2>1, Places
<1>4. Place(h, 0) = h
  BY Places
<1> QED
  BY <1>0, <1>1, <1>2, <1>3, <1>4 DEF Held

\* low_level_input steps over a segment that is not the last of its frame.
LEMMA RingPartial ==
  ASSUME TypeOK, RingInv, GetPartial, UNCHANGED dma
  PROVE  RingInv'
<1>0. NDesc \in Nat /\ NDesc # 0 /\ segCount \in Nat
  BY EthRxAssumption DEF TypeOK
<1>1. PICK h \in Idx, k \in 0 .. NDesc : Held(h, k) /\ Frames(h, k)
  BY DEF RingInv
<1>2. desc[rxPos].own = "cpu" /\ ~desc[rxPos].ls /\ rxPos' = Next1(rxPos)
  BY DEF GetPartial
<1>3. /\ segCount \in 0 .. k - 1
      /\ desc[rxPos].fs <=> segCount = 0
      /\ segCount > 0 => fsPos = h
      /\ segCount = 0 => rxPos = h
      /\ rxPos' = Place(h, segCount + 1)
      /\ ~desc[Place(h, segCount)].ls
  BY <1>1, <1>2, AtHead
<1>4. segCount # k - 1
  BY <1>1, <1>3 DEF Frames
<1>5. segCount' = segCount + 1 /\ segCount' < k /\ segCount' > 0
  BY <1>0, <1>3, <1>4 DEF GetPartial
<1>6. fsPos' = h
  BY <1>0, <1>3 DEF GetPartial
<1>7. UNCHANGED <<desc, dmaPos, nextId, frame>>
  BY DEF GetPartial, StopDrain, dma
<1>8. Held(h, k)'
  BY <1>1, <1>3, <1>5, <1>6, <1>7 DEF Held, Place
<1>9. Frames(h, k)'
  <2>1. ASSUME NEW j \in 0 .. k - 1, j < segCount' PROVE ~desc[Place(h, j)].ls
    <3>1. j < segCount \/ j = segCount
      BY <1>0, <1>5, <2>1
    <3> QED
      BY <1>1, <1>3, <3>1 DEF Frames
  <2> QED
    BY <1>1, <1>7, <2>1 DEF Frames, Place
<1> QED
  BY <1>7, <1>8, <1>9 DEF RingInv

\* low_level_input takes a whole frame and hands its descriptors back.
LEMMA RingFrame ==
  ASSUME TypeOK, RingInv, NEW allocated \in BOOLEAN, GetFrame(allocated), UNCHANGED dma
  PROVE  RingInv' /\ frame <= frame' /\ (pc' = "input" => frame < frame')
<1>0. NDesc \in Nat /\ NDesc # 0 /\ segCount \in Nat /\ frame \in Nat
  BY EthRxAssumption DEF TypeOK
<1>1. PICK h \in Idx, k \in 0 .. NDesc : Held(h, k) /\ Frames(h, k)
  BY DEF RingInv
<1>2. desc[rxPos].own = "cpu" /\ desc[rxPos].ls /\ rxPos' = Next1(rxPos) /\ segCount' = 0
  BY DEF GetFrame
<1>3. /\ segCount \in 0 .. k - 1
      /\ segCount > 0 => fsPos = h
      /\ segCount = 0 => rxPos = h
      /\ rxPos' = Place(h, segCount + 1)
      /\ desc[Place(h, segCount)].ls /\ desc[rxPos].id = desc[Place(h, segCount)].id
  BY <1>1, <1>2, AtHead
<1>c. PICK c \in 1 .. k : c = segCount + 1
  BY <1>0, <1>3
<1>n. PICK n \in 0 .. NDesc : n = k - c
  BY <1>0
<1>g. PICK g \in Idx : g = Place(h, c)
  <2>1. c \in 0 .. NDesc
    BY <1>0
  <2> QED
    BY <2>1, Places
<1>4. /\ c \in 1 .. k /\ c \in 0 .. NDesc /\ n \in 0 .. NDesc /\ c + n = k /\ g \in Idx
      /\ NDesc - c \in 0 .. NDesc /\ c + (NDesc - c) = NDesc /\ c - 1 = segCount /\ c = segCount + 1
  <2>1. /\ c \in 1 .. k /\ c \in 0 .. NDesc /\ n \in 0 .. NDesc /\ c + n = k
        /\ NDesc - c \in 0 .. NDesc /\ c + (NDesc - c) = NDesc /\ c - 1 = segCount /\ c = segCount + 1
    BY <1>0, <1>3, <1>c, <1>n
  <2> QED
    BY <2>1
<1>5. desc' = Released(h, c)
  <2>1. c = 1 <=> segCount = 0
    BY <1>0, <1>c
  <2>2. (IF c = 1 THEN rxPos ELSE fsPos) = h
    BY <1>0, <1>3, <2>1
  <2> QED
    BY <1>c, <2>2 DEF GetFrame
<1>6. ASSUME NEW j \in 0 .. NDesc - 1
      PROVE  /\ j < c => desc'[Place(h, j)].own = "dma"
             /\ j >= c => desc'[Place(h, j)] = desc[Place(h, j)]
  <2>1. Place(h, 0) = h /\ 0 \in 0 .. NDesc /\ Place(h, j) \in Idx
    BY <1>0, Places
  <2>2. Place(h, j) \in Span(h, c) <=> 0 <= j /\ j < 0 + c
    <3>1. 0 + c <= NDesc
      BY <1>0, <1>4
    <3> QED
      BY <1>4, <2>1, <3>1, Spans
  <2>3. Place(h, j) \in Span(h, c) <=> j < c
    BY <1>4, <2>2
  <2>4. desc'[Place(h, j)] = IF j < c THEN [desc[Place(h, j)] EXCEPT !.own = "dma"] ELSE desc[Place(h, j)]
    BY <1>5, <2>1, <2>3 DEF Released
  <2>5. j < c => desc'[Place(h, j)].own = "dma"
    BY <2>1, <2>4 DEF TypeOK, Descriptor
  <2> QED
    BY <1>4, <2>4, <2>5
<1>7. \A j \in 0 .. n - 1 : c + j \in 0 .. NDesc - 1 /\ c + j \in c .. k - 1 /\ Place(g, j) = Place(h, c + j)
  <2> SUFFICES ASSUME NEW j \in 0 .. n - 1
               PROVE  c + j \in 0 .. NDesc - 1 /\ c + j \in c .. k - 1 /\ Place(g, j) = Place(h, c + j)
    OBVIOUS
  <2>1. j \in 0 .. NDesc /\ c + j \in 0 .. NDesc - 1 /\ c + j \in c .. k - 1
    BY <1>0, <1>4
  <2> QED
    BY <1>4, <1>g, <2>1, Places
<1>8. ASSUME NEW j \in 0 .. n - 1 PROVE desc'[Place(g, j)] = desc[Place(h, c + j)]
  BY <1>4, <1>6, <1>7
<1>9. UNCHANGED <<dmaPos, nextId>>
  BY DEF dma
<1>10. Held(g, n)'
  <2>1. rxPos' = Place(g, segCount') /\ (segCount' = 0 \/ segCount' < n) /\ ~(segCount' > 0)
    BY <1>2, <1>3, <1>4, <1>g, Places
  <2>2. dmaPos' = Place(g, n)
    <3>1. Place(g, n) = Place(h, c + n)
      BY <1>4, <1>g, Places
    <3> QED
      BY <1>1, <1>4, <1>9, <3>1 DEF Held
  <2>3. ASSUME NEW j \in 0 .. NDesc - 1 PROVE desc'[Place(g, j)].own = "cpu" <=> j < n
    <3>1. CASE c + j < NDesc
      <4>1. j \in 0 .. NDesc /\ c + j \in 0 .. NDesc - 1 /\ c + j >= c /\ (c + j < k <=> j < n)
        BY <1>0, <1>4, <3>1
      <4>2. Place(g, j) = Place(h, c + j)
        BY <1>4, <1>g, <4>1, Places
      <4>3. desc'[Place(g, j)] = desc[Place(h, c + j)]
        BY <1>6, <4>1, <4>2
      <4> QED
        BY <1>1, <4>1, <4>3 DEF Held
    <3>2. CASE c + j >= NDesc
      <4> DEFINE e == j - (NDesc - c)
      <4>1. e \in 0 .. NDesc - 1 /\ e \in 0 .. NDesc /\ e < c /\ (NDesc - c) + e = j /\ ~(j < n)
        BY <1>0, <1>4, <3>2
      <4>2. Place(g, NDesc - c) = h
        <5>1. Place(g, NDesc - c) = Place(h, c + (NDesc - c))
          BY <1>4, <1>g, Places
        <5> QED
          BY <1>4, <1>g, <5>1, Places
      <4>3. Place(Place(g, NDesc - c), e) = Place(g, (NDesc - c) + e)
        BY <1>4, <1>g, <4>1, Places
      <4>4. Place(g, j) = Place(h, e)
        BY <4>1, <4>2, <4>3
      <4>5. desc'[Place(g, j)].own = "dma"
        BY <1>6, <4>1, <4>4
      <4> QED
        BY <4>1, <4>5
    <3> QED
      BY <1>0, <1>4, <3>1, <3>2
  <2> QED
    BY <2>1, <2>2, <2>3 DEF Held, Place
<1>11. (pc' = "input" => frame' = desc[Place(h, segCount)].id) /\ (frame' = frame \/ frame' = desc[Place(h, segCount)].id)
  <2>1. CASE allocated
    BY <1>3, <2>1 DEF GetFrame
  <2>2. CASE ~allocated
    BY <2>2 DEF GetFrame, StopDrain
  <2> QED
    BY <2>1, <2>2
<1>12. /\ frame < desc[Place(h, segCount)].id /\ desc[Place(h, segCount)].id < nextId
       /\ desc[Place(h, segCount)].id \in Nat
  <2>1. segCount \in 0 .. NDesc
    BY <1>0, <1>3
  <2>2. Place(h, segCount) \in Idx
    BY <2>1, Places
  <2> QED
    BY <1>1, <1>3, <2>2, DescTypes DEF Frames
<1>13. frame' < nextId' /\ frame <= frame' /\ (pc' = "input" => frame < frame')
  BY <1>0, <1>9, <1>11, <1>12 DEF RingInv
<1>14. Frames(g, n)'
  <2>1. ASSUME NEW j \in 0 .. n - 1
        PROVE  /\ desc'[Place(g, j)].id < nextId'
               /\ frame' < desc'[Place(g, j)].id
               /\ ~(j < segCount')
               /\ j = n - 1 => desc'[Place(g, j)].ls
               /\ desc'[Place(g, j)].fs <=> j = 0 \/ desc'[Place(g, j - 1)].ls
    <3>1. /\ c + j \in 0 .. k - 1 /\ segCount < c + j /\ desc'[Place(g, j)] = desc[Place(h, c + j)]
          /\ c + j # 0 /\ (j = n - 1 => c + j = k - 1)
      BY <1>0, <1>4, <1>7, <1>8
    <3>2. frame' < desc[Place(h, c + j)].id
      <4>1. frame < desc[Place(h, c + j)].id /\ desc[Place(h, segCount)].id < desc[Place(h, c + j)].id
        BY <1>1, <1>3, <3>1 DEF Frames
      <4> QED
        BY <1>11, <4>1
    <3>3. desc'[Place(g, j)].fs <=> j = 0 \/ desc'[Place(g, j - 1)].ls
      <4>1. desc[Place(h, c + j)].fs <=> desc[Place(h, (c + j) - 1)].ls
        BY <1>1, <3>1 DEF Frames
      <4>2. CASE j = 0
        <5>1. (c + j) - 1 = segCount
          BY <1>0, <1>c, <4>2
        <5> QED
          BY <1>3, <3>1, <4>1, <4>2, <5>1
      <4>3. CASE j # 0
        <5>1. j - 1 \in 0 .. n - 1 /\ c + (j - 1) = (c + j) - 1
          BY <1>0, <1>4, <4>3
        <5>2. desc'[Place(g, j - 1)] = desc[Place(h, (c + j) - 1)]
          BY <1>8, <5>1
        <5> QED
          BY <3>1, <4>1, <4>3, <5>2
      <4> QED
        BY <4>2, <4>3
    <3> QED
      BY <1>1, <1>2, <1>9, <3>1, <3>2, <3>3 DEF Frames
  <2>2. ASSUME NEW i \in 0 .. n - 1, NEW j \in 0 .. n - 1, i < j
        PROVE  /\ desc'[Place(g, i)].id <= desc'[Place(g, j)].id
               /\ desc'[Place(g, i)].ls => desc'[Place(g, i)].id < desc'[Place(g, j)].id
    <3>1. c + i \in 0 .. k - 1 /\ c + j \in 0 .. k - 1 /\ c + i < c + j
      BY <1>0, <1>4, <2>2
    <3>2. desc'[Place(g, i)] = desc[Place(h, c + i)] /\ desc'[Place(g, j)] = desc[Place(h, c + j)]
      BY <1>8
    <3> QED
      BY <1>1, <3>1, <3>2 DEF Frames
  <2> QED
    BY <2>1, <2>2 DEF Frames, Place
<1> QED
  BY <1>4, <1>10, <1>13, <1>14 DEF RingInv
LEMMA RingInit == Init => RingInv
<1> SUFFICES ASSUME Init PROVE RingInv
  OBVIOUS
<1>0. NDesc \in Nat /\ NDesc # 0 /\ 0 \in Idx /\ 0 \in 0 .. NDesc
  BY EthRxAssumption DEF Idx
<1>1. Place(0, 0) = 0
  BY <1>0, Places
<1>2. \A j \in 0 .. NDesc - 1 : Place(0, j) \in Idx
  BY <1>0, Places
<1>3. Held(0, 0)
  BY <1>0, <1>1, <1>2 DEF Init, Held
<1>4. Frames(0, 0)
  BY DEF Frames
<1>5. frame < nextId
  BY DEF Init
<1> QED
  BY <1>0, <1>3, <1>4, <1>5 DEF RingInv

LEMMA RingSame ==
  ASSUME RingInv, UNCHANGED <<ring, dma, frame>>
  PROVE  RingInv'
BY DEF RingInv, Held, Frames, Place, ring, dma

LEMMA RingStep == TypeOK /\ RingInv /\ [Next]_vars => RingInv'
<1> SUFFICES ASSUME TypeOK, RingInv, [Next]_vars PROVE RingInv'
  OBVIOUS
<1>1. CASE \E s \in SegSizes : DmaReceive(s)
  BY <1>1, RingReceive
<1>2. CASE LowLevelInput
  <2>1. UNCHANGED dma
    BY <1>2 DEF LowLevelInput
  <2>2. CASE GetBusy \/ GetEmpty
    BY <2>1, <2>2, RingSame DEF GetBusy, GetEmpty, StopDrain
  <2>3. CASE GetPartial
    BY <2>1, <2>3, RingPartial
  <2>4. CASE \E allocated \in BOOLEAN : GetFrame(allocated)
    BY <2>1, <2>4, RingFrame
  <2> QED
    BY <1>2, <2>2, <2>3, <2>4 DEF LowLevelInput
<1>3. CASE IrqGive \/ IrqClear \/ Take \/ InputOk \/ InputFull \/ TcpipFetch \/ UNCHANGED vars
           \/ \E c \in Senders : TxLock(c) \/ TxBusy(c) \/ TxUnlock(c)
  <2>1. UNCHANGED <<ring, dma, frame>>
    BY <1>3 DEF IrqGive, IrqClear, Take, InputOk, InputFull, StopDrain, TxLock, TxBusy, TxUnlock, TcpipFetch, vars
  <2> QED
    BY <2>1, RingSame
<1> QED
  BY <1>1, <1>2, <1>3 DEF Next

LEMMA RingInvariant == Spec => [](TypeOK /\ RingInv)
BY RingInit, RingStep, TypeCorrect, PTL DEF Spec

\* No descriptor is handed back early, late or twice: the CPU's descriptors are
\* the stretch from the first unreleased segment to the DMA's position.
THEOREM RingWindowHolds == Spec => []RingWindow
<1>1. TypeOK /\ RingInv => RingWindow
  <2> SUFFICES ASSUME TypeOK, RingInv PROVE RingWindow
    OBVIOUS
  <2>0. NDesc \in Nat /\ NDesc # 0 /\ segCount \in Nat
    BY EthRxAssumption DEF TypeOK
  <2>1. PICK h \in Idx, k \in 0 .. NDesc : Held(h, k) /\ Frames(h, k)
    BY DEF RingInv
  <2>2. segCount <= k /\ segCount \in 0 .. NDesc
    BY <2>0, <2>1 DEF Held
  <2>3. (rxPos + NDesc - segCount) % NDesc = h
    <3>1. NDesc - segCount \in 0 .. NDesc /\ segCount + (NDesc - segCount) = NDesc
      BY <2>0, <2>2
    <3>2. Place(rxPos, NDesc - segCount) = h
      <4>1. \A a, b \in 0 .. NDesc : Place(Place(h, a), b) = Place(h, a + b)
        BY Places
      <4>2. Place(h, NDesc) = h
        BY Places
      <4>3. rxPos = Place(h, segCount)
        BY <2>1 DEF Held
      <4> QED
        BY <2>2, <3>1, <4>1, <4>2, <4>3
    <3>3. rxPos + NDesc - segCount = rxPos + (NDesc - segCount)
      BY <2>0 DEF TypeOK, Idx
    <3> QED
      BY <3>2, <3>3 DEF Place
  <2>4. ASSUME NEW i \in Idx PROVE desc[i].own = "cpu" <=> i \in Span(h, k)
    <3>1. PICK j \in 0 .. NDesc - 1 : i = Place(h, j)
      BY Places
    <3>2. h = Place(h, 0) /\ 0 \in 0 .. NDesc /\ 0 + k <= NDesc
      BY <2>0, Places
    <3>3. Place(h, j) \in Span(h, k) <=> 0 <= j /\ j < 0 + k
      BY <3>2, Spans
    <3> QED
      BY <2>0, <2>1, <3>1, <3>3 DEF Held
  <2>5. Span(h, k) \subseteq Idx
    <3>1. \A j \in 0 .. k - 1 : j \in 0 .. NDesc
      BY <2>0
    <3> QED
      BY <3>1, Places DEF Span, Place
  <2>6. {i \in Idx : desc[i].own = "cpu"} = Span(h, k)
    BY <2>4, <2>5
  <2>7. (h + k) % NDesc = dmaPos
    BY <2>1 DEF Held, Place
  <2> QED
    BY <2>2, <2>3, <2>6, <2>7 DEF RingWindow
<1> QED
  BY <1>1, RingInvariant, PTL

-----------------------------------------------------------------------------
(* The order of arrival. *)

\* The frame in hand is the last one taken from the ring; those fetched and
\* those in the mailbox came before it, or are it.
OrderInv ==
  /\ fetched <= frame
  /\ \A i \in 1 .. Len(mbox) : fetched < mbox[i] /\ mbox[i] <= frame
  /\ \A i, j \in 1 .. Len(mbox) : i < j => mbox[i] < mbox[j]
  /\ pc = "input" => fetched < frame /\ \A i \in 1 .. Len(mbox) : mbox[i] < frame

LEMMA OrderStep == TypeOK /\ RingInv /\ OrderInv /\ [Next]_vars => OrderInv'
<1> SUFFICES ASSUME TypeOK, RingInv, OrderInv, [Next]_vars PROVE OrderInv'
  OBVIOUS
<1>0. /\ frame \in Nat /\ fetched \in Nat /\ mbox \in Seq(Nat) /\ Len(mbox) \in Nat
      /\ \A i \in 1 .. Len(mbox) : mbox[i] \in Nat
  BY DEF TypeOK
<1>1. CASE LowLevelInput
  <2>1. UNCHANGED <<mbox, fetched, dma>>
    BY <1>1 DEF LowLevelInput, stack
  <2>2. CASE GetBusy \/ GetEmpty \/ GetPartial
    <3>1. pc' # "input" /\ frame' = frame
      BY <2>2 DEF GetBusy, GetEmpty, GetPartial, StopDrain
    <3> QED
      BY <2>1, <3>1 DEF OrderInv
  <2>3. CASE \E allocated \in BOOLEAN : GetFrame(allocated)
    <3>1. frame <= frame' /\ (pc' = "input" => frame < frame')
      BY <2>1, <2>3, RingFrame
    <3>2. frame' \in Nat
      BY TypeStep DEF TypeOK
    <3>3. fetched <= frame' /\ (pc' = "input" => fetched < frame')
      BY <1>0, <3>1, <3>2 DEF OrderInv
    <3>4. ASSUME NEW i \in 1 .. Len(mbox)
          PROVE  fetched < mbox[i] /\ mbox[i] <= frame' /\ (pc' = "input" => mbox[i] < frame')
      BY <1>0, <3>1, <3>2 DEF OrderInv
    <3>5. \A i, j \in 1 .. Len(mbox) : i < j => mbox[i] < mbox[j]
      BY DEF OrderInv
    <3> QED
      BY <2>1, <3>3, <3>4, <3>5 DEF OrderInv
  <2> QED
    BY <1>1, <2>2, <2>3 DEF LowLevelInput
<1>2. CASE InputOk
  <2>1. mbox' = Append(mbox, frame) /\ pc = "input" /\ pc' # "input" /\ UNCHANGED <<fetched, frame>>
    BY <1>2 DEF InputOk
  <2>2. /\ Len(mbox') = Len(mbox) + 1 /\ mbox'[Len(mbox) + 1] = frame
        /\ \A i \in 1 .. Len(mbox) : mbox'[i] = mbox[i]
    BY <1>0, <2>1, AppendProperties
  <2>3. ASSUME NEW i \in 1 .. Len(mbox') PROVE i \in 1 .. Len(mbox) \/ i = Len(mbox) + 1
    BY <1>0, <2>2
  <2>4. \A i \in 1 .. Len(mbox') : fetched' < mbox'[i] /\ mbox'[i] <= frame'
    BY <1>0, <2>1, <2>2, <2>3 DEF OrderInv
  <2>5. ASSUME NEW i \in 1 .. Len(mbox'), NEW j \in 1 .. Len(mbox'), i < j PROVE mbox'[i] < mbox'[j]
    <3>1. i \in 1 .. Len(mbox)
      BY <1>0, <2>2, <2>5
    <3>2. CASE j \in 1 .. Len(mbox)
      BY <2>2, <2>5, <3>1, <3>2 DEF OrderInv
    <3>3. CASE j = Len(mbox) + 1
      BY <2>1, <2>2, <3>1, <3>3 DEF OrderInv
    <3> QED
      BY <2>3, <3>2, <3>3
  <2> QED
    BY <2>1, <2>4, <2>5 DEF OrderInv
<1>3. CASE TcpipFetch
  <2>1. /\ mbox # <<>> /\ mbox' = Tail(mbox) /\ fetched' = Head(mbox) /\ UNCHANGED <<pc, frame>>
    BY <1>3 DEF TcpipFetch
  <2>2. /\ Head(mbox) = mbox[1] /\ Len(mbox') = Len(mbox) - 1 /\ Len(mbox) >= 1
        /\ \A i \in 1 .. Len(mbox) - 1 : mbox'[i] = mbox[i + 1]
    BY <1>0, <2>1, HeadTailProperties, EmptySeq
  <2>3. ASSUME NEW i \in 1 .. Len(mbox')
        PROVE  i + 1 \in 1 .. Len(mbox) /\ mbox'[i] = mbox[i + 1] /\ 1 < i + 1 /\ 1 \in 1 .. Len(mbox)
    BY <1>0, <2>2
  <2>4. fetched' <= frame' /\ 1 \in 1 .. Len(mbox)
    BY <1>0, <2>1, <2>2 DEF OrderInv
  <2>5. \A i \in 1 .. Len(mbox') : fetched' < mbox'[i] /\ mbox'[i] <= frame'
    BY <2>1, <2>2, <2>3 DEF OrderInv
  <2>6. ASSUME NEW i \in 1 .. Len(mbox'), NEW j \in 1 .. Len(mbox'), i < j PROVE mbox'[i] < mbox'[j]
    <3>1. i + 1 < j + 1
      BY <2>6
    <3> QED
      BY <2>3, <3>1 DEF OrderInv
  <2>7. pc' = "input" => fetched' < frame' /\ \A i \in 1 .. Len(mbox') : mbox'[i] < frame'
    BY <2>1, <2>2, <2>3, <2>4 DEF OrderInv
  <2> QED
    BY <2>4, <2>5, <2>6, <2>7 DEF OrderInv
<1>4. CASE \/ \E s \in SegSizes : DmaReceive(s)
           \/ IrqGive \/ IrqClear \/ Take \/ InputFull \/ UNCHANGED vars
           \/ \E c \in Senders : TxLock(c) \/ TxBusy(c) \/ TxUnlock(c)
  <2>1. UNCHANGED <<mbox, fetched, frame>> /\ (pc' = "input" => pc = "input")
    BY <1>4 DEF DmaReceive, IrqGive, IrqClear, Take, InputFull, StopDrain, TxLock, TxBusy, TxUnlock, vars, stack
  <2> QED
    BY <2>1 DEF OrderInv
<1> QED
  BY <1>1, <1>2, <1>3, <1>4 DEF Next

\* Frames reach the tcpip thread in the order of the wire, none twice.
THEOREM ArrivalOrder == Spec => []InOrder
<1>1. Init => OrderInv
  BY DEF Init, OrderInv
<1>2. OrderInv => InOrder
  BY DEF OrderInv, InOrder
<1> QED
  BY <1>1, <1>2, OrderStep, RingInvariant, PTL DEF Spec
=============================================================================
