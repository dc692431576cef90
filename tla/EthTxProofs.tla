----------------------------- MODULE EthTxProofs -----------------------------
(***************************************************************************)
(* Proofs about EthTx, for every ring length, set of frame sizes and       *)
(* number of frames sent while booting.                                    *)
(***************************************************************************)
EXTENDS EthTx, TLAPS

(***************************************************************************)
(* Facts about remainders, for positions in a ring: the prover knows % for *)
(* numbers, not for a modulus that is a parameter.                         *)
(***************************************************************************)

\* Remainders over the first three turns of the ring.
LEMMA Turns ==
  ASSUME NEW a \in Nat, NEW m \in Nat, m # 0, a < m + m + m
  PROVE  /\ a < m => a % m = a
         /\ a >= m /\ a < m + m => a % m = a - m
         /\ a >= m + m => a % m = a - m - m
<1>1. (a < m => a % m = a) /\ (a >= m /\ a < m + m => a % m = a - m)
  OBVIOUS
<1>2. ASSUME a >= m + m PROVE a % m = a - m - m
  <2> DEFINE q == a \div m
             r == a % m
  <2>1. a = m * q + r /\ q \in Int /\ r \in 0 .. m - 1
    OBVIOUS
  <2> HIDE DEF q, r
  <2>2. q >= 2
    <3>1. ASSUME q <= 1 PROVE FALSE
      <4>1. m * q <= m
        BY <2>1, <3>1
      <4> QED
        BY <1>2, <2>1, <4>1
    <3> QED
      BY <2>1, <3>1
  <2>3. q <= 2
    <3>1. ASSUME q >= 3 PROVE FALSE
      <4>1. m * q >= m * 3
        BY <2>1, <3>1
      <4> QED
        BY <2>1, <4>1
    <3> QED
      BY <2>1, <3>1
  <2>4. q = 2 /\ m * 2 = m + m
    BY <2>1, <2>2, <2>3
  <2> QED
    BY <2>1, <2>4 DEF r
<1> QED
  BY <1>1, <1>2

\* Places of a ring less than a turn apart are different.
LEMMA Apart ==
  ASSUME NEW a \in Nat, NEW b \in Nat, NEW m \in Nat, m # 0, a < b, b < a + m, b < m + m + m
  PROVE  a % m # b % m
<1>1. a < m + m + m
  OBVIOUS
<1>2. (a < m => a % m = a) /\ (a >= m /\ a < m + m => a % m = a - m) /\ (a >= m + m => a % m = a - m - m)
  BY <1>1, Turns
<1>3. (b < m => b % m = b) /\ (b >= m /\ b < m + m => b % m = b - m) /\ (b >= m + m => b % m = b - m - m)
  BY Turns
<1> QED
  BY <1>2, <1>3

\* Every place of a ring is so and so far from a given one.
LEMMA Distance ==
  ASSUME NEW m \in Nat, m # 0, NEW a \in 0 .. m - 1, NEW b \in 0 .. m - 1
  PROVE  \E d \in 0 .. m - 1 : b = (a + d) % m
<1>1. CASE a <= b
  <2>1. b - a \in 0 .. m - 1 /\ a + (b - a) = b /\ b \in Nat /\ b < m
    BY <1>1
  <2>2. b % m = b
    BY <2>1, Turns, b < m + m + m
  <2> QED
    BY <2>1, <2>2
<1>2. CASE a > b
  <2>1. /\ (b - a) + m \in 0 .. m - 1 /\ a + ((b - a) + m) = b + m
        /\ b + m \in Nat /\ b + m >= m /\ b + m < m + m /\ b + m < m + m + m
    BY <1>2
  <2>2. (b + m) % m = (b + m) - m
    BY <2>1, Turns
  <2>3. (b + m) - m = b
    OBVIOUS
  <2> QED
    BY <2>1, <2>2, <2>3
<1> QED
  BY <1>1, <1>2

\* Going on by a and then by b is going on by both.
LEMMA TwoSteps ==
  ASSUME NEW m \in Nat, m # 0, NEW h \in 0 .. m - 1, NEW a \in 0 .. m, NEW b \in 0 .. m
  PROVE  (((h + a) % m) + b) % m = (h + (a + b)) % m
<1> DEFINE c == h + a
           e == h + (a + b)
<1>1. c \in Nat /\ c < m + m /\ e = c + b /\ e \in Nat /\ e < m + m + m /\ c < m + m + m
  OBVIOUS
<1>2. (c < m => c % m = c) /\ (c >= m => c % m = c - m)
  BY <1>1, Turns
<1> DEFINE f == (c % m) + b
<1>3. f \in Nat /\ f < m + m /\ f < m + m + m
  BY <1>1, <1>2
<1>4. (f < m => f % m = f) /\ (f >= m => f % m = f - m)
  BY <1>3, Turns
<1>5. (e < m => e % m = e) /\ (e >= m /\ e < m + m => e % m = e - m) /\ (e >= m + m => e % m = e - m - m)
  BY <1>1, Turns
<1>6. (c < m => f = e) /\ (c >= m => f = e - m)
  BY <1>1, <1>2
<1> HIDE DEF f, e
<1>7. f % m = e % m
  BY <1>1, <1>3, <1>4, <1>5, <1>6
<1> QED
  BY <1>7 DEF f, e


\* The next descriptor is one of the ring.
LEMMA NextInRing ==
  ASSUME NEW d \in Idx
  PROVE  NextDesc(d) \in Idx
<1>1. d + 1 \in Nat /\ NDesc \in Nat \ {0}
  BY EthTxAssumption DEF Idx
<1>2. (d + 1) % NDesc \in 0 .. NDesc - 1
  BY <1>1
<1> QED
  BY <1>2 DEF NextDesc, Idx

\* The values that the variables start with and return to.
LEMMA Smallest == 0 \in Idx /\ 1 \in 1 .. NDesc /\ Nothing \in Part
<1>1. NDesc \in Nat /\ NDesc # 0
  BY EthTxAssumption
<1>2. 0 \in Idx
  BY <1>1 DEF Idx
<1>3. 1 \in 1 .. NDesc
  BY <1>1
<1> QED
  BY <1>2, <1>3 DEF Nothing, Part, Callers

\* TypeOK is inductive.
LEMMA TypeStep == TypeOK /\ [Next]_vars => TypeOK'
<1> SUFFICES ASSUME TypeOK, [Next]_vars PROVE TypeOK'
  OBVIOUS
<1> USE EthTxAssumption
<1>0. 0 \in Idx /\ 1 \in 1 .. NDesc /\ \A c \in Callers : Mine(c) \in Part
  <2>1. \A c \in Callers : part[c] \in Nat
    BY DEF TypeOK
  <2> QED
    BY <2>1, Smallest DEF Mine, Part
<1>1. ASSUME NEW c \in Callers, Call(c) PROVE TypeOK'
  BY <1>1 DEF Call, TypeOK, At, Goto, ring, mac, guard, history, Labels, Callers
<1>2. ASSUME NEW c \in Callers, Create(c) PROVE TypeOK'
  BY <1>2 DEF Create, TypeOK, At, Goto, ring, mac, local, history, Labels
<1>3. ASSUME NEW c \in Callers, Give(c) PROVE TypeOK'
  BY <1>3 DEF Give, Signal, TypeOK, At, Goto, ring, mac, local, history, Labels
<1>4. ASSUME NEW c \in Callers, Look(c) PROVE TypeOK'
  BY <1>4 DEF Look, TypeOK, At, Goto, ring, mac, guard, local, history, Labels
<1>19. ASSUME NEW c \in Callers, Aim(c) PROVE TypeOK'
  BY <1>19 DEF Aim, TypeOK, At, Goto, ring, mac, guard, Labels
<1>20. ASSUME NEW c \in Callers, Choose(c) PROVE TypeOK'
  BY <1>20 DEF Choose, TypeOK, At, Goto, ring, mac, guard, history, Labels
<1>5. ASSUME NEW c \in Callers, Wait(c) PROVE TypeOK'
  BY <1>5 DEF Wait, TypeOK, At, Goto, ring, mac, guard, history, Labels
<1>6. ASSUME NEW c \in Callers, Take(c) PROVE TypeOK'
  BY <1>6 DEF Take, TypeOK, At, Goto, ring, mac, history, Labels
<1>7. ASSUME NEW c \in Callers, Copy(c) PROVE TypeOK'
  <2>1. buffer' \in [Idx -> Part]
    BY <1>0, <1>7 DEF Copy, TypeOK
  <2>2. cur' \in [Callers -> Idx] /\ dest' \in [Callers -> Idx]
    BY <1>7, NextInRing DEF Copy, TypeOK
  <2>3. part' \in [Callers -> 1 .. NDesc]
    BY <1>7 DEF Copy, TypeOK
  <2>4. pc' \in [Callers -> Labels]
    BY <1>7 DEF Copy, TypeOK, Goto, Labels
  <2>5. stale' \in BOOLEAN
    BY <1>7 DEF Copy, TypeOK
  <2> QED
    BY <1>7, <2>1, <2>2, <2>3, <2>4, <2>5 DEF Copy, TypeOK, mac, guard
<1>8. ASSUME NEW c \in Callers, Finish(c) PROVE TypeOK'
  BY <1>0, <1>8 DEF Finish, Resume, Signal, Return, TypeOK, At, Goto, ring, history, Labels
<1>9. ASSUME NEW c \in Callers, Refuse(c) PROVE TypeOK'
  BY <1>0, <1>9 DEF Refuse, Resume, Signal, Return, TypeOK, At, Goto, ring, Labels
<1>10. ASSUME NEW c \in Callers, HalLock(c) PROVE TypeOK'
  BY <1>0, <1>10 DEF HalLock, TypeOK, At, Goto, ring, mac, guard, Labels
<1>11. ASSUME NEW c \in Callers, HalError(c) PROVE TypeOK'
  BY <1>11 DEF HalError, TypeOK, At, Goto, ring, mac, guard, local, Labels
<1>12. ASSUME NEW c \in Callers, Commit(c) PROVE TypeOK'
  BY <1>0, <1>12 DEF Commit, TypeOK, At, Goto, mac, guard, local, history, Labels
<1>13. ASSUME NEW c \in Callers, Advance(c) PROVE TypeOK'
  BY <1>13, NextInRing DEF Advance, TypeOK, At, Goto, mac, guard, Labels
<1>14. ASSUME NEW c \in Callers, Poll(c) PROVE TypeOK'
  BY <1>14 DEF Poll, TypeOK, At, Goto, ring, guard, local, history, Labels
<1>15. CASE DmaSend
  BY <1>15, NextInRing DEF DmaSend, TypeOK, Nothing, Part, Callers, guard, local, history
<1>16. CASE DmaSuspend
  BY <1>16 DEF DmaSuspend, TypeOK, ring, guard, local, history
<1>17. CASE IrqUnlock
  BY <1>17 DEF IrqUnlock, TypeOK, ring, mac, guard, local, history
<1>18. CASE UNCHANGED vars
  BY <1>18 DEF vars, TypeOK, ring, mac, guard, local, history
<1> QED
  BY <1>1, <1>2, <1>3, <1>4, <1>5, <1>6, <1>7, <1>8, <1>9, <1>10, <1>11, <1>12, <1>13,
     <1>14, <1>15, <1>16, <1>17, <1>18, <1>19, <1>20 DEF Next, Step

LEMMA TypeInit == Init => TypeOK
<1> SUFFICES ASSUME Init PROVE TypeOK
  OBVIOUS
<1>1. calls \in 0 .. BootFrames
  BY EthTxAssumption DEF Init
<1>2. own \in [Idx -> BOOLEAN] /\ buffer \in [Idx -> Part] /\ meant \in [Idx -> Part]
  BY Smallest DEF Init
<1>3. txDesc \in Idx /\ dmaPos \in Idx /\ dest \in [Callers -> Idx] /\ cur \in [Callers -> Idx]
  BY Smallest DEF Init
<1>4. size \in [Callers -> 1 .. NDesc] /\ part \in [Callers -> 1 .. NDesc]
  BY Smallest DEF Init
<1>5. pc \in [Callers -> Labels]
  BY DEF Init, Labels
<1>6. /\ dmasr \in {"run", "tbus", "tus"} /\ halLock \in BOOLEAN
      /\ ousem \in Callers \cup {NULL} /\ count \in [Callers -> {0, 1}]
      /\ sem \in [Callers -> Callers \cup {NULL}]
      /\ moved \in [Callers -> BOOLEAN] /\ {stale, refused} \subseteq BOOLEAN
  BY DEF Init
<1> QED
  BY <1>1, <1>2, <1>3, <1>4, <1>5, <1>6 DEF TypeOK

\* The types of the ring, the DMA, the semaphore, both callers and the histories,
\* through every interleaving of ethernetif.c:218 with itself and the hardware.
THEOREM TypeCorrect == Spec => []TypeOK
<1> QED
  BY TypeInit, TypeStep, PTL DEF Spec
-----------------------------------------------------------------------------
(* Mutual exclusion. *)

\* One caller is in at a time.
OneInside == \A c, d \in Holding : c = d

\* ousem exists for whoever is past the test of line 221, and core, which the
\* other cannot interrupt there, makes it only while it does not exist.
Made ==
  /\ \A c \in Callers : pc[c] \notin {"idle", "create"} => ousem \in Callers
  /\ pc["core"] = "create" => ousem = NULL
  /\ pc["core"] \in {"create", "give"} => pc["boot"] \in {"idle", "create"}
  /\ \A c \in Callers : pc[c] = "take" => sem[c] = ousem

\* ousem is given exactly when nobody is inside, once its maker has given it.
Counted ==
  /\ \A c \in Holding : count[ousem] = 0
  /\ ousem \in Callers /\ Holding = {} /\ (\A c \in Callers : pc[c] # "give")
       => count[ousem] = 1

\* ExclusiveUnlessRefused is not inductive: it rests on which semaphore ousem is
\* and on its count.
GuardInv == refused \/ (OneInside /\ Made /\ Counted)

LEMMA GuardInit == Init => GuardInv
BY DEF Init, GuardInv, OneInside, Made, Counted, Holding, Callers, NULL

\* A step that moves neither pc, ousem, counts nor what was passed to a wait.
LEMMA GuardKept ==
  ASSUME GuardInv, UNCHANGED <<pc, ousem, count, sem, refused>>
  PROVE  GuardInv'
BY DEF GuardInv, OneInside, Made, Counted, Holding

LEMMA GuardStep == TypeOK /\ GuardInv /\ [Next]_vars => GuardInv'
<1> SUFFICES ASSUME TypeOK, GuardInv, [Next]_vars PROVE GuardInv'
  OBVIOUS
<1>1. CASE refused
  BY <1>1 DEF GuardInv, Next, Step, Call, Create, Give, Aim, Choose, Look, Wait, Take, Copy, Finish, Refuse,
     HalLock, HalError, Commit, Advance, Poll, DmaSend, DmaSuspend, IrqUnlock, history, vars
<1>2. CASE ~refused
  <2> USE <1>2 DEF GuardInv, OneInside, Made, Counted, Holding, Callers, TypeOK, Labels, NULL,
        At, Goto, MayRun, Blocked
  <2>1. ASSUME NEW c \in Callers, Call(c) PROVE GuardInv'
    BY <2>1 DEF Call, guard, history
  <2>2. ASSUME NEW c \in Callers, Create(c) PROVE GuardInv'
    BY <2>2 DEF Create, history, local
  <2>3. ASSUME NEW c \in Callers, Give(c) PROVE GuardInv'
    BY <2>3 DEF Give, Signal, history, local
  <2>4. ASSUME NEW c \in Callers, Aim(c) \/ Choose(c) \/ Look(c) PROVE GuardInv'
    BY <2>4 DEF Aim, Choose, Look, guard, local, history
  <2>5. ASSUME NEW c \in Callers, Wait(c) PROVE GuardInv'
    BY <2>5 DEF Wait, guard, history
  <2>6. ASSUME NEW c \in Callers, Take(c) PROVE GuardInv'
    BY <2>6 DEF Take, history
  <2>7. ASSUME NEW c \in Callers, Copy(c) PROVE GuardInv'
    BY <2>7 DEF Copy, guard
  <2>8. ASSUME NEW c \in Callers, Finish(c) PROVE GuardInv'
    BY <2>8 DEF Finish, Signal, Return, history
  <2>9. ASSUME NEW c \in Callers, Refuse(c) PROVE GuardInv'
    BY <2>9 DEF Refuse, Signal, Return
  <2>10. ASSUME NEW c \in Callers, HalLock(c) PROVE GuardInv'
    BY <2>10 DEF HalLock, guard
  <2>11. ASSUME NEW c \in Callers, HalError(c) PROVE GuardInv'
    BY <2>11 DEF HalError, guard, local
  <2>12. ASSUME NEW c \in Callers, Commit(c) PROVE GuardInv'
    BY <2>12 DEF Commit, guard, local, history
  <2>13. ASSUME NEW c \in Callers, Advance(c) PROVE GuardInv'
    BY <2>13 DEF Advance, guard
  <2>14. ASSUME NEW c \in Callers, Poll(c) PROVE GuardInv'
    BY <2>14 DEF Poll, guard, local, history
  <2>15. CASE DmaSend \/ DmaSuspend \/ IrqUnlock \/ UNCHANGED vars
    BY <2>15, GuardKept DEF DmaSend, DmaSuspend, IrqUnlock, vars, guard, local, history
  <2> QED
    BY <2>1, <2>2, <2>3, <2>4, <2>5, <2>6, <2>7, <2>8, <2>9, <2>10, <2>11, <2>12, <2>13,
       <2>14, <2>15 DEF Next, Step
<1> QED
  BY <1>1, <1>2

\* Two calls of low_level_output (ethernetif.c:218) are never both between taking
\* and signalling ousem, unless one that had not taken it has signalled it.
THEOREM OneCallerInside == Spec => []ExclusiveUnlessRefused
<1>1. GuardInv => ExclusiveUnlessRefused
  BY DEF GuardInv, OneInside, ExclusiveUnlessRefused
<1>2. Spec => []TypeOK
  BY TypeCorrect
<1>3. Spec => []GuardInv
  BY <1>2, GuardInit, GuardStep, PTL DEF Spec
<1> QED
  BY <1>1, <1>3, PTL
-----------------------------------------------------------------------------
(* Places of the ring. *)

\* i places after descriptor d.
Spot(d, i) == (d + i) % NDesc

LEMMA SpotInRing ==
  ASSUME NEW d \in Idx, NEW i \in 0 .. NDesc
  PROVE  Spot(d, i) \in Idx /\ Spot(d, 0) = d
<1>1. NDesc \in Nat \ {0} /\ d \in 0 .. NDesc - 1
  BY EthTxAssumption DEF Idx
<1>2. d + i \in Nat /\ d + 0 = d
  BY <1>1
<1>3. (d + i) % NDesc \in 0 .. NDesc - 1 /\ d % NDesc = d
  BY <1>1, <1>2
<1> QED
  BY <1>2, <1>3 DEF Spot, Idx

\* One place further on, seen from either end.
LEMMA SpotNext ==
  ASSUME NEW d \in Idx, NEW i \in 0 .. NDesc - 1
  PROVE  NextDesc(Spot(d, i)) = Spot(d, i + 1) /\ Spot(NextDesc(d), i) = Spot(d, i + 1)
<1>1. /\ NDesc \in Nat /\ NDesc # 0 /\ d \in 0 .. NDesc - 1 /\ 1 \in 0 .. NDesc
      /\ i \in 0 .. NDesc /\ 1 + i = i + 1
  BY EthTxAssumption DEF Idx
<1>2. (((d + i) % NDesc) + 1) % NDesc = (d + (i + 1)) % NDesc
  BY <1>1, TwoSteps
<1>3. (((d + 1) % NDesc) + i) % NDesc = (d + (1 + i)) % NDesc
  BY <1>1, TwoSteps
<1> QED
  BY <1>1, <1>2, <1>3 DEF Spot, NextDesc

LEMMA SpotApart ==
  ASSUME NEW d \in Idx, NEW i \in 0 .. NDesc - 1, NEW j \in 0 .. NDesc - 1, Spot(d, i) = Spot(d, j)
  PROVE  i = j
<1>1. NDesc \in Nat /\ NDesc # 0 /\ d \in 0 .. NDesc - 1 /\ d + i \in Nat /\ d + j \in Nat
  BY EthTxAssumption DEF Idx
<1>2. ASSUME i < j PROVE FALSE
  <2>1. d + i < d + j /\ d + j < (d + i) + NDesc /\ d + j < NDesc + NDesc + NDesc
    BY <1>1, <1>2
  <2> QED
    BY <1>1, <2>1, Apart DEF Spot
<1>3. ASSUME j < i PROVE FALSE
  <2>1. d + j < d + i /\ d + i < (d + j) + NDesc /\ d + i < NDesc + NDesc + NDesc
    BY <1>1, <1>3
  <2> QED
    BY <1>1, <2>1, Apart DEF Spot
<1> QED
  BY <1>1, <1>2, <1>3

LEMMA SpotOnto ==
  ASSUME NEW d \in Idx, NEW e \in Idx
  PROVE  \E i \in 0 .. NDesc - 1 : e = Spot(d, i)
BY EthTxAssumption, Distance DEF Idx, Spot

-----------------------------------------------------------------------------
(* What the ring carries. *)

Advancing == \E c \in Callers : pc[c] = "advance"

\* The descriptors of the DMA lie in one piece from its position to heth.TxDesc.
Window ==
  \E k \in 0 .. NDesc :
    /\ \A d \in Idx : own[d] <=> \E i \in 0 .. k - 1 : d = Spot(dmaPos, i)
    /\ Spot(dmaPos, k) = IF Advancing THEN NextDesc(txDesc) ELSE txDesc

Carried == \A d \in Idx : own[d] => buffer[d] = meant[d]

\* A frame is at its first part until it is copied, and at none behind its last.
Counting ==
  \A c \in Callers :
    /\ part[c] <= size[c]
    /\ pc[c] \in {"idle", "create", "give", "aim", "choose", "look", "wait", "take", "refuse"} =>
         part[c] = 1

\* What a call has read of heth.TxDesc stands until another has sent.
Chosen ==
  \A c \in Callers : ~moved[c] =>
    /\ pc[c] \in {"choose", "look", "wait", "take"} => dest[c] = txDesc
    /\ pc[c] \in {"look", "wait", "take"} => cur[c] = txDesc
    /\ pc[c] \in {"wait", "take"} /\ own[txDesc] => Advancing

\* Descriptor d is the program's and has part q of the frame of c.
Has(d, c, q) == ~own[d] /\ buffer[d] = [from |-> c, part |-> q]

\* What the caller inside has copied and not committed is still there.
Copied(c) ==
  /\ pc[c] = "copy" /\ ~moved[c] =>
       /\ cur[c] = Spot(txDesc, part[c] - 1) /\ ~own[cur[c]] /\ dest[c] = cur[c]
       /\ \A q \in 1 .. part[c] - 1 : Has(Spot(txDesc, q - 1), c, q)
  /\ pc[c] = "hal" =>
       \A q \in 1 .. size[c] : Has(Spot(txDesc, q - 1), c, q)
  /\ pc[c] = "commit" =>
       \A q \in part[c] .. size[c] : Has(Spot(txDesc, q - part[c]), c, q)
  /\ pc[c] = "advance" =>
       \A q \in part[c] + 1 .. size[c] : Has(Spot(txDesc, q - part[c]), c, q)

\* The handle is locked by none but who is in HAL_ETH_TransmitFrame.
Locked == halLock => \E c \in Callers : pc[c] \in {"commit", "advance", "poll"}

\* SentAsMeant is not inductive: what will be committed has to be there, in the
\* descriptors that heth.TxDesc is about to pass.
RingParts == Window /\ Carried /\ Counting /\ Chosen /\ (\A c \in Callers : Copied(c)) /\ Locked
RingInv == stale \/ refused \/ RingParts

\* Where a call has a choice, or the ring, to rely on.
Inner == {"choose", "look", "wait", "take", "copy", "hal", "commit", "advance", "poll"}

LEMMA RingInit == Init => RingInv
<1> SUFFICES ASSUME Init PROVE RingParts
  BY DEF RingInv
<1>1. 0 \in Idx /\ 0 \in 0 .. NDesc /\ 1 <= 1
  BY Smallest, EthTxAssumption
<1>2. Spot(0, 0) = 0
  BY <1>1, SpotInRing
<1>3. Window
  <2>1. ~Advancing
    BY DEF Init, Advancing
  <2>2. \A d \in Idx : ~own[d]
    BY DEF Init
  <2>3. \A i \in 0 .. 0 - 1 : FALSE
    OBVIOUS
  <2> QED
    BY <1>1, <1>2, <2>1, <2>2, <2>3 DEF Init, Window
<1> QED
  BY <1>1, <1>3 DEF Init, RingParts, Carried, Counting, Chosen, Copied, Locked

\* Nothing of the ring changes and nobody comes to or leaves the inside.
LEMMA RingKept ==
  ASSUME RingParts, UNCHANGED <<own, buffer, meant, txDesc, dmaPos, halLock>>,
         \A c \in Callers :
           \/ UNCHANGED <<pc[c], dest[c], cur[c], size[c], part[c], moved[c]>>
           \/ /\ pc[c] \notin Inner /\ pc'[c] \notin Inner
              /\ part'[c] <= size'[c] /\ part'[c] = 1
  PROVE  RingParts'
<1>1. Advancing' <=> Advancing
  BY DEF Advancing, Inner
<1>2. Window'
  BY <1>1 DEF RingParts, Window
<1>3. Carried' /\ Locked'
  BY DEF RingParts, Carried, Locked, Inner
<1>4. Counting'
  BY DEF RingParts, Counting
<1>5. Chosen'
  BY <1>1 DEF RingParts, Chosen, Inner
<1>6. ASSUME NEW c \in Callers PROVE Copied(c)'
  <2>1. CASE UNCHANGED <<pc[c], dest[c], cur[c], size[c], part[c], moved[c]>>
    <3>1. Copied(c)
      BY DEF RingParts
    <3> QED
      BY <2>1, <3>1 DEF Copied, Has
  <2>2. CASE pc'[c] \notin Inner
    BY <2>2 DEF Copied, Inner
  <2> QED
    BY <2>1, <2>2
<1> QED
  BY <1>2, <1>3, <1>4, <1>5, <1>6 DEF RingParts

\* A call outside: it comes, makes ousem, or goes with ERR_USE.
LEMMA RingOutside ==
  ASSUME TypeOK, RingParts, NEW c \in Callers,
         Call(c) \/ Create(c) \/ Give(c) \/ Refuse(c)
  PROVE  RingParts'
<1>1. /\ UNCHANGED <<own, buffer, meant, txDesc, dmaPos, halLock>>
      /\ \A b \in Callers : b # c => UNCHANGED <<pc[b], dest[b], cur[b], size[b], part[b], moved[b]>>
  BY DEF Call, Create, Give, Refuse, Return, Goto, TypeOK, ring, mac, local, history
<1>2. pc[c] \notin Inner /\ pc'[c] \notin Inner
  BY DEF Call, Create, Give, Refuse, Return, At, Goto, TypeOK, Inner
<1>3. part'[c] = 1
  <2>1. part[c] = 1
    BY DEF Call, Create, Give, Refuse, At, RingParts, Counting
  <2> QED
    BY <2>1 DEF Call, Create, Give, Refuse, Return, TypeOK, local
<1>4. 1 <= size'[c]
  <2>1. 1 <= size[c] /\ (\A n \in Sizes : 1 <= n) /\ 1 <= 1
    BY EthTxAssumption DEF TypeOK
  <2> QED
    BY <2>1 DEF Call, Create, Give, Refuse, Return, TypeOK, local
<1> QED
  BY <1>1, <1>2, <1>3, <1>4, RingKept

\* A call reads heth.TxDesc, looks at OWN, and passes ousem to the wait.
LEMMA RingAim ==
  ASSUME TypeOK, RingParts, NEW c \in Callers, Aim(c)
  PROVE  RingParts'
<1>1. /\ UNCHANGED <<own, buffer, meant, txDesc, dmaPos, halLock, cur, size, part>>
      /\ pc[c] = "aim" /\ pc' = [pc EXCEPT ![c] = "choose"]
      /\ dest' = [dest EXCEPT ![c] = txDesc] /\ moved' = [moved EXCEPT ![c] = FALSE]
  BY DEF Aim, At, Goto, ring, mac
<1>2. /\ pc'[c] = "choose" /\ dest'[c] = txDesc
      /\ \A b \in Callers : b # c => UNCHANGED <<pc[b], dest[b], moved[b]>>
  BY <1>1 DEF TypeOK
<1>3. Advancing' <=> Advancing
  BY <1>1, <1>2 DEF Advancing
<1>4. Window' /\ Carried' /\ Locked'
  BY <1>1, <1>2, <1>3 DEF RingParts, Window, Carried, Locked
<1>5. Counting' /\ Chosen'
  BY <1>1, <1>2, <1>3 DEF RingParts, Counting, Chosen
<1>7. ASSUME NEW b \in Callers PROVE Copied(b)'
  BY <1>1, <1>2, <1>7 DEF RingParts, Copied, Has
<1> QED
  BY <1>4, <1>5, <1>7 DEF RingParts

LEMMA RingChoose ==
  ASSUME TypeOK, RingParts, NEW c \in Callers, Choose(c)
  PROVE  RingParts'
<1>1. /\ UNCHANGED <<own, buffer, meant, txDesc, dmaPos, halLock, dest, size, part, moved>>
      /\ pc[c] = "choose" /\ pc' = [pc EXCEPT ![c] = "look"]
      /\ cur' = [cur EXCEPT ![c] = txDesc]
  BY DEF Choose, At, Goto, ring, mac, history
<1>2. /\ pc'[c] = "look" /\ cur'[c] = txDesc
      /\ \A b \in Callers : b # c => UNCHANGED <<pc[b], cur[b]>>
  BY <1>1 DEF TypeOK
<1>3. Advancing' <=> Advancing
  BY <1>1, <1>2 DEF Advancing
<1>4. Window' /\ Carried' /\ Locked'
  BY <1>1, <1>2, <1>3 DEF RingParts, Window, Carried, Locked
<1>5. Counting' /\ Chosen'
  BY <1>1, <1>2, <1>3 DEF RingParts, Counting, Chosen
<1>7. ASSUME NEW b \in Callers PROVE Copied(b)'
  BY <1>1, <1>2, <1>7 DEF RingParts, Copied, Has
<1> QED
  BY <1>4, <1>5, <1>7 DEF RingParts

LEMMA RingLook ==
  ASSUME TypeOK, RingParts, NEW c \in Callers, Look(c)
  PROVE  RingParts'
<1>1. /\ UNCHANGED <<own, buffer, meant, txDesc, dmaPos, halLock, dest, cur, size, part, moved>>
      /\ pc[c] = "look" /\ pc' = [pc EXCEPT ![c] = IF own[cur[c]] THEN "refuse" ELSE "wait"]
  BY DEF Look, At, Goto, ring, mac, local, history
<1>2. /\ pc'[c] = IF own[cur[c]] THEN "refuse" ELSE "wait"
      /\ \A b \in Callers : b # c => pc'[b] = pc[b]
  BY <1>1 DEF TypeOK
<1>3. Advancing' <=> Advancing
  BY <1>1, <1>2 DEF Advancing
<1>4. Window' /\ Carried' /\ Locked'
  BY <1>1, <1>2, <1>3 DEF RingParts, Window, Carried, Locked
<1>5. Counting'
  BY <1>1, <1>2 DEF RingParts, Counting
<1>6. Chosen'
  BY <1>1, <1>2, <1>3 DEF RingParts, Chosen
<1>7. ASSUME NEW b \in Callers PROVE Copied(b)'
  BY <1>1, <1>2, <1>7 DEF RingParts, Copied, Has
<1> QED
  BY <1>4, <1>5, <1>6, <1>7 DEF RingParts

LEMMA RingWait ==
  ASSUME TypeOK, RingParts, NEW c \in Callers, Wait(c)
  PROVE  RingParts'
<1>1. /\ UNCHANGED <<own, buffer, meant, txDesc, dmaPos, halLock, dest, cur, size, part, moved>>
      /\ pc[c] = "wait" /\ pc' = [pc EXCEPT ![c] = "take"]
  BY DEF Wait, At, Goto, ring, mac, history
<1>2. pc'[c] = "take" /\ \A b \in Callers : b # c => pc'[b] = pc[b]
  BY <1>1 DEF TypeOK
<1>3. Advancing' <=> Advancing
  BY <1>1, <1>2 DEF Advancing
<1>4. Window' /\ Carried' /\ Locked'
  BY <1>1, <1>2, <1>3 DEF RingParts, Window, Carried, Locked
<1>5. Counting' /\ Chosen'
  BY <1>1, <1>2, <1>3 DEF RingParts, Counting, Chosen
<1>7. ASSUME NEW b \in Callers PROVE Copied(b)'
  BY <1>1, <1>2, <1>7 DEF RingParts, Copied, Has
<1> QED
  BY <1>4, <1>5, <1>7 DEF RingParts

\* It takes ousem: nobody else is inside.
LEMMA RingTake ==
  ASSUME TypeOK, Made, Counted, RingParts, NEW c \in Callers, Take(c)
  PROVE  RingParts'
<1>1. /\ UNCHANGED <<own, buffer, meant, txDesc, dmaPos, halLock, dest, cur, size, part, moved>>
      /\ pc[c] = "take" /\ count[sem[c]] # 0 /\ pc' = [pc EXCEPT ![c] = "copy"]
  BY DEF Take, Blocked, At, Goto, ring, mac, history
<1>2. pc'[c] = "copy" /\ \A b \in Callers : b # c => pc'[b] = pc[b]
  BY <1>1 DEF TypeOK
<1>3. Holding = {}
  BY <1>1 DEF Made, Counted
<1>4. ~Advancing /\ ~Advancing'
  BY <1>2, <1>3 DEF Advancing, Holding
<1>5. Window' /\ Carried' /\ Locked'
  BY <1>1, <1>2, <1>3, <1>4 DEF RingParts, Window, Carried, Locked, Holding
<1>6. Counting' /\ Chosen'
  BY <1>1, <1>2, <1>4 DEF RingParts, Counting, Chosen
<1>7. Copied(c)'
  <2>1. part[c] = 1 /\ (~moved[c] => cur[c] = txDesc /\ dest[c] = txDesc /\ ~own[txDesc])
    BY <1>1, <1>4 DEF RingParts, Counting, Chosen
  <2>2. Spot(txDesc, part[c] - 1) = txDesc /\ \A q \in 1 .. part[c] - 1 : FALSE
    BY <2>1, SpotInRing, EthTxAssumption DEF TypeOK
  <2> QED
    BY <1>1, <1>2, <2>1, <2>2 DEF Copied
<1>8. ASSUME NEW b \in Callers, b # c PROVE Copied(b)'
  BY <1>2, <1>3, <1>8 DEF Copied, Holding
<1> QED
  BY <1>5, <1>6, <1>7, <1>8 DEF RingParts

\* Whoever is beside the caller inside has copied nothing that counts.
LEMMA Beside ==
  ASSUME OneInside, NEW c \in Callers, c \in Holding,
         NEW b \in Callers, b # c, pc'[b] = pc[b]
  PROVE  Copied(b)' /\ pc[b] # "advance"
BY DEF OneInside, Holding, Copied

\* One part is copied, to a descriptor without OWN.
LEMMA RingCopy ==
  ASSUME TypeOK, OneInside, RingParts, NEW c \in Callers, Copy(c), ~stale'
  PROVE  RingParts'
<1>1. /\ UNCHANGED <<own, meant, txDesc, dmaPos, halLock, size, moved>>
      /\ pc[c] = "copy" /\ buffer' = [buffer EXCEPT ![dest[c]] = Mine(c)] /\ ~moved[c]
      /\ \A b \in Callers : b # c => UNCHANGED <<pc[b], dest[b], cur[b], part[b]>>
  BY DEF Copy, At, Goto, mac, TypeOK
<1>2. /\ pc'[c] \in {"copy", "hal", "finish"}
      /\ part'[c] \in {part[c], part[c] + 1} /\ part'[c] <= size[c]
      /\ \/ pc'[c] = "finish"
         \/ pc'[c] = "hal" /\ part[c] = size[c]
         \/ /\ pc'[c] = "copy" /\ part'[c] = part[c] + 1 /\ part[c] < size[c]
            /\ cur'[c] = NextDesc(cur[c]) /\ ~own[cur'[c]] /\ dest'[c] = cur'[c]
  <2>1. part[c] \in Nat /\ size[c] \in Nat /\ part[c] <= size[c]
    BY EthTxAssumption DEF TypeOK, RingParts, Counting
  <2>2. CASE part[c] = size[c]
    BY <1>1, <2>1, <2>2 DEF Copy, Goto, TypeOK
  <2>3. CASE part[c] < size[c] /\ own[cur'[c]]
    BY <1>1, <2>1, <2>3 DEF Copy, Goto, TypeOK
  <2>4. CASE part[c] < size[c] /\ ~own[cur'[c]]
    BY <1>1, <2>1, <2>4 DEF Copy, Goto, TypeOK
  <2> QED
    BY <2>1, <2>2, <2>3, <2>4 DEF Copy
<1>3. /\ txDesc \in Idx /\ cur[c] \in Idx /\ buffer \in [Idx -> Part]
      /\ part[c] \in 1 .. NDesc /\ size[c] \in 1 .. NDesc /\ part[c] <= size[c]
      /\ NDesc \in Nat
      /\ cur[c] = Spot(txDesc, part[c] - 1) /\ ~own[cur[c]] /\ dest[c] = cur[c]
      /\ \A q \in 1 .. part[c] - 1 : Has(Spot(txDesc, q - 1), c, q)
  BY <1>1, EthTxAssumption DEF TypeOK, RingParts, Counting, Copied
<1>4. c \in Holding
  BY <1>1 DEF Holding
<1>5. Advancing' <=> Advancing
  BY <1>1, <1>2 DEF Advancing
<1>6. Window' /\ Locked'
  BY <1>1, <1>2, <1>5 DEF RingParts, Window, Locked
<1>7. Carried'
  BY <1>1, <1>3 DEF RingParts, Carried
<1>8. Counting'
  BY <1>1, <1>2 DEF RingParts, Counting
<1>9. Chosen'
  BY <1>1, <1>2, <1>5 DEF RingParts, Chosen
<1>10. ASSUME NEW q \in 1 .. part[c] PROVE Has(Spot(txDesc, q - 1), c, q)'
  <2>1. q - 1 \in 0 .. NDesc - 1 /\ q - 1 \in 0 .. NDesc /\ part[c] - 1 \in 0 .. NDesc - 1
    BY <1>3
  <2>2. Spot(txDesc, q - 1) \in Idx
    BY <1>3, <2>1, SpotInRing
  <2>3. CASE q = part[c]
    BY <1>1, <1>3, <2>2, <2>3 DEF Has, Mine
  <2>4. CASE q # part[c]
    <3>1. q - 1 # part[c] - 1 /\ q \in 1 .. part[c] - 1
      BY <1>3, <2>4
    <3>2. Spot(txDesc, q - 1) # cur[c]
      BY <1>3, <2>1, <3>1, SpotApart
    <3>3. Has(Spot(txDesc, q - 1), c, q)
      BY <1>3, <3>1
    <3> QED
      <4>1. buffer'[Spot(txDesc, q - 1)] = buffer[Spot(txDesc, q - 1)]
        BY <1>1, <1>3, <2>2, <3>2
      <4> QED
        BY <1>1, <3>3, <4>1 DEF Has
  <2> QED
    BY <2>3, <2>4
<1>11. Copied(c)'
  <2>1. CASE pc'[c] = "finish"
    BY <2>1 DEF Copied
  <2>2. CASE pc'[c] = "hal"
    <3>1. \A q \in 1 .. size'[c] : Has(Spot(txDesc, q - 1), c, q)'
      BY <1>1, <1>2, <1>10, <2>2
    <3> QED
      BY <2>2, <3>1 DEF Copied
  <2>3. CASE pc'[c] = "copy"
    <3>1. /\ part'[c] = part[c] + 1 /\ part[c] < size[c]
          /\ cur'[c] = NextDesc(cur[c]) /\ ~own[cur'[c]] /\ dest'[c] = cur'[c]
      BY <1>2, <2>3
    <3>2. part[c] - 1 \in 0 .. NDesc - 1 /\ (part[c] - 1) + 1 = part'[c] - 1 /\ part'[c] - 1 = part[c]
      BY <1>3, <3>1
    <3>3. cur'[c] = Spot(txDesc', part'[c] - 1)
      BY <1>1, <1>3, <3>1, <3>2, SpotNext
    <3>4. \A q \in 1 .. part'[c] - 1 : Has(Spot(txDesc, q - 1), c, q)'
      BY <1>10, <3>2
    <3> QED
      BY <1>1, <2>3, <3>1, <3>3, <3>4 DEF Copied
  <2> QED
    BY <1>2, <2>1, <2>2, <2>3
<1>12. ASSUME NEW b \in Callers, b # c PROVE Copied(b)'
  BY <1>1, <1>4, <1>12, Beside
<1> QED
  BY <1>6, <1>7, <1>8, <1>9, <1>11, <1>12 DEF RingParts

\* HAL_ETH_TransmitFrame finds the handle unlocked.
LEMMA RingHalLock ==
  ASSUME TypeOK, OneInside, RingParts, NEW c \in Callers, HalLock(c)
  PROVE  RingParts' /\ pc'[c] = "commit"
<1>1. /\ UNCHANGED <<own, buffer, meant, txDesc, dmaPos, size>>
      /\ pc[c] = "hal" /\ halLock' = TRUE
      /\ pc'[c] = (IF halLock THEN "finish" ELSE "commit") /\ part'[c] = 1
      /\ \A b \in Callers : b # c => UNCHANGED <<pc[b], dest[b], cur[b], part[b], moved[b]>>
  BY DEF HalLock, At, Goto, ring, mac, TypeOK
<1>2. ~halLock
  BY <1>1 DEF RingParts, Locked, OneInside, Holding
<1>3. c \in Holding /\ pc'[c] = "commit"
  BY <1>1, <1>2 DEF Holding
<1>4. Advancing' <=> Advancing
  BY <1>1, <1>3 DEF Advancing
<1>5. Window' /\ Locked' /\ Carried'
  BY <1>1, <1>3, <1>4 DEF RingParts, Window, Locked, Carried
<1>6. Counting'
  <2>1. size[c] \in 1 .. NDesc /\ NDesc \in Nat
    BY EthTxAssumption DEF TypeOK
  <2> QED
    BY <1>1, <1>3, <2>1 DEF RingParts, Counting
<1>7. Chosen'
  BY <1>1, <1>3, <1>4 DEF RingParts, Chosen
<1>8. Copied(c)'
  <2>1. \A q \in 1 .. size[c] : Has(Spot(txDesc, q - 1), c, q)
    BY <1>1 DEF RingParts, Copied
  <2> QED
    BY <1>1, <1>3, <2>1 DEF Copied, Has
<1>9. ASSUME NEW b \in Callers, b # c PROVE Copied(b)'
  BY <1>1, <1>3, <1>9, Beside
<1> QED
  BY <1>3, <1>5, <1>6, <1>7, <1>8, <1>9 DEF RingParts

\* It finds the first descriptor without OWN.
LEMMA NoHalError ==
  ASSUME TypeOK, RingParts, NEW c \in Callers, HalError(c)
  PROVE  FALSE
<1>1. pc[c] = "commit" /\ part[c] = 1 /\ own[txDesc] /\ 1 <= size[c] /\ size[c] \in Nat
  BY EthTxAssumption DEF HalError, At, TypeOK
<1>2. Has(Spot(txDesc, 1 - 1), c, 1)
  BY <1>1 DEF RingParts, Copied
<1>3. Spot(txDesc, 1 - 1) = txDesc
  BY SpotInRing, EthTxAssumption DEF TypeOK
<1> QED
  BY <1>1, <1>2, <1>3 DEF Has

\* The next descriptor, which has what it is meant to carry, is the DMA's.
LEMMA RingCommit ==
  ASSUME TypeOK, OneInside, RingParts, NEW c \in Callers, Commit(c)
  PROVE  RingParts'
<1>1. /\ UNCHANGED <<buffer, txDesc, dmaPos, halLock, dest, cur, size, part, moved>>
      /\ pc[c] = "commit" /\ pc'[c] = "advance"
      /\ own' = [own EXCEPT ![txDesc] = TRUE]
      /\ meant' = [meant EXCEPT ![txDesc] = Mine(c)]
      /\ \A b \in Callers : b # c => pc'[b] = pc[b]
  BY DEF Commit, At, Goto, mac, local, history, TypeOK
<1>2. /\ txDesc \in Idx /\ dmaPos \in Idx /\ own \in [Idx -> BOOLEAN] /\ meant \in [Idx -> Part]
      /\ part[c] \in 1 .. NDesc /\ size[c] \in 1 .. NDesc /\ part[c] <= size[c] /\ NDesc \in Nat
      /\ \A q \in part[c] .. size[c] : Has(Spot(txDesc, q - part[c]), c, q)
  BY <1>1, EthTxAssumption DEF TypeOK, RingParts, Counting, Copied
<1>3. c \in Holding /\ ~Advancing /\ Advancing'
  BY <1>1 DEF Holding, OneInside, Advancing
<1>4. ~own[txDesc] /\ buffer[txDesc] = Mine(c)
  <2>1. part[c] \in part[c] .. size[c] /\ part[c] - part[c] = 0
    BY <1>2
  <2>2. Spot(txDesc, 0) = txDesc
    BY <1>2, SpotInRing
  <2> QED
    BY <1>2, <2>1, <2>2 DEF Has, Mine
<1>5. Window'
  <2>1. PICK k \in 0 .. NDesc :
           /\ \A d \in Idx : own[d] <=> \E i \in 0 .. k - 1 : d = Spot(dmaPos, i)
           /\ Spot(dmaPos, k) = txDesc
    BY <1>3 DEF RingParts, Window
  <2>2. k # NDesc
    <3>1. ASSUME k = NDesc PROVE FALSE
      <4>1. \E i \in 0 .. NDesc - 1 : txDesc = Spot(dmaPos, i)
        BY <1>2, SpotOnto
      <4> QED
        BY <1>2, <1>4, <2>1, <3>1, <4>1
    <3> QED
      BY <3>1
  <2>3. k + 1 \in 0 .. NDesc /\ k \in 0 .. NDesc - 1 /\ (k + 1) - 1 = k
        /\ 0 .. k = (0 .. k - 1) \cup {k}
    BY <1>2, <2>2
  <2>4. Spot(dmaPos, k + 1) = NextDesc(txDesc)
    BY <1>2, <2>1, <2>3, SpotNext
  <2>5. ASSUME NEW d \in Idx
        PROVE  own'[d] <=> \E i \in 0 .. (k + 1) - 1 : d = Spot(dmaPos, i)
    BY <1>1, <1>2, <2>1, <2>3
  <2> QED
    BY <1>1, <1>3, <2>3, <2>4, <2>5 DEF Window
<1>6. Carried'
  BY <1>1, <1>2, <1>4 DEF RingParts, Carried
<1>7. Counting' /\ Locked'
  BY <1>1 DEF RingParts, Counting, Locked
<1>8. Chosen'
  BY <1>1, <1>2, <1>3 DEF RingParts, Chosen
<1>9. Copied(c)'
  <2>1. ASSUME NEW q \in part[c] + 1 .. size[c]
        PROVE  Has(Spot(txDesc, q - part[c]), c, q)'
    <3>1. /\ q \in part[c] .. size[c] /\ q - part[c] # 0
          /\ q - part[c] \in 0 .. NDesc - 1 /\ q - part[c] \in 0 .. NDesc /\ 0 \in 0 .. NDesc - 1
      BY <1>2
    <3>2. Spot(txDesc, q - part[c]) \in Idx /\ Spot(txDesc, 0) = txDesc
      BY <1>2, <3>1, SpotInRing
    <3>3. Spot(txDesc, q - part[c]) # txDesc
      BY <1>2, <3>1, <3>2, SpotApart
    <3>4. Has(Spot(txDesc, q - part[c]), c, q)
      BY <1>2, <3>1
    <3> QED
      BY <1>1, <1>2, <3>2, <3>3, <3>4 DEF Has
  <2> QED
    BY <1>1, <2>1 DEF Copied
<1>10. ASSUME NEW b \in Callers, b # c PROVE Copied(b)'
  BY <1>1, <1>3, <1>10, Beside
<1> QED
  BY <1>5, <1>6, <1>7, <1>8, <1>9, <1>10 DEF RingParts

\* heth.TxDesc follows, and the choices of those who wait are old.
LEMMA RingAdvance ==
  ASSUME TypeOK, OneInside, RingParts, NEW c \in Callers, Advance(c)
  PROVE  RingParts'
<1>1. /\ UNCHANGED <<own, buffer, meant, dmaPos, halLock, dest, cur, size>>
      /\ pc[c] = "advance" /\ txDesc' = NextDesc(txDesc)
      /\ moved' = [b \in Callers |-> b # c /\ pc[b] \in {"choose", "look", "wait", "take", "copy"}]
      /\ \A b \in Callers : b # c => UNCHANGED <<pc[b], part[b]>>
  BY DEF Advance, At, Goto, mac, TypeOK
<1>2. \/ part[c] < size[c] /\ part'[c] = part[c] + 1 /\ pc'[c] = "commit"
      \/ part'[c] = part[c] /\ pc'[c] = "poll"
  BY DEF Advance, At, Goto, TypeOK
<1>3. /\ txDesc \in Idx /\ NDesc \in Nat
      /\ part[c] \in 1 .. NDesc /\ size[c] \in 1 .. NDesc /\ part[c] <= size[c]
      /\ \A q \in part[c] + 1 .. size[c] : Has(Spot(txDesc, q - part[c]), c, q)
  BY <1>1, EthTxAssumption DEF TypeOK, RingParts, Counting, Copied
<1>4. c \in Holding /\ Advancing /\ ~Advancing'
  BY <1>1, <1>2 DEF Holding, OneInside, Advancing
<1>5. Window'
  BY <1>1, <1>4 DEF RingParts, Window
<1>6. Carried' /\ Locked'
  BY <1>1, <1>2 DEF RingParts, Carried, Locked
<1>7. Counting'
  BY <1>1, <1>2, <1>3 DEF RingParts, Counting
<1>8. Chosen'
  BY <1>1, <1>2 DEF Chosen
<1>9. Copied(c)'
  <2>1. CASE pc'[c] = "poll"
    BY <2>1 DEF Copied
  <2>2. CASE pc'[c] = "commit"
    <3>1. part[c] < size[c] /\ part'[c] = part[c] + 1
      BY <1>2, <2>2
    <3>2. ASSUME NEW q \in part'[c] .. size[c]
          PROVE  Has(Spot(txDesc, q - part[c]), c, q)'
      <4>1. /\ q \in part[c] + 1 .. size[c] /\ q - part'[c] \in 0 .. NDesc - 1
            /\ (q - part'[c]) + 1 = q - part[c]
        BY <1>3, <3>1
      <4>2. Spot(txDesc', q - part'[c]) = Spot(txDesc, q - part[c])
        BY <1>1, <1>3, <4>1, SpotNext
      <4>3. Has(Spot(txDesc, q - part[c]), c, q)
        BY <1>3, <4>1
      <4> QED
        BY <1>1, <4>2, <4>3 DEF Has
    <3> QED
      BY <1>1, <2>2, <3>2 DEF Copied
  <2> QED
    BY <1>2, <2>1, <2>2
<1>10. ASSUME NEW b \in Callers, b # c PROVE Copied(b)'
  BY <1>1, <1>4, <1>10, Beside
<1> QED
  BY <1>5, <1>6, <1>7, <1>8, <1>9, <1>10 DEF RingParts

\* The end of a call.
LEMMA RingLeave ==
  ASSUME TypeOK, OneInside, RingParts, NEW c \in Callers, Poll(c) \/ Finish(c)
  PROVE  RingParts'
<1>1. /\ UNCHANGED <<own, buffer, meant, txDesc, dmaPos>>
      /\ \A b \in Callers : b # c => UNCHANGED <<pc[b], dest[b], cur[b], size[b], part[b], moved[b]>>
      /\ \/ pc[c] = "poll" /\ pc'[c] = "finish" /\ ~halLock' /\ UNCHANGED <<size, part>>
         \/ pc[c] = "finish" /\ pc'[c] = "idle" /\ halLock' = halLock /\ size'[c] = 1 /\ part'[c] = 1
  BY DEF Poll, Finish, Return, At, Goto, ring, local, history, TypeOK
<1>2. c \in Holding
  BY <1>1 DEF Holding
<1>3. Advancing' <=> Advancing
  BY <1>1 DEF Advancing
<1>4. Window' /\ Carried' /\ Locked'
  BY <1>1, <1>3 DEF RingParts, Window, Carried, Locked
<1>5. Counting' /\ Chosen'
  BY <1>1, <1>3 DEF RingParts, Counting, Chosen
<1>6. Copied(c)'
  BY <1>1 DEF Copied
<1>7. ASSUME NEW b \in Callers, b # c PROVE Copied(b)'
  BY <1>1, <1>2, <1>7, Beside
<1> QED
  BY <1>4, <1>5, <1>6, <1>7 DEF RingParts

\* The DMA sends the first of its descriptors.
LEMMA RingSend ==
  ASSUME TypeOK, RingParts, DmaSend
  PROVE  RingParts'
<1>1. /\ own[dmaPos] /\ own' = [own EXCEPT ![dmaPos] = FALSE]
      /\ buffer' = [buffer EXCEPT ![dmaPos] = Nothing]
      /\ meant' = [meant EXCEPT ![dmaPos] = Nothing]
      /\ dmaPos' = NextDesc(dmaPos)
      /\ UNCHANGED <<txDesc, halLock, pc, dest, cur, size, part, moved>>
  BY DEF DmaSend, local, history
<1>2. /\ txDesc \in Idx /\ dmaPos \in Idx /\ NDesc \in Nat
      /\ own \in [Idx -> BOOLEAN] /\ buffer \in [Idx -> Part] /\ meant \in [Idx -> Part]
  BY EthTxAssumption DEF TypeOK
<1>3. Window'
  <2>1. PICK k \in 0 .. NDesc :
           /\ \A d \in Idx : own[d] <=> \E i \in 0 .. k - 1 : d = Spot(dmaPos, i)
           /\ Spot(dmaPos, k) = IF Advancing THEN NextDesc(txDesc) ELSE txDesc
    BY DEF RingParts, Window
  <2>2. k - 1 \in 0 .. NDesc /\ k - 1 \in 0 .. NDesc - 1 /\ (k - 1) + 1 = k
    <3>1. PICK i \in 0 .. k - 1 : dmaPos = Spot(dmaPos, i)
      BY <1>1, <1>2, <2>1
    <3> QED
      BY <1>2, <3>1
  <2>3. Spot(dmaPos', k - 1) = Spot(dmaPos, k)
    BY <1>1, <1>2, <2>2, SpotNext
  <2>4. ASSUME NEW d \in Idx, own'[d]
        PROVE  \E i \in 0 .. (k - 1) - 1 : d = Spot(dmaPos', i)
    <3>1. own[d] /\ d # dmaPos
      BY <1>1, <1>2, <2>4
    <3>2. PICK i \in 0 .. k - 1 : d = Spot(dmaPos, i)
      BY <2>1, <3>1
    <3>3. i # 0
      <4>1. 0 \in 0 .. NDesc
        BY <1>2
      <4>2. Spot(dmaPos, 0) = dmaPos
        BY <1>2, <4>1, SpotInRing
      <4> QED
        BY <3>1, <3>2, <4>2
    <3>4. i - 1 \in 0 .. (k - 1) - 1 /\ i - 1 \in 0 .. NDesc - 1 /\ (i - 1) + 1 = i
      BY <1>2, <2>2, <3>3
    <3>5. d = Spot(dmaPos', i - 1)
      BY <1>1, <1>2, <3>2, <3>4, SpotNext
    <3> QED
      BY <3>4, <3>5
  <2>5. ASSUME NEW d \in Idx, NEW i \in 0 .. (k - 1) - 1, d = Spot(dmaPos', i)
        PROVE  own'[d]
    <3>1. /\ i \in 0 .. NDesc - 1 /\ i + 1 \in 0 .. k - 1 /\ i + 1 \in 0 .. NDesc - 1
          /\ 0 \in 0 .. NDesc - 1 /\ i + 1 # 0
      BY <1>2, <2>2
    <3>2. d = Spot(dmaPos, i + 1)
      BY <1>1, <1>2, <2>5, <3>1, SpotNext
    <3>3. own[d]
      BY <2>1, <3>1, <3>2
    <3>4. d # dmaPos
      BY <1>2, <3>1, <3>2, SpotInRing, SpotApart
    <3> QED
      BY <1>1, <1>2, <3>3, <3>4
  <2>6. Advancing' <=> Advancing
    BY <1>1 DEF Advancing
  <2>7. Spot(dmaPos', k - 1) = IF Advancing' THEN NextDesc(txDesc') ELSE txDesc'
    BY <1>1, <2>1, <2>3, <2>6
  <2> QED
    BY <2>2, <2>4, <2>5, <2>7 DEF Window
<1>4. Carried'
  BY <1>1, <1>2 DEF RingParts, Carried
<1>5. Counting' /\ Locked'
  BY <1>1 DEF RingParts, Counting, Locked
<1>6. Chosen'
  BY <1>1, <1>2 DEF RingParts, Chosen, Advancing
<1>7. \A d, c, q : d \in Idx /\ Has(d, c, q) => Has(d, c, q)'
  BY <1>1, <1>2 DEF Has
<1>8. ASSUME NEW c \in Callers PROVE Copied(c)'
  <2>0. Copied(c) /\ part[c] \in 1 .. NDesc /\ size[c] \in 1 .. NDesc /\ cur[c] \in Idx
    BY DEF RingParts, TypeOK
  <2>1. \A i \in 0 .. NDesc : Spot(txDesc, i) \in Idx
    BY <1>2, SpotInRing
  <2>2. /\ \A q \in 1 .. size[c] : q - 1 \in 0 .. NDesc
        /\ \A q \in 1 .. part[c] - 1 : q - 1 \in 0 .. NDesc
        /\ \A q \in part[c] .. size[c] : q - part[c] \in 0 .. NDesc
        /\ \A q \in part[c] + 1 .. size[c] : q - part[c] \in 0 .. NDesc
    BY <1>2, <2>0
  <2>3. ~own[cur[c]] => ~own'[cur[c]]
    BY <1>1, <1>2, <2>0
  <2>4. CASE pc[c] = "copy"
    BY <1>1, <1>7, <2>0, <2>1, <2>2, <2>3, <2>4 DEF Copied
  <2>5. CASE pc[c] = "hal"
    BY <1>1, <1>7, <2>0, <2>1, <2>2, <2>5 DEF Copied
  <2>6. CASE pc[c] = "commit"
    BY <1>1, <1>7, <2>0, <2>1, <2>2, <2>6 DEF Copied
  <2>7. CASE pc[c] = "advance"
    BY <1>1, <1>7, <2>0, <2>1, <2>2, <2>7 DEF Copied
  <2> QED
    BY <1>1, <2>4, <2>5, <2>6, <2>7 DEF Copied
<1> QED
  BY <1>3, <1>4, <1>5, <1>6, <1>8 DEF RingParts

\* The DMA stops, or the handle is unlocked under whoever locked it.
LEMMA RingQuiet ==
  ASSUME RingParts, UNCHANGED <<own, buffer, meant, txDesc, dmaPos, pc, dest, cur, size, part, moved>>,
         halLock' => halLock
  PROVE  RingParts'
<1>1. Window' /\ Carried' /\ Counting' /\ Chosen' /\ Locked'
  BY DEF RingParts, Window, Carried, Counting, Chosen, Locked, Advancing
<1>2. ASSUME NEW c \in Callers PROVE Copied(c)'
  <2>1. Copied(c)
    BY DEF RingParts
  <2> QED
    BY <2>1 DEF Copied, Has
<1> QED
  BY <1>1, <1>2 DEF RingParts

LEMMA RingStep == TypeOK /\ GuardInv /\ RingInv /\ [Next]_vars => RingInv'
<1> SUFFICES ASSUME TypeOK, GuardInv, RingInv, [Next]_vars PROVE RingInv'
  OBVIOUS
<1> SUFFICES ASSUME ~stale', ~refused' PROVE RingParts'
  BY DEF RingInv
<1>1. ~stale /\ ~refused
  <2>1. stale \in BOOLEAN /\ refused \in BOOLEAN
    BY DEF TypeOK
  <2>2. ASSUME NEW c \in Callers, Copy(c) PROVE ~stale /\ ~refused
    BY <2>1, <2>2 DEF Copy
  <2>3. ASSUME NEW c \in Callers, Refuse(c) PROVE ~stale /\ ~refused
    BY <2>1, <2>3 DEF Refuse
  <2>4. ASSUME NEW c \in Callers, Call(c) \/ Step(c), ~Copy(c), ~Refuse(c)
        PROVE  UNCHANGED <<stale, refused>>
    BY <2>4 DEF Step, Call, Create, Give, Aim, Choose, Look, Wait, Take, Finish, HalLock, HalError,
       Commit, Advance, Poll, history
  <2>5. CASE DmaSend \/ DmaSuspend \/ IrqUnlock \/ UNCHANGED vars
    BY <2>5 DEF DmaSend, DmaSuspend, IrqUnlock, history, vars
  <2> QED
    BY <2>2, <2>3, <2>4, <2>5 DEF Next
<1>2. RingParts /\ OneInside /\ Made /\ Counted
  BY <1>1 DEF RingInv, GuardInv
<1>3. ASSUME NEW c \in Callers, Call(c) \/ Step(c) PROVE RingParts'
  <2>1. CASE Call(c) \/ Create(c) \/ Give(c) \/ Refuse(c)
    BY <1>2, <2>1, RingOutside
  <2>2. CASE Aim(c) \/ Choose(c) \/ Look(c)
    BY <1>2, <2>2, RingAim, RingChoose, RingLook
  <2>3. CASE Wait(c)
    BY <1>2, <2>3, RingWait
  <2>4. CASE Take(c)
    BY <1>2, <2>4, RingTake
  <2>5. CASE Copy(c)
    BY <1>2, <2>5, RingCopy
  <2>6. CASE HalLock(c)
    BY <1>2, <2>6, RingHalLock
  <2>7. CASE HalError(c)
    BY <1>2, <2>7, NoHalError
  <2>8. CASE Commit(c)
    BY <1>2, <2>8, RingCommit
  <2>9. CASE Advance(c)
    BY <1>2, <2>9, RingAdvance
  <2>10. CASE Poll(c) \/ Finish(c)
    BY <1>2, <2>10, RingLeave
  <2> QED
    BY <1>3, <2>1, <2>2, <2>3, <2>4, <2>5, <2>6, <2>7, <2>8, <2>9, <2>10 DEF Step
<1>4. CASE DmaSend
  BY <1>2, <1>4, RingSend
<1>5. CASE DmaSuspend \/ IrqUnlock \/ UNCHANGED vars
  <2>1. /\ UNCHANGED <<own, buffer, meant, txDesc, dmaPos, pc, dest, cur, size, part, moved>>
        /\ halLock' => halLock
    BY <1>5 DEF DmaSuspend, IrqUnlock, vars, ring, mac, local, history
  <2> QED
    BY <1>2, <2>1, RingQuiet
<1> QED
  BY <1>3, <1>4, <1>5 DEF Next

LEMMA RingAlways == Spec => [](TypeOK /\ GuardInv /\ RingInv)
BY TypeInit, TypeStep, GuardInit, GuardStep, RingInit, RingStep, PTL DEF Spec

\* What the ring shows.
LEMMA RingShows == TypeOK /\ RingInv => SentAsMeant
<1> SUFFICES ASSUME TypeOK, RingParts PROVE SentAsMeant
  BY DEF RingInv, SentAsMeant
<1>1. \A c \in Callers : pc[c] = "copy" /\ ~moved[c] => ~own[dest[c]]
  BY DEF RingParts, Copied
<1>2. \A d \in Idx : own[d] => buffer[d] = meant[d]
  BY DEF RingParts, Carried
<1>3. PICK k \in 0 .. NDesc :
        /\ \A d \in Idx : own[d] <=> \E i \in 0 .. k - 1 : d = Spot(dmaPos, i)
        /\ Spot(dmaPos, k) = IF Advancing THEN NextDesc(txDesc) ELSE txDesc
  BY DEF RingParts, Window
<1>4. \A i \in 0 .. k - 1 : Spot(dmaPos, i) \in Idx
  <2>1. NDesc \in Nat /\ dmaPos \in Idx /\ \A i \in 0 .. k - 1 : i \in 0 .. NDesc
    BY EthTxAssumption DEF TypeOK
  <2> QED
    BY <2>1, SpotInRing
<1>5. {d \in Idx : own[d]} = {Spot(dmaPos, i) : i \in 0 .. k - 1}
  BY <1>3, <1>4
<1>6. /\ {d \in Idx : own[d]} = {(dmaPos + i) % NDesc : i \in 0 .. k - 1}
      /\ (dmaPos + k) % NDesc = IF \E c \in Callers : pc[c] = "advance"
                                THEN NextDesc(txDesc) ELSE txDesc
  BY <1>3, <1>5 DEF Spot, Advancing
<1> QED
  BY <1>1, <1>2, <1>6 DEF SentAsMeant

LEMMA OkShows ==
  TypeOK /\ GuardInv /\ RingInv /\ [Next]_vars =>
    \A c \in Callers : pc[c] \in {"hal", "commit"} /\ pc'[c] = "finish" => stale \/ refused
<1> SUFFICES ASSUME TypeOK, GuardInv, RingInv, [Next]_vars, ~stale, ~refused,
                    NEW c \in Callers, pc[c] \in {"hal", "commit"}, pc'[c] = "finish"
             PROVE  FALSE
  OBVIOUS
<1>1. RingParts /\ OneInside
  BY DEF RingInv, GuardInv
<1>2. HalLock(c) \/ HalError(c)
  <2>1. ASSUME NEW b \in Callers, Call(b) \/ Step(b) PROVE b = c /\ (HalLock(b) \/ HalError(b))
    BY <2>1 DEF Step, Call, Create, Give, Aim, Choose, Look, Wait, Take, Copy, Finish, Refuse, Return,
       HalLock, HalError, Commit, Advance, Poll, At, Goto, TypeOK
  <2> QED
    BY <2>1 DEF Next, vars, DmaSend, DmaSuspend, IrqUnlock
<1> QED
  BY <1>1, <1>2, RingHalLock, NoHalError

\* Nothing is sent that is not what the caller of low_level_output (ethernetif.c:218)
\* committed: the buffers the DMA has been given are left alone, carry what they were
\* given for, and lie in one piece up to heth.TxDesc, for any ring and any frames that
\* fit it, until a frame goes by a choice made before another call sent or a call that
\* left with ERR_USE has signalled ousem.
THEOREM SendsWhatWasMeant == Spec => []SentAsMeant
BY RingAlways, RingShows, PTL

\* Until then ERR_OK means that the frame was sent: HAL_ETH_TransmitFrame
\* (stm32f4xx_hal_eth.c:669), whose result is ignored, is never busy and never fails.
THEOREM OkIsSent == Spec => OkMeansSent
<1>1. TypeOK /\ GuardInv /\ RingInv /\ [Next]_vars =>
        [\A c \in Callers : pc[c] \in {"hal", "commit"} /\ pc'[c] = "finish" => stale \/ refused]_vars
  BY OkShows
<1> QED
  BY <1>1, RingAlways, PTL DEF Spec, OkMeansSent
=============================================================================
