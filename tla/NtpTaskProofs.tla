---------------------------- MODULE NtpTaskProofs ----------------------------
(***************************************************************************)
(* Proofs about NtpTask, for any number of netbufs, answers under way and  *)
(* times they tell.                                                        *)
(***************************************************************************)
EXTENDS NtpTask, TLAPS

\* Where the netbufs are: free, the list that begins at first and goes on by the
\* words; with the task, held; or in the mailbox box.  NetbufsAccounted is not
\* inductive, because it does not count them.
Places(n, free, first, link, held, box) ==
  /\ n \in Nat /\ free \in [1 .. n -> Netbufs]
  /\ link \in [Netbufs -> Int] /\ box \in Seq(Netbufs)
  /\ first = IF n = 0 THEN NULL ELSE free[1]
  /\ \A k \in 1 .. n : link[free[k]] = IF k = n THEN NULL ELSE free[k + 1]
  /\ \A j, k \in 1 .. n : free[j] = free[k] => j = k
  /\ \A j, k \in 1 .. Len(box) : box[j] = box[k] => j = k
  /\ \A k \in 1 .. n : \A j \in 1 .. Len(box) : free[k] # box[j]
  /\ \A e \in held :
       /\ e \in Netbufs
       /\ \A k \in 1 .. n : free[k] # e
       /\ \A j \in 1 .. Len(box) : box[j] # e
  /\ \A e \in Netbufs :
       \/ e \in held
       \/ \E k \in 1 .. n : free[k] = e
       \/ \E j \in 1 .. Len(box) : box[j] = e
  /\ n + Len(box) + (IF held = {} THEN 0 ELSE 1) = NumNetbufs

PoolInv == failed \/ \E n \in Nat : \E free \in [1 .. n -> Netbufs] : Places(n, free, tab, word, Held, recvmbox)

-----------------------------------------------------------------------------
(* What lwIP does with a netbuf. *)

LEMMA NetbufsAre == NumNetbufs \in Nat /\ Netbufs \subseteq Int /\ NULL \notin Netbufs
BY NtpTaskAssumption DEF Netbufs, NULL

\* memp_malloc
Rest(n, free) == [k \in 1 .. n - 1 |-> free[k + 1]]

LEMMA RestIs ==
  ASSUME NEW n \in Nat, n # 0, NEW free \in [1 .. n -> Netbufs]
  PROVE  /\ n - 1 \in Nat /\ Rest(n, free) \in [1 .. n - 1 -> Netbufs]
         /\ \A k \in 1 .. n - 1 : Rest(n, free)[k] = free[k + 1] /\ k + 1 \in 1 .. n
         /\ \A k \in 1 .. n : k = 1 \/ (k - 1 \in 1 .. n - 1 /\ Rest(n, free)[k - 1] = free[k])
BY DEF Rest

\* What the list is without its head.
Shortened(n, free, first, link, m, r, l) ==
  /\ n # 0 /\ n \in Nat /\ m = n - 1 /\ m \in Nat
  /\ r \in [1 .. m -> Netbufs] /\ l \in [Netbufs -> Int]
  /\ link[first] = IF m = 0 THEN NULL ELSE r[1]
  /\ \A k \in 1 .. m : l[r[k]] = IF k = m THEN NULL ELSE r[k + 1]
  /\ \A j, k \in 1 .. m : r[j] = r[k] => j = k
  /\ \A k \in 1 .. m : r[k] # first /\ \E j \in 1 .. n : r[k] = free[j]
  /\ \A j \in 1 .. n : free[j] = first \/ \E k \in 1 .. m : r[k] = free[j]

LEMMA ListRest ==
  ASSUME NEW n, NEW free, NEW first, NEW link, NEW held, NEW box, NEW p \in Int,
         Places(n, free, first, link, held, box), first \in Netbufs
  PROVE  Shortened(n, free, first, link, n - 1, Rest(n, free), [link EXCEPT ![first] = p])
<1> SUFFICES ASSUME NEW r, r = Rest(n, free), NEW m, m = n - 1,
                    NEW l, l = [link EXCEPT ![first] = p]
             PROVE  Shortened(n, free, first, link, m, r, l)
  OBVIOUS
<1>1. /\ n \in Nat /\ n # 0 /\ free \in [1 .. n -> Netbufs] /\ first = free[1]
      /\ link \in [Netbufs -> Int]
      /\ \A k \in 1 .. n : link[free[k]] = IF k = n THEN NULL ELSE free[k + 1]
      /\ \A j, k \in 1 .. n : free[j] = free[k] => j = k
  BY NetbufsAre DEF Places
<1>2. /\ m \in Nat /\ r \in [1 .. m -> Netbufs]
      /\ \A k \in 1 .. m : r[k] = free[k + 1] /\ k + 1 \in 1 .. n
      /\ \A k \in 1 .. n : k = 1 \/ (k - 1 \in 1 .. m /\ r[k - 1] = free[k])
  <2>1. /\ n - 1 \in Nat /\ Rest(n, free) \in [1 .. n - 1 -> Netbufs]
        /\ \A k \in 1 .. n - 1 : Rest(n, free)[k] = free[k + 1] /\ k + 1 \in 1 .. n
        /\ \A k \in 1 .. n : k = 1 \/ (k - 1 \in 1 .. n - 1 /\ Rest(n, free)[k - 1] = free[k])
    BY <1>1, RestIs, Zenon
  <2> QED
    BY <2>1, Zenon
<1>3. l \in [Netbufs -> Int] /\ \A e \in Netbufs : e # first => l[e] = link[e]
  BY <1>1
<1>4. ASSUME NEW k \in 1 .. m PROVE r[k] # first /\ r[k] \in Netbufs /\ \E j \in 1 .. n : r[k] = free[j]
  <2>1. k + 1 \in 1 .. n /\ 1 \in 1 .. n /\ k + 1 # 1 /\ r[k] = free[k + 1]
    BY <1>1, <1>2
  <2> QED
    BY <1>1, <2>1
<1>5. ASSUME NEW k \in 1 .. m PROVE l[r[k]] = IF k = m THEN NULL ELSE r[k + 1]
  <2>1. l[r[k]] = link[free[k + 1]] /\ k + 1 \in 1 .. n
    BY <1>2, <1>3, <1>4
  <2>2. CASE k = m
    BY <1>1, <2>1, <2>2
  <2>3. CASE k # m
    <3>1. k + 1 # n /\ k + 1 \in 1 .. m
      BY <1>1, <1>2, <2>3
    <3>2. r[k + 1] = free[(k + 1) + 1]
      BY <1>2, <3>1
    <3> QED
      BY <1>1, <2>1, <2>3, <3>1, <3>2
  <2> QED
    BY <2>2, <2>3
<1>6. link[first] = IF m = 0 THEN NULL ELSE r[1]
  <2>1. 1 \in 1 .. n /\ link[free[1]] = IF 1 = n THEN NULL ELSE free[1 + 1]
    BY <1>1
  <2>2. CASE m = 0
    BY <1>1, <2>1, <2>2
  <2>3. CASE m # 0
    <3>1. 1 \in 1 .. m /\ 1 # n
      BY <1>1, <1>2, <2>3
    <3> QED
      BY <1>1, <1>2, <2>1, <2>3, <3>1
  <2> QED
    BY <2>2, <2>3
<1>7. ASSUME NEW j \in 1 .. m, NEW k \in 1 .. m, r[j] = r[k] PROVE j = k
  BY <1>1, <1>2, <1>7
<1>8. ASSUME NEW j \in 1 .. n PROVE free[j] = first \/ \E k \in 1 .. m : r[k] = free[j]
  BY <1>1, <1>2
<1> QED
  BY <1>1, <1>2, <1>3, <1>4, <1>5, <1>6, <1>7, <1>8 DEF Shortened

\* The task gets one.
LEMMA TaskTakes ==
  ASSUME NEW n, NEW free, NEW first, NEW link, NEW box, NEW p \in Int,
         Places(n, free, first, link, {}, box), first \in Netbufs
  PROVE  Places(n - 1, Rest(n, free), link[first], [link EXCEPT ![first] = p], {first}, box)
<1> SUFFICES ASSUME NEW m, NEW r, NEW l, Shortened(n, free, first, link, m, r, l)
             PROVE  Places(m, r, link[first], l, {first}, box)
  BY ListRest
<1>1. /\ n # 0 /\ n \in Nat /\ m = n - 1 /\ m \in Nat
      /\ r \in [1 .. m -> Netbufs] /\ l \in [Netbufs -> Int]
      /\ link[first] = IF m = 0 THEN NULL ELSE r[1]
      /\ \A k \in 1 .. m : l[r[k]] = IF k = m THEN NULL ELSE r[k + 1]
      /\ \A j, k \in 1 .. m : r[j] = r[k] => j = k
      /\ \A k \in 1 .. m : r[k] # first /\ \E j \in 1 .. n : r[k] = free[j]
      /\ \A j \in 1 .. n : free[j] = first \/ \E k \in 1 .. m : r[k] = free[j]
  BY DEF Shortened
<1>2. /\ box \in Seq(Netbufs) /\ Len(box) \in Nat
      /\ \A j, k \in 1 .. Len(box) : box[j] = box[k] => j = k
      /\ \A k \in 1 .. n : \A j \in 1 .. Len(box) : free[k] # box[j]
      /\ \A e \in Netbufs : (\E k \in 1 .. n : free[k] = e) \/ (\E j \in 1 .. Len(box) : box[j] = e)
      /\ n + Len(box) = NumNetbufs
      /\ 1 \in 1 .. n /\ first = free[1]
  BY <1>1 DEF Places
<1>3. ASSUME NEW k \in 1 .. m, NEW j \in 1 .. Len(box) PROVE r[k] # box[j]
  <2>1. PICK i \in 1 .. n : r[k] = free[i]
    BY <1>1
  <2> QED
    BY <1>2, <2>1
<1>4. ASSUME NEW j \in 1 .. Len(box) PROVE box[j] # first
  BY <1>2
<1>5. ASSUME NEW e \in Netbufs
      PROVE  e = first \/ (\E k \in 1 .. m : r[k] = e) \/ (\E j \in 1 .. Len(box) : box[j] = e)
  <2>1. CASE \E k \in 1 .. n : free[k] = e
    <3>1. PICK k \in 1 .. n : free[k] = e
      BY <2>1
    <3> QED
      BY <1>1, <3>1
  <2> QED
    BY <1>2, <2>1
<1>6. m + Len(box) + 1 = NumNetbufs /\ {first} # {}
  BY <1>1, <1>2
<1>7. ASSUME NEW k \in 1 .. m PROVE r[k] # first
  BY <1>1
<1> QED
  BY <1>1, <1>2, <1>3, <1>4, <1>5, <1>6, <1>7 DEF Places

\* The tcpip thread puts one in the mailbox.
LEMMA BoxTakes ==
  ASSUME NEW n, NEW free, NEW first, NEW link, NEW held, NEW box,
         Places(n, free, first, link, held, box), first \in Netbufs
  PROVE  Places(n - 1, Rest(n, free), link[first], [link EXCEPT ![first] = Pbuf],
                held, Append(box, first))
<1> SUFFICES ASSUME NEW m, NEW r, NEW l, Shortened(n, free, first, link, m, r, l),
                    NEW b, b = Append(box, first)
             PROVE  Places(m, r, link[first], l, held, b)
  <2>1. Pbuf \in Int
    BY DEF Pbuf
  <2>2. Shortened(n, free, first, link, n - 1, Rest(n, free), [link EXCEPT ![first] = Pbuf])
    BY <2>1, ListRest
  <2> QED
    BY <2>2
<1>1. /\ n # 0 /\ n \in Nat /\ m = n - 1 /\ m \in Nat
      /\ r \in [1 .. m -> Netbufs] /\ l \in [Netbufs -> Int]
      /\ link[first] = IF m = 0 THEN NULL ELSE r[1]
      /\ \A k \in 1 .. m : l[r[k]] = IF k = m THEN NULL ELSE r[k + 1]
      /\ \A j, k \in 1 .. m : r[j] = r[k] => j = k
      /\ \A k \in 1 .. m : r[k] # first /\ \E j \in 1 .. n : r[k] = free[j]
      /\ \A j \in 1 .. n : free[j] = first \/ \E k \in 1 .. m : r[k] = free[j]
  BY DEF Shortened
<1>2. /\ box \in Seq(Netbufs) /\ Len(box) \in Nat
      /\ \A j, k \in 1 .. Len(box) : box[j] = box[k] => j = k
      /\ \A k \in 1 .. n : \A j \in 1 .. Len(box) : free[k] # box[j]
      /\ 1 \in 1 .. n /\ first = free[1]
  BY <1>1 DEF Places
<1>3. /\ \A e \in held : e \in Netbufs /\ (\A k \in 1 .. n : free[k] # e)
                         /\ \A j \in 1 .. Len(box) : box[j] # e
      /\ \A e \in Netbufs : e \in held \/ (\E k \in 1 .. n : free[k] = e)
                            \/ (\E j \in 1 .. Len(box) : box[j] = e)
      /\ n + Len(box) + (IF held = {} THEN 0 ELSE 1) = NumNetbufs
  BY DEF Places
<1>4. /\ b \in Seq(Netbufs) /\ Len(b) = Len(box) + 1
      /\ \A j \in 1 .. Len(box) : b[j] = box[j] /\ j \in 1 .. Len(b)
      /\ b[Len(b)] = first /\ Len(b) \in 1 .. Len(b)
      /\ \A j \in 1 .. Len(b) : j = Len(b) \/ j \in 1 .. Len(box)
  BY <1>2
<1>5. \A j \in 1 .. Len(box) : box[j] # first
  BY <1>2
<1>6. ASSUME NEW j \in 1 .. Len(b), NEW k \in 1 .. Len(b), b[j] = b[k] PROVE j = k
  BY <1>2, <1>4, <1>5, <1>6
<1>7. ASSUME NEW k \in 1 .. m, NEW j \in 1 .. Len(b) PROVE r[k] # b[j]
  <2>1. PICK i \in 1 .. n : r[k] = free[i]
    BY <1>1
  <2> QED
    BY <1>1, <1>2, <1>4, <2>1
<1>8. ASSUME NEW e \in held
      PROVE  e \in Netbufs /\ (\A k \in 1 .. m : r[k] # e) /\ \A j \in 1 .. Len(b) : b[j] # e
  <2>1. ASSUME NEW k \in 1 .. m PROVE r[k] # e
    <3>1. PICK i \in 1 .. n : r[k] = free[i]
      BY <1>1
    <3> QED
      BY <1>3, <3>1
  <2>2. ASSUME NEW j \in 1 .. Len(b) PROVE b[j] # e
    BY <1>2, <1>3, <1>4
  <2> QED
    BY <1>3, <2>1, <2>2
<1>9. ASSUME NEW e \in Netbufs
      PROVE  e \in held \/ (\E k \in 1 .. m : r[k] = e) \/ (\E j \in 1 .. Len(b) : b[j] = e)
  <2>1. CASE \E k \in 1 .. n : free[k] = e
    <3>1. PICK k \in 1 .. n : free[k] = e
      BY <2>1
    <3> QED
      BY <1>1, <1>4, <3>1
  <2>2. CASE \E j \in 1 .. Len(box) : box[j] = e
    BY <1>4, <2>2
  <2> QED
    BY <1>3, <2>1, <2>2
<1>10. m + Len(b) + (IF held = {} THEN 0 ELSE 1) = NumNetbufs
  <2>1. m + Len(b) = n + Len(box)
    BY <1>1, <1>2, <1>4
  <2> QED
    BY <1>3, <2>1
<1> QED
  BY <1>1, <1>4, <1>6, <1>7, <1>8, <1>9, <1>10 DEF Places

\* The task takes the first of the mailbox.
LEMMA BoxGives ==
  ASSUME NEW n, NEW free, NEW first, NEW link, NEW box,
         Places(n, free, first, link, {}, box), box # <<>>
  PROVE  Places(n, free, first, link, {Head(box)}, Tail(box)) /\ Head(box) \in Netbufs
<1> SUFFICES ASSUME NEW b, b = Tail(box), NEW h, h = Head(box)
             PROVE  Places(n, free, first, link, {h}, b) /\ h \in Netbufs
  OBVIOUS
<1>1. /\ n \in Nat
      /\ box \in Seq(Netbufs) /\ Len(box) \in Nat
      /\ \A j, k \in 1 .. Len(box) : box[j] = box[k] => j = k
      /\ \A k \in 1 .. n : \A j \in 1 .. Len(box) : free[k] # box[j]
      /\ \A e \in Netbufs : (\E k \in 1 .. n : free[k] = e) \/ (\E j \in 1 .. Len(box) : box[j] = e)
      /\ n + Len(box) = NumNetbufs
  BY DEF Places
<1>2. /\ b \in Seq(Netbufs) /\ Len(b) = Len(box) - 1 /\ Len(b) \in Nat
      /\ h = box[1] /\ 1 \in 1 .. Len(box) /\ h \in Netbufs
      /\ \A j \in 1 .. Len(b) : b[j] = box[j + 1] /\ j + 1 \in 1 .. Len(box) /\ j + 1 # 1
      /\ \A j \in 1 .. Len(box) : j = 1 \/ (j - 1 \in 1 .. Len(b) /\ b[j - 1] = box[j])
  BY <1>1
<1>3. ASSUME NEW j \in 1 .. Len(b), NEW k \in 1 .. Len(b), b[j] = b[k] PROVE j = k
  <2>1. j + 1 = k + 1
    BY <1>1, <1>2, <1>3
  <2> QED
    BY <2>1
<1>4. ASSUME NEW k \in 1 .. n, NEW j \in 1 .. Len(b) PROVE free[k] # b[j]
  BY <1>1, <1>2
<1>5. ASSUME NEW j \in 1 .. Len(b) PROVE b[j] # h
  BY <1>1, <1>2
<1>6. ASSUME NEW k \in 1 .. n PROVE free[k] # h
  BY <1>1, <1>2
<1>7. ASSUME NEW e \in Netbufs
      PROVE  e = h \/ (\E k \in 1 .. n : free[k] = e) \/ (\E j \in 1 .. Len(b) : b[j] = e)
  <2>1. CASE \E j \in 1 .. Len(box) : box[j] = e
    <3>1. PICK j \in 1 .. Len(box) : box[j] = e
      BY <2>1
    <3> QED
      BY <1>2, <3>1
  <2> QED
    BY <1>1, <2>1
<1>8. n + Len(b) + 1 = NumNetbufs /\ {h} # {}
  BY <1>1, <1>2
<1> QED
  BY <1>1, <1>2, <1>3, <1>4, <1>5, <1>6, <1>7, <1>8 DEF Places

\* memp_free
Back(e, n, free) == [k \in 1 .. n + 1 |-> IF k = 1 THEN e ELSE free[k - 1]]

\* What the task has goes back.
LEMMA TaskGives ==
  ASSUME NEW n, NEW free, NEW first, NEW link, NEW e, NEW box,
         Places(n, free, first, link, {e}, box)
  PROVE  Places(n + 1, Back(e, n, free), e, [link EXCEPT ![e] = first], {}, box) /\ n + 1 \in Nat
<1> SUFFICES ASSUME NEW r, r = Back(e, n, free), NEW m, m = n + 1,
                    NEW l, l = [link EXCEPT ![e] = first]
             PROVE  Places(m, r, e, l, {}, box) /\ m \in Nat
  OBVIOUS
<1>1. /\ n \in Nat /\ free \in [1 .. n -> Netbufs] /\ link \in [Netbufs -> Int]
      /\ first = IF n = 0 THEN NULL ELSE free[1]
      /\ \A k \in 1 .. n : link[free[k]] = IF k = n THEN NULL ELSE free[k + 1]
      /\ \A j, k \in 1 .. n : free[j] = free[k] => j = k
  BY DEF Places
<1>2. /\ box \in Seq(Netbufs) /\ Len(box) \in Nat
      /\ \A j, k \in 1 .. Len(box) : box[j] = box[k] => j = k
      /\ \A k \in 1 .. n : \A j \in 1 .. Len(box) : free[k] # box[j]
      /\ e \in Netbufs /\ (\A k \in 1 .. n : free[k] # e)
      /\ \A j \in 1 .. Len(box) : box[j] # e
  BY DEF Places
<1>3. /\ \A x \in Netbufs : x = e \/ (\E k \in 1 .. n : free[k] = x)
                            \/ (\E j \in 1 .. Len(box) : box[j] = x)
      /\ n + Len(box) + 1 = NumNetbufs
  BY DEF Places
<1>4. /\ m \in Nat /\ m # 0 /\ r \in [1 .. m -> Netbufs] /\ r[1] = e /\ 1 \in 1 .. m
      /\ \A k \in 1 .. m : k = 1 \/ (k - 1 \in 1 .. n /\ r[k] = free[k - 1])
      /\ \A k \in 1 .. n : k + 1 \in 1 .. m /\ r[k + 1] = free[k]
  BY <1>1, <1>2 DEF Back
<1>5. first \in Int
  <2>1. n # 0 => 1 \in 1 .. n
    BY <1>1
  <2> QED
    BY <1>1, <2>1, NetbufsAre DEF NULL
<1>6. l \in [Netbufs -> Int] /\ l[e] = first /\ \A x \in Netbufs : x # e => l[x] = link[x]
  BY <1>1, <1>2, <1>5
<1>7. ASSUME NEW k \in 1 .. m PROVE l[r[k]] = IF k = m THEN NULL ELSE r[k + 1]
  <2>1. CASE k = 1
    <3>1. CASE n = 0
      BY <1>1, <1>4, <1>6, <2>1, <3>1
    <3>2. CASE n # 0
      <4>1. 1 \in 1 .. n /\ 1 # m
        BY <1>1, <3>2
      <4> QED
        BY <1>1, <1>4, <1>6, <2>1, <3>2, <4>1
    <3> QED
      BY <3>1, <3>2
  <2>2. CASE k # 1
    <3>1. k - 1 \in 1 .. n /\ r[k] = free[k - 1] /\ (k - 1 = n <=> k = m) /\ k = (k - 1) + 1
      BY <1>1, <1>4, <2>2
    <3>2. l[r[k]] = link[free[k - 1]]
      BY <1>1, <1>2, <1>6, <3>1
    <3>3. link[free[k - 1]] = IF k = m THEN NULL ELSE free[k]
      BY <1>1, <3>1
    <3>4. k # m => r[k + 1] = free[k]
      BY <1>1, <1>4, <3>1
    <3> QED
      BY <3>2, <3>3, <3>4
  <2> QED
    BY <2>1, <2>2
<1>8. ASSUME NEW j \in 1 .. m, NEW k \in 1 .. m, r[j] = r[k] PROVE j = k
  <2>1. CASE j = 1 \/ k = 1
    BY <1>2, <1>4, <1>8, <2>1
  <2>2. CASE j # 1 /\ k # 1
    <3>1. j - 1 = k - 1
      BY <1>1, <1>4, <1>8, <2>2
    <3> QED
      BY <3>1
  <2> QED
    BY <2>1, <2>2
<1>9. ASSUME NEW k \in 1 .. m, NEW j \in 1 .. Len(box) PROVE r[k] # box[j]
  BY <1>2, <1>4
<1>10. ASSUME NEW x \in Netbufs
       PROVE  (\E k \in 1 .. m : r[k] = x) \/ (\E j \in 1 .. Len(box) : box[j] = x)
  <2>1. CASE \E k \in 1 .. n : free[k] = x
    <3>1. PICK k \in 1 .. n : free[k] = x
      BY <2>1
    <3> QED
      BY <1>4, <3>1
  <2> QED
    BY <1>3, <1>4, <2>1
<1>11. m + Len(box) + 0 = NumNetbufs
  BY <1>1, <1>2, <1>3
<1> QED
  BY <1>2, <1>4, <1>6, <1>7, <1>8, <1>9, <1>10, <1>11 DEF Places
-----------------------------------------------------------------------------
(* NetbufsAccounted *)

LEMMA InitPlaces == Init => PoolInv
<1> SUFFICES ASSUME Init PROVE PoolInv
  OBVIOUS
<1> DEFINE free == [k \in 1 .. NumNetbufs |-> NumNetbufs + 1 - k]
<1>1. /\ pc = "create" /\ tab = NumNetbufs /\ recvmbox = <<>>
      /\ word = [e \in Netbufs |-> e - 1]
  BY DEF Init
<1>2. Held = {}
  BY <1>1 DEF Held
<1>3. /\ NumNetbufs \in Nat /\ NumNetbufs # 0
      /\ free \in [1 .. NumNetbufs -> Netbufs] /\ word \in [Netbufs -> Int]
      /\ \A k \in 1 .. NumNetbufs : free[k] = NumNetbufs + 1 - k
      /\ 1 \in 1 .. NumNetbufs
  BY <1>1, NtpTaskAssumption DEF Netbufs
<1> HIDE DEF free
<1>4. ASSUME NEW k \in 1 .. NumNetbufs
      PROVE  word[free[k]] = IF k = NumNetbufs THEN NULL ELSE free[k + 1]
  <2>1. word[free[k]] = free[k] - 1
    BY <1>1, <1>3
  <2>2. k # NumNetbufs => k + 1 \in 1 .. NumNetbufs
    BY <1>3
  <2> QED
    BY <1>3, <2>1, <2>2 DEF NULL
<1>5. \A j, k \in 1 .. NumNetbufs : free[j] = free[k] => j = k
  BY <1>3
<1>6. ASSUME NEW e \in Netbufs PROVE \E k \in 1 .. NumNetbufs : free[k] = e
  <2>1. NumNetbufs + 1 - e \in 1 .. NumNetbufs /\ free[NumNetbufs + 1 - e] = e
    BY <1>3 DEF Netbufs
  <2> QED
    BY <2>1
<1>7. recvmbox \in Seq(Netbufs) /\ Len(recvmbox) = 0 /\ tab = free[1]
  BY <1>1, <1>3
<1>8. Places(NumNetbufs, free, tab, word, {}, recvmbox)
  BY <1>3, <1>4, <1>5, <1>6, <1>7 DEF Places
<1> QED
  BY <1>2, <1>3, <1>8 DEF PoolInv

\* What the task has.
LEMMA HeldIs ==
  /\ pc \in {"send", "delete", "nopbuf"} => Held = {sentbuf}
  /\ pc = "delay" => Held = IF recvbuf = NULL THEN {} ELSE {recvbuf}
  /\ pc \notin {"send", "delete", "nopbuf", "delay"} => Held = {}
BY DEF Held

LEMMA HeldWillBe ==
  /\ pc' \in {"send", "delete", "nopbuf"} => Held' = {sentbuf'}
  /\ pc' = "delay" => Held' = IF recvbuf' = NULL THEN {} ELSE {recvbuf'}
  /\ pc' \notin {"send", "delete", "nopbuf", "delay"} => Held' = {}
BY DEF Held

\* A step that moves no netbuf.
LEMMA NothingMoves ==
  ASSUME PoolInv, UNCHANGED <<pool, recvmbox, failed>>, Held' = Held
  PROVE  PoolInv'
BY DEF PoolInv, pool

LEMMA PoolStep ==
  ASSUME PoolInv, [Next]_vars
  PROVE  PoolInv'
<1>1. CASE UNCHANGED vars
  BY <1>1, NothingMoves DEF vars, pool, Held
<1>2. CASE failed \/ SendFails
  BY <1>2 DEF PoolInv, Next, SendFails, Create, Alloc, SendOk, DeleteSent, Recv, Again, Show,
              Drain, Close, Arrive, vars
<1>3. ASSUME ~failed, NEW n \in Nat, NEW free \in [1 .. n -> Netbufs],
             Places(n, free, tab, word, Held, recvmbox)
      PROVE  Next /\ ~SendFails => PoolInv'
  <2>1. CASE Create
    BY <2>1, HeldIs, HeldWillBe, NothingMoves DEF Create, Goto
  <2>2. CASE Alloc
    <3>1. Held = {} /\ sentbuf' = tab /\ UNCHANGED <<recvmbox, failed>>
      BY <2>2, HeldIs DEF Alloc
    <3>2. CASE pc' = "fault" /\ UNCHANGED pool
      BY <3>1, <3>2, HeldWillBe, NothingMoves
    <3>3. ASSUME NEW p \in Int, tab \in Netbufs, tab' = word[tab],
                 word' = [word EXCEPT ![tab] = p], pc' \in {"send", "nopbuf"}
          PROVE  PoolInv'
      <4>1. Held' = {tab}
        BY <3>1, <3>3, HeldWillBe
      <4>2. Places(n, free, tab, word, {}, recvmbox)
        BY <1>3, <3>1
      <4>3. Shortened(n, free, tab, word, n - 1, Rest(n, free), [word EXCEPT ![tab] = p])
        BY <3>3, <4>2, ListRest
      <4>4. n - 1 \in Nat /\ Rest(n, free) \in [1 .. n - 1 -> Netbufs]
        BY <4>3 DEF Shortened
      <4>5. Places(n - 1, Rest(n, free), word[tab], [word EXCEPT ![tab] = p], {tab}, recvmbox)
        BY <3>3, <4>2, TaskTakes
      <4>6. Places(n - 1, Rest(n, free), tab', word', Held', recvmbox')
        BY <3>1, <3>3, <4>1, <4>5
      <4> QED
        BY <4>4, <4>6 DEF PoolInv
    <3> QED
      BY <2>2, <3>2, <3>3 DEF Alloc, Goto, Pbuf, NULL
  <2>3. CASE SendOk
    BY <2>3, HeldIs, HeldWillBe, NothingMoves DEF SendOk, Goto
  <2>4. ASSUME NEW e, Held = {e}, Deleted(e), Held' = {}, UNCHANGED recvmbox
        PROVE  PoolInv'
    <3>1. Places(n, free, tab, word, {e}, recvmbox)
      BY <1>3, <2>4
    <3>2. /\ Places(n + 1, Back(e, n, free), e, [word EXCEPT ![e] = tab], {}, recvmbox)
          /\ n + 1 \in Nat
      BY <3>1, TaskGives
    <3>3. Places(n + 1, Back(e, n, free), tab', word', Held', recvmbox')
      BY <2>4, <3>2 DEF Deleted
    <3>4. Back(e, n, free) \in [1 .. n + 1 -> Netbufs]
      BY <3>2 DEF Places
    <3> QED
      BY <3>2, <3>3, <3>4 DEF PoolInv
  <2>5. CASE DeleteSent
    BY <2>4, <2>5, HeldIs, HeldWillBe DEF DeleteSent, Goto
  <2>6. CASE Recv
    <3>1. Held = {} /\ pc' = "delay" /\ UNCHANGED <<pool, failed>>
      BY <2>6, HeldIs DEF Recv, Goto
    <3>2. CASE recvmbox = <<>>
      <4>1. recvbuf' = NULL /\ UNCHANGED recvmbox
        BY <2>6, <3>2 DEF Recv
      <4> QED
        BY <3>1, <4>1, HeldWillBe, NothingMoves
    <3>3. CASE recvmbox # <<>>
      <4>1. recvbuf' = Head(recvmbox) /\ recvmbox' = Tail(recvmbox)
        BY <2>6, <3>3 DEF Recv
      <4>2. /\ Places(n, free, tab, word, {Head(recvmbox)}, Tail(recvmbox))
            /\ Head(recvmbox) \in Netbufs
        BY <1>3, <3>1, <3>3, BoxGives
      <4>3. Held' = {Head(recvmbox)}
        BY <3>1, <4>1, <4>2, HeldWillBe, NetbufsAre
      <4>4. Places(n, free, tab', word', Held', recvmbox')
        BY <3>1, <4>1, <4>2, <4>3 DEF pool
      <4> QED
        BY <1>3, <4>4 DEF PoolInv
    <3> QED
      BY <3>2, <3>3
  <2>7. CASE Again
    BY <2>7, HeldIs, HeldWillBe, NothingMoves DEF Again, Goto
  <2>8. CASE Show
    BY <2>4, <2>8, HeldIs, HeldWillBe DEF Show, Goto
  <2>9. CASE Drain
    <3>1. /\ pc = "close" /\ pc' = "close" /\ recvmbox # <<>>
          /\ Deleted(Head(recvmbox)) /\ recvmbox' = Tail(recvmbox)
      BY <2>9 DEF Drain
    <3>2. Held = {} /\ Held' = {}
      BY <3>1, HeldIs, HeldWillBe
    <3>3. Places(n, free, tab, word, {Head(recvmbox)}, Tail(recvmbox))
      BY <1>3, <3>1, <3>2, BoxGives
    <3>4. /\ Places(n + 1, Back(Head(recvmbox), n, free), Head(recvmbox),
                    [word EXCEPT ![Head(recvmbox)] = tab], {}, Tail(recvmbox))
          /\ n + 1 \in Nat
      BY <3>3, TaskGives
    <3>5. Places(n + 1, Back(Head(recvmbox), n, free), tab', word', Held', recvmbox')
      BY <3>1, <3>2, <3>4 DEF Deleted
    <3>6. Back(Head(recvmbox), n, free) \in [1 .. n + 1 -> Netbufs]
      BY <3>4 DEF Places
    <3> QED
      BY <3>4, <3>5, <3>6 DEF PoolInv
  <2>10. CASE Close
    BY <2>10, HeldIs, HeldWillBe, NothingMoves DEF Close, Goto
  <2>11. CASE Arrive
    <3>1. Held' = Held /\ UNCHANGED failed
      BY <2>11 DEF Arrive, Held
    <3>2. CASE UNCHANGED <<pool, recvmbox>>
      BY <3>1, <3>2, NothingMoves
    <3>3. CASE /\ tab \in Netbufs /\ tab' = word[tab] /\ word' = [word EXCEPT ![tab] = Pbuf]
               /\ recvmbox' = Append(recvmbox, tab)
      <4>1. Shortened(n, free, tab, word, n - 1, Rest(n, free), [word EXCEPT ![tab] = Pbuf])
        <5>1. Pbuf \in Int
          BY DEF Pbuf
        <5> QED
          BY <1>3, <3>3, <5>1, ListRest
      <4>2. n - 1 \in Nat /\ Rest(n, free) \in [1 .. n - 1 -> Netbufs]
        BY <4>1 DEF Shortened
      <4>3. Places(n - 1, Rest(n, free), word[tab], [word EXCEPT ![tab] = Pbuf],
                   Held, Append(recvmbox, tab))
        BY <1>3, <3>3, BoxTakes
      <4>4. Places(n - 1, Rest(n, free), tab', word', Held', recvmbox')
        BY <3>1, <3>3, <4>3
      <4> QED
        BY <4>2, <4>4 DEF PoolInv
    <3> QED
      BY <2>11, <3>2, <3>3 DEF Arrive
  <2> QED
    BY <2>1, <2>2, <2>3, <2>5, <2>6, <2>7, <2>8, <2>9, <2>10, <2>11 DEF Next
<1> QED
  BY <1>1, <1>2, <1>3 DEF PoolInv

LEMMA PoolGives == PoolInv => NetbufsAccounted
<1> SUFFICES ASSUME ~failed, PoolInv PROVE NetbufsAccounted
  BY DEF NetbufsAccounted
<1>0. PICK n \in Nat : \E free \in [1 .. n -> Netbufs] : Places(n, free, tab, word, Held, recvmbox)
  BY DEF PoolInv
<1>1. PICK free \in [1 .. n -> Netbufs] : Places(n, free, tab, word, Held, recvmbox)
  BY <1>0
<1>2. /\ recvmbox \in Seq(Netbufs) /\ Len(recvmbox) \in Nat
      /\ tab = IF n = 0 THEN NULL ELSE free[1]
      /\ \A k \in 1 .. n : word[free[k]] = IF k = n THEN NULL ELSE free[k + 1]
      /\ \A j, k \in 1 .. n : free[j] = free[k] => j = k
      /\ \A j, k \in 1 .. Len(recvmbox) : recvmbox[j] = recvmbox[k] => j = k
      /\ \A k \in 1 .. n : \A j \in 1 .. Len(recvmbox) : free[k] # recvmbox[j]
  BY <1>1 DEF Places
<1>3. /\ \A e \in Held : /\ e \in Netbufs /\ (\A k \in 1 .. n : free[k] # e)
                         /\ \A j \in 1 .. Len(recvmbox) : recvmbox[j] # e
      /\ \A e \in Netbufs : e \in Held \/ (\E k \in 1 .. n : free[k] = e)
                            \/ (\E j \in 1 .. Len(recvmbox) : recvmbox[j] = e)
      /\ n + Len(recvmbox) + (IF Held = {} THEN 0 ELSE 1) = NumNetbufs
  BY <1>1 DEF Places
<1>4. n \in 0 .. NumNetbufs
  BY <1>2, <1>3, NetbufsAre
<1>5. DOMAIN free = 1 .. n /\ DOMAIN recvmbox = 1 .. Len(recvmbox)
  BY <1>2
<1>6. Listed(free)
  BY <1>2, <1>5 DEF Listed
<1>7. IsInjective(free) /\ IsInjective(recvmbox)
  BY <1>2, <1>5 DEF IsInjective
<1>8. /\ \A e : e \in Range(free) <=> \E k \in 1 .. n : free[k] = e
      /\ \A e : e \in Range(recvmbox) <=> \E j \in 1 .. Len(recvmbox) : recvmbox[j] = e
  BY <1>5 DEF Range
<1>9. Range(free) \cap Range(recvmbox) = {}
  BY <1>2, <1>8
<1>10. Held \cap (Range(free) \cup Range(recvmbox)) = {}
  BY <1>3, <1>8
<1>11. Range(free) \subseteq Netbufs /\ Range(recvmbox) \subseteq Netbufs
  BY <1>2, <1>8
<1>12. Held \cup Range(free) \cup Range(recvmbox) = Netbufs
  <2>1. Held \subseteq Netbufs
    BY <1>3
  <2>2. ASSUME NEW e \in Netbufs PROVE e \in Held \cup Range(free) \cup Range(recvmbox)
    BY <1>3, <1>8
  <2> QED
    BY <1>11, <2>1, <2>2
<1>13. pc = "alloc" /\ tab = NULL => Len(recvmbox) = NumNetbufs
  <2> SUFFICES ASSUME pc = "alloc", tab = NULL PROVE Len(recvmbox) = NumNetbufs
    OBVIOUS
  <2>1. Held = {}
    BY HeldIs
  <2>2. n = 0
    <3>1. n # 0 => free[1] \in Netbufs
      BY <1>1
    <3> QED
      BY <1>2, <3>1, NetbufsAre
  <2> QED
    BY <1>2, <1>3, <2>1, <2>2, NetbufsAre
<1> QED
  BY <1>1, <1>4, <1>6, <1>7, <1>9, <1>10, <1>12, <1>13 DEF NetbufsAccounted

\* As long as no send has failed, every netbuf is in one place, whatever the number
\* of netbufs, and a request is without one only when the mailbox has them all.
THEOREM NoNetbufLost == Spec => []NetbufsAccounted
<1>1. Init => PoolInv
  BY InitPlaces
<1>2. PoolInv /\ [Next]_vars => PoolInv'
  BY PoolStep
<1>3. PoolInv => NetbufsAccounted
  BY PoolGives
<1> QED
  BY <1>1, <1>2, <1>3, PTL DEF Spec

-----------------------------------------------------------------------------
(* The calendar.  Between 1901 and 2099 every fourth year is a leap year.   *)

\* What an answer may tell, in hours: a time before the year 2100.  NTP's seconds
\* are used up in 2036.
Before2100 == \A hours \in Times : hours < 24 * 47482

\* The two tables, which the module computes by recursion.
LEMMA Months ==
  /\ DaysBefore[0] = 0 /\ DaysBefore[1] = 31 /\ DaysBefore[2] = 59 /\ DaysBefore[3] = 90
  /\ DaysBefore[4] = 120 /\ DaysBefore[5] = 151 /\ DaysBefore[6] = 181 /\ DaysBefore[7] = 212
  /\ DaysBefore[8] = 243 /\ DaysBefore[9] = 273 /\ DaysBefore[10] = 304 /\ DaysBefore[11] = 334
  /\ DaysBefore[12] = 365
<1> DEFINE Eq(d) == d = [m \in 0 .. 12 |-> IF m = 0 THEN 0 ELSE d[m - 1] + g_days[m]]
           days == <<31, 59, 90, 120, 151, 181, 212, 243, 273, 304, 334, 365>>
           w == [m \in 0 .. 12 |-> IF m = 0 THEN 0 ELSE days[m]]
<1>1. Eq(w)
  <2>1. ASSUME NEW m \in 0 .. 12
        PROVE  w[m] = IF m = 0 THEN 0 ELSE w[m - 1] + g_days[m]
    <3>1. \/ m = 0 \/ m = 1 \/ m = 2 \/ m = 3 \/ m = 4 \/ m = 5 \/ m = 6
          \/ m = 7 \/ m = 8 \/ m = 9 \/ m = 10 \/ m = 11 \/ m = 12
      OBVIOUS
    <3> QED
      BY <3>1 DEF g_days
  <2> QED
    BY <2>1
<1>2. DaysBefore = CHOOSE d : Eq(d)
  BY DEF DaysBefore
<1> HIDE DEF w
<1>3. Eq(DaysBefore)
  <2> HIDE DEF Eq
  <2> QED
    BY <1>1, <1>2
<1>4. \A m \in 0 .. 12 : DaysBefore[m] = IF m = 0 THEN 0 ELSE DaysBefore[m - 1] + g_days[m]
  BY <1>3
<1> HIDE DEF Eq
<1>5. DaysBefore[0] = 0 /\ \A m \in 1 .. 12 : DaysBefore[m] = DaysBefore[m - 1] + g_days[m]
  BY <1>4
<1>6. /\ DaysBefore[1] = DaysBefore[0] + 31 /\ DaysBefore[2] = DaysBefore[1] + 28
      /\ DaysBefore[3] = DaysBefore[2] + 31 /\ DaysBefore[4] = DaysBefore[3] + 30
      /\ DaysBefore[5] = DaysBefore[4] + 31 /\ DaysBefore[6] = DaysBefore[5] + 30
  BY <1>5 DEF g_days
<1>7. /\ DaysBefore[7] = DaysBefore[6] + 31 /\ DaysBefore[8] = DaysBefore[7] + 31
      /\ DaysBefore[9] = DaysBefore[8] + 30 /\ DaysBefore[10] = DaysBefore[9] + 31
      /\ DaysBefore[11] = DaysBefore[10] + 30 /\ DaysBefore[12] = DaysBefore[11] + 31
  BY <1>5 DEF g_days
<1> QED
  BY <1>5, <1>6, <1>7

LEMMA MonthLengths ==
  \A m \in 0 .. 11 : g_days[m + 1] \in Nat /\ DaysBefore[m] \in Nat
                     /\ DaysBefore[m + 1] = DaysBefore[m] + g_days[m + 1]
<1>1. ASSUME NEW m \in 0 .. 11
      PROVE  /\ g_days[m + 1] \in Nat /\ DaysBefore[m] \in Nat
             /\ DaysBefore[m + 1] = DaysBefore[m] + g_days[m + 1]
  <2>1. m = 0 \/ m = 1 \/ m = 2 \/ m = 3 \/ m = 4 \/ m = 5 \/ m = 6 \/ m = 7 \/ m = 8 \/ m = 9 \/ m = 10 \/ m = 11
    OBVIOUS
  <2>2. CASE m = 0 \/ m = 1 \/ m = 2 \/ m = 3 \/ m = 4 \/ m = 5
    BY <2>2, Months DEF g_days
  <2>3. CASE m = 6 \/ m = 7 \/ m = 8 \/ m = 9 \/ m = 10 \/ m = 11
    BY <2>3, Months DEF g_days
  <2> QED
    BY <2>1, <2>2, <2>3
<1> QED
  BY <1>1

LEMMA FourYears ==
  ASSUME NEW first \in Nat, first % 4 = 2
  PROVE  /\ HoursBefore(first)[0] = 0 /\ HoursBefore(first)[1] = 8760 /\ HoursBefore(first)[2] = 17520
         /\ HoursBefore(first)[3] = 26304 /\ HoursBefore(first)[4] = 35064
<1> DEFINE Eq(h) == h = [k \in 0 .. 4 |-> IF k = 0 THEN 0 ELSE h[k - 1] + HoursPerYear(first + k - 1)]
           hours == <<8760, 17520, 26304, 35064>>
           w == [k \in 0 .. 4 |-> IF k = 0 THEN 0 ELSE hours[k]]
           H == HoursBefore(first)
<1>1. /\ HoursPerYear(first + 1 - 1) = 8760 /\ HoursPerYear(first + 2 - 1) = 8760
      /\ HoursPerYear(first + 3 - 1) = 8784 /\ HoursPerYear(first + 4 - 1) = 8760
  <2>1. /\ (first + 1 - 1) % 4 = 2 /\ (first + 2 - 1) % 4 = 3
        /\ (first + 3 - 1) % 4 = 0 /\ (first + 4 - 1) % 4 = 1
    OBVIOUS
  <2> QED
    BY <2>1 DEF HoursPerYear, Leap
<1>2. Eq(w)
  <2>1. ASSUME NEW k \in 0 .. 4
        PROVE  w[k] = IF k = 0 THEN 0 ELSE w[k - 1] + HoursPerYear(first + k - 1)
    <3>1. k = 0 \/ k = 1 \/ k = 2 \/ k = 3 \/ k = 4
      OBVIOUS
    <3>2. w[0] = 0 /\ w[1] = 8760 /\ w[2] = 17520 /\ w[3] = 26304 /\ w[4] = 35064
      OBVIOUS
    <3> HIDE DEF w
    <3> QED
      BY <3>1, <3>2, <1>1
  <2> QED
    BY <2>1
<1>3. H = CHOOSE h : Eq(h)
  BY DEF HoursBefore
<1> HIDE DEF w, H
<1>4. Eq(H)
  <2> HIDE DEF Eq
  <2> QED
    BY <1>2, <1>3
<1>5. H[0] = 0 /\ \A k \in 1 .. 4 : H[k] = H[k - 1] + HoursPerYear(first + k - 1)
  BY <1>4
<1> HIDE DEF Eq
<1>6. /\ H[1] = H[0] + 8760 /\ H[2] = H[1] + 8760 /\ H[3] = H[2] + 8784 /\ H[4] = H[3] + 8760
  BY <1>1, <1>5
<1>7. H[0] = 0 /\ H[1] = 8760 /\ H[2] = 17520 /\ H[3] = 26304 /\ H[4] = 35064
  BY <1>5, <1>6
<1> QED
  BY <1>7 DEF H

\* The month that a day of a common year lies in.
LEMMA MonthOf ==
  ASSUME NEW day \in Nat, 1 <= day, day <= 365
  PROVE  \E m \in 0 .. 11 : DaysBefore[m] < day /\ day <= DaysBefore[m + 1]
<1>1. CASE day <= 181
  BY <1>1, Months
<1>2. CASE day > 181
  BY <1>2, Months
<1> QED
  BY <1>1, <1>2

\* The day of the year, back from month and day.
LEMMA DayOfYear ==
  ASSUME NEW year \in Nat, NEW n \in Nat, 1 <= n, n <= 365 + (IF Leap(year) THEN 1 ELSE 0)
  PROVE  LET date == MonthAndDay(year, n)
         IN  /\ date.month \in 0 .. 11
             /\ date.day \in 1 .. g_days[date.month + 1] + (IF date.month = 1 /\ Leap(year) THEN 1 ELSE 0)
             /\ n = DaysBefore[date.month] + (IF date.month > 1 /\ Leap(year) THEN 1 ELSE 0) + date.day
<1> DEFINE date == MonthAndDay(year, n)
<1>1. CASE Leap(year) /\ n = 60
  <2>1. date.month = 1 /\ date.day = 29
    BY <1>1 DEF MonthAndDay
  <2> HIDE DEF date
  <2>2. DaysBefore[1] = 31 /\ g_days[1 + 1] = 28
    BY Months DEF g_days
  <2>3. /\ date.month \in 0 .. 11
        /\ date.day \in 1 .. g_days[date.month + 1] + (IF date.month = 1 /\ Leap(year) THEN 1 ELSE 0)
        /\ n = DaysBefore[date.month] + (IF date.month > 1 /\ Leap(year) THEN 1 ELSE 0) + date.day
    BY <1>1, <2>1, <2>2
  <2> QED
    BY <2>3 DEF date
<1>2. CASE ~ (Leap(year) /\ n = 60)
  <2> DEFINE day == IF Leap(year) /\ n > 60 THEN n - 1 ELSE n
             m == CHOOSE m \in 0 .. 11 : DaysBefore[m] < day /\ day <= DaysBefore[m + 1]
  <2>1. date = [month |-> m, day |-> day - DaysBefore[m]]
    BY <1>2 DEF MonthAndDay
  <2>2. day \in Nat /\ 1 <= day /\ day <= 365
    BY <1>2
  <2>3. m \in 0 .. 11 /\ DaysBefore[m] < day /\ day <= DaysBefore[m + 1]
    <3> HIDE DEF day
    <3> QED
      BY <2>2, MonthOf
  <2>4. date.month = m /\ date.day = day - DaysBefore[m]
    BY <2>1
  <2>5. day \in Nat /\ n = day + (IF Leap(year) /\ day > 59 THEN 1 ELSE 0)
    BY <1>2
  <2> HIDE DEF date, day, m
  <2>6. /\ DaysBefore[m] \in Nat /\ g_days[m + 1] \in Nat
        /\ DaysBefore[m + 1] = DaysBefore[m] + g_days[m + 1]
    BY <2>3, MonthLengths
  <2>7. day > 59 <=> m > 1
    <3>1. m <= 1 => DaysBefore[m + 1] <= 59
      <4>1. m <= 1 => m = 0 \/ m = 1
        BY <2>3
      <4> QED
        BY <4>1, Months
    <3>2. m > 1 => DaysBefore[m] >= 59
      <4>1. m > 1 => m = 2 \/ m = 3 \/ m = 4 \/ m = 5 \/ m = 6 \/ m = 7 \/ m = 8 \/ m = 9 \/ m = 10 \/ m = 11
        BY <2>3
      <4> QED
        BY <4>1, Months
    <3> QED
      BY <2>3, <2>5, <2>6, <3>1, <3>2
  <2>8. /\ date.month \in 0 .. 11
        /\ date.day \in 1 .. g_days[date.month + 1] + (IF date.month = 1 /\ Leap(year) THEN 1 ELSE 0)
        /\ n = DaysBefore[date.month] + (IF date.month > 1 /\ Leap(year) THEN 1 ELSE 0) + date.day
    BY <2>3, <2>4, <2>5, <2>6, <2>7
  <2> QED
    BY <2>8 DEF date
<1> QED
  BY <1>1, <1>2

\* Year k of the period q since 1970.
YearIs(q, k, y) == q \in Nat /\ k \in 0 .. 3 /\ y \in Nat /\ y = 1970 + 4 * q + k /\ y < 2100

\* The leap years between, and which they are.
LEMMA LeapYears ==
  ASSUME NEW q, NEW k, NEW y, YearIs(q, k, y)
  PROVE  /\ LeapsThrough(y - 1) - LeapsThrough(1969) = q + (IF k = 3 THEN 1 ELSE 0)
         /\ GregorianLeap(y) <=> k = 2
         /\ Leap(y) <=> k = 2
<1>0. q \in Nat /\ k \in 0 .. 3 /\ y \in Nat /\ y = 1970 + 4 * q + k /\ y < 2100
  BY DEF YearIs
<1>1. y >= 1970 /\ y % 4 = (2 + k) % 4
  BY <1>0
<1>2. (y - 1) \div 4 = 492 + q + (IF k = 3 THEN 1 ELSE 0)
  BY <1>0, k = 0 \/ k = 1 \/ k = 2 \/ k = 3
<1>3. y % 4 = 0 <=> k = 2
  BY <1>0, k = 0 \/ k = 1 \/ k = 2 \/ k = 3
<1>4. (y - 1) \div 400 - (y - 1) \div 100 = -15
  BY <1>0, <1>1
<1>5. y % 100 = 0 => y = 2000
  BY <1>0, <1>1
<1>6. 2000 % 400 = 0 /\ 1969 \div 4 = 492 /\ 1969 \div 100 = 19 /\ 1969 \div 400 = 4
  OBVIOUS
<1>7. LeapsThrough(1969) = 477
  BY <1>6 DEF LeapsThrough
<1>8. LeapsThrough(y - 1) = 477 + q + (IF k = 3 THEN 1 ELSE 0)
  BY <1>0, <1>1, <1>2, <1>4 DEF LeapsThrough
<1>9. GregorianLeap(y) <=> k = 2
  BY <1>0, <1>3, <1>5, <1>6 DEF GregorianLeap
<1>10. Leap(y) <=> k = 2
  BY <1>3 DEF Leap
<1> QED
  BY <1>0, <1>7, <1>8, <1>9, <1>10

\* lwip_calc_date_time is right before 2100.
LEMMA DateOf ==
  ASSUME NEW hours \in Nat, hours < 24 * 47482
  PROVE  LET s == CalcDateTime(hours)
         IN  /\ s.month \in 0 .. 11
             /\ s.day \in 1 .. g_days[s.month + 1] + (IF s.month = 1 /\ GregorianLeap(s.year) THEN 1 ELSE 0)
             /\ DayNumber(s.year, s.month, s.day) = hours \div 24
             /\ s.hour = hours % 24
<1> DEFINE q == hours \div (1461 * 24)
           rest == hours % (1461 * 24)
           first == 1970 + 4 * q
           k == CHOOSE k \in 0 .. 3 : HoursBefore(first)[k] <= rest /\ rest < HoursBefore(first)[k + 1]
           n == (rest - HoursBefore(first)[k]) \div 24 + 1
           year == first + k
           date == MonthAndDay(year, n)
           s == CalcDateTime(hours)
<1>1. s = [year |-> year, month |-> date.month, day |-> date.day, hour |-> hours % 24]
  BY DEF CalcDateTime
<1>2. hours = 35064 * q + rest /\ q \in Nat /\ q <= 32 /\ rest \in Nat /\ rest < 35064
  OBVIOUS
<1>3. hours \div 24 = 1461 * q + rest \div 24
  <2> HIDE DEF q, rest
  <2> QED
    BY <1>2
<1> HIDE DEF q, rest
<1>4. first \in Nat /\ first % 4 = 2
  BY <1>2
<1>5. /\ HoursBefore(first)[0] = 0 /\ HoursBefore(first)[1] = 8760 /\ HoursBefore(first)[2] = 17520
      /\ HoursBefore(first)[3] = 26304 /\ HoursBefore(first)[4] = 35064
  BY <1>4, FourYears
<1>6. \E j \in 0 .. 3 : HoursBefore(first)[j] <= rest /\ rest < HoursBefore(first)[j + 1]
  <2>1. CASE rest < 17520
    BY <1>2, <1>5, <2>1
  <2>2. CASE rest >= 17520
    BY <1>2, <1>5, <2>2
  <2> QED
    BY <1>2, <2>1, <2>2
<1>7. k \in 0 .. 3 /\ HoursBefore(first)[k] <= rest /\ rest < HoursBefore(first)[k + 1]
  <2> HIDE DEF first
  <2> QED
    BY <1>6
<1> HIDE DEF k
<1> DEFINE c == 365 * k + (IF k = 3 THEN 1 ELSE 0)
<1>8. /\ HoursBefore(first)[k] = 24 * c
      /\ HoursBefore(first)[k + 1] = 24 * (c + 365 + (IF k = 2 THEN 1 ELSE 0))
  <2> HIDE DEF first
  <2>1. k = 0 \/ k = 1 \/ k = 2 \/ k = 3
    BY <1>7
  <2> QED
    BY <1>5, <2>1
<1>9. c \in Nat /\ 24 * c <= rest /\ rest < 24 * (c + 365 + (IF k = 2 THEN 1 ELSE 0))
  BY <1>7, <1>8
<1>10. n = (rest - 24 * c) \div 24 + 1
  BY <1>8
<1>11. year < 2100
  <2>1. q = 32 => rest < 17520
    BY <1>2
  <2>2. k >= 2 => rest >= 17520
    <3>1. k >= 2 => c >= 730
      BY <1>7
    <3> HIDE DEF c
    <3> QED
      BY <1>2, <1>9, <3>1
  <2>3. q # 32 => q <= 31
    BY <1>2
  <2> QED
    BY <1>2, <1>7, <2>1, <2>2, <2>3
<1> HIDE DEF n, c
<1>12. n = rest \div 24 - c + 1 /\ n \in Nat /\ n >= 1 /\ n <= 365 + (IF k = 2 THEN 1 ELSE 0)
  BY <1>2, <1>9, <1>10
<1>13. year \in Nat /\ year = 1970 + 4 * q + k /\ year - 1970 = 4 * q + k
  BY <1>2, <1>7
<1> HIDE DEF year
<1>14. /\ LeapsThrough(year - 1) - LeapsThrough(1969) = q + (IF k = 3 THEN 1 ELSE 0)
       /\ GregorianLeap(year) <=> k = 2
       /\ Leap(year) <=> k = 2
  <2>1. YearIs(q, k, year)
    BY <1>2, <1>7, <1>11, <1>13 DEF YearIs
  <2> QED
    BY <2>1, LeapYears
<1>15. /\ date.month \in 0 .. 11
       /\ date.day \in 1 .. g_days[date.month + 1] + (IF date.month = 1 /\ Leap(year) THEN 1 ELSE 0)
       /\ n = DaysBefore[date.month] + (IF date.month > 1 /\ Leap(year) THEN 1 ELSE 0) + date.day
  BY <1>12, <1>14, <1>13, DayOfYear
<1>16. s.year = year /\ s.month = date.month /\ s.day = date.day /\ s.hour = hours % 24
  BY <1>1
<1> HIDE DEF date, s
<1>17. DayNumber(year, date.month, date.day) = 1461 * q + rest \div 24
  <2>1. g_days[date.month + 1] \in Nat /\ DaysBefore[date.month] \in Nat
    BY <1>15, MonthLengths
  <2>2. date.day \in Int
    BY <1>15, <2>1
  <2>3. 365 * (year - 1970) = 1460 * q + 365 * k
    BY <1>2, <1>7, <1>13
  <2> DEFINE leaps == LeapsThrough(year - 1)
             before == LeapsThrough(1969)
             m == date.month
             d == date.day
             b == DaysBefore[m]
             a == IF m > 1 /\ GregorianLeap(year) THEN 1 ELSE 0
  <2>4. leaps \in Int /\ before \in Int
    BY <1>13 DEF LeapsThrough
  <2>5. DayNumber(year, m, d) = 365 * (year - 1970) + leaps - before + b + a + d - 1
    BY DEF DayNumber
  <2>6. n = b + a + d
    BY <1>14, <1>15
  <2>7. a \in Int /\ b \in Int /\ d \in Int
    BY <2>1, <2>2
  <2>8. leaps - before = q + (IF k = 3 THEN 1 ELSE 0)
    BY <1>14
  <2>9. n = rest \div 24 - c + 1 /\ c = 365 * k + (IF k = 3 THEN 1 ELSE 0)
    BY <1>12 DEF c
  <2> DEFINE r == rest \div 24
             e == IF k = 3 THEN 1 ELSE 0
             y == 365 * (year - 1970)
  <2>10. r \in Int /\ e \in Int /\ y \in Int /\ y = 1460 * q + 365 * k /\ q \in Int /\ k \in Int /\ n \in Int
    BY <1>2, <1>7, <1>12, <1>13, <2>3
  <2>11. leaps - before = q + e /\ n = r - c + 1 /\ c = 365 * k + e
    BY <2>8, <2>9
  <2> HIDE DEF leaps, before, m, d, b, a, r, e, y
  <2>12. y + leaps - before + b + a + d - 1 = 1461 * q + r
    BY <2>4, <2>6, <2>7, <2>10, <2>11
  <2> QED
    BY <2>5, <2>12 DEF m, d, r, y
<1>18. /\ s.month \in 0 .. 11
       /\ s.day \in 1 .. g_days[s.month + 1] + (IF s.month = 1 /\ GregorianLeap(s.year) THEN 1 ELSE 0)
       /\ DayNumber(s.year, s.month, s.day) = hours \div 24
       /\ s.hour = hours % 24
  BY <1>3, <1>14, <1>15, <1>16, <1>17
<1> QED
  BY <1>18 DEF s

Dated == pc \in {"close", "gone"} => told \in Times /\ shown = CalcDateTime(told)

LEMMA DatedStep == Dated /\ [Next]_vars => Dated'
<1> SUFFICES ASSUME Dated, [Next]_vars PROVE Dated'
  OBVIOUS
<1>1. CASE Create \/ Alloc \/ SendOk \/ SendFails \/ DeleteSent \/ Recv \/ Again
  <2>1. pc' \notin {"close", "gone"}
    BY <1>1 DEF Create, Alloc, SendOk, SendFails, DeleteSent, Recv, Again, Goto
  <2> QED
    BY <2>1 DEF Dated
<1>2. CASE Show
  BY <1>2 DEF Show, Dated
<1>3. CASE Drain \/ Close \/ Arrive
  <2>1. UNCHANGED <<told, shown>> /\ (pc' \in {"close", "gone"} => pc \in {"close", "gone"})
    BY <1>3 DEF Drain, Close, Arrive, Goto
  <2> QED
    BY <2>1 DEF Dated
<1>4. CASE UNCHANGED vars
  BY <1>4 DEF vars, Dated
<1> QED
  BY <1>1, <1>2, <1>3, <1>4 DEF Next

\* Whatever time before 2100 the answer tells, the date shown is that of the
\* Gregorian calendar.
THEOREM DateIsRight == ASSUME Before2100 PROVE Spec => []DateRight
<1>1. Init => Dated
  BY DEF Init, Dated
<1>2. ASSUME Dated PROVE DateRight
  <2> SUFFICES ASSUME pc = "gone"
               PROVE  /\ shown.month \in 0 .. 11
                      /\ shown.day \in 1 .. g_days[shown.month + 1] + (IF shown.month = 1 /\ GregorianLeap(shown.year) THEN 1 ELSE 0)
                      /\ DayNumber(shown.year, shown.month, shown.day) = told \div 24
                      /\ shown.hour = told % 24
    BY DEF DateRight
  <2>1. told \in Times /\ shown = CalcDateTime(told)
    BY <1>2 DEF Dated
  <2>2. told \in Nat /\ told < 24 * 47482
    BY <2>1, NtpTaskAssumption DEF Before2100
  <2> QED
    BY <2>1, <2>2, DateOf
<1>3. Dated /\ [Next]_vars => Dated'
  BY DatedStep
<1> QED
  BY <1>1, <1>2, <1>3, PTL DEF Spec
=============================================================================
