------------------------------ MODULE NtpTask ------------------------------
(* The task NTP_init (NTP_Task.c): it asks an NTP server for the time, once a  *)
(* second until an answer is there, shows the date and deletes itself.  What   *)
(* it sends and receives travels in netbufs, of which lwIP's pool MEMP_NETBUF  *)
(* has two.  A free netbuf carries the link of the free list in the word that  *)
(* is its field p when it is in use.                                           *)
EXTENDS NtpClock, Sequences, Functions

CONSTANTS
  NumNetbufs, \* MEMP_NUM_NETBUF
  MaxWire,    \* bound: answers under way
  Times       \* the hours since 1970 an answer may tell

ASSUME NtpTaskAssumption ==
  /\ NumNetbufs \in Nat \ {0}
  /\ MaxWire \in Nat
  /\ Times \subseteq Nat

Netbufs == 1 .. NumNetbufs
NULL == 0
Pbuf == -1    \* some pbuf
NoDate == [year |-> 0, month |-> 0, day |-> 0, hour |-> 0]

VARIABLES
  pc,       \* where the task is
  tab,      \* head of the free list
  word,     \* the first word of each netbuf: the link, or p
  sentbuf, recvbuf,
  recvmbox, \* the netbufs in the connection's mailbox
  wire,     \* answers under way
  told,     \* what the answer told
  shown,    \* g_nowdate
  failed    \* history: netconn_send has failed

pool == <<tab, word>>
vars == <<pc, pool, sentbuf, recvbuf, recvmbox, wire, told, shown, failed>>

Init ==
  /\ pc = "create"
  /\ tab = NumNetbufs
  /\ word = [e \in Netbufs |-> e - 1]
  /\ sentbuf = NULL /\ recvbuf = NULL
  /\ recvmbox = <<>>
  /\ wire = 0
  /\ told = 0 /\ shown = NoDate
  /\ failed = FALSE

Goto(label) == pc' = label

-----------------------------------------------------------------------------
\* netconn_new, whose result is used before it is looked at, netconn_bind and
\* netconn_connect; without a bound connection the task function returns, which
\* stops the system like a fault.
Create ==
  /\ pc = "create"
  /\ Goto("alloc") \/ Goto("fault")
  /\ UNCHANGED <<pool, sentbuf, recvbuf, recvmbox, wire, told, shown, failed>>

\* netbuf_new and netbuf_alloc.  memp_malloc takes the first of the free list, its
\* word is the new head; a head that is no netbuf is what an empty or a damaged
\* list comes to.  For want of a pbuf p stays NULL.  Neither is looked at: the
\* request is copied through the pointer, and with NULL the task faults.
Alloc ==
  /\ pc = "alloc"
  /\ sentbuf' = tab
  /\ \/ /\ tab \in Netbufs
        /\ tab' = word[tab]
        /\ \/ word' = [word EXCEPT ![tab] = Pbuf] /\ Goto("send")
           \/ word' = [word EXCEPT ![tab] = NULL] /\ Goto("nopbuf")
     \/ /\ tab \notin Netbufs
        /\ Goto("fault")
        /\ UNCHANGED pool
  /\ UNCHANGED <<recvbuf, recvmbox, wire, told, shown, failed>>

\* The request may be lost, and answered more than once.
SendOk ==
  /\ pc = "send"
  /\ \E n \in 0 .. 2 : wire + n <= MaxWire /\ wire' = wire + n
  /\ Goto("delete")
  /\ UNCHANGED <<pool, sentbuf, recvbuf, recvmbox, told, shown, failed>>

\* memp_free: the netbuf becomes the head of the free list.
Deleted(e) ==
  /\ word' = [word EXCEPT ![e] = tab]
  /\ tab' = e

\* netconn_send fails: the netbuf is deleted on the spot, and then once more.  The
\* second time its link is taken for a pbuf; the reference count pbuf_free finds and
\* lowers there is in a part of a netbuf nobody uses.
SendFails ==
  /\ pc = "send"
  /\ failed' = TRUE
  /\ Deleted(sentbuf)
  /\ Goto("delete")
  /\ UNCHANGED <<sentbuf, recvbuf, recvmbox, wire, told, shown>>

DeleteSent ==
  /\ pc = "delete"
  /\ Deleted(sentbuf)
  /\ Goto("recv")
  /\ UNCHANGED <<sentbuf, recvbuf, recvmbox, wire, told, shown, failed>>

\* netconn_recv, with a time-out of 10 ms, and the delay of one second after it.
Recv ==
  /\ pc = "recv"
  /\ IF recvmbox = <<>>
     THEN recvbuf' = NULL /\ UNCHANGED recvmbox
     ELSE recvbuf' = Head(recvmbox) /\ recvmbox' = Tail(recvmbox)
  /\ Goto("delay")
  /\ UNCHANGED <<pool, sentbuf, wire, told, shown, failed>>

Again ==
  /\ pc = "delay"
  /\ recvbuf = NULL
  /\ Goto("alloc")
  /\ UNCHANGED <<pool, sentbuf, recvbuf, recvmbox, wire, told, shown, failed>>

\* Mutant of Show: the netbuf of the answer is not deleted.
MutShow ==
  /\ pc = "delay"
  /\ recvbuf # NULL
  /\ told' \in Times
  /\ shown' = CalcDateTime(told')
  /\ Goto("close")
  /\ UNCHANGED <<pool, sentbuf, recvbuf, recvmbox, wire, failed>>

\* The answer is made a date of and its netbuf deleted.
Show ==
  /\ pc = "delay"
  /\ recvbuf # NULL
  /\ told' \in Times
  /\ shown' = CalcDateTime(told')
  /\ Deleted(recvbuf)
  /\ Goto("close")
  /\ UNCHANGED <<sentbuf, recvbuf, recvmbox, wire, failed>>

\* netconn_disconnect, netconn_delete, which deletes what is in the mailbox, and
\* vTaskDelete.
Drain ==
  /\ pc = "close"
  /\ recvmbox # <<>>
  /\ Deleted(Head(recvmbox))
  /\ recvmbox' = Tail(recvmbox)
  /\ UNCHANGED <<pc, sentbuf, recvbuf, wire, told, shown, failed>>

Close ==
  /\ pc = "close"
  /\ recvmbox = <<>>
  /\ Goto("gone")
  /\ UNCHANGED <<pool, sentbuf, recvbuf, recvmbox, wire, told, shown, failed>>

\* recv_udp in the tcpip thread: an answer takes a netbuf, or is dropped.  It may
\* also be lost on the way.
Arrive ==
  /\ wire > 0
  /\ wire' = wire - 1
  /\ \/ /\ tab \in Netbufs
        /\ pc \notin {"close", "gone", "fault", "nopbuf"}
        /\ tab' = word[tab]
        /\ word' = [word EXCEPT ![tab] = Pbuf]
        /\ recvmbox' = Append(recvmbox, tab)
     \/ UNCHANGED <<pool, recvmbox>>
  /\ UNCHANGED <<pc, sentbuf, recvbuf, told, shown, failed>>

Next ==
  \/ Create \/ Alloc \/ SendOk \/ SendFails \/ DeleteSent \/ Recv \/ Again \/ Show
  \/ Drain \/ Close
  \/ Arrive

Spec == Init /\ [][Next]_vars

-----------------------------------------------------------------------------
\* The free list is free: from its head, each netbuf with the link to the next, to
\* an end.
Listed(free) ==
  LET Link(k) == IF k \in DOMAIN free THEN free[k] ELSE NULL
  IN  tab = Link(1) /\ \A k \in DOMAIN free : word[free[k]] = Link(k + 1)

\* The netbuf the task has.
Held ==
  CASE pc \in {"send", "delete", "nopbuf"} -> {sentbuf}
    [] pc = "delay" /\ recvbuf # NULL -> {recvbuf}
    [] OTHER -> {}

\* As long as no send has failed every netbuf is in one place: once in the free
\* list, which ends, once in the mailbox, or with the task.  And a request finds no
\* netbuf only when they all wait in the mailbox as late answers, two of which are
\* enough for the task to write through a null pointer.
NetbufsAccounted ==
  ~failed =>
    \E n \in 0 .. NumNetbufs : \E free \in [1 .. n -> Netbufs] :
      /\ Listed(free)
      /\ IsInjective(free) /\ IsInjective(recvmbox)
      /\ Range(free) \cap Range(recvmbox) = {}
      /\ Held \cap (Range(free) \cup Range(recvmbox)) = {}
      /\ Held \cup Range(free) \cup Range(recvmbox) = Netbufs
      /\ pc = "alloc" /\ tab = NULL => Len(recvmbox) = NumNetbufs

\* The Gregorian calendar: the number of a day, counted from 1st January 1970.
GregorianLeap(y) == y % 4 = 0 /\ (y % 100 # 0 \/ y % 400 = 0)
LeapsThrough(y) == y \div 4 - y \div 100 + y \div 400
DayNumber(y, m, d) ==
  365 * (y - 1970) + LeapsThrough(y - 1) - LeapsThrough(1969)
  + DaysBefore[m] + (IF m > 1 /\ GregorianLeap(y) THEN 1 ELSE 0) + d - 1

\* The date shown is the day of the Gregorian calendar that the answer's time lies
\* in, with a day of the month that month has: the arithmetic with four-year
\* periods and 365 days is right from 1970 to the end of the NTP era.
DateRight ==
  pc = "gone" =>
    /\ shown.month \in 0 .. 11
    /\ shown.day \in 1 .. g_days[shown.month + 1] + (IF shown.month = 1 /\ GregorianLeap(shown.year) THEN 1 ELSE 0)
    /\ DayNumber(shown.year, shown.month, shown.day) = told \div 24
    /\ shown.hour = told % 24
=============================================================================
