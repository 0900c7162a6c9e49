-------------------------- MODULE AesdSocketProofs --------------------------
(***************************************************************************)
(* Proofs about the server for any number of connections, requests and     *)
(* descriptors, any capacity of the device, and every set of failures.     *)
(***************************************************************************)
EXTENDS AesdSocket, SequenceTheorems, TLAPS

InDevice == {"request", "position", "read"}

\* Only a thread that uses the device or is ending can have the mutex.
MutexLabels ==
  \A c \in Conns : mutex = c => thread[c] \in InDevice \cup {"badfree", "ending", "finished"}

\* What main has still to visit are different threads that were started, and
\* while it is at one of them there is one.
CursorSound ==
  Visiting =>
    /\ \A i, j \in DOMAIN cursor : i # j => cursor[i] # cursor[j]
    /\ \A i \in DOMAIN cursor : thread[cursor[i]] \notin {"none", "backlog"}
    /\ main \in {"setexit", "unlockexit"} => cursor # << >>

\* The line of the device that the answer to a thread's request starts behind.
From(c) == IF ~ioctlCmdRecv[c] THEN 0
           ELSE IF request[c].kind = "seek" THEN request[c].cmd
           ELSE 1

\* What a thread has of its answer, from the request to the last line sent.
Answering(c) ==
  /\ thread[c] \in {"lock"} \cup InDevice => request[c] \in Requests
  /\ thread[c] \in {"check", "recv", "lock", "request", "position"} => reply[c] = << >>
  /\ thread[c] \in {"position", "read"} =>
       IF request[c].kind = "seek" THEN ioctlCmdRecv[c]
       ELSE log # << >> /\ log[Len(log)] = request[c].line
  /\ thread[c] = "position" => pos = IF request[c].kind = "seek" THEN request[c].cmd ELSE 1
  /\ thread[c] = "read" => From(c) <= pos /\ reply[c] = SubSeq(log, From(c) + 1, pos)

AnswerSound == \A c \in Conns : Answering(c)

\* The inductive invariant.
SocketInv ==
  /\ TypeOK
  /\ MutexSound
  /\ MutexLabels
  /\ ListSound
  /\ NoUseAfterFree
  /\ CursorSound
  /\ AnswerSound

LEMMA InitInv == Init => SocketInv
<1> SUFFICES ASSUME Init PROVE SocketInv
  OBVIOUS
<1> USE DEF Init
<1>1. TypeOK
  <2>1. /\ head \in Seq(Conns) /\ cursor \in Seq(Conns) /\ log \in Seq(Nat)
        /\ reply \in [Conns -> Seq(Nat)] /\ inbox \in [Conns -> Seq(Requests)]
        /\ Len(log) = 0
    OBVIOUS
  <2>2. Len(log) <= Capacity /\ pos \in 0..Len(log) /\ sent \in 0..MaxRequests
    BY <2>1, SocketAssumption
  <2>3. /\ thread \in [Conns -> Labels] /\ request \in [Conns -> Requests \cup {NULL}]
        /\ failure \in [Conns -> FailingCalls \cup {NULL}]
    BY DEF Labels
  <2>4. /\ complete \in [Conns -> BOOLEAN] /\ exit \in [Conns -> BOOLEAN]
        /\ mutexExit \in [Conns -> BOOLEAN] /\ ioctlCmdRecv \in [Conns -> BOOLEAN]
    OBVIOUS
  <2>5. QED
    BY <2>1, <2>2, <2>3, <2>4 DEF TypeOK
<1>2. MutexSound /\ MutexLabels
  BY SocketAssumption DEF MutexSound, MutexLabels, InDevice
<1>3. ListSound /\ NoUseAfterFree /\ CursorSound
  BY DEF ListSound, NoUseAfterFree, CursorSound, Visiting
<1>4. AnswerSound
  BY DEF AnswerSound, Answering, InDevice
<1> QED
  BY <1>1, <1>2, <1>3, <1>4 DEF SocketInv

-----------------------------------------------------------------------------
(* Types.                                                                  *)

\* What the kind of a request says about its other field.
LEMMA RequestFields ==
  ASSUME NEW r \in Requests
  PROVE  /\ r.kind \in {"line", "seek"}
         /\ r.kind = "line" => r.line \in Nat
         /\ r.kind = "seek" => r.cmd \in SeekCmds /\ r.cmd \in Nat
  BY SocketAssumption DEF Requests

\* A thread whose call failed ends, or is about to abort the process.
LEMMA EndThreadLabel ==
  ASSUME TypeOK, NEW c \in Conns, NEW why \in FailingCalls, EndThread(c, why)
  PROVE  /\ \E l \in {"badfree", "ending"} : thread' = [thread EXCEPT ![c] = l]
         /\ thread' \in [Conns -> Labels]
         /\ complete' \in [Conns -> BOOLEAN]
         /\ failure' \in [Conns -> FailingCalls \cup {NULL}]
         /\ failure' = [failure EXCEPT ![c] = why]
  BY DEF EndThread, SetComplete, Goto, TypeOK, Labels

\* A thread that receives, or ends.
LEMMA ReceiveType ==
  ASSUME SocketInv, NEW c \in Conns,
         \/ AllocRecv(c) \/ AllocRecvFails(c) \/ CheckExit(c) \/ UnlockMutexExit(c)
         \/ Recv(c) \/ RecvPart(c) \/ RecvFails(c) \/ BadFree(c) \/ Return(c)
  PROVE  TypeOK'
<1> USE DEF SocketInv, TypeOK, Labels, FailingCalls, mainVars, listVars, threadVars, devVars, clientVars,
            Goto, SetComplete, EndThread
<1>1. CASE AllocRecv(c)
  <2>1. << >> \in Seq(Nat)
    OBVIOUS
  <2> QED
    BY <1>1, <2>1 DEF AllocRecv
<1>2. CASE AllocRecvFails(c)
  BY <1>2 DEF AllocRecvFails
<1>3. CASE CheckExit(c)
  BY <1>3 DEF CheckExit
<1>4. CASE UnlockMutexExit(c)
  BY <1>4 DEF UnlockMutexExit
<1>5. CASE Recv(c)
  <2>1. Head(inbox[c]) \in Requests /\ Tail(inbox[c]) \in Seq(Requests)
    BY <1>5 DEF Recv
  <2> QED
    BY <1>5, <2>1 DEF Recv
<1>6. CASE RecvPart(c)
  BY <1>6 DEF RecvPart, RecvAgain
<1>7. CASE RecvFails(c)
  BY <1>7 DEF RecvFails
<1>8. CASE BadFree(c)
  BY <1>8 DEF BadFree
<1>9. CASE Return(c)
  BY <1>9 DEF Return
<1> QED
  BY <1>1, <1>2, <1>3, <1>4, <1>5, <1>6, <1>7, <1>8, <1>9

\* A thread that uses the device: the position stays within the device.
LEMMA DeviceType ==
  ASSUME SocketInv, NEW c \in Conns,
         \/ LockMutex(c) \/ WriteLine(c) \/ WriteFails(c) \/ Ioctl(c) \/ IoctlReturnsError(c)
         \/ NoComma(c) \/ Position(c) \/ LseekFails(c) \/ CallocFails(c) \/ ReadSend(c)
         \/ ReadSendFails(c) \/ Sigpipe(c) \/ ReplyDone(c)
  PROVE  TypeOK'
<1>0. thread[c] = "request" => request[c] \in Requests
  BY DEF SocketInv, AnswerSound, Answering, InDevice
<1> USE SocketAssumption
    DEF SocketInv, TypeOK, Labels, FailingCalls, mainVars, listVars, threadVars, devVars, clientVars,
        Goto, SetComplete, EndThread, At, CloseUnlock
<1>1. CASE LockMutex(c)
  BY <1>1 DEF LockMutex
<1>2. CASE WriteLine(c)
  <2>1. request[c].line \in Nat
    BY <1>0, <1>2, RequestFields DEF WriteLine
  <2>2. (Tail(log) \in Seq(Nat) /\ Len(Tail(log)) = Len(log) - 1) \/ Len(log) < Capacity
    OBVIOUS
  <2>3. log' \in Seq(Nat) /\ Len(log') \in 1..Capacity
    BY <1>2, <2>1, <2>2 DEF WriteLine
  <2>4. pos' \in 0..Len(log') /\ Len(log') <= Capacity
    BY <1>2, <2>3 DEF WriteLine
  <2> QED
    BY <1>2, <2>3, <2>4 DEF WriteLine
<1>3. CASE WriteFails(c)
  BY <1>3 DEF WriteFails
<1>4. CASE Ioctl(c)
  <2>1. request[c].cmd \in Nat
    BY <1>0, <1>4, RequestFields DEF Ioctl
  <2>2. pos' \in 0..Len(log')
    BY <1>4, <2>1 DEF Ioctl, CanSeek
  <2> QED
    BY <1>4, <2>2 DEF Ioctl
<1>5. CASE IoctlReturnsError(c)
  <2>1. /\ thread' \in [Conns -> Labels] /\ complete' \in [Conns -> BOOLEAN]
        /\ failure' \in [Conns -> FailingCalls \cup {NULL}]
    BY <1>5, EndThreadLabel DEF IoctlReturnsError, IoctlError
  <2>2. log' = log /\ pos' \in 0..Len(log')
    BY <1>5 DEF IoctlReturnsError, IoctlError
  <2> HIDE DEF EndThread
  <2> QED
    BY <1>5, <2>1, <2>2 DEF IoctlReturnsError, IoctlError
<1>6. CASE NoComma(c)
  BY <1>6 DEF NoComma
<1>7. CASE Position(c)
  BY <1>7 DEF Position, Offset
<1>8. CASE LseekFails(c)
  <2>1. /\ thread' \in [Conns -> Labels] /\ complete' \in [Conns -> BOOLEAN]
        /\ failure' \in [Conns -> FailingCalls \cup {NULL}]
    BY <1>8, EndThreadLabel DEF LseekFails
  <2>2. log' = log /\ pos' \in 0..Len(log')
    BY <1>8 DEF LseekFails
  <2> HIDE DEF EndThread
  <2> QED
    BY <1>8, <2>1, <2>2 DEF LseekFails
<1>9. CASE CallocFails(c)
  BY <1>9 DEF CallocFails
<1>10. CASE ReadSend(c)
  <2>1. log[pos + 1] \in Nat /\ pos' \in 0..Len(log')
    BY <1>10 DEF ReadSend
  <2>2. Append(reply[c], log[pos + 1]) \in Seq(Nat)
    BY <2>1
  <2>3. reply' \in [Conns -> Seq(Nat)]
    BY <1>10, <2>2 DEF ReadSend
  <2> QED
    BY <1>10, <2>1, <2>3 DEF ReadSend
<1>11. CASE ReadSendFails(c)
  BY <1>11, ZenonT(40) DEF ReadSendFails
<1>12. CASE Sigpipe(c)
  BY <1>12 DEF Sigpipe
<1>13. CASE ReplyDone(c)
  BY <1>13 DEF ReplyDone
<1> QED
  BY <1>1, <1>2, <1>3, <1>4, <1>5, <1>6, <1>7, <1>8, <1>9, <1>10, <1>11, <1>12, <1>13

\* Each node is in the list at most once.
Distinct(list) == \A i, j \in DOMAIN list : i # j => list[i] # list[j]

In(c, list) == \E i \in DOMAIN list : list[i] = c

\* SLIST_REMOVE takes exactly one node out of a list that has it.
LEMMA UnlinkNode ==
  ASSUME NEW list \in Seq(Conns), Distinct(list), NEW c \in Conns, In(c, list)
  PROVE  /\ Unlink(list, c) \in Seq(Conns)
         /\ Distinct(Unlink(list, c))
         /\ \A d \in Conns : In(d, Unlink(list, c)) <=> In(d, list) /\ d # c
<1> DEFINE k == CHOOSE i \in DOMAIN list : list[i] = c
           a == SubSeq(list, 1, k - 1)
           b == SubSeq(list, k + 1, Len(list))
           u == Unlink(list, c)
<1>1. k \in 1..Len(list) /\ list[k] = c
  BY DEF In
<1>2. u = a \o b
  BY DEF Unlink
<1> HIDE DEF k, u
<1>3. a \in Seq(Conns) /\ Len(a) = k - 1 /\ \A i \in 1..(k - 1) : a[i] = list[i]
  BY <1>1
<1>4. b \in Seq(Conns) /\ Len(b) = Len(list) - k
      /\ \A i \in 1..(Len(list) - k) : b[i] = list[k + i]
  BY <1>1
<1> HIDE DEF a, b
<1>5. /\ u \in Seq(Conns) /\ Len(u) = Len(a) + Len(b)
      /\ \A i \in 1..(Len(a) + Len(b)) : u[i] = IF i <= Len(a) THEN a[i] ELSE b[i - Len(a)]
  BY <1>2, <1>3, <1>4, ConcatProperties
<1>6. /\ DOMAIN u = 1..(Len(list) - 1)
      /\ \A i \in 1..(Len(list) - 1) : u[i] = IF i < k THEN list[i] ELSE list[i + 1]
  <2>1. /\ Len(list) \in Nat /\ k \in Nat /\ k >= 1 /\ k <= Len(list)
        /\ Len(a) + Len(b) = Len(list) - 1
    BY <1>1, <1>3, <1>4
  <2>2. /\ DOMAIN u = 1..(Len(list) - 1)
        /\ \A i \in 1..(Len(list) - 1) : u[i] = IF i <= k - 1 THEN a[i] ELSE b[i - (k - 1)]
    BY <1>3, <1>5, <2>1
  <2>3. ASSUME NEW i \in 1..(Len(list) - 1), i < k PROVE u[i] = list[i]
    <3>1. i \in 1..(k - 1)
      BY <2>1, <2>3
    <3> QED
      BY <1>3, <2>1, <2>2, <3>1
  <2>4. ASSUME NEW i \in 1..(Len(list) - 1), ~(i < k) PROVE u[i] = list[i + 1]
    <3>1. i - (k - 1) \in 1..(Len(list) - k) /\ k + (i - (k - 1)) = i + 1 /\ ~(i <= k - 1)
      BY <2>1, <2>4
    <3>2. u[i] = b[i - (k - 1)]
      BY <2>2, <3>1
    <3> QED
      BY <1>4, <3>1, <3>2
  <2> QED
    BY <2>2, <2>3, <2>4
<1>7. Distinct(u)
  <2> SUFFICES ASSUME NEW i \in 1..(Len(list) - 1), NEW j \in 1..(Len(list) - 1), i # j
               PROVE  u[i] # u[j]
    BY <1>6 DEF Distinct
  <2> DEFINE at(n) == IF n < k THEN n ELSE n + 1
  <2>1. /\ at(i) \in 1..Len(list) /\ at(j) \in 1..Len(list) /\ at(i) # at(j)
        /\ u[i] = list[at(i)] /\ u[j] = list[at(j)]
    BY <1>1, <1>6
  <2> QED
    BY <2>1 DEF Distinct
<1>8. ASSUME NEW d \in Conns, In(d, u) PROVE In(d, list) /\ d # c
  <2>1. PICK i \in 1..(Len(list) - 1) : u[i] = d
    BY <1>6, <1>8 DEF In
  <2>2. PICK j \in 1..Len(list) : list[j] = d /\ j # k
    BY <1>1, <1>6, <2>1
  <2> QED
    BY <1>1, <2>2 DEF In, Distinct
<1>9. ASSUME NEW d \in Conns, In(d, list), d # c PROVE In(d, u)
  <2>1. PICK j \in 1..Len(list) : list[j] = d /\ j # k
    BY <1>1, <1>9 DEF In
  <2>2. CASE j < k
    <3>1. j \in 1..(Len(list) - 1) /\ u[j] = d
      BY <1>1, <1>6, <2>1, <2>2
    <3> QED
      BY <1>6, <3>1 DEF In
  <2>3. CASE j > k
    <3>1. j - 1 \in 1..(Len(list) - 1) /\ u[j - 1] = d
      BY <1>1, <1>6, <2>1, <2>3
    <3> QED
      BY <1>6, <3>1 DEF In
  <2> QED
    BY <1>1, <2>1, <2>2, <2>3
<1> QED
  BY <1>5, <1>7, <1>8, <1>9 DEF u

\* SLIST_INSERT_HEAD.
LEMMA InsertHead ==
  ASSUME NEW list \in Seq(Conns), Distinct(list), NEW c \in Conns, ~In(c, list)
  PROVE  /\ <<c>> \o list \in Seq(Conns)
         /\ Distinct(<<c>> \o list)
         /\ \A d \in Conns : In(d, <<c>> \o list) <=> In(d, list) \/ d = c
<1> DEFINE u == <<c>> \o list
<1>1. u \in Seq(Conns) /\ Len(u) = Len(list) + 1
  OBVIOUS
<1>2. u[1] = c /\ \A i \in 2..(Len(list) + 1) : u[i] = list[i - 1]
  OBVIOUS
<1> HIDE DEF u
<1>3. Distinct(u)
  BY <1>1, <1>2, SMTT(40) DEF Distinct, In
<1>4. ASSUME NEW d \in Conns, In(d, list) PROVE In(d, u)
  <2>1. PICK i \in 1..Len(list) : list[i] = d
    BY <1>4 DEF In
  <2>2. i + 1 \in 2..(Len(list) + 1) /\ u[i + 1] = d
    BY <1>2, <2>1
  <2> QED
    BY <1>1, <2>2 DEF In
<1>5. In(c, u)
  BY <1>1, <1>2 DEF In
<1>6. ASSUME NEW d \in Conns, In(d, u) PROVE In(d, list) \/ d = c
  BY <1>1, <1>2, <1>6, SMTT(40) DEF In
<1> QED
  BY <1>1, <1>3, <1>4, <1>5, <1>6 DEF u

-----------------------------------------------------------------------------
(* The list, what main has freed and what it has still to visit.           *)

ListInv == ListSound /\ NoUseAfterFree /\ CursorSound

\* The rest of a list is without its first node.
LEMMA TailNodes ==
  ASSUME NEW list \in Seq(Conns), list # << >>, Distinct(list)
  PROVE  /\ Head(list) \in Conns /\ In(Head(list), list)
         /\ Tail(list) \in Seq(Conns)
         /\ Distinct(Tail(list))
         /\ \A i \in DOMAIN Tail(list) : In(Tail(list)[i], list) /\ Tail(list)[i] # Head(list)
<1> DEFINE t == Tail(list)
<1>1. /\ t \in Seq(Conns) /\ Len(list) \in Nat /\ Len(list) >= 1
      /\ DOMAIN t = 1..(Len(list) - 1) /\ \A i \in 1..(Len(list) - 1) : t[i] = list[i + 1]
  BY HeadTailProperties
<1>2. Head(list) = list[1] /\ Head(list) \in Conns /\ 1 \in DOMAIN list
  BY <1>1
<1> HIDE DEF t
<1>3. \A i \in DOMAIN t : i + 1 \in DOMAIN list /\ i + 1 # 1 /\ t[i] = list[i + 1]
  BY <1>1
<1>4. Distinct(t)
  <2> SUFFICES ASSUME NEW i \in DOMAIN t, NEW j \in DOMAIN t, i # j PROVE t[i] # t[j]
    BY DEF Distinct
  <2>1. i + 1 # j + 1
    BY <1>1
  <2> QED
    BY <1>3, <2>1 DEF Distinct
<1>5. \A i \in DOMAIN t : In(t[i], list) /\ t[i] # Head(list)
  BY <1>2, <1>3 DEF In, Distinct
<1> QED
  BY <1>1, <1>2, <1>4, <1>5 DEF t, In

\* Steps that leave the list alone, and no thread starts or stops being started.
LEMMA ListKept ==
  ASSUME SocketInv, UNCHANGED <<head, cursor, freed>>,
         main' = main \/ ~Visiting',
         \A d \in Conns :
           /\ thread'[d] \in {"none", "backlog"} <=> thread[d] \in {"none", "backlog"}
           /\ thread[d] \in {"finished", "unstarted"} => thread'[d] = thread[d]
  PROVE  ListInv'
<1>1. ListSound'
  BY DEF SocketInv, ListSound
<1>2. NoUseAfterFree'
  BY DEF SocketInv, TypeOK, NoUseAfterFree, Visiting
<1>3. CursorSound'
  <2> SUFFICES ASSUME Visiting' PROVE CursorSound'
    BY DEF CursorSound
  <2>1. \A i \in DOMAIN cursor : cursor[i] \in Conns
    BY DEF SocketInv, TypeOK
  <2>2. Visiting /\ main' = main
    BY DEF Visiting
  <2> QED
    BY <2>1, <2>2 DEF SocketInv, CursorSound
<1> QED
  BY <1>1, <1>2, <1>3 DEF ListInv

\* The node that a loop of main is at is in the list.
LEMMA CursorInList ==
  ASSUME SocketInv, Visiting, NEW i \in DOMAIN cursor
  PROVE  cursor[i] \in Conns /\ cursor[i] \notin freed /\ In(cursor[i], head)
<1>1. cursor[i] \in Conns
  BY DEF SocketInv, TypeOK
<1> QED
  BY <1>1 DEF SocketInv, CursorSound, NoUseAfterFree, ListSound, In

\* main reaps the thread it is at and goes on.
LEMMA ReapInv ==
  ASSUME SocketInv, main \in {"sweep", "join"}, main' = main, cursor # << >>,
         Reap(Head(cursor)), cursor' = Tail(cursor), UNCHANGED thread
  PROVE  /\ head' \in Seq(Conns) /\ cursor' \in Seq(Conns) /\ freed' \subseteq Conns
         /\ ListInv'
<1> DEFINE c == Head(cursor)
<1>1. /\ cursor \in Seq(Conns) /\ head \in Seq(Conns) /\ Visiting /\ Visiting'
      /\ Distinct(cursor) /\ Distinct(head)
  BY DEF SocketInv, TypeOK, CursorSound, ListSound, Visiting, Distinct
<1>2. /\ c \in Conns /\ In(c, cursor) /\ cursor' \in Seq(Conns) /\ Distinct(cursor')
      /\ \A i \in DOMAIN cursor' : In(cursor'[i], cursor) /\ cursor'[i] # c
  BY <1>1, TailNodes
<1>3. In(c, head)
  BY <1>1, <1>2, CursorInList DEF In
<1>4. /\ thread[c] \in {"finished", "unstarted"} /\ head' = Unlink(head, c)
      /\ freed' = freed \cup {c}
  BY DEF Reap, Join
<1> HIDE DEF c
<1>5. /\ head' \in Seq(Conns) /\ Distinct(head')
      /\ \A d \in Conns : In(d, head') <=> In(d, head) /\ d # c
  BY <1>1, <1>2, <1>3, <1>4, UnlinkNode
<1>6. \A d \in Conns : In(d, head) <=> thread[d] \notin {"none", "backlog"} /\ d \notin freed
  BY DEF SocketInv, ListSound, In
<1>7. ListSound'
  <2>1. \A d \in Conns : In(d, head') <=> thread'[d] \notin {"none", "backlog"} /\ d \notin freed'
    BY <1>4, <1>5, <1>6
  <2> QED
    BY <1>5, <2>1 DEF ListSound, Distinct, In
<1>8. \A i \in DOMAIN cursor' : /\ cursor'[i] \in Conns /\ cursor'[i] \notin freed'
                                /\ In(cursor'[i], head)
  BY <1>1, <1>2, <1>4, CursorInList DEF In
<1>9. NoUseAfterFree'
  BY <1>4, <1>8 DEF SocketInv, NoUseAfterFree
<1>10. CursorSound'
  BY <1>2, <1>6, <1>8 DEF CursorSound, Distinct
<1>11. freed' \subseteq Conns
  BY <1>2, <1>4 DEF SocketInv, TypeOK
<1> QED
  BY <1>2, <1>5, <1>7, <1>9, <1>10, <1>11 DEF ListInv

\* main starts a loop over the list.
LEMMA StartLoopInv ==
  ASSUME SocketInv, main' \in {"lockexit", "join"}, cursor' = head, UNCHANGED <<head, freed, thread>>
  PROVE  ListInv'
<1>1. \A i \in DOMAIN head : head[i] \in Conns
  BY DEF SocketInv, TypeOK
<1>2. \A i \in DOMAIN head : thread[head[i]] \notin {"none", "backlog"} /\ head[i] \notin freed
  BY <1>1 DEF SocketInv, ListSound
<1> QED
  BY <1>2 DEF SocketInv, ListInv, ListSound, NoUseAfterFree, CursorSound

\* main goes on with a loop that frees nothing.
LEMMA AdvanceInv ==
  ASSUME SocketInv, Visiting, cursor # << >>, cursor' = Tail(cursor),
         main' \in {"sweep", "lockexit"}, UNCHANGED <<head, freed, thread>>
  PROVE  cursor' \in Seq(Conns) /\ ListInv'
<1>1. cursor \in Seq(Conns) /\ Distinct(cursor)
  BY DEF SocketInv, TypeOK, CursorSound, Distinct
<1>2. /\ cursor' \in Seq(Conns) /\ Distinct(cursor')
      /\ \A i \in DOMAIN cursor' : In(cursor'[i], cursor)
  BY <1>1, TailNodes
<1>3. \A i \in DOMAIN cursor' : /\ cursor'[i] \notin freed
                                /\ thread[cursor'[i]] \notin {"none", "backlog"}
  BY <1>2 DEF SocketInv, CursorSound, NoUseAfterFree, In
<1>4. ListSound'
  BY DEF SocketInv, ListSound
<1>5. NoUseAfterFree' /\ CursorSound'
  BY <1>2, <1>3 DEF SocketInv, NoUseAfterFree, CursorSound, Distinct
<1> QED
  BY <1>2, <1>4, <1>5 DEF ListInv

\* A connection is accepted.
LEMMA AcceptInv ==
  ASSUME SocketInv, NEW c \in Conns, Accept(c)
  PROVE  head' \in Seq(Conns) /\ cursor' \in Seq(Conns) /\ ListInv'
<1>1. /\ head \in Seq(Conns) /\ Distinct(head) /\ ~In(c, head) /\ c \notin freed
  BY DEF Accept, SocketInv, TypeOK, ListSound, NoUseAfterFree, Distinct, In
<1>2. PICK l \in {"alloc", "unstarted"} : thread' = [thread EXCEPT ![c] = l]
  BY DEF Accept, Goto
<1>3. /\ head' \in Seq(Conns) /\ cursor' = head' /\ Distinct(head')
      /\ \A d \in Conns : In(d, head') <=> In(d, head) \/ d = c
  BY <1>1, InsertHead DEF Accept
<1>4. \A d \in Conns : thread'[d] = IF d = c THEN l ELSE thread[d]
  BY <1>2 DEF SocketInv, TypeOK
<1>5. \A d \in Conns : In(d, head) <=> thread[d] \notin {"none", "backlog"} /\ d \notin freed
  BY DEF SocketInv, ListSound, In
<1>6. freed' = freed /\ freed \subseteq Conns /\ main' = "sweep"
  BY DEF Accept, SocketInv, TypeOK
<1>7. \A d \in Conns : In(d, head') <=> thread'[d] \notin {"none", "backlog"} /\ d \notin freed'
  BY <1>1, <1>3, <1>4, <1>5, <1>6
<1>8. \A i \in DOMAIN cursor' : cursor'[i] \in Conns /\ In(cursor'[i], head')
  BY <1>3 DEF In
<1>9. ListSound'
  BY <1>3, <1>7 DEF ListSound, Distinct, In
<1>10. NoUseAfterFree'
  BY <1>1, <1>4, <1>6, <1>7, <1>8 DEF SocketInv, NoUseAfterFree
<1>11. CursorSound'
  BY <1>3, <1>6, <1>7, <1>8 DEF CursorSound, Distinct
<1> QED
  BY <1>3, <1>9, <1>10, <1>11 DEF ListInv

-----------------------------------------------------------------------------
(* main(), clients and signals.                                            *)

\* Steps of others leave a thread's hold on the device and its answer alone.
LEMMA DeviceKept ==
  ASSUME SocketInv, UNCHANGED <<devVars, request, ioctlCmdRecv, reply, failure>>,
         \A d \in Conns : \/ thread'[d] = thread[d]
                          \/ /\ thread[d] \in {"none", "backlog"}
                             /\ thread'[d] \in {"backlog", "alloc", "unstarted"}
  PROVE  MutexSound' /\ MutexLabels' /\ AnswerSound'
<1> USE DEF devVars
<1>1. MutexSound' /\ MutexLabels'
  BY DEF SocketInv, MutexSound, MutexLabels, InDevice
<1>2. AnswerSound'
  BY DEF SocketInv, AnswerSound, Answering, InDevice, From
<1> QED
  BY <1>1, <1>2

LEMMA MainInv ==
  ASSUME SocketInv, mainThread
  PROVE  SocketInv'
<1>1. ASSUME NEW c \in Conns, Accept(c) PROVE SocketInv'
  <2>1. head' \in Seq(Conns) /\ cursor' \in Seq(Conns) /\ ListInv'
    BY <1>1, AcceptInv
  <2>2. TypeOK'
    BY <1>1, <2>1
    DEF Accept, Goto, SocketInv, TypeOK, Labels, devVars, clientVars
  <2>3. MutexSound' /\ MutexLabels' /\ AnswerSound'
    BY <1>1, DeviceKept DEF Accept, Goto, SocketInv, TypeOK
  <2> QED
    BY <2>1, <2>2, <2>3 DEF SocketInv, ListInv
<1>2. ASSUME UNCHANGED <<threadVars, devVars, clientVars>>,
             gracefullyExit' = gracefullyExit,
             main' \in {"socket", "sigint", "sigterm", "listen", "loop", "accept", "sweep",
                        "lockexit", "setexit", "unlockexit", "join",
                        "success", "failure", "killed"},
             head' \in Seq(Conns), cursor' \in Seq(Conns), freed' \subseteq Conns,
             exit' \in [Conns -> BOOLEAN], mutexExit' \in [Conns -> BOOLEAN],
             ListInv'
      PROVE  SocketInv'
  <2>1. TypeOK'
    BY <1>2 DEF SocketInv, TypeOK, threadVars, devVars, clientVars
  <2>2. MutexSound' /\ MutexLabels' /\ AnswerSound'
    BY <1>2, DeviceKept DEF threadVars
  <2> QED
    BY <1>2, <2>1, <2>2 DEF SocketInv, ListInv
<1>3. ASSUME UNCHANGED <<gracefullyExit, listVars, threadVars, devVars, clientVars>>,
             main' \in {"sigint", "sigterm", "listen", "loop", "failure", "killed"}
      PROVE  SocketInv'
  <2>1. ListInv'
    BY <1>3, ListKept DEF listVars, threadVars, Visiting
  <2> QED
    BY <1>2, <1>3, <2>1 DEF SocketInv, TypeOK, listVars
<1>4. CASE Start \/ AcceptNone \/ AcceptFails \/ MallocFails \/ JoinCrashes
  BY <1>3, <1>4 DEF Start, StartStep, AcceptNone, AcceptFails, MallocFails, JoinCrashes
<1>5. CASE Loop
  <2> USE <1>5 DEF Loop
  <2>1. CASE gracefullyExit
    <3>1. ListInv'
      BY <2>1, StartLoopInv DEF threadVars
    <3> QED
      BY <1>2, <2>1, <3>1 DEF SocketInv, TypeOK
  <2>2. CASE ~gracefullyExit
    <3>1. ListInv'
      BY <2>2, ListKept DEF threadVars, Visiting
    <3> QED
      BY <1>2, <2>2, <3>1 DEF SocketInv, TypeOK
  <2> QED
    BY <2>1, <2>2
<1>6. CASE Sweep \/ JoinAll
  <2> USE <1>6 DEF Sweep, JoinAll, Visit
  <2>1. CASE cursor = << >>
    <3>1. ListInv'
      BY <2>1, ListKept DEF threadVars, Visiting
    <3> QED
      BY <1>2, <2>1, <3>1 DEF SocketInv, TypeOK
  <2>2. CASE cursor # << >> /\ Reap(Head(cursor))
    <3>1. /\ head' \in Seq(Conns) /\ cursor' \in Seq(Conns) /\ freed' \subseteq Conns
          /\ ListInv'
      BY <2>2, ReapInv DEF threadVars
    <3> QED
      BY <1>2, <2>2, <3>1 DEF SocketInv, TypeOK
  <2>3. CASE cursor # << >> /\ UNCHANGED <<head, freed>> /\ Sweep
    <3>1. cursor' \in Seq(Conns) /\ ListInv'
      BY <2>3, AdvanceInv DEF threadVars, Visiting
    <3> QED
      BY <1>2, <2>3, <3>1 DEF SocketInv, TypeOK
  <2> QED
    BY <2>1, <2>2, <2>3
<1>7. CASE LockExit
  <2> USE <1>7 DEF LockExit
  <2>1. CASE cursor = << >>
    <3>1. ListInv'
      BY <2>1, StartLoopInv DEF threadVars
    <3> QED
      BY <1>2, <2>1, <3>1 DEF SocketInv, TypeOK
  <2>2. CASE cursor # << >>
    <3>1. ListInv'
      BY <2>2 DEF SocketInv, ListInv, ListSound, NoUseAfterFree, CursorSound, Visiting, threadVars
    <3>2. mutexExit' \in [Conns -> BOOLEAN]
      BY <2>2 DEF SocketInv, TypeOK
    <3> QED
      BY <1>2, <2>2, <3>1, <3>2 DEF SocketInv, TypeOK
  <2> QED
    BY <2>1, <2>2
<1>8. CASE SetExit
  <2> USE <1>8 DEF SetExit
  <2>1. ListInv'
    BY DEF SocketInv, ListInv, ListSound, NoUseAfterFree, CursorSound, Visiting, threadVars
  <2>2. exit' \in [Conns -> BOOLEAN]
    BY DEF SocketInv, TypeOK
  <2> QED
    BY <1>2, <2>1, <2>2 DEF SocketInv, TypeOK
<1>9. CASE UnlockExit
  <2> USE <1>9 DEF UnlockExit
  <2>1. cursor # << >> /\ Visiting
    BY DEF SocketInv, CursorSound, Visiting
  <2>2. cursor' \in Seq(Conns) /\ ListInv'
    BY <2>1, AdvanceInv DEF threadVars
  <2>3. mutexExit' \in [Conns -> BOOLEAN]
    BY DEF SocketInv, TypeOK
  <2> QED
    BY <1>2, <2>2, <2>3 DEF SocketInv, TypeOK
<1> QED
  BY <1>1, <1>4, <1>5, <1>6, <1>7, <1>8, <1>9 DEF mainThread

LEMMA ClientInv ==
  ASSUME SocketInv,
         \/ \E signo \in {"SIGINT", "SIGTERM"} : signalHandler(signo)
         \/ \E c \in Conns : Connect(c) \/ SendRequest(c) \/ Close(c)
  PROVE  SocketInv'
<1> USE DEF mainVars, listVars, threadVars, devVars, clientVars
<1>1. ASSUME NEW signo \in {"SIGINT", "SIGTERM"}, signalHandler(signo) PROVE SocketInv'
  <2> USE <1>1 DEF signalHandler
  <2>1. TypeOK'
    BY DEF SocketInv, TypeOK
  <2>2. ListInv'
    BY ListKept DEF Visiting
  <2>3. MutexSound' /\ MutexLabels' /\ AnswerSound'
    BY DeviceKept
  <2> QED
    BY <2>1, <2>2, <2>3 DEF SocketInv, ListInv
<1>2. ASSUME NEW c \in Conns, Connect(c) PROVE SocketInv'
  <2> USE <1>2 DEF Connect
  <2>1. \A d \in Conns : thread'[d] = IF d = c THEN "backlog" ELSE thread[d]
    BY DEF SocketInv, TypeOK
  <2>2. TypeOK'
    BY DEF SocketInv, TypeOK, Labels
  <2>3. ListInv'
    BY <2>1, ListKept
  <2>4. MutexSound' /\ MutexLabels' /\ AnswerSound'
    BY <2>1, DeviceKept
  <2> QED
    BY <2>2, <2>3, <2>4 DEF SocketInv, ListInv
<1>3. ASSUME NEW c \in Conns, SendRequest(c) \/ Close(c) PROVE SocketInv'
  <2>1. UNCHANGED <<mainVars, threadVars, devVars>>
    BY <1>3 DEF SendRequest, Close
  <2>2. closed' \subseteq Conns
    BY <1>3 DEF SendRequest, Close, SocketInv, TypeOK
  <2>3. sent' \in 0..MaxRequests
    BY <1>3, SocketAssumption, SMTT(40) DEF SendRequest, Close, SocketInv, TypeOK
  <2>4. inbox' \in [Conns -> Seq(Requests)]
    <3>1. CASE Close(c)
      BY <3>1 DEF Close, SocketInv, TypeOK
    <3>2. CASE SendRequest(c)
      <4>1. PICK r \in {[kind |-> "line", line |-> sent']} \cup [kind : {"seek"}, cmd : SeekCmds] :
              inbox' = [inbox EXCEPT ![c] = Append(@, r)]
        BY <3>2 DEF SendRequest
      <4>2. sent' \in Nat
        BY <2>3, SocketAssumption
      <4>3. r \in Requests
        BY <4>1, <4>2 DEF Requests
      <4>4. Append(inbox[c], r) \in Seq(Requests)
        BY <4>3 DEF SocketInv, TypeOK
      <4> QED
        BY <4>1, <4>4 DEF SocketInv, TypeOK
    <3> QED
      BY <1>3, <3>1, <3>2
  <2>5. TypeOK'
    BY <2>1, <2>2, <2>3, <2>4 DEF SocketInv, TypeOK
  <2>6. ListInv'
    BY <2>1, ListKept
  <2>7. MutexSound' /\ MutexLabels' /\ AnswerSound'
    BY <2>1, DeviceKept
  <2> QED
    BY <2>5, <2>6, <2>7 DEF SocketInv, ListInv
<1> QED
  BY <1>1, <1>2, <1>3

-----------------------------------------------------------------------------
(* process().                                                              *)

\* A step of a thread outside the device.
Receives(c) ==
  \/ AllocRecv(c) \/ AllocRecvFails(c) \/ CheckExit(c) \/ UnlockMutexExit(c)
  \/ Recv(c) \/ RecvPart(c) \/ RecvFails(c) \/ BadFree(c) \/ Return(c)

\* A step of a thread that has the mutex or takes it.
Uses(c) ==
  \/ LockMutex(c) \/ WriteLine(c) \/ WriteFails(c) \/ Ioctl(c) \/ IoctlReturnsError(c)
  \/ NoComma(c) \/ Position(c) \/ LseekFails(c) \/ CallocFails(c) \/ ReadSend(c)
  \/ ReadSendFails(c) \/ Sigpipe(c) \/ ReplyDone(c)

LEMMA ProcessSteps ==
  ASSUME NEW c \in Conns, process(c) \/ LockMutex(c) \/ processFails(c)
  PROVE  Receives(c) \/ Uses(c)
  BY DEF process, processFails, Receives, Uses, IoctlRefused, IoctlFails

\* No step of a thread touches the list, or another thread's label; a thread
\* that has not started, or is through, makes none.
LEMMA ProcessList ==
  ASSUME SocketInv, NEW c \in Conns, Receives(c) \/ Uses(c)
  PROVE  ListInv'
<1> USE DEF mainVars, listVars, threadVars, At, Goto, SetComplete
<1>1. /\ UNCHANGED <<head, cursor, freed>>
      /\ main' = main \/ main' = "killed"
      /\ thread[c] \notin {"none", "backlog", "unstarted", "finished"}
  BY DEF Receives, Uses, AllocRecv, AllocRecvFails, CheckExit, UnlockMutexExit, Recv, RecvPart,
         RecvFails, BadFree, Return, LockMutex, WriteLine, WriteFails, Ioctl, IoctlReturnsError,
         NoComma, Position, LseekFails, CallocFails, ReadSend, ReadSendFails, Sigpipe, ReplyDone
<1>2. \/ thread' = thread
      \/ \E l \in {"alloc", "check", "recv", "lock", "request", "position", "read", "badfree",
                   "unlock", "ending", "finished"} : thread' = [thread EXCEPT ![c] = l]
  <2>1. CASE Receives(c)
    BY <2>1 DEF Receives, AllocRecv, AllocRecvFails, CheckExit, UnlockMutexExit, Recv, RecvPart,
                RecvAgain, RecvFails, BadFree, Return, EndThread
  <2>2. CASE Uses(c)
    BY <2>2 DEF Uses, LockMutex, WriteLine, WriteFails, Ioctl, IoctlReturnsError, IoctlError,
                NoComma, Position, LseekFails, CallocFails, ReadSend, ReadSendFails, Sigpipe,
                ReplyDone, EndThread
  <2> QED
    BY <2>1, <2>2
<1>3. \A d \in Conns :
        /\ thread'[d] \in {"none", "backlog"} <=> thread[d] \in {"none", "backlog"}
        /\ thread[d] \in {"finished", "unstarted"} => thread'[d] = thread[d]
  BY <1>1, <1>2 DEF SocketInv, TypeOK
<1> QED
  BY <1>1, <1>3, ListKept DEF Visiting

\* Outside the device a thread neither has the mutex nor changes the device.
LEMMA ReceiveMutex ==
  ASSUME SocketInv, NEW c \in Conns, Receives(c)
  PROVE  MutexSound' /\ MutexLabels' /\ UNCHANGED devVars
<1> USE DEF mainVars, listVars, threadVars, At, Goto, SetComplete
<1>1. /\ UNCHANGED devVars
      /\ thread[c] \notin InDevice
      /\ thread[c] \notin {"badfree", "ending"} => mutex # c
  BY DEF Receives, AllocRecv, AllocRecvFails, CheckExit, UnlockMutexExit, Recv, RecvPart,
         RecvFails, BadFree, Return, SocketInv, MutexLabels, InDevice
<1>2. \/ UNCHANGED <<thread, failure>>
      \/ /\ thread[c] \in {"badfree", "ending"}
         /\ thread' = [thread EXCEPT ![c] = "finished"] /\ failure' = failure
      \/ /\ thread[c] \notin {"badfree", "ending"}
         /\ \E l \in {"check", "recv", "lock", "badfree", "unlock", "ending"} :
              thread' = [thread EXCEPT ![c] = l]
         /\ failure' = failure \/ \E why : failure' = [failure EXCEPT ![c] = why]
  BY DEF Receives, AllocRecv, AllocRecvFails, CheckExit, UnlockMutexExit, Recv, RecvPart,
         RecvAgain, RecvFails, BadFree, Return, EndThread
<1>3. \A d \in Conns : d # c => thread'[d] = thread[d] /\ failure'[d] = failure[d]
  BY <1>2 DEF SocketInv, TypeOK
<1>4. thread'[c] \notin InDevice /\ (mutex = c => thread'[c] \in {"badfree", "ending", "finished"}
                                                /\ failure' = failure)
  BY <1>1, <1>2 DEF SocketInv, TypeOK, InDevice
<1>5. MutexSound' /\ MutexLabels'
  BY <1>1, <1>3, <1>4 DEF SocketInv, MutexSound, MutexLabels, InDevice, devVars
<1> QED
  BY <1>1, <1>5

\* A thread's step leaves the answers of the others alone, because it does not
\* change the device or because none of them is using it.
LEMMA OthersAnswering ==
  ASSUME SocketInv, NEW c \in Conns, NEW d \in Conns, d # c,
         thread'[d] = thread[d], request'[d] = request[d], reply'[d] = reply[d],
         ioctlCmdRecv'[d] = ioctlCmdRecv[d],
         UNCHANGED <<log, pos>> \/ thread[d] \notin InDevice
  PROVE  Answering(d)'
  BY DEF SocketInv, AnswerSound, Answering, InDevice, From

LEMMA ReceiveAnswer ==
  ASSUME SocketInv, NEW c \in Conns, Receives(c)
  PROVE  AnswerSound'
<1> USE DEF mainVars, listVars, threadVars, devVars, At, Goto, SetComplete
<1>1. /\ UNCHANGED <<log, pos, ioctlCmdRecv>>
      /\ thread' = thread \/ \E l \in Labels : thread' = [thread EXCEPT ![c] = l]
      /\ request' = request \/ \E r : request' = [request EXCEPT ![c] = r]
      /\ reply' = reply \/ \E r : reply' = [reply EXCEPT ![c] = r]
  BY DEF Receives, AllocRecv, AllocRecvFails, CheckExit, UnlockMutexExit, Recv, RecvPart,
         RecvAgain, RecvFails, BadFree, Return, EndThread, Labels
<1>2. ASSUME NEW d \in Conns, d # c PROVE Answering(d)'
  <2>1. /\ thread'[d] = thread[d] /\ request'[d] = request[d] /\ reply'[d] = reply[d]
        /\ ioctlCmdRecv'[d] = ioctlCmdRecv[d]
    BY <1>1, <1>2 DEF SocketInv, TypeOK
  <2> QED
    BY <1>1, <1>2, <2>1, OthersAnswering
<1>3. Answering(c)'
  <2>1. CASE thread'[c] \in {"badfree", "unlock", "ending", "finished"}
    BY <2>1 DEF Answering, InDevice
  <2>2. CASE AllocRecv(c)
    <3>1. thread'[c] = "check" /\ reply'[c] = << >>
      BY <2>2 DEF AllocRecv, SocketInv, TypeOK
    <3> QED
      BY <3>1 DEF Answering, InDevice
  <2>3. CASE Recv(c)
    <3>1. thread'[c] = "lock" /\ reply'[c] = << >>
      BY <2>3 DEF Recv, SocketInv, TypeOK, AnswerSound, Answering
    <3>2. request'[c] \in Requests
      BY <2>3 DEF Recv, SocketInv, TypeOK
    <3> QED
      BY <3>1, <3>2 DEF Answering, InDevice
  <2>4. CASE CheckExit(c) \/ RecvPart(c)
    <3>1. thread'[c] \in {"check", "recv", "unlock"} /\ reply'[c] = << >>
      BY <2>4 DEF CheckExit, RecvPart, RecvAgain, SocketInv, TypeOK, AnswerSound, Answering
    <3> QED
      BY <3>1 DEF Answering, InDevice
  <2>5. CASE AllocRecvFails(c) \/ UnlockMutexExit(c) \/ RecvFails(c) \/ BadFree(c) \/ Return(c)
    <3>1. thread'[c] \in {"badfree", "unlock", "ending", "finished"}
      BY <2>5 DEF AllocRecvFails, UnlockMutexExit, RecvFails, BadFree, Return, EndThread,
                  SocketInv, TypeOK
    <3> QED
      BY <2>1, <3>1
  <2> QED
    BY <2>2, <2>3, <2>4, <2>5 DEF Receives
<1> QED
  BY <1>2, <1>3 DEF AnswerSound

\* A thread that uses the device has the mutex, so that no other uses it; it
\* keeps the mutex, gives it back, or fails in one of the calls after which it
\* does not.
LEMMA UseMutex ==
  ASSUME SocketInv, NEW c \in Conns, Uses(c)
  PROVE  /\ MutexSound' /\ MutexLabels'
         /\ \A d \in Conns : d # c => thread[d] \notin InDevice
<1> USE DEF mainVars, listVars, threadVars, devVars, At, Goto, SetComplete
<1>1. IF thread[c] = "lock" THEN mutex = NULL ELSE mutex = c
  BY DEF Uses, LockMutex, WriteLine, WriteFails, Ioctl, IoctlReturnsError, NoComma, Position,
         LseekFails, CallocFails, ReadSend, ReadSendFails, Sigpipe, ReplyDone,
         MutexFree, SocketInv, MutexSound
<1>2. \A d \in Conns : d # c => thread[d] \notin InDevice
  BY <1>1, SocketAssumption DEF SocketInv, MutexSound, InDevice
<1> DEFINE
      Takes    == /\ thread[c] = "lock" /\ mutex' = c /\ failure' = failure
                  /\ thread' = [thread EXCEPT ![c] = "request"]
      Keeps    == /\ thread[c] \in InDevice /\ mutex' = mutex /\ failure' = failure
                  /\ thread' = thread \/ \E l \in InDevice : thread' = [thread EXCEPT ![c] = l]
      Abandons == /\ thread[c] \in InDevice /\ mutex' = mutex
                  /\ \E l \in {"badfree", "ending"} : thread' = [thread EXCEPT ![c] = l]
                  /\ \E why \in Abandoning : failure' = [failure EXCEPT ![c] = why]
      Releases == /\ thread[c] \in InDevice /\ mutex' = NULL
                  /\ \E l \in {"alloc", "badfree", "ending"} : thread' = [thread EXCEPT ![c] = l]
                  /\ failure' = failure \/ \E why : failure' = [failure EXCEPT ![c] = why]
<1>3. Takes \/ Keeps \/ Abandons \/ Releases
  <2>1. CASE LockMutex(c)
    BY <2>1 DEF LockMutex
  <2>2. CASE WriteLine(c) \/ Ioctl(c) \/ NoComma(c) \/ Position(c) \/ ReadSend(c) \/ Sigpipe(c)
    BY <2>2 DEF WriteLine, Ioctl, NoComma, Position, ReadSend, Sigpipe, InDevice
  <2>3. CASE WriteFails(c) \/ CallocFails(c) \/ ReadSendFails(c)
    BY <2>3 DEF WriteFails, CallocFails, ReadSendFails, EndThread, InDevice, Abandoning
  <2>4. CASE IoctlReturnsError(c) \/ LseekFails(c) \/ ReplyDone(c)
    BY <2>4 DEF IoctlReturnsError, IoctlError, LseekFails, ReplyDone, EndThread, CloseUnlock,
                InDevice
  <2> QED
    BY <2>1, <2>2, <2>3, <2>4 DEF Uses
<1>4. \A d \in Conns : d # c => thread'[d] = thread[d] /\ failure'[d] = failure[d]
  BY <1>3 DEF SocketInv, TypeOK
<1>5. /\ thread'[c] \in InDevice => mutex' = c
      /\ mutex' \in {c, NULL}
      /\ mutex' = c => \/ thread'[c] \in InDevice
                       \/ thread'[c] \in {"badfree", "ending"} /\ failure'[c] \in Abandoning
  <2>1. DOMAIN thread = Conns /\ DOMAIN failure = Conns /\ c # NULL
    BY SocketAssumption DEF SocketInv, TypeOK
  <2>2. thread[c] \in InDevice => mutex = c /\ thread[c] # "lock"
    BY <1>1 DEF InDevice
  <2>3. CASE Takes
    BY <2>1, <2>3 DEF InDevice
  <2>4. CASE Keeps
    BY <2>1, <2>2, <2>4
  <2>5. CASE Abandons
    BY <2>1, <2>2, <2>5 DEF InDevice
  <2>6. CASE Releases
    BY <2>1, <2>6 DEF InDevice
  <2> QED
    BY <1>3, <2>3, <2>4, <2>5, <2>6
<1> HIDE DEF Takes, Keeps, Abandons, Releases
<1>6. MutexSound'
  BY <1>2, <1>4, <1>5, SocketAssumption DEF MutexSound, InDevice
<1>7. MutexLabels'
  BY <1>4, <1>5, SocketAssumption DEF MutexLabels
<1> QED
  BY <1>2, <1>6, <1>7

\* One more line read and sent.
LEMMA SentOneMore ==
  ASSUME NEW list \in Seq(Nat), NEW n \in Nat, NEW k \in Nat, n <= k, k < Len(list)
  PROVE  Append(SubSeq(list, n + 1, k), list[k + 1]) = SubSeq(list, n + 1, k + 1)
<1>1. n + 1 \in 1..Len(list) /\ k + 1 \in (n + 1)..Len(list)
  OBVIOUS
<1>2. SubSeq(list, n + 1, k + 1) = SubSeq(list, n + 1, (k + 1) - 1) \o <<list[k + 1]>>
  BY <1>1, SubSeqRecursiveSecond
<1>3. (k + 1) - 1 = k
  OBVIOUS
<1>4. SubSeq(list, n + 1, k) \in Seq(Nat) /\ list[k + 1] \in Nat
  BY <1>1
<1>5. Append(SubSeq(list, n + 1, k), list[k + 1]) = SubSeq(list, n + 1, k) \o <<list[k + 1]>>
  BY <1>4, AppendIsConcat
<1> QED
  BY <1>2, <1>3, <1>5

LEMMA UseAnswer ==
  ASSUME SocketInv, NEW c \in Conns, Uses(c)
  PROVE  AnswerSound'
<1> USE DEF mainVars, listVars, threadVars, devVars, At, Goto, SetComplete
<1>0. Answering(c) /\ TypeOK
  BY DEF SocketInv, AnswerSound
<1>1. ASSUME NEW d \in Conns, d # c PROVE Answering(d)'
  <2>1. /\ request' = request
        /\ thread' = thread \/ \E l \in Labels : thread' = [thread EXCEPT ![c] = l]
        /\ reply' = reply \/ \E r : reply' = [reply EXCEPT ![c] = r]
        /\ ioctlCmdRecv' = ioctlCmdRecv \/ ioctlCmdRecv' = [ioctlCmdRecv EXCEPT ![c] = TRUE]
    BY DEF Uses, LockMutex, WriteLine, WriteFails, Ioctl, IoctlReturnsError, IoctlError, NoComma,
           Position, LseekFails, CallocFails, ReadSend, ReadSendFails, Sigpipe, ReplyDone,
           EndThread, Labels
  <2>2. /\ thread'[d] = thread[d] /\ request'[d] = request[d] /\ reply'[d] = reply[d]
        /\ ioctlCmdRecv'[d] = ioctlCmdRecv[d]
    BY <1>1, <2>1 DEF SocketInv, TypeOK
  <2> QED
    BY <1>1, <2>2, UseMutex, OthersAnswering
<1>2. CASE LockMutex(c)
  <2>1. /\ thread[c] = "lock" /\ thread'[c] = "request"
        /\ request' = request /\ reply' = reply
    BY <1>2 DEF LockMutex, SocketInv, TypeOK
  <2>2. Answering(c)'
    BY <1>0, <2>1 DEF Answering, InDevice
  <2> QED
    BY <1>1, <2>2 DEF AnswerSound
<1>3. CASE WriteLine(c)
  <2>1. /\ thread[c] = "request" /\ thread'[c] = "position" /\ pos' = 1
        /\ request' = request /\ reply' = reply
    BY <1>3 DEF WriteLine, SocketInv, TypeOK
  <2>2. request[c] \in Requests /\ request[c].kind = "line" /\ reply[c] = << >>
    BY <1>0, <1>3, <2>1 DEF WriteLine, Answering, InDevice
  <2>3. request[c].line \in Nat
    BY <2>2, RequestFields
  <2> DEFINE rest == IF Len(log) < Capacity THEN log ELSE Tail(log)
  <2>4. log' = Append(rest, request[c].line) /\ rest \in Seq(Nat)
    BY <1>3, SocketAssumption DEF WriteLine, SocketInv, TypeOK
  <2> HIDE DEF rest
  <2>5. log' # << >> /\ log'[Len(log')] = request[c].line
    BY <2>3, <2>4
  <2>6. Answering(c)'
    BY <2>1, <2>2, <2>5 DEF Answering, InDevice
  <2> QED
    BY <1>1, <2>6 DEF AnswerSound
<1>4. CASE Ioctl(c)
  <2>1. /\ thread[c] = "request" /\ thread'[c] = "position" /\ ioctlCmdRecv'[c]
        /\ pos' = request[c].cmd /\ request[c].kind = "seek"
        /\ request' = request /\ reply' = reply
    BY <1>4 DEF Ioctl, SocketInv, TypeOK
  <2>2. Answering(c)'
    BY <1>0, <2>1 DEF Answering, InDevice
  <2> QED
    BY <1>1, <2>2 DEF AnswerSound
<1>5. CASE Position(c)
  <2>1. /\ thread[c] = "position" /\ thread'[c] = "read" /\ pos' = Offset(c)
        /\ UNCHANGED <<request, reply, log, ioctlCmdRecv>>
    BY <1>5 DEF Position, SocketInv, TypeOK
  <2>2. pos' = From(c) /\ From(c)' = From(c) /\ request[c] \in Requests
    BY <1>0, <2>1 DEF Answering, Offset, From, InDevice
  <2>3. From(c) \in Nat
    BY <2>2, RequestFields DEF From
  <2>4. SubSeq(log, From(c) + 1, From(c)) = << >>
    BY <2>3, SubSeqEmpty
  <2>5. From(c)' <= pos' /\ reply'[c] = SubSeq(log', From(c)' + 1, pos')
    <3>1. reply'[c] = << >> /\ log' = log
      BY <1>0, <2>1 DEF Answering
    <3> QED
      BY <2>2, <2>3, <2>4, <3>1
  <2>6. Answering(c)'
    BY <1>0, <2>1, <2>2, <2>5 DEF Answering, InDevice
  <2> QED
    BY <1>1, <2>6 DEF AnswerSound
<1>6. CASE ReadSend(c)
  <2>1. /\ thread[c] = "read" /\ thread' = thread /\ pos < Len(log) /\ pos' = pos + 1
        /\ reply'[c] = Append(reply[c], log[pos + 1])
        /\ UNCHANGED <<request, log, ioctlCmdRecv>>
    BY <1>6 DEF ReadSend, SocketInv, TypeOK
  <2>2. request[c] \in Requests /\ From(c)' = From(c)
    BY <1>0, <2>1 DEF Answering, InDevice, From
  <2>3. From(c) \in Nat /\ From(c) <= pos /\ pos \in Nat /\ log \in Seq(Nat)
    BY <1>0, <2>1, <2>2, RequestFields DEF Answering, From, TypeOK
  <2>4. reply'[c] = SubSeq(log, From(c) + 1, pos + 1)
    BY <1>0, <2>1, <2>3, SentOneMore DEF Answering
  <2>5. Answering(c)'
    BY <1>0, <2>1, <2>2, <2>3, <2>4, SMTT(40) DEF Answering, InDevice
  <2> QED
    BY <1>1, <2>5 DEF AnswerSound
<1>7. CASE \/ WriteFails(c) \/ IoctlReturnsError(c) \/ LseekFails(c) \/ CallocFails(c)
           \/ ReadSendFails(c) \/ ReplyDone(c)
  <2>1. thread'[c] \in {"alloc", "badfree", "ending"}
    BY <1>7 DEF WriteFails, IoctlReturnsError, IoctlError, LseekFails, CallocFails,
                ReadSendFails, ReplyDone, EndThread, SocketInv, TypeOK
  <2>2. Answering(c)'
    BY <2>1 DEF Answering, InDevice
  <2> QED
    BY <1>1, <2>2 DEF AnswerSound
<1>8. CASE NoComma(c) \/ Sigpipe(c)
  <2>1. UNCHANGED <<thread, request, reply, ioctlCmdRecv, log, pos>>
    BY <1>8 DEF NoComma, Sigpipe
  <2>2. Answering(c)'
    BY <1>0, <2>1 DEF Answering, From
  <2> QED
    BY <1>1, <2>2 DEF AnswerSound
<1> QED
  BY <1>2, <1>3, <1>4, <1>5, <1>6, <1>7, <1>8 DEF Uses

-----------------------------------------------------------------------------
(* All steps, and the theorems.                                            *)

LEMMA NextInv == SocketInv /\ [Next]_vars => SocketInv'
<1> SUFFICES ASSUME SocketInv, [Next]_vars PROVE SocketInv'
  OBVIOUS
<1>1. CASE mainThread
  BY <1>1, MainInv
<1>2. CASE \/ \E signo \in {"SIGINT", "SIGTERM"} : signalHandler(signo)
           \/ \E c \in Conns : Connect(c) \/ SendRequest(c) \/ Close(c)
  BY <1>2, ClientInv
<1>3. ASSUME NEW c \in Conns, process(c) \/ LockMutex(c) \/ processFails(c)
      PROVE  SocketInv'
  <2>1. Receives(c) \/ Uses(c)
    BY <1>3, ProcessSteps
  <2>2. TypeOK'
    BY <2>1, ReceiveType, DeviceType DEF Receives, Uses
  <2>3. ListInv'
    BY <2>1, ProcessList
  <2>4. MutexSound' /\ MutexLabels'
    BY <2>1, ReceiveMutex, UseMutex
  <2>5. AnswerSound'
    BY <2>1, ReceiveAnswer, UseAnswer
  <2> QED
    BY <2>2, <2>3, <2>4, <2>5 DEF SocketInv, ListInv
<1>4. CASE UNCHANGED vars
  <2> USE <1>4 DEF vars, mainVars, listVars, threadVars, devVars, clientVars
  <2>1. TypeOK'
    BY DEF SocketInv, TypeOK
  <2>2. ListInv'
    BY ListKept
  <2>3. MutexSound' /\ MutexLabels' /\ AnswerSound'
    BY DeviceKept
  <2> QED
    BY <2>1, <2>2, <2>3 DEF SocketInv, ListInv
<1> QED
  BY <1>1, <1>2, <1>3, <1>4 DEF Next

\* The inductive invariant holds in every behaviour of the server.
THEOREM SocketCorrect == Spec => []SocketInv
  BY InitInv, NextInv, PTL DEF Spec

\* The state keeps its types, and the position of the device file never passes
\* the end of the device (aesdsocket.c:186-249): seek commands are checked
\* against a device that cannot shrink before the answer is read.
THEOREM TypeCorrect == Spec => []TypeOK
<1>1. SocketInv => TypeOK
  BY DEF SocketInv
<1> QED
  BY <1>1, SocketCorrect, PTL

\* The mutex excludes the threads from the device, and is left behind by the
\* failure of open(), write(), calloc(), read() or send() and by nothing else.
THEOREM MutexCorrect == Spec => []MutexSound
<1>1. SocketInv => MutexSound
  BY DEF SocketInv
<1> QED
  BY <1>1, SocketCorrect, PTL

\* SLIST_INSERT_HEAD and SLIST_REMOVE keep each thread that was started and is
\* not freed in the list exactly once (aesdsocket.c:436-472).
THEOREM ListCorrect == Spec => []ListSound
<1>1. SocketInv => ListSound
  BY DEF SocketInv
<1> QED
  BY <1>1, SocketCorrect, PTL

\* No thread runs on data that main has freed, and main visits no freed node
\* (aesdsocket.c:440-475).
THEOREM FreeCorrect == Spec => []NoUseAfterFree
<1>1. SocketInv => NoUseAfterFree
  BY DEF SocketInv
<1> QED
  BY <1>1, SocketCorrect, PTL

\* An answer is finished by the thread that sent it, and by no other step.
LEMMA FinishedByReplyDone ==
  ASSUME SocketInv, Next, NEW c \in Conns, thread[c] = "read", thread'[c] = "alloc"
  PROVE  ReplyDone(c)
<1> USE DEF mainVars, listVars, threadVars, At, Goto, SetComplete
<1>0. DOMAIN thread = Conns
  BY DEF SocketInv, TypeOK
<1>1. ASSUME mainThread PROVE FALSE
  BY <1>0, <1>1 DEF mainThread, Start, StartStep, Loop, AcceptNone, Accept, AcceptFails,
                    MallocFails, Sweep, LockExit, SetExit, UnlockExit, JoinAll, JoinCrashes
<1>2. ASSUME NEW signo \in {"SIGINT", "SIGTERM"}, signalHandler(signo) PROVE FALSE
  BY <1>2 DEF signalHandler
<1>3. ASSUME NEW d \in Conns, Connect(d) \/ SendRequest(d) \/ Close(d) PROVE FALSE
  BY <1>0, <1>3 DEF Connect, SendRequest, Close
<1>4. ASSUME NEW d \in Conns, process(d) \/ LockMutex(d) \/ processFails(d)
      PROVE  ReplyDone(c)
  <2>1. CASE Receives(d)
    BY <1>0, <2>1 DEF Receives, AllocRecv, AllocRecvFails, CheckExit, UnlockMutexExit, Recv,
                      RecvPart, RecvAgain, RecvFails, BadFree, Return, EndThread
  <2>2. CASE ReplyDone(d)
    BY <1>0, <2>2 DEF ReplyDone
  <2>3. CASE Uses(d) /\ ~ReplyDone(d)
    BY <1>0, <2>3 DEF Uses, LockMutex, WriteLine, WriteFails, Ioctl, IoctlReturnsError,
                      IoctlError, NoComma, Position, LseekFails, CallocFails, ReadSend,
                      ReadSendFails, Sigpipe, EndThread
  <2> QED
    BY <1>4, <2>1, <2>2, <2>3, ProcessSteps
<1> QED
  BY <1>1, <1>2, <1>3, <1>4 DEF Next

\* What a finished answer is.
LEMMA FinishedAnswer ==
  ASSUME SocketInv, NEW c \in Conns, ReplyDone(c)
  PROVE  AnswerRight(c)
<1>1. Answering(c) /\ thread[c] = "read" /\ pos = Len(log) /\ log \in Seq(Nat)
  BY DEF SocketInv, AnswerSound, TypeOK, ReplyDone, At
<1>2. /\ request[c] \in Requests /\ reply[c] = SubSeq(log, From(c) + 1, Len(log))
      /\ IF request[c].kind = "seek" THEN ioctlCmdRecv[c]
         ELSE log # << >> /\ log[Len(log)] = request[c].line
  BY <1>1 DEF Answering, InDevice
<1>3. CASE request[c].kind = "seek"
  BY <1>2, <1>3 DEF From, AnswerRight
<1>4. CASE request[c].kind # "seek" /\ ~ioctlCmdRecv[c]
  <2>1. reply[c] = SubSeq(log, 1, Len(log))
    BY <1>2, <1>4 DEF From
  <2> QED
    BY <1>1, <1>2, <1>4, <2>1, SubSeqFull DEF AnswerRight
<1>5. CASE request[c].kind # "seek" /\ ioctlCmdRecv[c]
  <2>1. reply[c] = SubSeq(log, 2, Len(log)) /\ log # << >>
    BY <1>2, <1>5 DEF From
  <2> QED
    BY <1>1, <1>5, <2>1, TailIsSubSeq DEF AnswerRight
<1> QED
  BY <1>3, <1>4, <1>5

\* Every answer that is sent to its end is the right one, for any interleaving
\* of the threads: all of the device for a line, from the line asked for after a
\* seek command (aesdsocket.c:151-249).
THEOREM AnswerCorrect == Spec => AnswerComplete
<1>1. SocketInv /\ [Next]_vars =>
        [\A c \in Conns : thread[c] = "read" /\ thread'[c] = "alloc" => AnswerRight(c)]_vars
  BY FinishedByReplyDone, FinishedAnswer
<1> QED
  BY <1>1, SocketCorrect, PTL DEF Spec, AnswerComplete
=============================================================================
