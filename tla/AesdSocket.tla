----------------------------- MODULE AesdSocket -----------------------------
(***************************************************************************)
(* The socket server (server/aesdsocket.c, built with                      *)
(* USE_AESD_CHAR_DEVICE): the main thread that accepts connections, reaps  *)
(* threads and shuts down, one thread per connection running process(),    *)
(* and their clients.                                                      *)
(*                                                                         *)
(* A request is what one run of the recv loop collects: a line to store or *)
(* a command "AESDCHAR_IOCSEEKTO:k,0".  The device is the log of lines it  *)
(* promises to keep; its positions count lines, and one read returns one   *)
(* line.  Under the mutex there is one step per group of calls that act on *)
(* the device, so that the model tells what would happen without it.       *)
(***************************************************************************)
EXTENDS Integers, Sequences

CONSTANTS
  Conns,        \* connections clients may make, each once
  SeekCmds,     \* values of k in the seek commands they send
  NULL,
  Capacity,     \* lines the device keeps
  Faults,       \* failures that may happen, named after the call that fails
  MaxFds,       \* descriptors the process can have for connections
  MaxRequests   \* bound: requests sent by all clients together

ASSUME SocketAssumption ==
  /\ NULL \notin Conns
  /\ Capacity \in Nat \ {0}
  /\ SeekCmds \subseteq Nat
  /\ MaxFds \in Nat /\ MaxRequests \in Nat

VARIABLES
  gracefullyExit,  \* set by signalHandler
  main,            \* where main is, or how the server process ended
  head,            \* the list of threads, newest first
  cursor,          \* the nodes a SLIST_FOREACH of main has still to visit
  thread,          \* where each connection's thread is
  complete,        \* threadData->complete
  exit,            \* threadData->exit
  mutexExit,       \* whether threadData->mutexExit is locked
  freed,           \* the connections whose node and threadData are freed
  request,         \* the request in recvBuffer
  ioctlCmdRecv,    \* whether the thread received a seek command, ever
  reply,           \* the lines sent in answer to the request
  mutex,           \* the thread holding the mutex, or NULL
  log,             \* the lines on the device
  pos,             \* the position of the device file in the global fd
  failure,         \* history: the call whose failure ended a thread
  inbox,           \* requests sent by a client and not yet received
  sent,            \* how many requests clients sent; lines are numbered by it
  closed           \* the clients that closed their end

listVars   == <<head, cursor, exit, mutexExit, freed>>
mainVars   == <<gracefullyExit, main, listVars>>
threadVars == <<thread, complete, request, ioctlCmdRecv, reply, failure>>
devVars    == <<mutex, log, pos>>
clientVars == <<inbox, sent, closed>>
vars       == <<mainVars, threadVars, devVars, clientVars>>

Requests == [kind : {"line"}, line : Nat] \cup [kind : {"seek"}, cmd : SeekCmds]

Init ==
  /\ gracefullyExit = FALSE
  /\ main = "socket"
  /\ head = << >>
  /\ cursor = << >>
  /\ thread = [c \in Conns |-> "none"]
  /\ complete = [c \in Conns |-> FALSE]
  /\ exit = [c \in Conns |-> FALSE]
  /\ mutexExit = [c \in Conns |-> FALSE]
  /\ freed = {}
  /\ request = [c \in Conns |-> NULL]
  /\ ioctlCmdRecv = [c \in Conns |-> FALSE]
  /\ reply = [c \in Conns |-> << >>]
  /\ mutex = NULL
  /\ log = << >>
  /\ pos = 0
  /\ failure = [c \in Conns |-> NULL]
  /\ inbox = [c \in Conns |-> << >>]
  /\ sent = 0
  /\ closed = {}

\* exit() in main, abort() and a fatal signal end all threads of the process.
Running == main \notin {"success", "failure", "killed"}

\* main before its loop.
Starting == main \in {"socket", "sigint", "sigterm", "listen"}

-----------------------------------------------------------------------------
(* Clients and signals.                                                    *)

\* A connection waits in the backlog of listen().
Connect(c) ==
  /\ Running /\ ~Starting
  /\ thread[c] = "none"
  /\ thread' = [thread EXCEPT ![c] = "backlog"]
  /\ UNCHANGED <<mainVars, complete, request, ioctlCmdRecv, reply, failure, devVars, clientVars>>

\* Lines that arrive together are one request to the recv loop, so that one is
\* waiting at a time.
SendRequest(c) ==
  /\ Running
  /\ thread[c] # "none" /\ c \notin closed /\ inbox[c] = << >>
  /\ sent < MaxRequests
  /\ sent' = sent + 1
  /\ \E r \in {[kind |-> "line", line |-> sent']} \cup [kind : {"seek"}, cmd : SeekCmds] :
       inbox' = [inbox EXCEPT ![c] = Append(@, r)]
  /\ UNCHANGED <<mainVars, threadVars, devVars, closed>>

\* A client closes its end; one that is not impatient waits for its answers.
Close(c) ==
  /\ Running
  /\ thread[c] # "none" /\ c \notin closed
  /\ \/ "impatient" \in Faults
     \/ inbox[c] = << >> /\ thread[c] \notin {"lock", "request", "position", "read"}
  /\ closed' = closed \cup {c}
  /\ UNCHANGED <<mainVars, threadVars, devVars, inbox, sent>>

\* main has called signal() for this signal.
Handles(signo) ==
  main \notin {"socket", "sigint"} /\ (signo = "SIGTERM" => main # "sigterm")

\* A signal that main handles, or one that comes too early and ends the process.
signalHandler(signo) ==
  /\ Running
  /\ IF Handles(signo) THEN gracefullyExit' = TRUE /\ main' = main
                       ELSE main' = "killed" /\ gracefullyExit' = gracefullyExit
  /\ UNCHANGED <<listVars, threadVars, devVars, clientVars>>

-----------------------------------------------------------------------------
(* process(): a thread serving one connection.                             *)

\* The process runs and its thread for c is at a label.
At(c, label) == Running /\ thread[c] = label

Goto(c, label) == thread' = [thread EXCEPT ![c] = label]

\* threadData->complete = true and what follows it.
SetComplete(c, label) ==
  /\ Goto(c, label)
  /\ complete' = [complete EXCEPT ![c] = TRUE]

\* freeBuffers() and the return of a thread whose call failed.  If recvBuffer was
\* moved past the command's name, free() gets a pointer malloc did not return.
EndThread(c, why) ==
  /\ failure' = [failure EXCEPT ![c] = why]
  /\ IF request[c] # NULL /\ request[c].kind = "seek"
     THEN Goto(c, "badfree") /\ complete' = complete
     ELSE SetComplete(c, "ending")

\* recvBuffer = calloc(...).
AllocRecv(c) ==
  /\ At(c, "alloc")
  /\ request' = [request EXCEPT ![c] = NULL]
  /\ reply' = [reply EXCEPT ![c] = << >>]
  /\ Goto(c, "check")
  /\ UNCHANGED <<mainVars, complete, ioctlCmdRecv, failure, devVars, clientVars>>

AllocRecvFails(c) ==
  /\ "calloc" \in Faults
  /\ At(c, "alloc")
  /\ SetComplete(c, "ending")
  /\ failure' = [failure EXCEPT ![c] = "alloc"]
  /\ UNCHANGED <<mainVars, request, ioctlCmdRecv, reply, devVars, clientVars>>

\* if(threadData->exit), at the top of the recv loop.
CheckExit(c) ==
  /\ At(c, "check")
  /\ IF exit[c] THEN SetComplete(c, "unlock")
                ELSE Goto(c, "recv") /\ complete' = complete
  /\ UNCHANGED <<mainVars, request, ioctlCmdRecv, reply, failure, devVars, clientVars>>

\* pthread_mutex_unlock(threadData->mutexExit), after complete is set: it
\* releases the mutex even if main has locked it, and does nothing to a free one.
UnlockMutexExit(c) ==
  /\ At(c, "unlock")
  /\ mutexExit' = [mutexExit EXCEPT ![c] = FALSE]
  /\ Goto(c, "ending")
  /\ UNCHANGED <<gracefullyExit, main, head, cursor, exit, freed, complete, request,
                 ioctlCmdRecv, reply, failure, devVars, clientVars>>

\* recv() and the test for a newline find a whole request.
Recv(c) ==
  /\ At(c, "recv")
  /\ inbox[c] # << >>
  /\ request' = [request EXCEPT ![c] = Head(inbox[c])]
  /\ inbox' = [inbox EXCEPT ![c] = Tail(@)]
  /\ Goto(c, "lock")
  /\ UNCHANGED <<mainVars, complete, ioctlCmdRecv, reply, failure, devVars, sent, closed>>

\* Mutant: the loop calls recv() again without looking at threadData->exit.
RecvPartAgain(c) == Goto(c, "recv")

\* No newline yet: the next turn of the loop.
RecvAgain(c) == Goto(c, "check")

\* recv() returns a part of the request, which has no newline yet, or, because the
\* client closed, 0, which it will again.
RecvPart(c) ==
  /\ At(c, "recv")
  /\ inbox[c] # << >> \/ c \in closed
  /\ RecvAgain(c)
  /\ UNCHANGED <<mainVars, complete, request, ioctlCmdRecv, reply, failure, devVars, clientVars>>

\* recv() or realloc() fails.
RecvFails(c) ==
  /\ "recv" \in Faults
  /\ At(c, "recv")
  /\ EndThread(c, "recv")
  /\ UNCHANGED <<mainVars, request, ioctlCmdRecv, reply, devVars, clientVars>>

\* Mutant: threads do not wait for each other.
MutexFreeAlways == TRUE

MutexFree == mutex = NULL

\* pthread_mutex_lock(&mutex)
LockMutex(c) ==
  /\ At(c, "lock")
  /\ MutexFree
  /\ mutex' = c
  /\ Goto(c, "request")
  /\ UNCHANGED <<mainVars, complete, request, ioctlCmdRecv, reply, failure, log, pos, clientVars>>

\* close(fd), which forgets the position, and pthread_mutex_unlock(&mutex).
CloseUnlock == mutex' = NULL /\ pos' = 0

\* fd = open(...) and write(): the device drops its oldest line when it is full,
\* and the new file is positioned after the length of what was written.
WriteLine(c) ==
  /\ At(c, "request") /\ request[c].kind = "line"
  /\ log' = Append(IF Len(log) < Capacity THEN log ELSE Tail(log), request[c].line)
  /\ pos' = 1
  /\ Goto(c, "position")
  /\ UNCHANGED <<mainVars, complete, request, ioctlCmdRecv, reply, failure, mutex, clientVars>>

\* open() or write() fails: the thread returns and keeps the mutex.
WriteFails(c) ==
  /\ "write" \in Faults
  /\ At(c, "request") /\ request[c].kind = "line"
  /\ EndThread(c, "write")
  /\ UNCHANGED <<mainVars, request, ioctlCmdRecv, reply, devVars, clientVars>>

\* Mutant: the driver does not check the number of the write.
CanSeekAnywhere(cmd) == TRUE

\* ioctl(AESDCHAR_IOCSEEKTO) accepts a write the device still has.
CanSeek(cmd) == cmd < Len(log)

Ioctl(c) ==
  /\ At(c, "request") /\ request[c].kind = "seek"
  /\ CanSeek(request[c].cmd)
  /\ ioctlCmdRecv' = [ioctlCmdRecv EXCEPT ![c] = TRUE]
  /\ pos' = request[c].cmd
  /\ Goto(c, "position")
  /\ UNCHANGED <<mainVars, complete, request, reply, failure, mutex, log, clientVars>>

\* Mutant: the failure of ioctl() is handled like that of write().
IoctlFailsLocked(c) == EndThread(c, "ioctl") /\ UNCHANGED <<mutex, pos>>

\* What the thread does when ioctl() fails.
IoctlError(c) == EndThread(c, "ioctl") /\ CloseUnlock

IoctlReturnsError(c) ==
  /\ At(c, "request") /\ request[c].kind = "seek"
  /\ ioctlCmdRecv' = [ioctlCmdRecv EXCEPT ![c] = TRUE]
  /\ IoctlError(c)
  /\ UNCHANGED <<mainVars, request, reply, log, clientVars>>

IoctlRefused(c) == IoctlReturnsError(c) /\ ~CanSeek(request[c].cmd)

IoctlFails(c) == IoctlReturnsError(c) /\ "ioctl" \in Faults

\* A command with no comma: strchr() returns NULL and atoi() is called on it.
NoComma(c) ==
  /\ "nocomma" \in Faults
  /\ At(c, "request") /\ request[c].kind = "seek"
  /\ main' = "killed"
  /\ UNCHANGED <<gracefullyExit, listVars, threadVars, devVars, clientVars>>

\* The offset replies start at: ioctlCmdRecv is never reset.
Offset(c) == IF ioctlCmdRecv[c] THEN pos ELSE 0

\* The three calls of lseek() and the allocation of sendBuffer.
Position(c) ==
  /\ At(c, "position")
  /\ pos' = Offset(c)
  /\ Goto(c, "read")
  /\ UNCHANGED <<mainVars, complete, request, ioctlCmdRecv, reply, failure, mutex, log, clientVars>>

\* lseek(fd, 0, SEEK_END) fails.
LseekFails(c) ==
  /\ "lseek" \in Faults
  /\ At(c, "position")
  /\ EndThread(c, "lseek")
  /\ CloseUnlock
  /\ UNCHANGED <<mainVars, request, ioctlCmdRecv, reply, log, clientVars>>

\* sendBuffer = calloc(...) fails: the thread returns and keeps the mutex.
CallocFails(c) ==
  /\ "calloc" \in Faults
  /\ At(c, "position")
  /\ EndThread(c, "calloc")
  /\ UNCHANGED <<mainVars, request, ioctlCmdRecv, reply, devVars, clientVars>>

\* One turn of the read and send loop.
ReadSend(c) ==
  /\ At(c, "read")
  /\ pos < Len(log)
  /\ reply' = [reply EXCEPT ![c] = Append(@, log[pos + 1])]
  /\ pos' = pos + 1
  /\ UNCHANGED <<mainVars, thread, complete, request, ioctlCmdRecv, failure, mutex, log, clientVars>>

\* read() or send() fails: the thread returns and keeps the mutex.
ReadSendFails(c) ==
  /\ At(c, "read")
  /\ \/ "read" \in Faults /\ EndThread(c, "read")
     \/ "send" \in Faults /\ pos < Len(log) /\ EndThread(c, "send")
  /\ UNCHANGED <<mainVars, request, ioctlCmdRecv, reply, devVars, clientVars>>

\* send() on a connection the client has left raises SIGPIPE.
Sigpipe(c) ==
  /\ At(c, "read")
  /\ pos < Len(log) /\ c \in closed
  /\ main' = "killed"
  /\ UNCHANGED <<gracefullyExit, listVars, threadVars, devVars, clientVars>>

\* read() returns 0, the file is closed and the mutex released.
ReplyDone(c) ==
  /\ At(c, "read")
  /\ pos >= Len(log)
  /\ CloseUnlock
  /\ Goto(c, "alloc")
  /\ UNCHANGED <<mainVars, complete, request, ioctlCmdRecv, reply, failure, log, clientVars>>

\* free() detects the invalid pointer and aborts the process.
BadFree(c) ==
  /\ At(c, "badfree")
  /\ main' = "killed"
  /\ UNCHANGED <<gracefullyExit, listVars, threadVars, devVars, clientVars>>

\* The end of the thread, after its last use of threadData.
Return(c) ==
  /\ At(c, "ending")
  /\ Goto(c, "finished")
  /\ UNCHANGED <<mainVars, complete, request, ioctlCmdRecv, reply, failure, devVars, clientVars>>

process(c) ==
  \/ AllocRecv(c) \/ CheckExit(c) \/ Recv(c) \/ RecvPart(c)
  \/ WriteLine(c) \/ Ioctl(c) \/ IoctlRefused(c) \/ Position(c)
  \/ ReadSend(c) \/ ReplyDone(c)
  \/ BadFree(c) \/ UnlockMutexExit(c) \/ Return(c)

\* The calls of process() that may fail, and the signals they may raise.
processFails(c) ==
  \/ AllocRecvFails(c) \/ RecvFails(c) \/ WriteFails(c) \/ IoctlFails(c) \/ NoComma(c)
  \/ LseekFails(c) \/ CallocFails(c) \/ ReadSendFails(c) \/ Sigpipe(c)

-----------------------------------------------------------------------------
(* main().                                                                 *)

\* A step of the start-up, which goes on or gives up with cleanup() and exit().
StartStep(label, next, call) ==
  /\ main = label
  /\ main' = next \/ (call \in Faults /\ main' = "failure")
  /\ UNCHANGED <<gracefullyExit, listVars, threadVars, devVars, clientVars>>

\* socket(), setsockopt(), bind() and, with -d, daemon(), whose failure is only
\* logged; the two calls of signal(); listen().
Start ==
  \/ StartStep("socket", "sigint", "socket")
  \/ StartStep("sigint", "sigterm", "signal")
  \/ StartStep("sigterm", "listen", "signal")
  \/ StartStep("listen", "loop", "listen")

\* while(!gracefullyExit)
Loop ==
  /\ main = "loop"
  /\ IF gracefullyExit THEN main' = "lockexit" /\ cursor' = head
                       ELSE main' = "accept" /\ cursor' = cursor
  /\ UNCHANGED <<gracefullyExit, head, exit, mutexExit, freed, threadVars, devVars,
                 clientVars>>

\* accept() takes a descriptor before it looks for a connection; a thread's is
\* given back when main reaps the thread.
DescriptorLeft == Len(head) < MaxFds

\* accept() returns -1 with EAGAIN.
AcceptNone ==
  /\ main = "accept"
  /\ DescriptorLeft
  /\ \A c \in Conns : thread[c] # "backlog"
  /\ main' = "loop"
  /\ UNCHANGED <<gracefullyExit, listVars, threadVars, devVars, clientVars>>

\* A connection is accepted, put at the head of the list and given a thread.
\* Nothing looks at what pthread_create() returns.
Accept(c) ==
  /\ main = "accept"
  /\ thread[c] = "backlog"
  /\ DescriptorLeft
  /\ head' = <<c>> \o head
  /\ cursor' = head'
  /\ Goto(c, "alloc") \/ ("create" \in Faults /\ Goto(c, "unstarted"))
  /\ main' = "sweep"
  /\ UNCHANGED <<gracefullyExit, exit, mutexExit, freed, complete, request, ioctlCmdRecv,
                 reply, failure, devVars, clientVars>>

\* accept() or inet_ntop() fails: cleanup and exit.
AcceptFails ==
  /\ main = "accept"
  /\ ~DescriptorLeft \/ "accept" \in Faults
  /\ main' = "failure"
  /\ UNCHANGED <<gracefullyExit, listVars, threadVars, devVars, clientVars>>

\* A malloc() for an accepted connection returns NULL, which nothing looks at.
MallocFails ==
  /\ "malloc" \in Faults
  /\ main = "accept"
  /\ DescriptorLeft /\ \E c \in Conns : thread[c] = "backlog"
  /\ main' = "killed"
  /\ UNCHANGED <<gracefullyExit, listVars, threadVars, devVars, clientVars>>

\* Mutant: the thread is not waited for.
JoinNoWait(c) == TRUE

\* pthread_join() returns once the thread has.  If there is no thread it gets an
\* uninitialised pthread_t and returns an error, or crashes (JoinCrashes).
Join(c) == thread[c] \in {"finished", "unstarted"}

\* Mutant: the node is freed and stays in the list.
UnlinkNothing(list, c) == list

\* SLIST_REMOVE: the list is walked up to the node, which must be in it.
Unlink(list, c) ==
  LET i == CHOOSE i \in DOMAIN list : list[i] = c
  IN  SubSeq(list, 1, i - 1) \o SubSeq(list, i + 1, Len(list))

\* Join a thread, close its connection, remove its node and free it.
Reap(c) ==
  /\ Join(c)
  /\ head' = Unlink(head, c)
  /\ freed' = freed \cup {c}

\* Advance a SLIST_FOREACH, or leave it for the label that comes next.
Visit(label, next) ==
  /\ main = label
  /\ IF cursor = << >> THEN main' = next /\ cursor' = cursor
                       ELSE main' = main /\ cursor' = Tail(cursor)

\* Mutant: main joins every thread of the list.
ReapableAlways(c) == TRUE

Reapable(c) == complete[c]

\* The loop over the list after an accept: completed threads are reaped.
Sweep ==
  /\ Visit("sweep", "loop")
  /\ IF cursor # << >> /\ Reapable(Head(cursor))
     THEN Reap(Head(cursor))
     ELSE UNCHANGED <<head, freed>>
  /\ UNCHANGED <<gracefullyExit, exit, mutexExit, threadVars, devVars, clientVars>>

\* The first loop of the shutdown tells every thread to exit, under its mutexExit.
LockExit ==
  /\ main = "lockexit"
  /\ IF cursor = << >>
     THEN main' = "join" /\ cursor' = head /\ mutexExit' = mutexExit
     ELSE /\ ~mutexExit[Head(cursor)]
          /\ mutexExit' = [mutexExit EXCEPT ![Head(cursor)] = TRUE]
          /\ main' = "setexit" /\ cursor' = cursor
  /\ UNCHANGED <<gracefullyExit, head, exit, freed, threadVars, devVars, clientVars>>

SetExit ==
  /\ main = "setexit" /\ main' = "unlockexit"
  /\ exit' = [exit EXCEPT ![Head(cursor)] = TRUE]
  /\ UNCHANGED <<gracefullyExit, head, cursor, mutexExit, freed, threadVars, devVars,
                 clientVars>>

UnlockExit ==
  /\ main = "unlockexit" /\ main' = "lockexit"
  /\ mutexExit' = [mutexExit EXCEPT ![Head(cursor)] = FALSE]
  /\ cursor' = Tail(cursor)
  /\ UNCHANGED <<gracefullyExit, head, exit, freed, threadVars, devVars, clientVars>>

\* The second loop, cleanup() and exit(EXIT_SUCCESS).
JoinAll ==
  /\ Visit("join", "success")
  /\ IF cursor # << >> THEN Reap(Head(cursor)) ELSE UNCHANGED <<head, freed>>
  /\ UNCHANGED <<gracefullyExit, exit, mutexExit, threadVars, devVars, clientVars>>

\* pthread_join() on an uninitialised pthread_t.
JoinCrashes ==
  /\ main = "join" /\ cursor # << >> /\ thread[Head(cursor)] = "unstarted"
  /\ main' = "killed"
  /\ UNCHANGED <<gracefullyExit, listVars, threadVars, devVars, clientVars>>

mainThread ==
  \/ Start \/ Loop \/ AcceptNone \/ \E c \in Conns : Accept(c)
  \/ AcceptFails \/ MallocFails \/ Sweep \/ LockExit \/ SetExit \/ UnlockExit \/ JoinAll \/ JoinCrashes

Next ==
  \/ mainThread
  \/ \E signo \in {"SIGINT", "SIGTERM"} : signalHandler(signo)
  \/ \E c \in Conns : process(c) \/ LockMutex(c) \/ processFails(c)
  \/ \E c \in Conns : Connect(c) \/ SendRequest(c) \/ Close(c)

Spec == Init /\ [][Next]_vars

\* Threads run, and the mutex is not denied for ever to a thread that waits
\* while others take it in turn.  No call is bound to fail.
ThreadFairness ==
  /\ WF_vars(mainThread)
  /\ \A c \in Conns : WF_vars(process(c)) /\ SF_vars(LockMutex(c))

FairSpec == Spec /\ ThreadFairness

\* Clients also leave in the end.
LeavingSpec == FairSpec /\ \A c \in Conns : WF_vars(Close(c))

-----------------------------------------------------------------------------
(* Properties.                                                             *)

Labels == {"none", "backlog", "unstarted", "alloc", "check", "recv", "lock", "request",
           "position", "read", "badfree", "unlock", "ending", "finished"}

FailingCalls == {"alloc", "recv", "write", "ioctl", "lseek", "calloc", "read", "send"}

\* The position of the device file never passes the end of the device: no
\* answer starts beyond what the device holds.
TypeOK ==
  /\ gracefullyExit \in BOOLEAN
  /\ main \in {"socket", "sigint", "sigterm", "listen", "loop", "accept", "sweep",
               "lockexit", "setexit", "unlockexit", "join",
               "success", "failure", "killed"}
  /\ head \in Seq(Conns) /\ cursor \in Seq(Conns)
  /\ thread \in [Conns -> Labels]
  /\ complete \in [Conns -> BOOLEAN] /\ exit \in [Conns -> BOOLEAN]
  /\ mutexExit \in [Conns -> BOOLEAN]
  /\ freed \subseteq Conns
  /\ request \in [Conns -> Requests \cup {NULL}]
  /\ ioctlCmdRecv \in [Conns -> BOOLEAN]
  /\ reply \in [Conns -> Seq(Nat)]
  /\ mutex \in Conns \cup {NULL}
  /\ log \in Seq(Nat) /\ Len(log) <= Capacity
  /\ pos \in 0..Len(log)
  /\ failure \in [Conns -> FailingCalls \cup {NULL}]
  /\ inbox \in [Conns -> Seq(Requests)] /\ sent \in 0..MaxRequests
  /\ closed \subseteq Conns

\* The calls whose failure makes process() return without unlocking the mutex
\* (aesdsocket.c:178-184, 212-218, 224-230, 239-245).
Abandoning == {"write", "calloc", "read", "send"}

\* The mutex is held by the thread that is using the device.  The one way to
\* leave it behind is the failure of one of four calls; a seek command that
\* the device refuses, a failed lseek() and a failed recv() do release it.
MutexSound ==
  \A c \in Conns :
    /\ thread[c] \in {"request", "position", "read"} => mutex = c
    /\ mutex = c => \/ thread[c] \in {"request", "position", "read"}
                    \/ failure[c] \in Abandoning

\* The list holds each thread that was started and is not freed, once.
ListSound ==
  /\ \A i, j \in DOMAIN head : i # j => head[i] # head[j]
  /\ \A c \in Conns :
       (\E i \in DOMAIN head : head[i] = c)
         <=> thread[c] \notin {"none", "backlog"} /\ c \notin freed

\* main is in one of its loops over the list.
Visiting == main \in {"sweep", "lockexit", "setexit", "unlockexit", "join"}

\* main frees a thread's data only when the thread has ended, although the
\* thread sets complete, which invites main to free it, before its last steps,
\* and unlocks the mutexExit in that data after main had reason to free it.  Nor
\* does main use what it freed: its loops have no freed node still to visit.
NoUseAfterFree ==
  /\ \A c \in freed : thread[c] \in {"finished", "unstarted"}
  /\ Visiting => \A i \in DOMAIN cursor : cursor[i] \notin freed

\* What a thread has sent is all the device holds, ending with the line it has
\* stored, if it has never received a seek command; all but the first line
\* if it has; and, if the request is a seek command, what starts at the line
\* asked for.
AnswerRight(c) ==
  CASE request[c].kind = "seek" -> reply[c] = SubSeq(log, request[c].cmd + 1, Len(log))
    [] ~ioctlCmdRecv[c] -> reply[c] = log /\ log[Len(log)] = request[c].line
    [] OTHER -> reply[c] = Tail(log)

\* Whatever the other threads do meanwhile, an answer that ends is the right one.
AnswerComplete ==
  [][\A c \in Conns : thread[c] = "read" /\ thread'[c] = "alloc" => AnswerRight(c)]_vars

\* A signal ends the server.
ExitsAfterSignal == gracefullyExit ~> ~Running

OutOfDescriptors == main = "failure" /\ Len(head) = MaxFds

\* If threads fail in nothing but recv(), a signal that main handles ends the
\* server in good order (all threads joined, all nodes freed, no device
\* operation cut short), unless the descriptors run out first.
GracefulExit ==
  gracefullyExit /\ Running /\ ~Starting ~>
    \/ main = "success" /\ head = << >> /\ mutex = NULL
    \/ OutOfDescriptors

\* Every connection gets its thread before the server is told to exit or has no
\* descriptor left: main never waits in its sweep for a thread that is serving.
ConnectionAccepted ==
  \A c \in Conns :
    thread[c] = "backlog" ~> thread[c] # "backlog" \/ gracefullyExit \/ OutOfDescriptors
=============================================================================
