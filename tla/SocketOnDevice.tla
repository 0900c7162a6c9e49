--------------------------- MODULE SocketOnDevice ---------------------------
(***************************************************************************)
(* The server's threads (server/aesdsocket.c:151-249) calling the driver   *)
(* of AesdChar.  AesdSocket has the whole of process() and a device of     *)
(* lines; here the device is the driver itself, with its lock, its ring    *)
(* and its positions in bytes, lines have different lengths, and other     *)
(* processes write to the device behind the server's back.                 *)
(***************************************************************************)
EXTENDS AesdChar

CONSTANTS
  Threads,     \* the server's threads; the other processes are not the server's
  UserFiles,   \* the files the others use
  Lines,       \* the lines that clients send
  Seeks        \* the [cmd, offset] of the seek commands they send

ASSUME ServerAssumption ==
  /\ Threads \subseteq Procs /\ UserFiles \subseteq Files
  /\ Lines \subseteq Seq(Byte)
  /\ Seeks \subseteq [cmd : Nat, offset : Nat]
  /\ [type |-> AESD_IOC_MAGIC, nr |-> 1] \in Cmds

VARIABLES
  at,              \* where each thread is in process()
  request,         \* the request in recvBuffer
  ioctlCmdRecv,    \* whether the thread received a seek command, ever
  offset,          \* where the answer starts
  bytesProcessed,  \* the length of the device, as lseek() returned it
  reply,           \* the bytes sent in answer to the request
  mutex,           \* the thread holding the server's mutex, or NULL
  fd,              \* the global file descriptor, or NULL
  disturbed,       \* history: another process wrote since the mutex was taken
  seen             \* history: how far into the stream of bytes the answer is

local == <<request, ioctlCmdRecv, offset, bytesProcessed, reply>>
server == <<at, local, mutex, fd, disturbed, seen>>

ServerInit ==
  /\ Init
  /\ at = [t \in Threads |-> "recv"]
  /\ request = [t \in Threads |-> NULL]
  /\ ioctlCmdRecv = [t \in Threads |-> FALSE]
  /\ offset = [t \in Threads |-> 0]
  /\ bytesProcessed = [t \in Threads |-> 0]
  /\ reply = [t \in Threads |-> << >>]
  /\ mutex = NULL
  /\ fd = NULL
  /\ disturbed = FALSE
  /\ seen = 0

Requests == [line : Lines] \cup Seeks

IsSeek(r) == r \in Seeks

-----------------------------------------------------------------------------
(* process(), from the lock to the unlock.                                 *)

Goto(t, label) == at' = [at EXCEPT ![t] = label]

\* Mutant: threads do not wait for each other.
MutexFreeAlways == TRUE

MutexFree == mutex = NULL

\* A request has come: pthread_mutex_lock(&mutex) and fd = open(kSocketData).
LockAndOpen(t) ==
  /\ at[t] = "recv"
  /\ MutexFree
  /\ mutex' = t
  /\ \E r \in Requests :
       /\ ~IsSeek(r) => Len(accepted) + Len(r.line) <= MaxBytes
       /\ request' = [request EXCEPT ![t] = r]
  /\ Files \ (opened \cup UserFiles) # {}
  /\ fd' = CHOOSE f \in Files : f \notin opened \cup UserFiles
  /\ aesd_open(fd')
  /\ Goto(t, "request")
  /\ UNCHANGED <<ioctlCmdRecv, offset, bytesProcessed, reply, disturbed, seen>>

\* The call of the driver that comes next.
NextCall(t) ==
  LET r == request[t]
  IN  CASE at[t] = "request" /\ IsSeek(r) ->
             NewCall("ioctl", fd, "ok", [type |-> AESD_IOC_MAGIC, nr |-> 1],
                     r.cmd, r.offset, << >>)
        [] at[t] = "request" /\ ~IsSeek(r) ->
             NewCall("write", fd, "ok", NULL, 0, 0, r.line)
        [] at[t] = "cur"     -> NewCall("llseek", fd, "ok", NULL, 0, SEEK_CUR, << >>)
        [] at[t] = "end"     -> NewCall("llseek", fd, "ok", NULL, 0, SEEK_END, << >>)
        [] at[t] = "set"     -> NewCall("llseek", fd, "ok", NULL, offset[t], SEEK_SET, << >>)
        [] at[t] = "read"    -> NewCall("read", fd, "ok", NULL, bytesProcessed[t], 0, << >>)

CallDriver(t) ==
  /\ at[t] \in {"request", "cur", "end", "set", "read"}
  /\ Invoke(t, NextCall(t))
  /\ UNCHANGED server

\* ioctl() or write() returns.  A failed write() ends the thread with the
\* mutex held; a failed ioctl() leads to CloseAndUnlock.
Requested(t, ret) ==
  /\ at[t] = "request"
  /\ LET seek == IsSeek(request[t])
     IN  /\ ioctlCmdRecv' = [ioctlCmdRecv EXCEPT ![t] = @ \/ seek]
         /\ Goto(t, CASE ret < 0 /\ seek               -> "refused"
                      [] ret < 0 /\ ~seek              -> "ended"
                      [] ret >= 0 /\ ioctlCmdRecv'[t]  -> "cur"
                      [] OTHER                         -> "end")
         /\ offset' = [offset EXCEPT ![t] = 0]
  /\ UNCHANGED <<request, bytesProcessed, reply>>

\* The three calls of lseek(), of which only the second is checked.
Positioned(t, ret) ==
  /\ \/ /\ at[t] = "cur" /\ Goto(t, "end")
        /\ offset' = [offset EXCEPT ![t] = ret]
        /\ UNCHANGED bytesProcessed
     \/ /\ at[t] = "end" /\ Goto(t, IF ret < 0 THEN "refused" ELSE "set")
        /\ bytesProcessed' = [bytesProcessed EXCEPT ![t] = ret]
        /\ UNCHANGED offset
     \/ /\ at[t] = "set" /\ Goto(t, "read")
        /\ UNCHANGED <<offset, bytesProcessed>>
  /\ UNCHANGED <<request, ioctlCmdRecv, reply>>

\* read() returns, and what it read is sent; 0 is the end of the answer.
ReadReturned(t, ret) ==
  /\ at[t] = "read"
  /\ Goto(t, IF ret = 0 THEN "close" ELSE "read")
  /\ reply' = [reply EXCEPT ![t] = @ \o result[t].data]
  /\ UNCHANGED <<request, ioctlCmdRecv, offset, bytesProcessed>>

DriverReturns(t) ==
  /\ Return(t)
  /\ LET ret == result[t].ret
     IN  \/ Requested(t, ret) \/ Positioned(t, ret) \/ ReadReturned(t, ret)
         \/ at[t] = "ended" /\ UNCHANGED <<at, local>>
  /\ UNCHANGED <<mutex, fd, disturbed, seen>>

\* close(fd); pthread_mutex_unlock(&mutex), after an answer or a failure.  The
\* thread that failed ends, by way of free() if a seek command moved recvBuffer;
\* the next turn of the loop overwrites all locals but ioctlCmdRecv before it uses them,
\* so that their values are forgotten here.
CloseAndUnlock(t) ==
  /\ at[t] \in {"close", "refused"}
  /\ aesd_release(fd)
  /\ mutex' = NULL
  /\ Goto(t, CASE at[t] = "close"                          -> "recv"
               [] at[t] = "refused" /\ IsSeek(request[t]) -> "free"
               [] OTHER                                   -> "ended")
  /\ request' = [request EXCEPT ![t] = NULL]
  /\ offset' = [offset EXCEPT ![t] = 0]
  /\ bytesProcessed' = [bytesProcessed EXCEPT ![t] = 0]
  /\ reply' = [reply EXCEPT ![t] = << >>]
  /\ disturbed' = FALSE
  /\ seen' = 0
  /\ UNCHANGED <<ioctlCmdRecv, fd>>

\* free() gets a pointer malloc did not return and aborts the server, with all its
\* threads; one that is inside the driver leaves it first.
Abort(t) ==
  /\ at[t] = "free"
  /\ at' = [u \in Threads |-> "ended"]
  /\ UNCHANGED <<vars, local, mutex, fd, disturbed, seen>>

-----------------------------------------------------------------------------
(* The driver and the other processes.                                     *)

\* The number of accepted bytes that the device has forgotten.
Forgotten == Len(accepted) - Len(Contents(buffer)) - Len(Pending)

\* A handler of the driver runs; the history variables follow it.  (Reject has
\* no part: the server passes its own buffers, the command the driver knows, and
\* at least a newline.)
DriverRuns(p) ==
  /\ aesd_read(p) \/ aesd_write(p) \/ aesd_llseek(p) \/ aesd_ioctl(p)
  /\ disturbed' = (mutex # NULL /\ (disturbed \/ (p \notin Threads /\ accepted' # accepted)))
  /\ seen' = IF p \in Threads /\ Inside(p, "read")
             THEN Forgotten + result[p].pos + result'[p].ret ELSE seen
  /\ UNCHANGED <<at, local, mutex, fd>>

DriverLock(p) == Lock(p) /\ UNCHANGED server

\* Another process opens the device, writes to it, and its call returns.
OtherProcess ==
  /\ \/ aesd_init_module
     \/ \E f \in UserFiles : aesd_open(f)
     \/ \E u \in Procs \ Threads :
          \/ \E f \in UserFiles, d \in Chunks :
               /\ Len(accepted) + Len(d) <= MaxBytes
               /\ Invoke(u, NewCall("write", f, "ok", NULL, 0, 0, d))
          \/ Return(u)
  /\ UNCHANGED server

ServerNext ==
  \/ OtherProcess
  \/ \E p \in Procs : DriverLock(p) \/ DriverRuns(p)
  \/ \E t \in Threads :
       \/ LockAndOpen(t) \/ CallDriver(t) \/ DriverReturns(t)
       \/ CloseAndUnlock(t) \/ Abort(t)

serverVars == <<vars, server>>

\* What a thread, or another process, does without waiting for anyone.
Proceeds(p) ==
  \/ DriverRuns(p)
  \/ p \in Threads /\ (CallDriver(p) \/ DriverReturns(p) \/ CloseAndUnlock(p) \/ Abort(p))
  \/ p \notin Threads /\ Return(p) /\ UNCHANGED server

\* Threads and processes inside a call run, send() returns, and the driver's
\* lock is handed to its waiters in turn.
ServerFairness ==
  \A p \in Procs : WF_serverVars(Proceeds(p)) /\ SF_serverVars(DriverLock(p))

ServerSpec == ServerInit /\ [][ServerNext]_serverVars /\ ServerFairness

-----------------------------------------------------------------------------
(* Properties.                                                             *)

\* An answer that no other process disturbed is what the device holds: from
\* its first byte, with the client's line at its end; from behind as many bytes
\* as the newest entry has, if the connection sent a seek command earlier; from
\* the byte it asked for, if the request is a seek command and the ring has not
\* wrapped.  Only if SEEK_END happens to return 0 is the answer empty.
AnswerIsDevice ==
  [][\A t \in Threads :
       at[t] = "close" /\ at'[t] = "recv" /\ ~disturbed =>
         LET all    == Contents(buffer)
             newest == totalEntries(buffer) - 1
             From(k) == SubSeq(all, k + 1, Len(all))
             r      == request[t]
         IN  CASE bytesProcessed[t] = 0 -> reply[t] = << >>
               [] bytesProcessed[t] # 0 /\ IsSeek(r) ->
                    /\ reply[t] # << >> /\ IsSuffix(reply[t], all)
                    /\ buffer.out_offs = 0 =>
                         reply[t] = From(PositionOf(buffer, r.cmd, r.offset))
               [] OTHER ->
                    /\ IsSuffix(r.line, all)
                    /\ reply[t] = From(IF ioctlCmdRecv[t]
                                       THEN buffer.entry[SlotOf(buffer, newest)].size
                                       ELSE 0)]_serverVars

\* Whatever other processes write meanwhile, and whatever the ring evicts
\* between two calls of read(), an answer never goes back in the stream of
\* bytes: it may miss some, but repeats none and swaps none.
AnswerInOrder ==
  [][\A t \in Threads :
       Inside(t, "read") /\ pc'[t] = "exit" => Forgotten + result[t].pos >= seen]_serverVars

\* The server's mutex makes up for positions that the kernel does not
\* serialise: only the thread that holds it is in a call of the driver, on the
\* file that fd names, and with the position that file really has.
FdPrivate ==
  \A t \in Threads :
    pc[t] # "idle" =>
      /\ mutex = t /\ call[t].file = fd
      /\ pc[t] \in {"entry", "locked"} => result[t].pos = f_pos[fd]

\* If clients take their answers (send() does not block for ever), every request
\* that took the mutex is answered or refused, and every call of another process
\* returns, however they compete for the driver's lock.
RequestEnds ==
  /\ \A t \in Threads : at[t] = "request" ~> at[t] \in {"recv", "ended"}
  /\ \A u \in Procs \ Threads : pc[u] = "entry" ~> pc[u] = "idle"
=============================================================================
