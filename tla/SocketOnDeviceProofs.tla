------------------------ MODULE SocketOnDeviceProofs ------------------------
(***************************************************************************)
(* Proofs about the server's threads on the real driver, for any number of *)
(* threads, other processes, files and requests.                           *)
(***************************************************************************)
EXTENDS SocketOnDevice, AesdCharProofs

-----------------------------------------------------------------------------
(* Who uses which file.                                                    *)

Calling == {"request", "cur", "end", "set", "read"}
Labels == Calling \cup {"recv", "close", "refused", "free", "ended"}

\* The shapes that the argument about files needs.
Shapes ==
  /\ pc \in [Procs -> {"idle", "entry", "locked", "exit"}]
  /\ DOMAIN call = Procs /\ DOMAIN result = Procs /\ DOMAIN f_pos = Files
  /\ at \in [Threads -> Labels]

\* A thread between open() and close() holds the mutex and fd names a file it
\* opened and no other process uses.
HoldsFd ==
  \A t \in Threads :
    at[t] \in Calling \cup {"close", "refused"} => mutex = t /\ fd \in opened \ UserFiles

\* A thread inside the driver holds the mutex, even if the server is gone.
InsideHolds ==
  \A t \in Threads :
    pc[t] # "idle" => /\ mutex = t /\ call[t].file = fd /\ fd \in Files \ UserFiles
                      /\ at[t] \in Calling \cup {"ended"}
                      /\ pc[t] \in {"entry", "locked"} => result[t].pos = f_pos[fd]

\* The others keep to their files.
OthersApart == \A u \in Procs \ Threads : pc[u] # "idle" => call[u].file \in UserFiles

\* The inductive invariant behind FdPrivate.
FdInv == Shapes /\ HoldsFd /\ InsideHolds /\ OthersApart /\ opened \subseteq Files

\* The mutex is held by one thread, and by none when it is free.
LEMMA OneHolder ==
  ASSUME NEW t \in Threads, mutex = t
  PROVE  t \in Procs /\ mutex # NULL
  BY ProcsAssumption, ServerAssumption

LEMMA FdInit == ServerInit => FdInv
<1> SUFFICES ASSUME ServerInit PROVE FdInv
  OBVIOUS
<1>1. Shapes /\ opened \subseteq Files
  BY DEF ServerInit, Init, Shapes, Labels, Calling
<1>2. HoldsFd /\ InsideHolds /\ OthersApart
  BY ServerAssumption DEF ServerInit, Init, HoldsFd, InsideHolds, OthersApart, Calling
<1> QED
  BY <1>1, <1>2 DEF FdInv

\* A step of the driver for process p: it may move p's file and no other.
Moves(p) ==
  /\ f_pos' = f_pos \/ \E x : f_pos' = [f_pos EXCEPT ![call[p].file] = x]
  /\ \E x : pc' = [pc EXCEPT ![p] = x]
  /\ \E r : result' = [result EXCEPT ![p] = r]
  /\ UNCHANGED opened

LEMMA HandlerMoves ==
  ASSUME NEW p \in Procs, aesd_read(p) \/ aesd_write(p) \/ aesd_llseek(p) \/ aesd_ioctl(p)
  PROVE  Moves(p) /\ UNCHANGED call /\ pc[p] = "locked" /\ pc' = [pc EXCEPT ![p] = "exit"]
<1>1. CASE aesd_read(p)
  BY <1>1 DEF aesd_read, ReadPastEnd, ReadEntry, UnlockAndLeave, Leave, Inside, Moves
<1>2. CASE aesd_write(p)
  BY <1>2 DEF aesd_write, OutOfMemory, WriteFirst, WriteMore, WriteAfterFailure, Store,
              UnlockAndLeave, Leave, Inside, Moves
<1>3. CASE aesd_llseek(p)
  BY <1>3 DEF aesd_llseek, UnlockAndLeave, Leave, Inside, Moves
<1>4. CASE aesd_ioctl(p)
  BY <1>4 DEF aesd_ioctl, UnlockAndLeave, Leave, Inside, Moves
<1> QED
  BY <1>1, <1>2, <1>3, <1>4

\* Two threads cannot both be in the driver, or between open() and close().
LEMMA Alone ==
  ASSUME FdInv, NEW t \in Threads, mutex = t, NEW q \in Threads, q # t
  PROVE  pc[q] = "idle" /\ at[q] \notin Calling \cup {"close", "refused"}
  BY DEF FdInv, HoldsFd, InsideHolds

LEMMA HandlerFd ==
  ASSUME FdInv, NEW p \in Procs, DriverRuns(p)
  PROVE  FdInv'
<1>1. /\ Moves(p) /\ UNCHANGED <<call, opened, at, mutex, fd>> /\ pc[p] = "locked"
      /\ pc' = [pc EXCEPT ![p] = "exit"]
  BY HandlerMoves DEF DriverRuns, Moves
<1>2. Shapes'
  <2>1. DOMAIN f_pos' = DOMAIN f_pos /\ DOMAIN result' = DOMAIN result
    BY <1>1 DEF Moves
  <2> QED
    BY <1>1, <2>1 DEF FdInv, Shapes
<1>3. HoldsFd'
  BY <1>1 DEF FdInv, HoldsFd
<1>4. OthersApart'
  BY <1>1 DEF FdInv, Shapes, OthersApart
<1>5. InsideHolds'
  <2> SUFFICES ASSUME NEW t \in Threads, pc'[t] # "idle"
               PROVE  /\ mutex = t /\ call[t].file = fd /\ fd \in Files \ UserFiles
                      /\ at[t] \in Calling \cup {"ended"}
                      /\ pc'[t] \in {"entry", "locked"} => result'[t].pos = f_pos'[fd]
    BY <1>1 DEF InsideHolds
  <2>1. t \in Procs /\ pc[t] # "idle"
    BY <1>1, ServerAssumption DEF FdInv, Shapes
  <2>2. /\ mutex = t /\ call[t].file = fd /\ fd \in Files \ UserFiles
        /\ at[t] \in Calling \cup {"ended"}
        /\ pc[t] \in {"entry", "locked"} => result[t].pos = f_pos[fd]
    BY <2>1 DEF FdInv, InsideHolds
  <2>3. CASE t = p
    BY <1>1, <2>1, <2>2, <2>3 DEF FdInv, Shapes
  <2>4. CASE t # p
    <3>1. p \notin Threads
      BY <1>1, <2>2, <2>4 DEF FdInv, InsideHolds
    <3>2. call[p].file \in UserFiles
      BY <1>1, <3>1 DEF FdInv, OthersApart
    <3>3. f_pos'[fd] = f_pos[fd] /\ result'[t] = result[t] /\ pc'[t] = pc[t]
      BY <1>1, <2>1, <2>2, <2>4, <3>2 DEF Moves, FdInv, Shapes
    <3> QED
      BY <2>2, <3>3
  <2> QED
    BY <2>3, <2>4
<1> QED
  BY <1>1, <1>2, <1>3, <1>4, <1>5 DEF FdInv

LEMMA LockFd ==
  ASSUME FdInv, NEW p \in Procs, DriverLock(p)
  PROVE  FdInv'
<1>1. /\ pc[p] = "entry" /\ pc' = [pc EXCEPT ![p] = "locked"]
      /\ UNCHANGED <<call, result, f_pos, opened, at, mutex, fd>>
  BY DEF DriverLock, Lock, server
<1>2. Shapes' /\ HoldsFd' /\ OthersApart'
  BY <1>1 DEF FdInv, Shapes, HoldsFd, OthersApart
<1>3. InsideHolds'
  BY <1>1, ServerAssumption DEF FdInv, Shapes, InsideHolds
<1> QED
  BY <1>1, <1>2, <1>3 DEF FdInv

LEMMA OtherFd ==
  ASSUME FdInv, OtherProcess
  PROVE  FdInv'
<1>0. UNCHANGED <<at, mutex, fd>>
  BY DEF OtherProcess, server
<1>1. CASE aesd_init_module
  BY <1>0, <1>1 DEF aesd_init_module, FdInv, Shapes, HoldsFd, InsideHolds, OthersApart
<1>2. ASSUME NEW f \in UserFiles, aesd_open(f) PROVE FdInv'
  <2>1. /\ f_pos' = [f_pos EXCEPT ![f] = 0] /\ opened' = opened \cup {f} /\ f \in Files
        /\ UNCHANGED <<pc, call, result>>
    BY <1>2, ServerAssumption DEF aesd_open
  <2>2. Shapes' /\ HoldsFd' /\ OthersApart' /\ opened' \subseteq Files
    BY <1>0, <2>1 DEF FdInv, Shapes, HoldsFd, OthersApart
  <2>3. fd \in Files \ UserFiles => f_pos'[fd] = f_pos[fd]
    BY <2>1 DEF FdInv, Shapes
  <2>4. InsideHolds'
    BY <1>0, <2>1, <2>3 DEF FdInv, InsideHolds
  <2> QED
    BY <2>2, <2>4 DEF FdInv
<1>3. ASSUME NEW u \in Procs \ Threads, NEW f \in UserFiles, NEW d,
             Invoke(u, NewCall("write", f, "ok", NULL, 0, 0, d))
      PROVE  FdInv'
  <2> DEFINE c == NewCall("write", f, "ok", NULL, 0, 0, d)
  <2>1. c.file = f
    BY DEF NewCall
  <2> HIDE DEF c
  <2>2. /\ pc' = [pc EXCEPT ![u] = "entry"] /\ call' = [call EXCEPT ![u] = c]
        /\ \E r : result' = [result EXCEPT ![u] = r]
        /\ UNCHANGED <<f_pos, opened>>
    BY <1>3 DEF Invoke, c
  <2>3. Shapes' /\ HoldsFd' /\ OthersApart'
    BY <1>0, <2>1, <2>2 DEF FdInv, Shapes, HoldsFd, OthersApart
  <2>4. InsideHolds'
    BY <1>0, <2>2 DEF FdInv, InsideHolds, Shapes
  <2> QED
    BY <2>2, <2>3, <2>4 DEF FdInv
<1>4. ASSUME NEW u \in Procs \ Threads, Return(u) PROVE FdInv'
  <2>1. /\ pc[u] = "exit" /\ pc' = [pc EXCEPT ![u] = "idle"]
        /\ f_pos' = f_pos \/ \E x : f_pos' = [f_pos EXCEPT ![call[u].file] = x]
        /\ \E r : result' = [result EXCEPT ![u] = r]
        /\ \E c : call' = [call EXCEPT ![u] = c]
        /\ UNCHANGED opened
    BY <1>4 DEF Return
  <2>2. call[u].file \in UserFiles
    BY <2>1 DEF FdInv, OthersApart
  <2>3. fd \in Files \ UserFiles => f_pos'[fd] = f_pos[fd]
    BY <2>1, <2>2 DEF FdInv, Shapes
  <2>4. Shapes' /\ HoldsFd'
    BY <1>0, <2>1 DEF FdInv, Shapes, HoldsFd
  <2>5. OthersApart'
    BY <2>1 DEF FdInv, Shapes, OthersApart
  <2>6. InsideHolds'
    <3>1. \A t \in Threads : pc'[t] = pc[t] /\ call'[t] = call[t] /\ result'[t] = result[t]
      BY <2>1, ServerAssumption DEF FdInv, Shapes
    <3> QED
      BY <1>0, <2>3, <3>1 DEF FdInv, InsideHolds
  <2> QED
    BY <2>1, <2>4, <2>5, <2>6 DEF FdInv
<1> QED
  BY <1>1, <1>2, <1>3, <1>4 DEF OtherProcess

\* While the mutex is free no thread is in the driver, or between open() and close().
LEMMA NoHolder ==
  ASSUME FdInv, mutex = NULL, NEW q \in Threads
  PROVE  pc[q] = "idle" /\ at[q] \notin Calling \cup {"close", "refused"}
  BY OneHolder DEF FdInv, HoldsFd, InsideHolds

LEMMA OpenFd ==
  ASSUME FdInv, NEW t \in Threads, LockAndOpen(t)
  PROVE  FdInv'
<1>1. /\ mutex = NULL /\ mutex' = t /\ at' = [at EXCEPT ![t] = "request"]
      /\ opened' = opened \cup {fd'} /\ f_pos' = [f_pos EXCEPT ![fd'] = 0]
      /\ UNCHANGED <<pc, call, result>>
  BY DEF LockAndOpen, MutexFree, Goto, aesd_open
<1>2. fd' \in Files /\ fd' \notin UserFiles
  BY DEF LockAndOpen
<1>3. Shapes' /\ opened' \subseteq Files
  BY <1>1, <1>2 DEF FdInv, Shapes, Labels, Calling
<1>4. HoldsFd'
  BY <1>1, <1>2, NoHolder DEF FdInv, Shapes, HoldsFd
<1>5. InsideHolds'
  BY <1>1, NoHolder DEF InsideHolds
<1>6. OthersApart'
  BY <1>1 DEF FdInv, OthersApart
<1> QED
  BY <1>3, <1>4, <1>5, <1>6 DEF FdInv

LEMMA CallFd ==
  ASSUME FdInv, NEW t \in Threads, CallDriver(t)
  PROVE  FdInv'
<1> DEFINE c == NextCall(t)
<1>1. c.file = fd
  BY DEF CallDriver, NextCall, NewCall
<1> HIDE DEF c
<1>2. /\ pc' = [pc EXCEPT ![t] = "entry"] /\ call' = [call EXCEPT ![t] = c]
      /\ result' = [result EXCEPT ![t] = [NoResult EXCEPT !.pos = f_pos[c.file]]]
      /\ UNCHANGED <<f_pos, opened, at, mutex, fd>> /\ at[t] \in Calling
  BY DEF CallDriver, Invoke, c, server, Calling
<1>3. t \in Procs /\ mutex = t /\ fd \in opened \ UserFiles
  BY <1>2, ServerAssumption DEF FdInv, HoldsFd
<1>4. Shapes' /\ HoldsFd' /\ OthersApart'
  BY <1>2, <1>3 DEF FdInv, Shapes, HoldsFd, OthersApart
<1>5. InsideHolds'
  <2> SUFFICES ASSUME NEW q \in Threads, pc'[q] # "idle"
               PROVE  /\ mutex = q /\ call'[q].file = fd /\ fd \in Files \ UserFiles
                      /\ at[q] \in Calling \cup {"ended"}
                      /\ result'[q].pos = f_pos[fd]
    BY <1>2 DEF InsideHolds
  <2>1. q = t
    BY <1>2, <1>3, Alone DEF FdInv, Shapes
  <2>2. result'[t].pos = f_pos[fd]
    BY <1>1, <1>2, <1>3 DEF FdInv, Shapes, NoResult
  <2> QED
    BY <1>1, <1>2, <1>3, <2>1, <2>2 DEF FdInv, Shapes
<1> QED
  BY <1>2, <1>4, <1>5 DEF FdInv

LEMMA RequestedLabel ==
  ASSUME NEW t \in Threads, NEW ret, Requested(t, ret)
  PROVE  \E x \in {"refused", "ended", "cur", "end"} : at' = [at EXCEPT ![t] = x]
<1> DEFINE x == CASE ret < 0 /\ IsSeek(request[t])  -> "refused"
                  [] ret < 0 /\ ~IsSeek(request[t]) -> "ended"
                  [] ret >= 0 /\ ioctlCmdRecv'[t]   -> "cur"
                  [] OTHER                          -> "end"
<1>1. at' = [at EXCEPT ![t] = x]
  BY Zenon DEF Requested, Goto
<1>2. x \in {"refused", "ended", "cur", "end"}
  OBVIOUS
<1> QED
  BY <1>1, <1>2, Zenon

LEMMA CloseLabel ==
  ASSUME NEW t \in Threads, CloseAndUnlock(t)
  PROVE  \E x \in {"recv", "free", "ended"} : at' = [at EXCEPT ![t] = x]
<1> DEFINE x == CASE at[t] = "close"                          -> "recv"
                  [] at[t] = "refused" /\ IsSeek(request[t]) -> "free"
                  [] OTHER                                   -> "ended"
<1>1. at' = [at EXCEPT ![t] = x]
  BY Zenon DEF CloseAndUnlock, Goto
<1>2. x \in {"recv", "free", "ended"}
  OBVIOUS
<1> QED
  BY <1>1, <1>2, Zenon

\* A thread whose call returned is where it was or at a later label, and ends only
\* if it failed or had ended.
LEMMA ReturnLabels ==
  ASSUME FdInv, NEW t \in Threads, DriverReturns(t)
  PROVE  /\ at' = [at EXCEPT ![t] = at'[t]]
         /\ at'[t] \in Labels
         /\ at'[t] \in Calling \cup {"close", "refused"} => at[t] \in Calling
<1> USE DEF Labels, Calling
<1>0. at \in [Threads -> Labels]
  BY DEF FdInv, Shapes
<1>1. ASSUME NEW ret, Requested(t, ret)
      PROVE  \E x \in {"refused", "ended", "cur", "end"} : at' = [at EXCEPT ![t] = x]
  BY <1>1, RequestedLabel
<1>2. ASSUME NEW ret, Positioned(t, ret)
      PROVE  \E x \in {"end", "refused", "set", "read"} : at' = [at EXCEPT ![t] = x]
  BY <1>2 DEF Positioned, Goto
<1>3. ASSUME NEW ret, ReadReturned(t, ret)
      PROVE  \E x \in {"close", "read"} : at' = [at EXCEPT ![t] = x]
  BY <1>3 DEF ReadReturned, Goto
<1>4. \/ at[t] \in Calling /\ \E x \in Labels : at' = [at EXCEPT ![t] = x]
      \/ at[t] = "ended" /\ at' = at
  BY <1>1, <1>2, <1>3 DEF DriverReturns, Requested, Positioned, ReadReturned
<1> QED
  BY <1>0, <1>4

LEMMA ReturnsFd ==
  ASSUME FdInv, NEW t \in Threads, DriverReturns(t)
  PROVE  FdInv'
<1>1. /\ pc[t] = "exit" /\ pc' = [pc EXCEPT ![t] = "idle"]
      /\ f_pos' = f_pos \/ \E x : f_pos' = [f_pos EXCEPT ![call[t].file] = x]
      /\ \E r : result' = [result EXCEPT ![t] = r]
      /\ \E c : call' = [call EXCEPT ![t] = c]
      /\ UNCHANGED <<opened, mutex, fd>>
  BY DEF DriverReturns, Return
<1>2. t \in Procs /\ mutex = t
  BY <1>1, ServerAssumption DEF FdInv, InsideHolds
<1>3. Shapes'
  <2>1. at' \in [Threads -> Labels]
    BY ReturnLabels DEF FdInv, Shapes
  <2>2. DOMAIN f_pos' = DOMAIN f_pos
    BY <1>1
  <2> QED
    BY <1>1, <2>1, <2>2 DEF FdInv, Shapes
<1>4. HoldsFd'
  <2> SUFFICES ASSUME NEW q \in Threads, at'[q] \in Calling \cup {"close", "refused"}
               PROVE  mutex = q /\ fd \in opened \ UserFiles
    BY <1>1 DEF HoldsFd
  <2>1. at[q] \in Calling \cup {"close", "refused"}
    BY ReturnLabels DEF FdInv, Shapes
  <2> QED
    BY <2>1 DEF FdInv, HoldsFd
<1>5. InsideHolds'
  <2>1. \A q \in Threads : pc'[q] = "idle"
    BY <1>1, <1>2, Alone DEF FdInv, Shapes
  <2> QED
    BY <2>1 DEF InsideHolds
<1>6. OthersApart'
  BY <1>1 DEF FdInv, Shapes, OthersApart
<1> QED
  BY <1>1, <1>3, <1>4, <1>5, <1>6 DEF FdInv

LEMMA CloseFd ==
  ASSUME FdInv, NEW t \in Threads, CloseAndUnlock(t)
  PROVE  FdInv'
<1>0. \E x \in {"recv", "free", "ended"} : at' = [at EXCEPT ![t] = x]
  BY CloseLabel
<1>1. /\ at[t] \in {"close", "refused"} /\ mutex' = NULL
      /\ opened' = opened \ {fd} /\ f_pos' = [f_pos EXCEPT ![fd] = 0]
      /\ UNCHANGED <<pc, call, result, fd>>
  BY DEF CloseAndUnlock, aesd_release
<1>2. mutex = t /\ pc[t] = "idle"
  BY <1>1 DEF FdInv, HoldsFd, InsideHolds, Calling
<1>3. Shapes' /\ opened' \subseteq Files
  BY <1>0, <1>1 DEF FdInv, Shapes, Labels
<1>4. HoldsFd'
  <2>1. \A q \in Threads : at'[q] \notin Calling \cup {"close", "refused"}
    BY <1>0, <1>1, <1>2, Alone DEF FdInv, Shapes, Calling
  <2> QED
    BY <2>1 DEF HoldsFd
<1>5. InsideHolds'
  BY <1>1, <1>2, Alone DEF InsideHolds
<1>6. OthersApart'
  BY <1>1 DEF FdInv, OthersApart
<1> QED
  BY <1>3, <1>4, <1>5, <1>6 DEF FdInv

LEMMA AbortFd ==
  ASSUME FdInv, NEW t \in Threads, Abort(t)
  PROVE  FdInv'
<1>1. /\ at' = [u \in Threads |-> "ended"]
      /\ UNCHANGED <<pc, call, result, f_pos, opened, mutex, fd>>
  BY DEF Abort, vars
<1>2. Shapes' /\ HoldsFd' /\ OthersApart'
  BY <1>1 DEF FdInv, Shapes, HoldsFd, OthersApart, Labels, Calling
<1>3. InsideHolds'
  BY <1>1 DEF FdInv, InsideHolds, Calling
<1> QED
  BY <1>1, <1>2, <1>3 DEF FdInv

LEMMA FdNext ==
  ASSUME FdInv, [ServerNext]_serverVars
  PROVE  FdInv'
<1>1. CASE ServerNext
  BY <1>1, OtherFd, LockFd, HandlerFd, OpenFd, CallFd, ReturnsFd, CloseFd, AbortFd
     DEF ServerNext
<1>2. CASE UNCHANGED serverVars
  <2>1. UNCHANGED <<pc, call, result, f_pos, opened, at, mutex, fd>>
    BY <1>2 DEF serverVars, vars, server
  <2> QED
    BY <2>1 DEF FdInv, Shapes, HoldsFd, InsideHolds, OthersApart
<1> QED
  BY <1>1, <1>2

\* aesdsocket.c:151-248: between pthread_mutex_lock and pthread_mutex_unlock fd
\* names a file of the thread's own, so that only the holder of the mutex is
\* inside the driver, on that file, with the position it really has: no answer
\* is read with a position that lseek() of another thread moved.
THEOREM FdCorrect == ServerSpec => []FdPrivate
<1>1. ServerInit => FdInv
  BY FdInit
<1>2. FdInv /\ [ServerNext]_serverVars => FdInv'
  BY FdNext
<1>3. FdInv => FdPrivate
  BY DEF FdInv, InsideHolds, FdPrivate
<1> QED
  BY <1>1, <1>2, <1>3, PTL DEF ServerSpec

-----------------------------------------------------------------------------
(* The driver below the server.                                            *)

\* What a thread passes to the driver has its C type.
LocalsOK ==
  /\ DOMAIN request = Threads
  /\ offset \in [Threads -> Int] /\ bytesProcessed \in [Threads -> Int]
  /\ \A t \in Threads :
       /\ at[t] = "request" => request[t] \in Requests
       /\ at[t] \in {"set", "read"} => bytesProcessed[t] \in Nat

\* The driver's invariants hold under the server's steps too.
ServerInv == FdInv /\ LocalsOK /\ DeviceInv /\ Filled /\ PositionsOK

\* What a step of the server is to the driver.
DriverStep ==
  \/ aesd_init_module
  \/ \E f \in Files : aesd_open(f) \/ aesd_release(f)
  \/ \E p \in Procs, c \in Calls :
       Invoke(p, c) /\ (c.op \in {"read", "ioctl"} => c.n \in Nat /\ c.m \in Nat)
  \/ \E p \in Procs : Lock(p) \/ Return(p)
  \/ \E p \in Procs : aesd_read(p) \/ aesd_write(p) \/ aesd_llseek(p) \/ aesd_ioctl(p)
  \/ UNCHANGED vars

\* The calls of a thread have arguments of their C types.
LEMMA CallsTyped ==
  ASSUME FdInv, LocalsOK, NEW t \in Threads, at[t] \in Calling
  PROVE  /\ NextCall(t) \in Calls
         /\ NextCall(t).op \in {"read", "ioctl"} => NextCall(t).n \in Nat /\ NextCall(t).m \in Nat
<1>1. fd \in Files
  BY DEF FdInv, HoldsFd
<1>2. CASE at[t] = "request" /\ IsSeek(request[t])
  <2> DEFINE cmd == [type |-> AESD_IOC_MAGIC, nr |-> 1]
  <2>1. NextCall(t) = NewCall("ioctl", fd, "ok", cmd, request[t].cmd, request[t].offset, << >>)
    BY <1>2 DEF NextCall
  <2>2. request[t].cmd \in Nat /\ request[t].offset \in Nat /\ cmd \in Cmds
    BY <1>2, ServerAssumption DEF IsSeek
  <2> HIDE DEF cmd
  <2> QED
    BY <1>1, <2>1, <2>2 DEF NewCall, Calls
<1>3. CASE at[t] = "request" /\ ~IsSeek(request[t])
  <2>1. NextCall(t) = NewCall("write", fd, "ok", NULL, 0, 0, request[t].line)
    BY <1>3 DEF NextCall
  <2>2. request[t].line \in Seq(Byte)
    BY <1>3, ServerAssumption DEF LocalsOK, Requests, IsSeek
  <2> QED
    BY <1>1, <2>1, <2>2 DEF NewCall, Calls
<1>4. CASE at[t] = "cur"
  <2>1. NextCall(t) = NewCall("llseek", fd, "ok", NULL, 0, SEEK_CUR, << >>)
    BY <1>4 DEF NextCall
  <2> QED
    BY <1>1, <2>1 DEF NewCall, Calls, SEEK_CUR
<1>5. CASE at[t] = "end"
  <2>1. NextCall(t) = NewCall("llseek", fd, "ok", NULL, 0, SEEK_END, << >>)
    BY <1>5 DEF NextCall
  <2> QED
    BY <1>1, <2>1 DEF NewCall, Calls, SEEK_END
<1>6. CASE at[t] = "set"
  <2>1. NextCall(t) = NewCall("llseek", fd, "ok", NULL, offset[t], SEEK_SET, << >>)
    BY <1>6 DEF NextCall
  <2>2. offset[t] \in Int
    BY DEF LocalsOK
  <2> QED
    BY <1>1, <2>1, <2>2 DEF NewCall, Calls, SEEK_SET
<1>7. CASE at[t] = "read"
  <2>1. NextCall(t) = NewCall("read", fd, "ok", NULL, bytesProcessed[t], 0, << >>)
    BY <1>7 DEF NextCall
  <2>2. bytesProcessed[t] \in Nat
    BY <1>7 DEF LocalsOK
  <2> QED
    BY <1>1, <2>1, <2>2 DEF NewCall, Calls
<1> QED
  BY <1>2, <1>3, <1>4, <1>5, <1>6, <1>7 DEF Calling

LEMMA ServerDrives ==
  ASSUME FdInv, LocalsOK, [ServerNext]_serverVars
  PROVE  DriverStep
<1>1. ASSUME OtherProcess PROVE DriverStep
  <2>1. ASSUME NEW u \in Procs, NEW f \in UserFiles, NEW d \in Chunks,
               Invoke(u, NewCall("write", f, "ok", NULL, 0, 0, d))
        PROVE  DriverStep
    <3> DEFINE c == NewCall("write", f, "ok", NULL, 0, 0, d)
    <3>1. c \in Calls /\ c.op = "write"
      BY ServerAssumption, ByteAssumption DEF NewCall, Calls
    <3> HIDE DEF c
    <3> QED
      BY <2>1, <3>1 DEF DriverStep, c
  <2> QED
    BY <1>1, <2>1, ServerAssumption DEF OtherProcess, DriverStep
<1>2. ASSUME NEW p \in Procs, DriverLock(p) \/ DriverRuns(p) PROVE DriverStep
  BY <1>2 DEF DriverLock, DriverRuns, DriverStep
<1>3. ASSUME NEW t \in Threads, LockAndOpen(t) PROVE DriverStep
  <2>1. fd' \in Files /\ aesd_open(fd')
    BY <1>3 DEF LockAndOpen
  <2> QED
    BY <2>1 DEF DriverStep
<1>4. ASSUME NEW t \in Threads, CallDriver(t) PROVE DriverStep
  <2>1. t \in Procs /\ Invoke(t, NextCall(t)) /\ at[t] \in Calling
    BY <1>4, ServerAssumption DEF CallDriver, Calling
  <2> QED
    BY <2>1, CallsTyped DEF DriverStep
<1>5. ASSUME NEW t \in Threads, DriverReturns(t) PROVE DriverStep
  BY <1>5, ServerAssumption DEF DriverReturns, DriverStep
<1>6. ASSUME NEW t \in Threads, CloseAndUnlock(t) PROVE DriverStep
  <2>1. aesd_release(fd) /\ fd \in Files
    BY <1>6 DEF CloseAndUnlock, FdInv, HoldsFd
  <2> QED
    BY <2>1 DEF DriverStep
<1>7. ASSUME NEW t \in Threads, Abort(t) PROVE DriverStep
  BY <1>7 DEF Abort, DriverStep
<1>8. CASE UNCHANGED serverVars
  BY <1>8 DEF serverVars, DriverStep
<1> QED
  BY <1>1, <1>2, <1>3, <1>4, <1>5, <1>6, <1>7, <1>8 DEF ServerNext

\* The driver keeps its invariants under such a step.
LEMMA DriverNext ==
  ASSUME DeviceInv, Filled, PositionsOK, DriverStep
  PROVE  DeviceInv' /\ Filled' /\ PositionsOK' /\ DeviceStep
<1>1. ASSUME DeviceStep, DeviceInv', PositionsOK'
      PROVE  DeviceInv' /\ Filled' /\ PositionsOK' /\ DeviceStep
  BY <1>1, FilledNext
<1>2. CASE aesd_init_module \/ \E f \in Files : aesd_open(f) \/ aesd_release(f)
  <2>1. DeviceInv'
    BY <1>2, ModuleInv
  <2>2. PositionsOK'
    <3>1. UNCHANGED <<pc, call, result>> /\ f_pos' \in [Files -> Nat]
      BY <1>2 DEF aesd_init_module, aesd_open, aesd_release, PositionsOK
    <3> QED
      BY <3>1 DEF PositionsOK, ArgumentsOK, NothingRead
  <2>3. DeviceStep
    BY <1>2 DEF DeviceStep, kept, device, aesd_open, aesd_release
  <2> QED
    BY <1>1, <2>1, <2>2, <2>3
<1>3. ASSUME NEW p \in Procs, NEW c \in Calls, Invoke(p, c),
             c.op \in {"read", "ioctl"} => c.n \in Nat /\ c.m \in Nat
      PROVE  DeviceInv' /\ Filled' /\ PositionsOK' /\ DeviceStep
  <2>1. DeviceInv' /\ PositionsOK'
    BY <1>3, InvokeInv, InvokePositions
  <2>2. DeviceStep
    BY <1>3 DEF DeviceStep, kept, device, Invoke
  <2> QED
    BY <1>1, <2>1, <2>2
<1>4. ASSUME NEW p \in Procs, Lock(p)
      PROVE  DeviceInv' /\ Filled' /\ PositionsOK' /\ DeviceStep
  <2>1. DeviceInv'
    BY <1>4, LockReturnInv
  <2>2. PositionsOK'
    BY <1>4 DEF Lock, PositionsOK, ArgumentsOK, NothingRead, DeviceInv, DeviceTypeOK
  <2>3. DeviceStep
    BY <1>4 DEF DeviceStep, kept, device, Lock
  <2> QED
    BY <1>1, <2>1, <2>2, <2>3
<1>5. ASSUME NEW p \in Procs, Return(p)
      PROVE  DeviceInv' /\ Filled' /\ PositionsOK' /\ DeviceStep
  <2>1. DeviceInv' /\ PositionsOK'
    BY <1>5, LockReturnInv, ReturnPositions
  <2>2. DeviceStep
    BY <1>5 DEF DeviceStep, kept, device, Return
  <2> QED
    BY <1>1, <2>1, <2>2
<1>6. ASSUME NEW p \in Procs, aesd_read(p) \/ aesd_write(p) \/ aesd_llseek(p) \/ aesd_ioctl(p)
      PROVE  DeviceInv' /\ Filled' /\ PositionsOK' /\ DeviceStep
  <2>1. DeviceInv' /\ PositionsOK'
    BY <1>6, HandlerInv, HandlerPositions
  <2>2. DeviceStep
    BY <1>6 DEF DeviceStep, kept, device, aesd_read, aesd_llseek, aesd_ioctl
  <2> QED
    BY <1>1, <2>1, <2>2
<1>7. CASE UNCHANGED vars
  <2>1. DeviceInv'
    BY <1>7, StutterInv
  <2>2. PositionsOK'
    BY <1>7 DEF vars, PositionsOK, ArgumentsOK, NothingRead
  <2>3. DeviceStep
    BY <1>7 DEF vars, DeviceStep, kept
  <2> QED
    BY <1>1, <2>1, <2>2, <2>3
<1> QED
  BY <1>2, <1>3, <1>4, <1>5, <1>6, <1>7 DEF DriverStep

\* A thread's own variables after its call of the driver returned.
LEMMA ReturnLocals ==
  ASSUME FdInv, LocalsOK, PositionsOK, NEW t \in Threads, DriverReturns(t)
  PROVE  LocalsOK'
<1> DEFINE ret == result[t].ret
<1>1. ret \in Int
  BY ServerAssumption DEF PositionsOK, Results
<1>2. at \in [Threads -> Labels]
  BY DEF FdInv, Shapes
<1> HIDE DEF ret
<1>3. CASE Requested(t, ret)
  <2>1. /\ UNCHANGED <<request, bytesProcessed>>
        /\ offset' = [offset EXCEPT ![t] = 0]
        /\ \E x \in {"refused", "ended", "cur", "end"} : at' = [at EXCEPT ![t] = x]
    BY <1>3, RequestedLabel DEF Requested
  <2> QED
    BY <1>2, <2>1 DEF LocalsOK
<1>4. CASE Positioned(t, ret)
  <2>1. CASE at[t] = "cur"
    <3>1. /\ at' = [at EXCEPT ![t] = "end"] /\ offset' = [offset EXCEPT ![t] = ret]
          /\ UNCHANGED <<request, bytesProcessed>>
      BY <1>4, <2>1 DEF Positioned, Goto
    <3> QED
      BY <1>1, <1>2, <3>1 DEF LocalsOK
  <2>2. CASE at[t] = "end"
    <3>1. /\ at' = [at EXCEPT ![t] = IF ret < 0 THEN "refused" ELSE "set"]
          /\ bytesProcessed' = [bytesProcessed EXCEPT ![t] = ret]
          /\ UNCHANGED <<request, offset>>
      BY <1>4, <2>2 DEF Positioned, Goto
    <3> QED
      BY <1>1, <1>2, <3>1 DEF LocalsOK
  <2>3. CASE at[t] = "set"
    <3>1. /\ at' = [at EXCEPT ![t] = "read"]
          /\ UNCHANGED <<request, offset, bytesProcessed>>
      BY <1>4, <2>3 DEF Positioned, Goto
    <3> QED
      BY <1>2, <2>3, <3>1 DEF LocalsOK
  <2> QED
    BY <1>4, <2>1, <2>2, <2>3 DEF Positioned
<1>5. CASE ReadReturned(t, ret)
  <2>1. /\ at[t] = "read" /\ UNCHANGED <<request, offset, bytesProcessed>>
        /\ at' = [at EXCEPT ![t] = IF ret = 0 THEN "close" ELSE "read"]
    BY <1>5 DEF ReadReturned, Goto
  <2> QED
    BY <1>2, <2>1 DEF LocalsOK
<1>6. CASE UNCHANGED <<at, local>>
  BY <1>6 DEF local, LocalsOK
<1> QED
  BY <1>3, <1>4, <1>5, <1>6 DEF DriverReturns, ret

LEMMA LocalsNext ==
  ASSUME FdInv, LocalsOK, PositionsOK, [ServerNext]_serverVars
  PROVE  LocalsOK'
<1>0. at \in [Threads -> Labels]
  BY DEF FdInv, Shapes
<1>1. ASSUME UNCHANGED <<at, local>> PROVE LocalsOK'
  BY <1>1 DEF local, LocalsOK
<1>2. CASE OtherProcess \/ (\E p \in Procs : DriverLock(p) \/ DriverRuns(p)) \/ UNCHANGED serverVars
  BY <1>1, <1>2 DEF OtherProcess, DriverLock, DriverRuns, server, serverVars
<1>3. ASSUME NEW t \in Threads, LockAndOpen(t) PROVE LocalsOK'
  <2>1. /\ \E r \in Requests : request' = [request EXCEPT ![t] = r]
        /\ at' = [at EXCEPT ![t] = "request"] /\ UNCHANGED <<offset, bytesProcessed>>
    BY <1>3 DEF LockAndOpen, Goto
  <2> QED
    BY <1>0, <2>1 DEF LocalsOK
<1>4. ASSUME NEW t \in Threads, CallDriver(t) PROVE LocalsOK'
  BY <1>1, <1>4 DEF CallDriver, server
<1>5. ASSUME NEW t \in Threads, DriverReturns(t) PROVE LocalsOK'
  BY <1>5, ReturnLocals
<1>6. ASSUME NEW t \in Threads, CloseAndUnlock(t) PROVE LocalsOK'
  <2>1. \E x \in {"recv", "free", "ended"} : at' = [at EXCEPT ![t] = x]
    BY <1>6, CloseLabel
  <2>2. /\ request' = [request EXCEPT ![t] = NULL]
        /\ offset' = [offset EXCEPT ![t] = 0]
        /\ bytesProcessed' = [bytesProcessed EXCEPT ![t] = 0]
    BY <1>6 DEF CloseAndUnlock
  <2> QED
    BY <1>0, <2>1, <2>2 DEF LocalsOK
<1>7. ASSUME NEW t \in Threads, Abort(t) PROVE LocalsOK'
  BY <1>7 DEF Abort, local, LocalsOK
<1> QED
  BY <1>2, <1>3, <1>4, <1>5, <1>6, <1>7 DEF ServerNext

LEMMA ServerInvInit == ServerInit => ServerInv
<1> SUFFICES ASSUME ServerInit PROVE ServerInv
  OBVIOUS
<1>1. FdInv
  BY FdInit
<1>2. LocalsOK
  BY DEF ServerInit, LocalsOK
<1>3. Init
  BY DEF ServerInit
<1>4. DeviceInv
  BY <1>3, InitInv
<1>5. Filled
  BY <1>3 DEF Init, Filled
<1>6. PositionsOK
  BY <1>3, NoResultType DEF Init, PositionsOK, ArgumentsOK, NothingRead, NoCall, NewCall
<1> QED
  BY <1>1, <1>2, <1>4, <1>5, <1>6 DEF ServerInv

LEMMA ServerInvNext ==
  ASSUME ServerInv, [ServerNext]_serverVars
  PROVE  ServerInv' /\ DeviceStep
<1>1. FdInv' /\ LocalsOK'
  BY FdNext, LocalsNext DEF ServerInv
<1>2. DeviceInv' /\ Filled' /\ PositionsOK' /\ DeviceStep
  BY ServerDrives, DriverNext DEF ServerInv
<1> QED
  BY <1>1, <1>2 DEF ServerInv

-----------------------------------------------------------------------------
(* How far an answer has come.                                             *)

\* Between open() and close() fd names a file of the thread's own, also when the
\* thread ended with the mutex held.
FdOpen ==
  /\ mutex \in Threads \cup {NULL}
  /\ mutex # NULL => fd \in opened \ UserFiles

\* Bytes have been read only in the loop that reads.
SeenReading ==
  /\ seen \in Int
  /\ mutex = NULL => seen = 0
  /\ \A t \in Threads :
       mutex = t /\ seen # 0 => /\ at[t] \in {"read", "close", "ended"}
                                /\ pc[t] # "idle" => call[t].op = "read"

\* A read of a thread does not fail.
ReadsSucceed ==
  \A t \in Threads :
    pc[t] # "idle" /\ call[t].op = "read" =>
      /\ at[t] \in {"read", "ended"}
      /\ pc[t] = "exit" => result[t].ret \in Nat

\* Where the thread goes on reading.
Reached(t) == IF pc[t] = "exit" /\ call[t].op = "read" THEN result[t].pos ELSE f_pos[fd]

\* The answer so far ends at or before the byte that is read next.
SeenBehind ==
  \A t \in Threads : mutex = t /\ seen # 0 => seen <= Forgotten + Reached(t)

\* The inductive invariant behind AnswerInOrder, on top of ServerInv and StreamInv.
OrderInv == FdOpen /\ SeenReading /\ ReadsSucceed /\ SeenBehind

\* What the device holds, and how much it has forgotten.
Held ==
  /\ Contents(buffer) \in Seq(Byte) /\ Pending \in Seq(Byte) /\ accepted \in Seq(Byte)
  /\ Forgotten \in Nat

LEMMA HeldAlways == DeviceInv /\ Filled /\ StreamInv /\ loaded => Held
<1> SUFFICES ASSUME DeviceInv, Filled, StreamInv, loaded PROVE Held
  OBVIOUS
<1>1. PICK u \in Seq(Byte) : accepted = u \o (Contents(buffer) \o Pending)
  BY DEF StreamInv
<1>2. Contents(buffer) \in Seq(Byte)
  BY RingBytes
<1>3. Pending \in Seq(Byte) /\ accepted \in Seq(Byte)
  BY DEF Pending, DeviceInv, DeviceTypeOK, Entries
<1> DEFINE C == Contents(buffer)
           P == Pending
<1>4. C \in Seq(Byte) /\ P \in Seq(Byte) /\ accepted = u \o (C \o P)
  BY <1>1, <1>2, <1>3
<1> HIDE DEF C, P
<1>5. Len(accepted) = Len(u) + Len(C) + Len(P) /\ Len(u) \in Nat
  BY <1>1, <1>4
<1>6. Forgotten = Len(u)
  BY <1>4, <1>5 DEF Forgotten, C, P
<1> QED
  BY <1>2, <1>3, <1>5, <1>6 DEF Held

\* The driver forgets bytes and never brings them back.
LEMMA ForgottenGrows ==
  ASSUME Held, Held', Forgets
  PROVE  Forgotten \in Nat /\ Forgotten' \in Nat /\ Forgotten <= Forgotten'
<1>1. PICK u, w \in Seq(Byte) : /\ accepted = u \o (Contents(buffer) \o Pending)
                                /\ accepted' = w \o (Contents(buffer)' \o Pending')
                                /\ Len(u) <= Len(w)
  BY DEF Forgets
<1>2. ASSUME NEW a \in Seq(Byte), NEW x \in Seq(Byte), NEW C \in Seq(Byte), NEW P \in Seq(Byte),
             a = x \o (C \o P)
      PROVE  Len(a) - Len(C) - Len(P) = Len(x)
  BY <1>2
<1>3. Forgotten = Len(u)
  BY <1>1, <1>2 DEF Held, Forgotten
<1>4. Forgotten' = Len(w)
  <2>1. /\ accepted' \in Seq(Byte) /\ Contents(buffer)' \in Seq(Byte)
        /\ Pending' \in Seq(Byte)
    BY DEF Held
  <2>2. Len(accepted') - Len(Contents(buffer)') - Len(Pending') = Len(w)
    BY <1>1, <1>2, <2>1
  <2> QED
    BY <2>2 DEF Forgotten
<1> QED
  BY <1>1, <1>3, <1>4 DEF Held

\* The driver's stream below the server.
LEMMA ServerStream ==
  ASSUME "nomem" \notin Faults, ServerInv, StreamInv, [ServerNext]_serverVars
  PROVE  /\ StreamInv'
         /\ loaded /\ loaded' => Forgotten \in Nat /\ Forgotten' \in Nat /\ Forgotten <= Forgotten'
<1>1. ServerInv' /\ DeviceStep
  BY ServerInvNext
<1>2. StreamInv' /\ (loaded /\ loaded' => Forgets)
  BY <1>1, StreamNext DEF ServerInv
<1>3. loaded => Held
  BY HeldAlways DEF ServerInv
<1>4. DeviceInv' /\ Filled' /\ StreamInv' /\ loaded' => Held'
  BY HeldAlways, PTL
<1>5. loaded' => Held'
  BY <1>1, <1>2, <1>4 DEF ServerInv
<1> QED
  BY <1>2, <1>3, <1>5, ForgottenGrows

\* What other processes do leaves the threads and their file alone.
Elsewhere ==
  /\ UNCHANGED <<at, mutex, fd, seen>> /\ opened \subseteq opened'
  /\ \A t \in Threads : pc'[t] = pc[t] /\ call'[t] = call[t] /\ result'[t] = result[t]
  /\ fd \in Files \ UserFiles => f_pos'[fd] = f_pos[fd]

LEMMA OtherElsewhere ==
  ASSUME FdInv, OtherProcess
  PROVE  Elsewhere
<1>0. UNCHANGED <<at, mutex, fd, seen>>
  BY DEF OtherProcess, server
<1>1. CASE aesd_init_module
  BY <1>0, <1>1 DEF aesd_init_module, Elsewhere
<1>2. ASSUME NEW f \in UserFiles, aesd_open(f) PROVE Elsewhere
  BY <1>0, <1>2 DEF aesd_open, Elsewhere, FdInv, Shapes
<1>3. ASSUME NEW u \in Procs \ Threads, NEW c, Invoke(u, c) PROVE Elsewhere
  <2>1. /\ pc' = [pc EXCEPT ![u] = "entry"] /\ call' = [call EXCEPT ![u] = c]
        /\ \E r : result' = [result EXCEPT ![u] = r]
        /\ UNCHANGED <<f_pos, opened>>
    BY <1>3 DEF Invoke
  <2> QED
    BY <1>0, <2>1, ServerAssumption DEF Elsewhere, FdInv, Shapes
<1>4. ASSUME NEW u \in Procs \ Threads, Return(u) PROVE Elsewhere
  <2>1. /\ pc[u] = "exit" /\ pc' = [pc EXCEPT ![u] = "idle"]
        /\ f_pos' = f_pos \/ \E x : f_pos' = [f_pos EXCEPT ![call[u].file] = x]
        /\ \E r : result' = [result EXCEPT ![u] = r]
        /\ \E c : call' = [call EXCEPT ![u] = c]
        /\ UNCHANGED opened
    BY <1>4 DEF Return
  <2>2. call[u].file \in UserFiles
    BY <2>1 DEF FdInv, OthersApart
  <2> QED
    BY <1>0, <2>1, <2>2, ServerAssumption DEF Elsewhere, FdInv, Shapes
<1> QED
  BY <1>1, <1>2, <1>3, <1>4 DEF OtherProcess

LEMMA DriverElsewhere ==
  ASSUME FdInv, NEW p \in Procs \ Threads, DriverLock(p) \/ DriverRuns(p)
  PROVE  Elsewhere
<1>1. CASE DriverLock(p)
  BY <1>1, ServerAssumption DEF DriverLock, Lock, server, Elsewhere, FdInv, Shapes
<1>2. CASE DriverRuns(p)
  <2>1. Moves(p) /\ UNCHANGED <<call, at, mutex, fd, seen>> /\ pc[p] = "locked"
    BY <1>2, HandlerMoves DEF DriverRuns
  <2>2. call[p].file \in UserFiles
    BY <2>1 DEF FdInv, OthersApart
  <2> QED
    BY <2>1, <2>2, ServerAssumption DEF Moves, Elsewhere, FdInv, Shapes
<1> QED
  BY <1>1, <1>2

LEMMA FdOpenNext ==
  ASSUME FdInv, FdOpen, [ServerNext]_serverVars
  PROVE  FdOpen'
<1>1. ASSUME UNCHANGED <<mutex, fd>>, opened \subseteq opened' PROVE FdOpen'
  BY <1>1 DEF FdOpen
<1>2. CASE OtherProcess
  BY <1>1, <1>2, OtherElsewhere DEF Elsewhere
<1>3. ASSUME NEW p \in Procs, DriverLock(p) PROVE FdOpen'
  BY <1>1, <1>3 DEF DriverLock, Lock, server
<1>4. ASSUME NEW p \in Procs, DriverRuns(p) PROVE FdOpen'
  BY <1>1, <1>4, HandlerMoves DEF DriverRuns, Moves
<1>5. ASSUME NEW t \in Threads, LockAndOpen(t) PROVE FdOpen'
  <2>1. mutex' = t /\ fd' \in Files \ UserFiles /\ opened' = opened \cup {fd'}
    BY <1>5 DEF LockAndOpen, aesd_open
  <2> QED
    BY <2>1 DEF FdOpen
<1>6. ASSUME NEW t \in Threads, CallDriver(t) PROVE FdOpen'
  BY <1>1, <1>6 DEF CallDriver, Invoke, server
<1>7. ASSUME NEW t \in Threads, DriverReturns(t) PROVE FdOpen'
  BY <1>1, <1>7 DEF DriverReturns, Return
<1>8. ASSUME NEW t \in Threads, CloseAndUnlock(t) PROVE FdOpen'
  BY <1>8 DEF CloseAndUnlock, FdOpen
<1>9. ASSUME NEW t \in Threads, Abort(t) PROVE FdOpen'
  BY <1>1, <1>9 DEF Abort, vars
<1>10. CASE UNCHANGED serverVars
  BY <1>1, <1>10 DEF serverVars, vars, server
<1> QED
  BY <1>2, <1>3, <1>4, <1>5, <1>6, <1>7, <1>8, <1>9, <1>10 DEF ServerNext

\* What SeenBehind needs of a step, apart from the step itself.
Onward ==
  /\ ServerInv /\ OrderInv /\ FdOpen'
  /\ mutex # NULL /\ mutex' # NULL
       => Forgotten \in Nat /\ Forgotten' \in Nat /\ Forgotten <= Forgotten'

\* A thread that holds the mutex has a position, a number.
LEMMA ReachedType ==
  ASSUME ServerInv, FdOpen, NEW t \in Threads, mutex = t
  PROVE  Reached(t) \in Nat /\ f_pos[fd] \in Nat
<1>1. t \in Procs /\ mutex # NULL
  BY OneHolder
<1>2. fd \in Files
  BY <1>1 DEF FdOpen, ServerInv, FdInv
<1> QED
  BY <1>1, <1>2 DEF Reached, ServerInv, PositionsOK, Results

\* The thread, its file and the history stay as they are.
LEMMA OrderElsewhere ==
  ASSUME Onward, Elsewhere
  PROVE  OrderInv'
<1>1. SeenReading' /\ ReadsSucceed'
  BY DEF Onward, OrderInv, SeenReading, ReadsSucceed, Elsewhere
<1>2. SeenBehind'
  <2> SUFFICES ASSUME NEW t \in Threads, mutex = t, seen # 0
               PROVE  seen <= Forgotten' + Reached(t)'
    BY DEF SeenBehind, Elsewhere
  <2>1. mutex # NULL /\ mutex' # NULL
    BY OneHolder DEF Elsewhere
  <2>2. fd \in Files \ UserFiles
    BY <2>1 DEF Onward, OrderInv, FdOpen, ServerInv, FdInv
  <2>3. Reached(t)' = Reached(t)
    BY <2>2 DEF Elsewhere, Reached
  <2>4. seen \in Int /\ seen <= Forgotten + Reached(t) /\ Reached(t) \in Nat
    BY ReachedType DEF Onward, OrderInv, SeenBehind, SeenReading
  <2> QED
    BY <2>1, <2>3, <2>4 DEF Onward
<1> QED
  BY <1>1, <1>2 DEF Onward, OrderInv

\* A thread that does not move its file, and whose history stays as it is.
LEMMA BehindKept ==
  ASSUME Onward, NEW t \in Threads, mutex = t, mutex' = t, UNCHANGED seen,
         seen # 0 => Reached(t)' = Reached(t)
  PROVE  SeenBehind'
<1> SUFFICES ASSUME NEW q \in Threads, mutex' = q, seen # 0
             PROVE  seen <= Forgotten' + Reached(q)'
  BY DEF SeenBehind
<1>1. q = t /\ mutex # NULL /\ mutex' # NULL
  BY OneHolder
<1>2. seen \in Int /\ seen <= Forgotten + Reached(t) /\ Reached(t) \in Nat
  BY ReachedType DEF Onward, OrderInv, SeenBehind, SeenReading
<1> QED
  BY <1>1, <1>2 DEF Onward

LEMMA LockOrder ==
  ASSUME Onward, NEW t \in Threads, DriverLock(t)
  PROVE  OrderInv'
<1>1. /\ pc[t] = "entry" /\ pc' = [pc EXCEPT ![t] = "locked"]
      /\ UNCHANGED <<call, result, f_pos, opened, at, mutex, fd, seen>>
  BY DEF DriverLock, Lock, server
<1>2. FdInv /\ t \in Procs /\ DOMAIN pc = Procs
  BY ServerAssumption DEF Onward, ServerInv, FdInv, Shapes
<1>3. mutex = t
  BY <1>1, <1>2 DEF FdInv, InsideHolds
<1>4. SeenReading' /\ ReadsSucceed'
  BY <1>1, <1>2 DEF Onward, OrderInv, SeenReading, ReadsSucceed
<1>5. Reached(t)' = Reached(t)
  BY <1>1, <1>2 DEF Reached
<1>6. SeenBehind'
  BY <1>1, <1>3, <1>5, BehindKept
<1> QED
  BY <1>4, <1>6 DEF Onward, OrderInv

LEMMA HandlerOrder ==
  ASSUME Onward, NEW t \in Threads, DriverRuns(t)
  PROVE  OrderInv'
<1>1. /\ Moves(t) /\ UNCHANGED <<call, at, mutex, fd>> /\ pc[t] = "locked"
      /\ pc' = [pc EXCEPT ![t] = "exit"]
  BY ServerAssumption, HandlerMoves DEF DriverRuns
<1>2. FdInv /\ t \in Procs /\ DOMAIN pc = Procs /\ FdInv'
  BY ServerAssumption, HandlerFd DEF Onward, ServerInv, FdInv, Shapes
<1>3. mutex = t /\ mutex # NULL
  BY <1>1, <1>2, OneHolder DEF FdInv, InsideHolds
<1>4. \A q \in Threads : q # t => pc'[q] = "idle"
  BY <1>1, <1>2, <1>3, Alone
<1>5. CASE aesd_read(t)
  <2>1. PICK c : ReadLeaves(t, c)
    BY <1>2, <1>5, ReadBytes DEF Onward, ServerInv
  <2>2. c \in Nat /\ result'[t].pos = result[t].pos + c /\ result'[t].ret = c
    BY <2>1 DEF ReadLeaves
  <2>3. Inside(t, "read") /\ seen' = Forgotten + result[t].pos + c
    BY <1>5, <2>2 DEF aesd_read, DriverRuns
  <2>4. call[t].op = "read" /\ at[t] \in {"read", "ended"}
    BY <1>1, <2>3 DEF Inside, Onward, OrderInv, ReadsSucceed
  <2>5. /\ Forgotten \in Nat /\ Forgotten' \in Nat /\ Forgotten <= Forgotten'
        /\ result[t].pos \in Nat
    BY <1>1, <1>2, <1>3 DEF Onward, ServerInv, PositionsOK, Results
  <2>6. SeenReading'
    BY <1>1, <1>3, <2>2, <2>3, <2>4, <2>5 DEF SeenReading
  <2>7. ReadsSucceed'
    BY <1>1, <1>4, <2>2, <2>4 DEF ReadsSucceed
  <2>8. Reached(t)' = result[t].pos + c
    BY <1>1, <1>2, <2>2, <2>4 DEF Reached
  <2>9. SeenBehind'
    BY <1>1, <1>3, <2>2, <2>3, <2>5, <2>8 DEF SeenBehind
  <2> QED
    BY <2>6, <2>7, <2>9 DEF Onward, OrderInv
<1>6. CASE ~aesd_read(t)
  <2>1. call[t].op # "read"
    BY <1>6 DEF DriverRuns, aesd_write, aesd_llseek, aesd_ioctl, Inside
  <2>2. seen = 0 /\ seen' = seen
    BY <1>1, <1>3, <2>1 DEF Onward, OrderInv, SeenReading, DriverRuns, Inside
  <2>3. SeenReading' /\ SeenBehind'
    BY <2>2 DEF SeenReading, SeenBehind
  <2>4. ReadsSucceed'
    BY <1>1, <1>4, <2>1 DEF ReadsSucceed
  <2> QED
    BY <2>3, <2>4 DEF Onward, OrderInv
<1> QED
  BY <1>5, <1>6

LEMMA OpenOrder ==
  ASSUME Onward, NEW t \in Threads, LockAndOpen(t)
  PROVE  OrderInv'
<1>1. mutex = NULL /\ UNCHANGED <<pc, call, result, seen>>
  BY DEF LockAndOpen, MutexFree, aesd_open
<1>2. FdInv
  BY DEF Onward, ServerInv
<1>3. seen = 0
  BY <1>1 DEF Onward, OrderInv, SeenReading
<1>4. SeenReading' /\ SeenBehind'
  BY <1>1, <1>3 DEF SeenReading, SeenBehind
<1>5. ReadsSucceed'
  BY <1>1, <1>2, NoHolder DEF ReadsSucceed
<1> QED
  BY <1>4, <1>5 DEF Onward, OrderInv

\* Only the loop that reads calls read().
LEMMA NextReads ==
  ASSUME NEW t \in Threads, at[t] \in Calling
  PROVE  NextCall(t).op = "read" <=> at[t] = "read"
<1>1. CASE at[t] = "request" /\ IsSeek(request[t])
  BY <1>1 DEF NextCall, NewCall
<1>2. CASE at[t] = "request" /\ ~IsSeek(request[t])
  BY <1>2 DEF NextCall, NewCall
<1>3. CASE at[t] = "cur"
  BY <1>3 DEF NextCall, NewCall
<1>4. CASE at[t] = "end"
  BY <1>4 DEF NextCall, NewCall
<1>5. CASE at[t] = "set"
  BY <1>5 DEF NextCall, NewCall
<1>6. CASE at[t] = "read"
  BY <1>6 DEF NextCall, NewCall
<1> QED
  BY <1>1, <1>2, <1>3, <1>4, <1>5, <1>6 DEF Calling

LEMMA CallOrder ==
  ASSUME Onward, NEW t \in Threads, CallDriver(t)
  PROVE  OrderInv'
<1> DEFINE c == NextCall(t)
<1>1. /\ pc[t] = "idle" /\ pc' = [pc EXCEPT ![t] = "entry"]
      /\ call' = [call EXCEPT ![t] = c] /\ at[t] \in Calling
      /\ UNCHANGED <<f_pos, at, mutex, fd, seen>>
  BY DEF CallDriver, Invoke, server, Calling
<1>2. c.op = "read" <=> at[t] = "read"
  BY <1>1, NextReads
<1> HIDE DEF c
<1>3. FdInv /\ t \in Procs /\ DOMAIN pc = Procs /\ DOMAIN call = Procs
  BY ServerAssumption DEF Onward, ServerInv, FdInv, Shapes
<1>4. mutex = t
  BY <1>1, <1>3 DEF FdInv, HoldsFd
<1>5. \A q \in Threads : q # t => pc'[q] = "idle"
  BY <1>1, <1>3, <1>4, Alone
<1>6. SeenReading'
  <2>1. seen # 0 => at[t] = "read"
    BY <1>1, <1>4 DEF Onward, OrderInv, SeenReading, Calling
  <2> QED
    BY <1>1, <1>2, <1>3, <1>4, <2>1 DEF Onward, OrderInv, SeenReading
<1>7. ReadsSucceed'
  BY <1>1, <1>2, <1>3, <1>5 DEF ReadsSucceed
<1>8. Reached(t)' = Reached(t)
  BY <1>1, <1>3 DEF Reached
<1>9. SeenBehind'
  BY <1>1, <1>4, <1>8, BehindKept
<1> QED
  BY <1>6, <1>7, <1>9 DEF Onward, OrderInv

LEMMA ReturnOrder ==
  ASSUME Onward, NEW t \in Threads, DriverReturns(t)
  PROVE  OrderInv'
<1>1. /\ pc[t] = "exit" /\ pc' = [pc EXCEPT ![t] = "idle"]
      /\ f_pos' = IF call[t].op \in {"read", "write"} /\ result[t].ret >= 0
                  THEN [f_pos EXCEPT ![call[t].file] = result[t].pos] ELSE f_pos
      /\ UNCHANGED <<mutex, fd, seen>>
  BY DEF DriverReturns, Return
<1>2. FdInv /\ t \in Procs /\ DOMAIN pc = Procs /\ DOMAIN f_pos = Files
  BY ServerAssumption DEF Onward, ServerInv, FdInv, Shapes
<1>3. mutex = t /\ call[t].file = fd /\ fd \in Files
  BY <1>1, <1>2 DEF FdInv, InsideHolds
<1>4. \A q \in Threads : pc'[q] = "idle"
  BY <1>1, <1>2, <1>3, Alone
<1>5. ReadsSucceed'
  BY <1>4 DEF ReadsSucceed
<1>6. CASE seen = 0
  <2>1. SeenReading' /\ SeenBehind'
    BY <1>1, <1>6 DEF SeenReading, SeenBehind
  <2> QED
    BY <1>5, <2>1 DEF Onward, OrderInv
<1>7. CASE seen # 0
  <2>1. call[t].op = "read"
    BY <1>1, <1>3, <1>7 DEF Onward, OrderInv, SeenReading
  <2>2. at[t] \in {"read", "ended"} /\ result[t].ret \in Nat
    BY <1>1, <2>1 DEF Onward, OrderInv, ReadsSucceed
  <2>3. at'[t] \in {"read", "close", "ended"}
    <3>1. DOMAIN at = Threads
      BY <1>2 DEF FdInv, Shapes
    <3> QED
      BY <2>2, <3>1 DEF DriverReturns, Requested, Positioned, ReadReturned, Goto
  <2>4. SeenReading'
    BY <1>1, <1>3, <1>4, <2>3, OneHolder DEF Onward, OrderInv, SeenReading
  <2>5. f_pos'[fd] = result[t].pos
    BY <1>1, <1>2, <1>3, <2>1, <2>2
  <2>6. Reached(t)' = Reached(t)
    BY <1>1, <1>2, <2>1, <2>5 DEF Reached
  <2>7. SeenBehind'
    BY <1>1, <1>3, <2>6, BehindKept
  <2> QED
    BY <1>5, <2>4, <2>7 DEF Onward, OrderInv
<1> QED
  BY <1>6, <1>7

LEMMA CloseOrder ==
  ASSUME Onward, NEW t \in Threads, CloseAndUnlock(t)
  PROVE  OrderInv'
<1>1. /\ at[t] \in {"close", "refused"} /\ seen' = 0 /\ mutex' = NULL
      /\ UNCHANGED <<pc, call, result>>
  BY DEF CloseAndUnlock, aesd_release
<1>2. FdInv
  BY DEF Onward, ServerInv
<1>3. mutex = t /\ pc[t] = "idle"
  BY <1>1, <1>2 DEF FdInv, HoldsFd, InsideHolds, Calling
<1>4. \A q \in Threads : pc'[q] = "idle"
  BY <1>1, <1>2, <1>3, Alone
<1> QED
  BY <1>1, <1>4 DEF Onward, OrderInv, SeenReading, SeenBehind, ReadsSucceed

LEMMA AbortOrder ==
  ASSUME Onward, NEW t \in Threads, Abort(t)
  PROVE  OrderInv'
<1>1. /\ at' = [u \in Threads |-> "ended"] /\ UNCHANGED vars
      /\ UNCHANGED <<pc, call, result, f_pos, mutex, fd, seen>>
  BY DEF Abort, vars
<1>2. SeenReading' /\ ReadsSucceed'
  BY <1>1 DEF Onward, OrderInv, SeenReading, ReadsSucceed
<1>3. Forgotten' = Forgotten
  BY <1>1 DEF vars, Forgotten, Contents, Oldest, Pending
<1>4. SeenBehind'
  BY <1>1, <1>3 DEF Onward, OrderInv, SeenBehind, Reached
<1> QED
  BY <1>2, <1>4 DEF Onward, OrderInv

LEMMA OrderNext ==
  ASSUME "nomem" \notin Faults, ServerInv, StreamInv, OrderInv, [ServerNext]_serverVars
  PROVE  OrderInv'
<1>1. Onward
  <2>1. FdOpen'
    BY FdOpenNext DEF ServerInv, OrderInv
  <2>2. ASSUME mutex # NULL, mutex' # NULL PROVE loaded /\ loaded'
    <3>1. ServerInv'
      BY ServerInvNext
    <3>2. fd \in opened /\ fd' \in opened'
      BY <2>1, <2>2 DEF OrderInv, FdOpen
    <3> QED
      BY <3>1, <3>2 DEF ServerInv, DeviceInv, ModulePinned
  <2> QED
    BY <2>1, <2>2, ServerStream DEF Onward
<1>2. CASE OtherProcess
  BY <1>1, <1>2, OtherElsewhere, OrderElsewhere DEF ServerInv
<1>3. ASSUME NEW p \in Procs, DriverLock(p) \/ DriverRuns(p) PROVE OrderInv'
  <2>1. CASE p \in Threads
    BY <1>1, <1>3, <2>1, LockOrder, HandlerOrder
  <2>2. CASE p \notin Threads
    BY <1>1, <1>3, <2>2, DriverElsewhere, OrderElsewhere DEF ServerInv
  <2> QED
    BY <2>1, <2>2
<1>4. ASSUME NEW t \in Threads,
             \/ LockAndOpen(t) \/ CallDriver(t) \/ DriverReturns(t)
             \/ CloseAndUnlock(t) \/ Abort(t)
      PROVE  OrderInv'
  BY <1>1, <1>4, OpenOrder, CallOrder, ReturnOrder, CloseOrder, AbortOrder
<1>5. CASE UNCHANGED serverVars
  <2>1. Elsewhere
    BY <1>5 DEF serverVars, vars, server, Elsewhere
  <2> QED
    BY <1>1, <2>1, OrderElsewhere
<1> QED
  BY <1>2, <1>3, <1>4, <1>5 DEF ServerNext

\* aesdsocket.c:219-245: however many processes write to the device while a
\* thread reads it, and whatever the ring evicts between two of its calls of
\* read(), the answer never goes back in the stream of accepted bytes: it
\* repeats none and swaps none.  (A failed krealloc, which loses bytes that
\* aesd_write had accepted, is excluded.)
THEOREM OrderCorrect ==
  ASSUME "nomem" \notin Faults
  PROVE  ServerSpec => AnswerInOrder
<1>1. ServerInit => ServerInv /\ StreamInv /\ OrderInv
  <2> SUFFICES ASSUME ServerInit PROVE StreamInv /\ OrderInv
    BY ServerInvInit
  <2>1. mutex = NULL /\ seen = 0 /\ pc = [p \in Procs |-> "idle"] /\ loaded = FALSE
    BY DEF ServerInit, Init
  <2>2. FdOpen /\ SeenReading /\ SeenBehind
    BY <2>1 DEF FdOpen, SeenReading, SeenBehind
  <2>3. ReadsSucceed
    BY <2>1, ServerAssumption DEF ReadsSucceed
  <2> QED
    BY <2>1, <2>2, <2>3 DEF StreamInv, OrderInv
<1>2. ServerInv /\ StreamInv /\ OrderInv /\ [ServerNext]_serverVars
        => ServerInv' /\ StreamInv' /\ OrderInv'
  BY ServerInvNext, ServerStream, OrderNext
<1>3. ServerInv /\ StreamInv /\ OrderInv /\ [ServerNext]_serverVars
        => [\A t \in Threads :
              Inside(t, "read") /\ pc'[t] = "exit"
                => Forgotten + result[t].pos >= seen]_serverVars
  <2> SUFFICES ASSUME ServerInv, StreamInv, OrderInv, NEW t \in Threads, Inside(t, "read")
               PROVE  Forgotten + result[t].pos >= seen
    OBVIOUS
  <2>1. t \in Procs /\ pc[t] = "locked"
    BY ServerAssumption DEF Inside
  <2>2. mutex = t /\ result[t].pos = f_pos[fd]
    BY <2>1 DEF ServerInv, FdInv, InsideHolds
  <2>3. result[t].pos \in Nat /\ Forgotten \in Nat
    <3>1. loaded
      BY <2>1 DEF ServerInv, DeviceInv, ModulePinned
    <3> QED
      BY <2>1, <3>1, HeldAlways DEF Held, ServerInv, PositionsOK, Results
  <2>4. Reached(t) = f_pos[fd]
    BY <2>1 DEF Reached
  <2>5. seen # 0 => seen <= Forgotten + f_pos[fd]
    BY <2>2, <2>4 DEF OrderInv, SeenBehind
  <2>6. seen \in Int
    BY DEF OrderInv, SeenReading
  <2> QED
    BY <2>2, <2>3, <2>5, <2>6
<1> QED
  BY <1>1, <1>2, <1>3, PTL DEF ServerSpec, AnswerInOrder
=============================================================================
