# Verification of the aesdchar driver and the aesdsocket server

This directory holds TLA+ modules for the parts of the repository that keep
state and run concurrently: the `aesdchar` character device
(`aesd-char-driver/`), the socket server that stores what clients send in it
(`server/aesdsocket.c`), the two of them together, and the example libraries for
threads and processes (`examples/`). TLC checks them on small instances and TLAPS
proves their safety properties for all sizes.

## The system and its parts

| Part | State | Operations | What makes it hard |
| --- | --- | --- | --- |
| Ring (`aesd-circular-buffer.c`) | ten entries, `in_offs`, `out_offs`, `full` | init, add an entry, find the entry of a byte offset | wrap around; `in_offs = out_offs` means empty or full |
| Driver (`main.c`) | the ring, the unfinished write `dev->entry`, `dev->lock`, memory blocks, file positions | open, release, read, write, llseek, ioctl, load, unload | processes share the device, its unfinished write and file positions; allocations, user copies and locking fail |
| Receive loop (`aesdsocket.c:88-149`) | `recvBuffer`, its size and index | recv, grow, search for a newline | arbitrary division of requests; `realloc` does not zero |
| Server (`aesdsocket.c`) | list of threads, `complete` and `exit` flags, `mutexExit`, `mutex`, global `fd`, `gracefullyExit` | start up, accept, reap, serve a request, shut down | threads, signals at any time, clients that leave, failures while the mutex is held, descriptors that run out |
| SLIST macros (`queue.h`) | the list | insert, traverse, remove | vendored; only its use is modelled |
| `examples/threading` | a thread's data, the caller's mutex | start a thread that holds the mutex for a while; join it | calls that fail while the mutex is held; who frees the data |
| `examples/systemcalls` | processes, their output and status | run a command with `system`, or fork, redirect, exec and wait | a child that cannot run its command goes on as a copy of the program |
| `finder-app`, load and start scripts, image build, tests | files | sequential commands | not modelled: no state or concurrency of their own |

A client's request travels through all of them: the receive loop collects it,
the thread takes the server's mutex, opens the device, and writes the line
(`aesd_write`, which hands a complete line to the ring) or seeks (`aesd_ioctl`);
then it reads the device (`aesd_read`, one entry per call) and sends what it
read to the client.

## Modules

* `BoundedLog`: what the ring promises. A log of at most `Capacity` entries;
  appending to a full log forgets the oldest one.
* `AesdCircularBuffer`: the functions of `aesd-circular-buffer.c` as operators on
  a record with the fields of the C struct. `BufferSpec` is the ring with an
  arbitrary caller; `LogOf` is the refinement mapping to `BoundedLog`.
* `AesdChar` extends it with the driver. A call has up to four steps: `Sys...` (the
  VFS copies `f_pos` and calls the driver), `Lock`, the handler's body, which ends
  by releasing the lock, and `Return` (the VFS stores the position back). Bodies
  are one step each because all they touch is protected by the lock or belongs to
  the caller. Memory is a set of live blocks (`heap`) and their bytes (`mem`), so
  that leaks, double frees and uninitialised bytes are visible. Behaviour of the
  kernel (VFS, `kmalloc`, user copies, module reference counts) is modelled from
  how the driver uses it. The uninitialised `totalLength` of SEEK_END takes any
  value of `Uninit`, and the bytes of a block allocated after a failed
  `krealloc` any value at all.
* `RecvBuffer`: the receive loop, with the block as a sequence of bytes.
* `AesdSocket`: `main` from `socket()` to `exit()`, one thread per connection and the
  clients. A request is what one run of the receive loop collects; the device is
  the bounded log of lines, and a position counts lines (all lines have the same
  length, so that slots and positions agree). `recv` may return any part of a request
  that has no newline yet, after which the thread looks at its exit flag (`RecvPart`).
  `process` holds the steps of a
  thread, `processFails` the calls that may fail; the four that return with the
  mutex held do so in the model. A seek command moves `recvBuffer`, so that a
  later `free` of it aborts the server (`BadFree`); a send to a client that left
  may raise SIGPIPE, which ends it; so do the unchecked failures of `malloc`
  and `strchr`, and a signal that comes before its handler is installed
  (`signalHandler`, `Handles`). A failed `pthread_create` leaves an `unstarted`
  thread in the list; joining it returns an error or crashes. `accept` needs one
  of `MaxFds` descriptors, which come back when a thread is reaped. The shutdown
  loop locks each thread's `mutexExit`, sets `exit` and unlocks it; the thread
  unlocks it too, which for a default mutex of the C library releases it whoever
  holds it.
* `SocketOnDevice` extends `AesdChar` with the part of `process()` that runs under
  the server's mutex: each call of `open`, `ioctl`, `write`, `lseek`, `read` and `close`
  enters the driver's handlers, so that a thread shares the driver's lock with
  processes that are not the server's and write to the device as they please.
  What a thread receives and sends is atomic here, and a refused seek command ends
  the server (`Abort`); `AesdSocket` has the rest of the server. `disturbed` and `seen` are history variables for the properties.
* `Threading`: `start_thread_obtaining_mutex` and `threadfunc`, and a caller that joins
  threads, frees their data and uses the mutex itself.
* `SystemCalls`: the processes of a program that calls `do_system`, `do_exec` and
  `do_exec_redirect`. `fork` makes a second process of the same program; one that
  cannot run its command returns to `"code"`, from where it may call the functions
  again. A signal may end such a copy inside a function too (`Killed`). `outcome` is a
  history variable: what really became of the command.
* `MC...`: constants for TLC. `...Proofs`: theorems and their proofs, each extending
  the module it is about; `RecursionLemmas`: what they need about recursion.

Definitions marked "Mutant" describe plausible bugs. No specification uses them;
substituting one for the definition after it shows that a property would notice.

## Runs

| Run | Bounds | Shows |
| --- | --- | --- |
| `ring` | 4 slots, sizes 0 to 2 | the ring implements the bounded log; the search agrees with the concatenation |
| `char_shared` | 2 processes, 1 shared file, 2 slots, 3 blocks, 4 bytes | accepted bytes are kept in order; reads and seeks land where they should |
| `char_faults` | 1 process, 2 slots, 4 blocks, 4 bytes, all arguments and failures | lock always released, memory sound, entries complete, positions never negative |
| `socket_faults` | 2 connections, 2 descriptors, device of 2 lines, 3 requests, all failures | mutex, list, reaping, complete answers |
| `socket_exit` | 2 connections, 2 descriptors, 2 requests, `recv` may fail | a signal leads to an orderly exit; connections are accepted |
| `server_on_driver` | 2 threads, 1 other process, 2 slots, 3 blocks, 4 bytes | `fd` and its position are private, answers are what the device holds, requests end |
| `parts` | receive loop: blocks of 3, requests of up to 6 bytes of three kinds; 2 threads; 3 processes; all failures | bounds, nothing lost, short requests exact; the mutex and the data come back; a command that exited is reported by its status, children are reaped or the caller is told false, copies of the program never run beside each other |

The bounds are the smallest at which the hard cases happen: three entries make a
ring of two slots wrap and evict (with four bytes one of them has two bytes and
is written in two calls); one block more than the slots lets a write be under way
while the ring is full, and leaks then exhaust memory; a block of three bytes
grows twice within six; three lines make a device of two lines forget one. In
`server_on_driver` clients write lines of one byte and the other process lines of
two, so that entries differ in size; three lines fill the three blocks, since
evicted ones are lost, and the fourth write fails in whichever thread makes it. Two
descriptors are used up by two connections, unless one was reaped in between. With
three processes a child that could not run its command forks a child of its own. In
`char_shared` and `char_faults` blocks and processes are symmetric, in
`socket_faults` connections are. No counter wraps in the code within its C type
(`in_offs` and `out_offs` are taken modulo the number of slots), so that widths
appear only as the assumption that the capacity fits a `uint8_t`.

Five runs end in a counterexample, where the code does not do what a comment or
a message in the repository says:

* `seek_wrapped`: once the ring has wrapped, `AESDCHAR_IOCSEEKTO` counts slots and
  not writes. `SeekLandsOnByte` (checked in `char_shared`) says what does hold: the
  position is always on an existing byte, and right until the first eviction.
* `evicted_leak`: `aesd_write` never frees the memory of an evicted entry
  (`main.c:157` has its condition the wrong way round).
* `socket_idle`: a connected client that neither sends nor leaves keeps the server
  from exiting after a signal.
* `system_status`: `do_system` returns true although the command returned a non-zero
  value.
* `exec_status`: `do_exec` and `do_exec_redirect` return true for a command that a signal
  killed, which is not `WIFEXITED`. The same property fails when `execv` does: the
  child goes on as a copy of the program, whose exit status the parent then
  reports as the command's.

`ResultReported` (checked in `parts`) is the part of the comment on `do_exec` that does
hold: the result tells how a command exited, and is false if there is no child,
in the child itself, and if `waitpid` failed.

Other behaviour that a reader may not expect is part of the models, and the
properties are stated around it: a failed `krealloc` leaves `dev->entry` with a
size and no buffer, and the next write stores uninitialised bytes
(`WriteAfterFailure`); a second request after a seek command on the same connection
is answered from behind the length of the newest entry (`AnswerIsDevice`); an
answer misses bytes when another process makes the ring evict between two reads
(`AnswerInOrder` says that it repeats and swaps none); the server exits with a
failure as soon as all descriptors are in use (`OutOfDescriptors`); a failing
`usleep` leaves the caller's mutex locked (`SuccessReleases`).

Deadlock is checked in the driver's and the ring's runs. The
server's process ends, threads and commands end, and in `server_on_driver` the bound
on bytes stops the writers; those runs do not check it.

Fairness. `ThreadFairness` of the server: `main` and the threads run, no call is
bound to fail, and a waiting thread gets the mutex if it is free again and again
(strong fairness of `LockMutex`). `LeavingSpec` adds that clients leave in the end;
this is an assumption on clients, needed for `GracefulExit`, and `socket_idle` shows
what happens without it. `ServerFairness`: a process inside a call of the driver keeps
running, `send` returns, and the kernel's mutex, which queues its waiters, lets
each one in (strong fairness of `DriverLock`); no process has to make a call and
no client has to send. `ThreadingFairness`: sleeps end, the caller gives the mutex
back, and a waiting thread gets it in the end. The processes of `SystemCalls` have no
fairness: whether a command, or a copy of the program, ever ends is not up to this
code, and a call of `do_exec` returns exactly if it does.

## Proofs

The theorems hold for every value of the constants that satisfies the modules'
assumptions: any number of processes, threads, files, blocks, connections and
requests, any data, any capacity from 1 to 255, and, unless a theorem says
otherwise, all failures. Each safety theorem rests on an inductive invariant; those
of the compositions were checked with TLC before they were proved.

`RecursionLemmas` holds what the other proofs need about recursion. The provers
have no induction rule that they can instantiate, so that induction is carried out
on sets: `Least` says that a set of numbers that is not empty has a least element,
and `InductiveSet` that a set which contains 0 and the successor of each of its
members is all of `Nat`. From them follow what a recursive function on `Nat`
computes (`RecursiveFunction`, `RunningSum`), how two running sums compare
(`SumsAgree`, `SumsGrow`), and what `FlattenSeq` returns for an appended, a removed
and a located element (`FlattenAppend`, `FlattenHead`, `FlattenLocated`).

`AesdCircularBufferProofs`: types, the shape invariant (`RingShape`: while the ring
is not full, `out_offs` is 0 and the slots from `in_offs` on are zero; once it is
full, the offsets are equal), the refinement `BufferSpec => ImplementsLog`, and
`FindCorrect`: the search loop agrees with indexing the concatenated entries. The
shape is what makes the refinement inductive: without it `totalEntries` says
nothing about where entries are.

`AesdCharProofs`:

* `DeviceInv` joins the types, the ring's shape, `LockHeldInside`, `MemorySound`,
  `NewlineSplit` and `ModulePinned` (a process inside a call uses an open file, and
  the module stays loaded meanwhile). `ModulePinned` is needed because loading
  resets the lock; `MemorySound` because a new block must be one that no entry
  uses; and `NewlineSplit` needs `MemorySound` because storing into a block must
  not change another entry's bytes.
* `Filled` (the entries a reader sees have blocks, and the unfinished write as
  many bytes as its size says) ties sizes to bytes. With it, the sum of sizes that
  the loops compute is the length of the concatenated blocks: `SeekEndCorrect` and
  the length half of `SeekCorrect`.
* `PositionsOK` adds the types of positions, results and arguments; it gives
  `DriverTypeCorrect`, `ReadCorrect` and `SeekCorrect`. `SeekLandsOnByte` holds for a
  wrapped ring because the sum over the slots and the sum over the entries, oldest
  first, are equal when all slots are taken (`OrdersAgree`).
* `StreamInv` (the accepted bytes are some forgotten ones followed by the contents and
  the unfinished write, whose size is 0 if it has no block) gives `StreamCorrect`,
  under the hypothesis that `kmalloc` and `krealloc` do not fail at random
  (`"nomem" \notin Faults`; running out of blocks is still possible). Without it the
  property is false: a failed `krealloc` loses accepted bytes.

`RecvBufferProofs`, for every starting length of at least 2: `Bounds`, `ReceivedKept`
and `FirstBlockClean`, which are inductive together, and on top of them
`ShortRequestExact`: the newline that was found is one that was received.

`AesdSocketProofs`: `SocketInv` joins the types with what each label of `main` and of a
thread implies about the mutex, the list, the flags and the position of the device
file. It yields `TypeOK`, `MutexSound`, `ListSound`, `NoUseAfterFree` and, as an action
property, `AnswerComplete`.

`SocketOnDeviceProofs`, for the server's threads on the real driver:

* `FdInv` (a thread between `open` and `close` holds the mutex, and `fd` names a file that
  is open and that no other process uses; other processes stay on their files)
  gives `FdPrivate`. It says nothing of the driver's state.
* `ServerInv` adds the driver's invariants, which hold here as well: each step of the
  server is one of the driver's own (`ServerDrives`), with arguments of their types.
* `OrderInv` relates the history variable `seen` to the position: what was read ends at
  or before the byte that is read next, counted in the stream of accepted bytes.
  It needs `StreamInv`, and that the driver never brings a forgotten byte back
  (`Forgets`). It gives `AnswerInOrder`, again without random allocation failures.

`ThreadingProofs` and `SystemCallsProofs`: the safety properties of each example, from one
inductive invariant each. Of the processes also: `AloneCorrect` (`RunsAlone`): `fork` puts the
child in the place of its parent, and `waitpid` the parent in the place of its child,
so that one process at most is not waiting, until one gives up waiting (the history
variable `deserted`). And `OutputContained`, for programs whose `execv` does not fail: only
children of `do_exec_redirect` on their way to their command, and that command, write
to an output file. Without the hypothesis it is false: the child returns from
`do_exec_redirect` with the file as its standard output (which the comment at
`systemcalls.c:105` says is closed by then), and the commands it runs next write there;
`OutputCorrect` is what holds in every case.

Assumptions beyond types: the null pointer is no block, no process and no search
result (`MissAssumption`); lines are sequences of bytes and the server's `ioctl`
command is one the driver knows (`ServerAssumption`).

Only model-checked: liveness (`GracefulExit`, `ConnectionAccepted`, `RequestEnds`,
`ThreadsEnd`), which needs fairness and is out of the provers'
reach; and `AnswerIsDevice`, which needs an invariant for each label of the answer.

Two things came out of the proofs. The loops of the search and of SEEK_END are
written by their loop counter (`OffsetLeft`, `TotalAfter`, `Rounds`), as functions that
can be reasoned about and that follow the code more closely. And some `CASE`
expressions of `SocketOnDevice` had guards that overlapped: TLC takes the first
that holds, TLA+ leaves the choice open, so that the proofs failed; the guards
now exclude each other.

## Not modelled

The file-backed build of the server with its timestamps
(`aesdsocket.c:270-288, 370-388`), which `USE_AESD_CHAR_DEVICE` removes; the server's
memory leaks (its buffers are never freed between requests); a client that stops
reading and so blocks `send`; short writes, which the driver makes only when a
user copy faults; the second `close` of `fd` in `cleanup`, just before the process
ends; the pointers inside the SLIST macros of the vendored `queue.h`, whose list
only `main` touches; the length of sleeps and the overflow of their product with
1000 in `threading.c`; `finder-app/writer.c`, which opens, writes and closes one file
without keeping any state; the build, test, load and start scripts.

## Plan

1. Done: ring with its refinement, driver, receive loop, server, server on the
   driver, threading and systemcalls examples; proofs of all safety invariants
   that the runs check, and of the action properties but one.
2. Next: `AnswerIsDevice`, for lines that end in a newline and no faults of user copies:
   an invariant that follows an undisturbed answer from label to label.
