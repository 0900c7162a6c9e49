------------------------------ MODULE AesdChar ------------------------------
(***************************************************************************)
(* The aesdchar character device (aesd-char-driver/main.c): the state of   *)
(* struct aesd_dev, the file positions, the kernel memory the entries      *)
(* point to, and processes that call the device concurrently.              *)
(*                                                                         *)
(* A call has up to four steps, the points where another process can get   *)
(* in between:                                                             *)
(*   Sys...   the VFS copies filp->f_pos into a local and calls the driver *)
(*   Lock     mutex_lock_interruptible(&dev->lock) succeeds                *)
(*   aesd_... the rest of the handler, which ends by releasing the lock    *)
(*   Return   the VFS stores the local position back into filp->f_pos      *)
(* Everything a handler does between taking and releasing the lock touches *)
(* only state that the lock protects and the caller's own, so it is one    *)
(* step.  Positions of character devices are not serialised by the VFS.    *)
(***************************************************************************)
EXTENDS AesdCircularBuffer

CONSTANTS
  Procs,        \* processes (or threads) that call the device
  Files,        \* open file descriptions; several processes may share one
  Byte, NL,     \* the bytes, and the newline among them
  Chunks,       \* what processes write in one call
  UserPtrs,     \* user pointers they pass: "ok" or "null"
  Cmds,         \* ioctl commands they pass, as [type, nr]
  SeekOffsets,  \* offsets they pass to llseek
  Origins,      \* origins they pass to llseek
  Faults,       \* the failures that may happen: "nomem", "copy", "signal"
  Uninit,       \* values the uninitialised totalLength can have
  MaxBytes,     \* bound: bytes ever written to the device
  MaxPos        \* bound: positions from which SEEK_CUR is tried

ASSUME ByteAssumption == NL \in Byte /\ Chunks \subseteq Seq(Byte)
ASSUME ProcsAssumption == NULL \notin Procs
ASSUME ArgumentsAssumption == UserPtrs \subseteq {"ok", "null"} /\ Origins \subseteq Int
ASSUME OffsetsAssumption == SeekOffsets \subseteq Int /\ Uninit \subseteq Int
ASSUME CmdsAssumption == Cmds \subseteq [type : {"AESD", "other"}, nr : Nat]
ASSUME BoundsAssumption == MaxBytes \in Nat /\ MaxPos \in Nat

VARIABLES
  entry,     \* dev->entry, the write that has no newline yet
  lock,      \* the process holding dev->lock, or NULL
  heap,      \* the blocks kmalloc handed out and kfree did not take back
  mem,       \* the bytes stored in each block
  loaded,    \* whether the module is inserted
  opened,    \* the files open on the device
  f_pos,     \* filp->f_pos of each file
  pc,        \* where each process is in its call
  call,      \* the arguments of that call
  result,    \* its copy of the position, the value it returns, the bytes read
  accepted   \* history: the bytes write calls reported as written

device == <<buffer, entry, heap, mem, accepted>>
vars == <<buffer, entry, lock, heap, mem, loaded, opened, f_pos, pc, call, result,
          accepted>>

EFAULT == 14
ENOMEM == 12
EINVAL == 22
ENOTTY == 25
ERESTARTSYS == 512

SEEK_SET == 0
SEEK_CUR == 1
SEEK_END == 2

AESD_IOC_MAGIC == "AESD"
AESDCHAR_IOC_MAXNR == 1

Calls ==
  [op : {"none", "read", "write", "llseek", "ioctl"}, file : Files \cup {NULL},
   buf : {"ok", "null"}, cmd : Cmds \cup {NULL},
   n : Int,            \* count, llseek offset, or seek_to.write_cmd
   m : Int,            \* llseek origin, or seek_to.write_cmd_offset
   data : Seq(Byte)]   \* the bytes to write

Results == [pos : Nat, ret : Int, data : Seq(Byte)]

NewCall(op, file, buf, cmd, n, m, data) ==
  [op |-> op, file |-> file, buf |-> buf, cmd |-> cmd, n |-> n, m |-> m, data |-> data]

NoCall == NewCall("none", NULL, "ok", NULL, 0, 0, << >>)

NoResult == [pos |-> 0, ret |-> 0, data |-> << >>]

Minimum(a, b) == IF a < b THEN a ELSE b

\* Bytes that copy_to_user or copy_from_user may leave uncopied.
Uncopied(count) == IF "copy" \in Faults THEN 0..count ELSE {0}

-----------------------------------------------------------------------------
(* The module and its files.                                               *)

Init ==
  /\ BufferInit
  /\ entry = ZeroEntry
  /\ lock = NULL
  /\ heap = {}
  /\ mem = [a \in Buffptr |-> << >>]
  /\ loaded = FALSE
  /\ opened = {}
  /\ f_pos = [f \in Files |-> 0]
  /\ pc = [p \in Procs |-> "idle"]
  /\ call = [p \in Procs |-> NoCall]
  /\ result = [p \in Procs |-> NoResult]
  /\ accepted = << >>

\* insmod: aesd_device is cleared before cdev_add makes it reachable.  (When
\* registration fails the function undoes it and the state is as before.)
aesd_init_module ==
  /\ ~loaded
  /\ loaded' = TRUE
  /\ buffer' = aesd_circular_buffer_init
  /\ entry' = ZeroEntry
  /\ lock' = NULL
  /\ UNCHANGED <<heap, mem, opened, f_pos, pc, call, result, accepted>>

\* rmmod: every slot's memory is freed; kfree(NULL) does nothing.  .owner
\* makes the kernel refuse to remove the module while a file is open.
aesd_cleanup_module ==
  /\ loaded
  /\ opened = {}
  /\ loaded' = FALSE
  /\ heap' = heap \ {buffer.entry[i].buffptr : i \in Slots}
  /\ mem' = [a \in Buffptr |-> IF a \in heap' THEN mem[a] ELSE << >>]
  /\ UNCHANGED <<buffer, entry, lock, opened, f_pos, pc, call, result, accepted>>

aesd_open(f) ==
  /\ loaded
  /\ f \notin opened
  /\ opened' = opened \cup {f}
  /\ f_pos' = [f_pos EXCEPT ![f] = 0]
  /\ UNCHANGED <<device, lock, loaded, pc, call, result>>

\* The last close of a file.  dev->entry keeps an unfinished write.
aesd_release(f) ==
  /\ f \in opened
  /\ \A p \in Procs : call[p].file # f
  /\ opened' = opened \ {f}
  /\ f_pos' = [f_pos EXCEPT ![f] = 0]
  /\ UNCHANGED <<device, lock, loaded, pc, call, result>>

-----------------------------------------------------------------------------
(* Entering a call: the VFS passes a copy of the file position.            *)

Invoke(p, c) ==
  /\ pc[p] = "idle"
  /\ c.file \in opened
  /\ pc' = [pc EXCEPT ![p] = "entry"]
  /\ call' = [call EXCEPT ![p] = c]
  /\ result' = [result EXCEPT ![p] = [NoResult EXCEPT !.pos = f_pos[c.file]]]
  /\ UNCHANGED <<device, lock, loaded, opened, f_pos>>

SysRead(p) ==
  \E f \in Files, u \in UserPtrs, count \in Sizes :
    Invoke(p, NewCall("read", f, u, NULL, count, 0, << >>))

SysWrite(p) ==
  \E f \in Files, u \in UserPtrs, d \in Chunks :
    /\ Len(accepted) + Len(d) <= MaxBytes
    /\ Invoke(p, NewCall("write", f, u, NULL, 0, 0, d))

SysLlseek(p) ==
  \E f \in Files, offset \in SeekOffsets, origin \in Origins :
    /\ origin = SEEK_CUR => f_pos[f] <= MaxPos
    /\ Invoke(p, NewCall("llseek", f, "ok", NULL, offset, origin, << >>))

SysIoctl(p) ==
  \E f \in Files, c \in Cmds, write_cmd \in 0..N, write_cmd_offset \in Sizes :
    Invoke(p, NewCall("ioctl", f, "ok", c, write_cmd, write_cmd_offset, << >>))

\* Leaving the driver with a result.
Leave(p, r) ==
  /\ pc' = [pc EXCEPT ![p] = "exit"]
  /\ result' = [result EXCEPT ![p] = r]
  /\ UNCHANGED call

\* What each handler checks before it takes the lock, with the value it
\* returns.
ReadRejections(c) == IF c.buf = "null" THEN {-EFAULT} ELSE {}

WriteRejections(c) ==
  IF c.data = << >> THEN {0} ELSE IF c.buf = "null" THEN {-EFAULT} ELSE {}

IoctlRejections(c) ==
  IF c.cmd.type # AESD_IOC_MAGIC \/ c.cmd.nr > AESDCHAR_IOC_MAXNR THEN {-ENOTTY} ELSE {}

Rejections(c) ==
  CASE c.op = "read"  -> ReadRejections(c)
    [] c.op = "write" -> WriteRejections(c)
    [] c.op = "ioctl" -> IoctlRejections(c)
    [] OTHER          -> {}

Reject(p) ==
  /\ pc[p] = "entry"
  /\ \/ \E r \in Rejections(call[p]) : Leave(p, [result[p] EXCEPT !.ret = r])
     \* copy_from_user(&seek_to, ...) in aesd_ioctl
     \/ /\ call[p].op = "ioctl" /\ Rejections(call[p]) = {}
        /\ "copy" \in Faults
        /\ Leave(p, [result[p] EXCEPT !.ret = -EFAULT])
  /\ UNCHANGED <<device, lock, loaded, opened, f_pos>>

\* mutex_lock_interruptible returns 0; the same call in all four handlers.
Lock(p) ==
  /\ pc[p] = "entry"
  /\ Rejections(call[p]) = {}
  /\ lock = NULL
  /\ lock' = p
  /\ pc' = [pc EXCEPT ![p] = "locked"]
  /\ UNCHANGED <<device, loaded, opened, f_pos, call, result>>

\* mutex_lock_interruptible is interrupted by a signal.
LockInterrupted(p) ==
  /\ "signal" \in Faults
  /\ pc[p] = "entry"
  /\ Rejections(call[p]) = {}
  /\ Leave(p, [result[p] EXCEPT !.ret = -ERESTARTSYS])
  /\ UNCHANGED <<device, lock, loaded, opened, f_pos>>

\* mutex_unlock(&dev->lock) followed by the return.
UnlockAndLeave(p, r) ==
  /\ lock' = NULL
  /\ Leave(p, r)

Inside(p, op) == pc[p] = "locked" /\ call[p].op = op

-----------------------------------------------------------------------------
(* aesd_read: at most the rest of one entry per call.                      *)

\* Mutant: the early return for a position past the end keeps the lock.
ReadPastEndLocked(p) ==
  /\ aesd_circular_buffer_find_entry_offset_for_fpos(buffer, result[p].pos) = NULL
  /\ Leave(p, [result[p] EXCEPT !.ret = 0])
  /\ UNCHANGED lock

\* No entry holds the position: the early return of main.c:73-77.
ReadPastEnd(p) ==
  /\ aesd_circular_buffer_find_entry_offset_for_fpos(buffer, result[p].pos) = NULL
  /\ UnlockAndLeave(p, [result[p] EXCEPT !.ret = 0])

\* Mutant: the offset within the entry is not added to buffptr.
BytesFromStart(e, offset, count) == SubSeq(mem[e.buffptr], 1, count)

\* The bytes at buffptr + offset.
BytesAt(e, offset, count) == SubSeq(mem[e.buffptr], offset + 1, offset + count)

\* Mutant: the position is set to the count, and not advanced by it.
AdvancedTo(pos, count) == count

Advanced(pos, count) == pos + count

\* copy_to_user from the entry, up to its end, and advance the position.
ReadEntry(p) ==
  LET found == aesd_circular_buffer_find_entry_offset_for_fpos(buffer, result[p].pos)
  IN  /\ found # NULL
      /\ LET e == buffer.entry[found.slot]
             count == Minimum(call[p].n, e.size - found.offset)
         IN  \E bytes \in Uncopied(count) :
               UnlockAndLeave(p, [result[p] EXCEPT
                 !.ret  = count - bytes,
                 !.pos  = Advanced(@, count - bytes),
                 !.data = BytesAt(e, found.offset, count - bytes)])

aesd_read(p) ==
  /\ Inside(p, "read")
  /\ ReadPastEnd(p) \/ ReadEntry(p)
  /\ UNCHANGED <<device, loaded, opened, f_pos>>

-----------------------------------------------------------------------------
(* aesd_write: append to dev->entry, and hand it to the ring once it holds *)
(* a newline.                                                              *)

\* kfree(ptr), as the set of blocks it gives back.
kfree(ptr) == {ptr} \ {NULL}

\* Mutant: the memory of the newest entry is freed, not that of the evicted one.
EvictedFreesNewest(b, ptr) == IF removed(b) # NULL THEN kfree(ptr) ELSE {}

\* What aesd_write frees after storing ptr in the ring: its guard on the
\* pointer add_entry returned (main.c:157) lets only NULL through to kfree.
Evicted(b, ptr) == IF removed(b) = NULL THEN kfree(removed(b)) ELSE {}

HasNewline(bytes) == \E i \in DOMAIN bytes : bytes[i] = NL

\* Mutant: only the last byte of the entry is compared with a newline.
CompleteAtLast(all) == all # << >> /\ all[Len(all)] = NL

\* memchr(dev->entry.buffptr, '\n', dev->entry.size), over the whole entry.
Complete(all) == HasNewline(all)

\* Mutant: the new bytes are copied to the start of the block.
AppendedAtStart(old, new) ==
  [i \in 1..(Len(old) + Len(new)) |-> IF i <= Len(new) THEN new[i] ELSE (old \o new)[i]]

\* The block after new bytes are copied to buffptr + size.
Appended(old, new) == old \o new

\* The bytes copy_from_user brought in when it left some uncopied.
Copied(data, bytes) == SubSeq(data, 1, Len(data) - bytes)

\* *f_pos after a write: it advances by the whole entry when that is
\* complete, and not at all otherwise.
PosAfter(pos, all) == IF Complete(all) THEN pos + Len(all) ELSE pos

\* The rest of aesd_write once dev->entry has a block ptr whose first bytes
\* are old.
Store(p, ptr, old) ==
  \E bytes \in Uncopied(Len(call[p].data)) :
    LET new == Copied(call[p].data, bytes)
        all == Appended(old, new)
        e   == [buffptr |-> ptr, size |-> Len(all)]
    IN  /\ accepted' = accepted \o new
        /\ IF Complete(all)
           THEN /\ buffer' = aesd_circular_buffer_add_entry(buffer, e)
                /\ heap' = (heap \cup {ptr}) \ Evicted(buffer, ptr)
                /\ entry' = ZeroEntry
           ELSE /\ buffer' = buffer
                /\ heap' = heap \cup {ptr}
                /\ entry' = e
        /\ mem' = [a \in Buffptr |-> IF a \notin heap' THEN << >>
                                     ELSE IF a = ptr THEN all ELSE mem[a]]
        /\ UnlockAndLeave(p, [result[p] EXCEPT !.ret = Len(new), !.pos = PosAfter(@, all)])

\* kmalloc or krealloc returns NULL, which also overwrites dev->entry.buffptr;
\* dev->entry.size keeps its value.
OutOfMemory(p) ==
  /\ "nomem" \in Faults \/ (entry.size = 0 /\ heap = Buffptr)
  /\ entry' = [entry EXCEPT !.buffptr = NULL]
  /\ UnlockAndLeave(p, [result[p] EXCEPT !.ret = -ENOMEM])
  /\ UNCHANGED <<buffer, heap, mem, accepted>>

\* The first bytes of an entry: kmalloc.
WriteFirst(p) ==
  /\ entry.size = 0
  /\ \E ptr \in Buffptr \ heap : Store(p, ptr, << >>)

\* More bytes: krealloc, which grows the block (its address does not matter,
\* nothing else points to it).
WriteMore(p) ==
  /\ entry.size > 0
  /\ entry.buffptr # NULL
  /\ Store(p, entry.buffptr, mem[entry.buffptr])

\* More bytes after a krealloc that failed: krealloc(NULL, ...) allocates, and
\* the bytes before dev->entry.size are whatever the block held.
WriteAfterFailure(p) ==
  /\ entry.size > 0
  /\ entry.buffptr = NULL
  /\ \E ptr \in Buffptr \ heap, junk \in [1..entry.size -> Byte] : Store(p, ptr, junk)

aesd_write(p) ==
  /\ Inside(p, "write")
  /\ OutOfMemory(p) \/ WriteFirst(p) \/ WriteMore(p) \/ WriteAfterFailure(p)
  /\ UNCHANGED <<loaded, opened, f_pos>>

-----------------------------------------------------------------------------
(* aesd_llseek.                                                            *)

\* totalLength after each round of the loop of SEEK_END, whose position goes
\* from out_offs around the ring.
TotalAfter(b, totalLength) ==
  LET total[k \in Nat] ==
        IF k = 0 THEN totalLength ELSE total[k - 1] + b.entry[SlotOf(b, k - 1)].size
  IN  total

\* The first round, from the given one on, after which the loop has come to in_offs.
Rounds(b, from) ==
  CHOOSE k \in from..N : SlotOf(b, k) = b.in_offs
                            /\ \A j \in from..(k - 1) : SlotOf(b, j) # b.in_offs

\* Mutant: a while loop in place of the do-while, so that a full ring (whose
\* in_offs equals its out_offs) counts as empty.
SumEntriesWhile(b, totalLength) == TotalAfter(b, totalLength)[Rounds(b, 0)]

\* The do-while loop of SEEK_END, starting from the value totalLength has.
SumEntries(b, totalLength) == TotalAfter(b, totalLength)[Rounds(b, 1)]

\* The values llseek may compute; SEEK_END adds to an uninitialised variable.
SeekTargets(file, offset, origin) ==
  CASE origin = SEEK_SET -> {offset}
    [] origin = SEEK_CUR -> {f_pos[file] + offset}
    [] origin = SEEK_END -> {SumEntries(buffer, u) + offset : u \in Uninit}
    [] OTHER             -> {-EINVAL}

\* Mutant: negative targets are not refused.
RefusedNever(target) == FALSE

Refused(target) == target < 0

\* A negative target, or an unknown origin, is refused and moves nothing.
aesd_llseek(p) ==
  /\ Inside(p, "llseek")
  /\ \E target \in SeekTargets(call[p].file, call[p].n, call[p].m) :
       LET retval == IF Refused(target) THEN -EINVAL ELSE target
       IN  /\ f_pos' = IF Refused(target) THEN f_pos
                       ELSE [f_pos EXCEPT ![call[p].file] = retval]
           /\ UnlockAndLeave(p, [result[p] EXCEPT !.ret = retval])
  /\ UNCHANGED <<device, loaded, opened>>

-----------------------------------------------------------------------------
(* aesd_ioctl(AESDCHAR_IOCSEEKTO).                                         *)

\* Bytes in the slots before write_cmd.
BytesBefore(b, write_cmd) ==
  LET sum[i \in 0..N] == IF i = 0 THEN 0 ELSE sum[i - 1] + b.entry[i - 1].size
  IN  sum[write_cmd]

\* Mutant: the offset is compared with > in place of >=.
SeekInvalidOffByOne(b, write_cmd, write_cmd_offset) ==
  \/ write_cmd >= N
  \/ write_cmd_offset > b.entry[write_cmd].size

SeekInvalid(b, write_cmd, write_cmd_offset) ==
  \/ write_cmd >= N
  \/ write_cmd_offset >= b.entry[write_cmd].size

aesd_ioctl(p) ==
  /\ Inside(p, "ioctl")
  /\ IF SeekInvalid(buffer, call[p].n, call[p].m)
     THEN /\ UnlockAndLeave(p, [result[p] EXCEPT !.ret = -EINVAL])
          /\ f_pos' = f_pos
     ELSE /\ UnlockAndLeave(p, [result[p] EXCEPT !.ret = 0])
          /\ f_pos' = [f_pos EXCEPT ![call[p].file] =
                         BytesBefore(buffer, call[p].n) + call[p].m]
  /\ UNCHANGED <<device, loaded, opened>>

-----------------------------------------------------------------------------
\* The VFS stores the position a successful read or write left in its copy.
Return(p) ==
  /\ pc[p] = "exit"
  /\ f_pos' = IF call[p].op \in {"read", "write"} /\ result[p].ret >= 0
              THEN [f_pos EXCEPT ![call[p].file] = result[p].pos]
              ELSE f_pos
  /\ pc' = [pc EXCEPT ![p] = "idle"]
  /\ call' = [call EXCEPT ![p] = NoCall]
  /\ result' = [result EXCEPT ![p] = NoResult]
  /\ UNCHANGED <<device, lock, loaded, opened>>

\* What a process does once it has entered a call.
Progress(p) ==
  \/ Reject(p)
  \/ aesd_read(p) \/ aesd_write(p) \/ aesd_llseek(p) \/ aesd_ioctl(p)
  \/ Return(p)

Next ==
  \/ aesd_init_module
  \/ aesd_cleanup_module
  \/ \E f \in Files : aesd_open(f) \/ aesd_release(f)
  \/ \E p \in Procs :
       \/ SysRead(p) \/ SysWrite(p) \/ SysLlseek(p) \/ SysIoctl(p)
       \/ Lock(p) \/ LockInterrupted(p)
       \/ Progress(p)

Spec == Init /\ [][Next]_vars

-----------------------------------------------------------------------------
(* Properties.                                                             *)

\* The device and the arguments of calls.
DeviceTypeOK ==
  /\ BufferTypeOK
  /\ entry \in Entries
  /\ lock \in Procs \cup {NULL}
  /\ heap \subseteq Buffptr
  /\ mem \in [Buffptr -> Seq(Byte)]
  /\ loaded \in BOOLEAN
  /\ opened \subseteq Files
  /\ pc \in [Procs -> {"idle", "entry", "locked", "exit"}]
  /\ call \in [Procs -> Calls]
  /\ accepted \in Seq(Byte)

\* Every variable has a value of its C type; in particular no call leaves a
\* negative file position behind.
TypeOK ==
  /\ DeviceTypeOK
  /\ f_pos \in [Files -> Nat]
  /\ result \in [Procs -> Results]

\* dev->lock is held by exactly the process that is between taking and
\* releasing it: no two handlers run at once, and no path out of a handler,
\* early returns included, leaves the lock behind.
LockHeldInside == \A p \in Procs : pc[p] = "locked" <=> lock = p

\* The slots of the ring that hold an entry.
Used(b) == {i \in Slots : b.entry[i].buffptr # NULL}

\* Memory is sound while the module is loaded: every entry of the ring points
\* to a live block holding as many bytes as its size says, no two entries
\* share a block, and dev->entry shares none with the ring.  So aesd_read never
\* reads freed memory and aesd_cleanup_module frees no block twice.
MemorySound ==
  loaded =>
    /\ \A i \in Used(buffer) :
         /\ buffer.entry[i].buffptr \in heap
         /\ Len(mem[buffer.entry[i].buffptr]) = buffer.entry[i].size
    /\ \A i, j \in Used(buffer) :
         i # j => buffer.entry[i].buffptr # buffer.entry[j].buffptr
    /\ entry.buffptr # NULL =>
         /\ entry.buffptr \in heap
         /\ \A i \in Slots : buffer.entry[i].buffptr # entry.buffptr

\* A write is handed to the ring exactly when it is complete: every entry of
\* the ring holds a newline and the unfinished one holds none, however the
\* bytes were divided among calls and processes.
NewlineSplit ==
  loaded =>
    /\ \A i \in Used(buffer) : HasNewline(mem[buffer.entry[i].buffptr])
    /\ entry.buffptr # NULL => ~HasNewline(mem[entry.buffptr])

\* The bytes of the n oldest writes.
Oldest(b, n) == FlattenSeq([i \in 1..n |-> mem[b.entry[SlotOf(b, i - 1)].buffptr]])

\* The bytes a reader of the whole device gets.
Contents(b) == Oldest(b, totalEntries(b))

Pending == IF entry.buffptr = NULL THEN << >> ELSE mem[entry.buffptr]

\* As long as no allocation fails for lack of memory inside an unfinished
\* write, the device holds the most recent bytes write calls accepted, in the
\* order of the calls, with none missing, repeated or swapped.
StreamIntact == loaded => IsSuffix(Contents(buffer) \o Pending, accepted)

\* A read returns bytes of the concatenated entries starting at the position
\* the call began with, never fewer than it reports, and without a fault it
\* reports 0 only at the end or for a count of 0.
ReadDelivers ==
  [][\A p \in Procs :
       Inside(p, "read") /\ pc'[p] = "exit" =>
         LET all == Contents(buffer)
             c   == result'[p]
         IN  /\ Len(c.data) = c.ret
             /\ c.pos = result[p].pos + c.ret
             /\ c.ret > 0 => c.data = SubSeq(all, result[p].pos + 1, c.pos)
             /\ "copy" \notin Faults /\ call[p].n > 0
                  => (c.ret = 0 <=> result[p].pos >= Len(all))]_vars

\* The loop of SEEK_END visits every entry once, whether the ring is empty,
\* partly filled or full: it adds the number of readable bytes to whatever
\* totalLength started with.
SeekEndCountsAll == loaded => \A u \in Uninit : SumEntries(buffer, u) = u + Len(Contents(buffer))

\* The position of byte o of the k-th oldest write, counting from 0.
PositionOf(b, k, o) == Len(Oldest(b, k)) + o

SeekSucceeds(p) ==
  Inside(p, "ioctl") /\ pc'[p] = "exit" /\ result'[p].ret = 0

\* A successful AESDCHAR_IOCSEEKTO always leaves the position on an existing
\* byte, and on the byte that was asked for as long as the oldest write is
\* still in slot 0.
SeekLandsOnByte ==
  [][\A p \in Procs :
       SeekSucceeds(p) =>
         LET pos == f_pos'[call[p].file]
         IN  /\ pos < Len(Contents(buffer))
             /\ buffer.out_offs = 0 => pos = PositionOf(buffer, call[p].n, call[p].m)]_vars

-----------------------------------------------------------------------------
(* What comments of the repository say, and the code does not do.          *)

\* aesd_ioctl.h:26-33: write_cmd is "The zero referenced write command to seek
\* into", write_cmd_offset "The zero referenced offset within the write".
SeekToCommand ==
  [][\A p \in Procs :
       SeekSucceeds(p) =>
         f_pos'[call[p].file] = PositionOf(buffer, call[p].n, call[p].m)]_vars

\* aesd-circular-buffer.c:65: the memory of an entry has "a lifetime managed by
\* the caller"; the caller is aesd_write, which no longer reaches the memory
\* of an evicted entry and does not free it.
EvictedIsFreed ==
  loaded => heap \subseteq {buffer.entry[i].buffptr : i \in Slots} \cup {entry.buffptr}
=============================================================================
