--------------------------- MODULE AesdCharProofs ---------------------------
(***************************************************************************)
(* Proofs about the driver for any number of slots, processes, files and   *)
(* memory blocks, any data, and all the failures together: the device is   *)
(* well typed, its lock excludes, its memory is sound and complete writes  *)
(* are exactly the ones in the ring.                                       *)
(***************************************************************************)
EXTENDS AesdChar, AesdCircularBufferProofs

\* A process inside a call uses an open file, and the module stays loaded
\* while a file is open (fops.owner): no handler runs across rmmod and insmod.
ModulePinned ==
  /\ \A p \in Procs : pc[p] # "idle" => call[p].file \in opened
  /\ opened # {} => loaded

\* The inductive invariant.
DeviceInv ==
  /\ DeviceTypeOK
  /\ BufferShape
  /\ LockHeldInside
  /\ ModulePinned
  /\ MemorySound
  /\ NewlineSplit

\* The part of the state the invariant speaks about.
kept == <<buffer, entry, heap, mem, accepted, loaded>>

\* A process outside a call has the empty call.
LEMMA NoCallType == NoCall \in Calls
  BY DEF NoCall, NewCall, Calls

LEMMA InitInv == Init => DeviceInv
<1> SUFFICES ASSUME Init PROVE DeviceInv
  OBVIOUS
<1> USE DEF Init
<1>1. BufferTypeOK /\ BufferShape
  BY InitShape DEF BufferInit, BufferTypeOK, BufferShape
<1>2. DeviceTypeOK
  <2>1. mem \in [Buffptr -> Seq(Byte)] /\ accepted \in Seq(Byte)
    OBVIOUS
  <2>2. QED
    BY <1>1, <2>1, NoCallType DEF DeviceTypeOK, Entries, ZeroEntry
<1>3. LockHeldInside
  BY ProcsAssumption DEF LockHeldInside
<1>4. ModulePinned
  BY DEF ModulePinned
<1>5. MemorySound /\ NewlineSplit
  BY DEF MemorySound, NewlineSplit
<1> QED
  BY <1>1, <1>2, <1>3, <1>4, <1>5 DEF DeviceInv

\* Steps that leave the device alone keep its part of the invariant.
LEMMA KeptInv ==
  ASSUME DeviceInv, UNCHANGED kept
  PROVE  BufferTypeOK' /\ BufferShape' /\ MemorySound' /\ NewlineSplit'
  BY DEF DeviceInv, DeviceTypeOK, kept, BufferTypeOK, BufferShape, MemorySound,
         NewlineSplit, Used

\* A process that enters a call.
LEMMA InvokeInv ==
  ASSUME DeviceInv, NEW p \in Procs, NEW c \in Calls, Invoke(p, c)
  PROVE  DeviceInv'
<1> USE DEF Invoke, device
<1>1. BufferTypeOK' /\ BufferShape' /\ MemorySound' /\ NewlineSplit'
  BY KeptInv DEF kept
<1>2. DeviceTypeOK'
  BY <1>1 DEF DeviceInv, DeviceTypeOK
<1>3. LockHeldInside'
  BY DEF DeviceInv, DeviceTypeOK, LockHeldInside
<1>4. ModulePinned'
  BY DEF DeviceInv, DeviceTypeOK, ModulePinned
<1> QED
  BY <1>1, <1>2, <1>3, <1>4 DEF DeviceInv

\* A process that leaves the driver without having taken the lock.
LEMMA LeaveInv ==
  ASSUME DeviceInv, NEW p \in Procs, NEW r, pc[p] = "entry", Leave(p, r),
         UNCHANGED <<device, lock, loaded, opened>>
  PROVE  DeviceInv'
<1> USE DEF Leave, device
<1>1. BufferTypeOK' /\ BufferShape' /\ MemorySound' /\ NewlineSplit'
  BY KeptInv DEF kept
<1>2. DeviceTypeOK'
  BY <1>1 DEF DeviceInv, DeviceTypeOK
<1>3. LockHeldInside'
  BY DEF DeviceInv, DeviceTypeOK, LockHeldInside
<1>4. ModulePinned'
  BY DEF DeviceInv, DeviceTypeOK, ModulePinned
<1> QED
  BY <1>1, <1>2, <1>3, <1>4 DEF DeviceInv

\* A handler that releases the lock: what it does to the processes.
LEMMA UnlockProcs ==
  ASSUME DeviceInv, NEW p \in Procs, NEW r, pc[p] = "locked",
         UnlockAndLeave(p, r), UNCHANGED <<loaded, opened>>
  PROVE  /\ lock' \in Procs \cup {NULL}
         /\ pc' \in [Procs -> {"idle", "entry", "locked", "exit"}]
         /\ call' \in [Procs -> Calls]
         /\ loaded' \in BOOLEAN
         /\ opened' \subseteq Files
         /\ LockHeldInside'
         /\ ModulePinned'
<1> USE DEF UnlockAndLeave, Leave
<1>1. /\ lock' \in Procs \cup {NULL}
      /\ pc' \in [Procs -> {"idle", "entry", "locked", "exit"}]
      /\ call' \in [Procs -> Calls]
      /\ loaded' \in BOOLEAN
      /\ opened' \subseteq Files
  BY DEF DeviceInv, DeviceTypeOK
<1>2. LockHeldInside'
  BY ProcsAssumption DEF DeviceInv, DeviceTypeOK, LockHeldInside
<1>3. ModulePinned'
  BY DEF DeviceInv, DeviceTypeOK, ModulePinned
<1> QED
  BY <1>1, <1>2, <1>3

\* The handlers that change no memory: aesd_read, aesd_llseek, aesd_ioctl.
LEMMA UnlockInv ==
  ASSUME DeviceInv, NEW p \in Procs, NEW r, pc[p] = "locked",
         UnlockAndLeave(p, r), UNCHANGED <<device, loaded, opened>>
  PROVE  DeviceInv'
<1>1. BufferTypeOK' /\ BufferShape' /\ MemorySound' /\ NewlineSplit'
  BY KeptInv DEF kept, device
<1>2. /\ lock' \in Procs \cup {NULL}
      /\ pc' \in [Procs -> {"idle", "entry", "locked", "exit"}]
      /\ call' \in [Procs -> Calls]
      /\ loaded' \in BOOLEAN
      /\ opened' \subseteq Files
      /\ LockHeldInside'
      /\ ModulePinned'
  BY UnlockProcs
<1>3. DeviceTypeOK'
  BY <1>1, <1>2 DEF DeviceInv, DeviceTypeOK, device
<1> QED
  BY <1>1, <1>2, <1>3 DEF DeviceInv

-----------------------------------------------------------------------------
(* aesd_write.                                                             *)

\* add_entry changes the slot at in_offs and no other.
LEMMA AddEntrySlots ==
  ASSUME NEW b \in Buffers, NEW e
  PROVE  /\ b.in_offs \in Slots
         /\ \A i \in Slots : aesd_circular_buffer_add_entry(b, e).entry[i]
                              = IF i = b.in_offs THEN e ELSE b.entry[i]
<1>1. aesd_circular_buffer_add_entry(b, e).entry = [b.entry EXCEPT ![b.in_offs] = e]
  BY AddEntryFields
<1>2. b.in_offs \in Slots /\ DOMAIN b.entry = Slots
  BY DEF Buffers
<1> QED
  BY <1>1, <1>2

\* The bytes a write brings in, and the entry they are appended to.
LEMMA StoredType ==
  ASSUME NEW data \in Seq(Byte), NEW bytes \in Uncopied(Len(data)), NEW old \in Seq(Byte)
  PROVE  /\ Copied(data, bytes) \in Seq(Byte)
         /\ Appended(old, Copied(data, bytes)) \in Seq(Byte)
<1>1. bytes \in 0..Len(data)
  BY DEF Uncopied
<1>2. Copied(data, bytes) \in Seq(Byte)
  <2>1. Len(data) - bytes \in 0..Len(data)
    BY <1>1
  <2>2. \A i \in 1..(Len(data) - bytes) : data[i] \in Byte
    BY <2>1
  <2>3. QED
    BY <2>1, <2>2 DEF Copied
<1>3. QED
  BY <1>2 DEF Appended

\* The part of aesd_write after the block is allocated, for a block the ring
\* does not point to: nothing is freed, because of the guard of main.c:157, and
\* the block is either handed to the ring or left to dev->entry, never both.
LEMMA StoreInv ==
  ASSUME DeviceInv, NEW p \in Procs, Inside(p, "write"),
         NEW ptr \in Buffptr, NEW old \in Seq(Byte),
         loaded => \A i \in Slots : buffer.entry[i].buffptr # ptr,
         Store(p, ptr, old), UNCHANGED <<loaded, opened>>
  PROVE  DeviceInv'
<1>0. PICK bytes \in Uncopied(Len(call[p].data)) :
      LET new == Copied(call[p].data, bytes)
          all == Appended(old, new)
          e   == [buffptr |-> ptr, size |-> Len(all)]
      IN  /\ accepted' = accepted \o new
          /\ IF Complete(all)
             THEN /\ buffer' = aesd_circular_buffer_add_entry(buffer, e)
                  /\ heap' = (heap \cup {ptr}) \ Evicted(buffer, ptr)
                  /\ entry' = ZeroEntry
             ELSE /\ buffer' = buffer
                  /\ heap' = heap \cup {ptr}
                  /\ entry' = e
          /\ mem' = [a \in Buffptr |-> IF a \notin heap' THEN << >>
                                       ELSE IF a = ptr THEN all ELSE mem[a]]
          /\ UnlockAndLeave(p, [result[p] EXCEPT !.ret = Len(new), !.pos = PosAfter(@, all)])
  BY DEF Store
<1> DEFINE new == Copied(call[p].data, bytes)
           all == Appended(old, new)
           e   == [buffptr |-> ptr, size |-> Len(all)]
           r   == [result[p] EXCEPT !.ret = Len(new), !.pos = PosAfter(@, all)]
<1>1. new \in Seq(Byte) /\ all \in Seq(Byte)
  <2>1. call[p].data \in Seq(Byte)
    BY DEF DeviceInv, DeviceTypeOK, Calls
  <2>2. QED
    BY <2>1, StoredType
<1>2. e \in Entries /\ ptr # NULL
  BY <1>1, NullAssumption DEF Entries
<1>3. heap' = heap \cup {ptr}
  BY <1>0 DEF Evicted, kfree
<1>4. accepted' \in Seq(Byte)
  BY <1>0, <1>1 DEF DeviceInv, DeviceTypeOK
<1>5. UnlockAndLeave(p, r) /\ pc[p] = "locked"
  BY <1>0 DEF Inside
<1>6. \A a \in Buffptr : mem'[a] = IF a \notin heap' THEN << >>
                                   ELSE IF a = ptr THEN all ELSE mem[a]
  BY <1>0
<1>7. mem' \in [Buffptr -> Seq(Byte)]
  BY <1>0, <1>1 DEF DeviceInv, DeviceTypeOK
<1>8. \/ /\ Complete(all) /\ entry' = ZeroEntry
         /\ buffer' = aesd_circular_buffer_add_entry(buffer, e)
      \/ ~Complete(all) /\ entry' = e /\ buffer' = buffer
  BY <1>0
<1> HIDE DEF new, all, e, r
<1>9. BufferTypeOK' /\ BufferShape' /\ entry' \in Entries
  BY <1>2, <1>8, AddEntryShape
  DEF DeviceInv, DeviceTypeOK, BufferTypeOK, BufferShape, Entries, ZeroEntry
<1>10. /\ lock' \in Procs \cup {NULL}
       /\ pc' \in [Procs -> {"idle", "entry", "locked", "exit"}]
       /\ call' \in [Procs -> Calls]
       /\ loaded' \in BOOLEAN
       /\ opened' \subseteq Files
       /\ LockHeldInside'
       /\ ModulePinned'
  BY <1>5, UnlockProcs
<1>11. DeviceTypeOK'
  <2>1. heap' \subseteq Buffptr
    BY <1>3 DEF DeviceInv, DeviceTypeOK
  <2>2. QED
    BY <1>4, <1>7, <1>9, <1>10, <2>1 DEF DeviceTypeOK
\* What each slot of the ring points to afterwards.
<1>12. \A i \in Slots : \/ buffer'.entry[i] = buffer.entry[i]
                        \/ buffer'.entry[i] = e /\ i = buffer.in_offs /\ Complete(all)
                             /\ entry' = ZeroEntry
  BY <1>8, AddEntrySlots DEF DeviceInv, DeviceTypeOK, BufferTypeOK
<1>13. ASSUME loaded PROVE \A i \in Used(buffer) :
         /\ buffer.entry[i].buffptr \in heap'
         /\ mem'[buffer.entry[i].buffptr] = mem[buffer.entry[i].buffptr]
         /\ buffer.entry[i].buffptr # ptr
  BY <1>3, <1>6, <1>13 DEF DeviceInv, DeviceTypeOK, MemorySound, Used
<1>14. ptr \in heap' /\ mem'[ptr] = all /\ e.buffptr = ptr /\ e.size = Len(all)
  BY <1>3, <1>6 DEF e
<1>15. MemorySound'
  <2> SUFFICES ASSUME loaded
      PROVE  /\ \A i \in Used(buffer') :
                  /\ buffer'.entry[i].buffptr \in heap'
                  /\ Len(mem'[buffer'.entry[i].buffptr]) = buffer'.entry[i].size
             /\ \A i, j \in Used(buffer') :
                  i # j => buffer'.entry[i].buffptr # buffer'.entry[j].buffptr
             /\ entry'.buffptr # NULL =>
                  /\ entry'.buffptr \in heap'
                  /\ \A i \in Slots : buffer'.entry[i].buffptr # entry'.buffptr
    BY DEF MemorySound
  <2>1. \A i \in Used(buffer') : /\ buffer'.entry[i].buffptr \in heap'
                                 /\ Len(mem'[buffer'.entry[i].buffptr]) = buffer'.entry[i].size
    BY <1>12, <1>13, <1>14 DEF DeviceInv, MemorySound, Used
  <2>2. \A i, j \in Used(buffer') :
          i # j => buffer'.entry[i].buffptr # buffer'.entry[j].buffptr
    BY <1>12, <1>13, <1>14 DEF DeviceInv, MemorySound, Used
  <2>3. entry'.buffptr # NULL =>
          /\ entry'.buffptr \in heap'
          /\ \A i \in Slots : buffer'.entry[i].buffptr # entry'.buffptr
    BY <1>8, <1>14 DEF ZeroEntry
  <2>4. QED
    BY <2>1, <2>2, <2>3
<1>16. NewlineSplit'
  <2> SUFFICES ASSUME loaded
      PROVE  /\ \A i \in Used(buffer') : HasNewline(mem'[buffer'.entry[i].buffptr])
             /\ entry'.buffptr # NULL => ~HasNewline(mem'[entry'.buffptr])
    BY DEF NewlineSplit, HasNewline
  <2>1. \A i \in Used(buffer') : HasNewline(mem'[buffer'.entry[i].buffptr])
    BY <1>12, <1>13, <1>14 DEF DeviceInv, NewlineSplit, Used, Complete
  <2>2. entry'.buffptr # NULL => ~HasNewline(mem'[entry'.buffptr])
    BY <1>8, <1>14 DEF Complete, ZeroEntry
  <2>3. QED
    BY <2>1, <2>2
<1> QED
  BY <1>9, <1>10, <1>11, <1>15, <1>16 DEF DeviceInv

\* kmalloc or krealloc fails: the block of the unfinished write is lost, and
\* nothing else changes.
LEMMA OutOfMemoryInv ==
  ASSUME DeviceInv, NEW p \in Procs, Inside(p, "write"), OutOfMemory(p),
         UNCHANGED <<loaded, opened>>
  PROVE  DeviceInv'
<1> USE DEF OutOfMemory
<1>1. /\ lock' \in Procs \cup {NULL}
      /\ pc' \in [Procs -> {"idle", "entry", "locked", "exit"}]
      /\ call' \in [Procs -> Calls]
      /\ loaded' \in BOOLEAN
      /\ opened' \subseteq Files
      /\ LockHeldInside'
      /\ ModulePinned'
  BY UnlockProcs DEF Inside
<1>2. entry' \in Entries /\ entry'.buffptr = NULL
  BY DEF DeviceInv, DeviceTypeOK, Entries
<1>3. DeviceTypeOK' /\ BufferShape'
  BY <1>1, <1>2 DEF DeviceInv, DeviceTypeOK, BufferTypeOK, BufferShape
<1>4. MemorySound'
  BY <1>2 DEF DeviceInv, MemorySound, Used
<1>5. NewlineSplit'
  BY <1>2 DEF DeviceInv, NewlineSplit, Used
<1> QED
  BY <1>1, <1>3, <1>4, <1>5 DEF DeviceInv

LEMMA WriteInv ==
  ASSUME DeviceInv, NEW p \in Procs, aesd_write(p)
  PROVE  DeviceInv'
<1> USE DEF aesd_write
<1>1. CASE OutOfMemory(p)
  BY <1>1, OutOfMemoryInv
<1>2. ASSUME NEW ptr \in Buffptr \ heap, loaded
      PROVE  \A i \in Slots : buffer.entry[i].buffptr # ptr
  BY <1>2, NullAssumption DEF DeviceInv, MemorySound, Used
<1>3. CASE WriteFirst(p)
  <2>1. PICK ptr \in Buffptr \ heap : Store(p, ptr, << >>)
    BY <1>3 DEF WriteFirst
  <2>2. << >> \in Seq(Byte)
    OBVIOUS
  <2>3. QED
    BY <1>2, <2>1, <2>2, StoreInv
<1>4. CASE WriteMore(p)
  <2>1. entry.buffptr \in Buffptr /\ mem[entry.buffptr] \in Seq(Byte)
    BY <1>4 DEF WriteMore, DeviceInv, DeviceTypeOK, Entries
  <2>2. loaded => \A i \in Slots : buffer.entry[i].buffptr # entry.buffptr
    BY <1>4 DEF WriteMore, DeviceInv, MemorySound
  <2>3. QED
    BY <1>4, <2>1, <2>2, StoreInv DEF WriteMore
<1>5. CASE WriteAfterFailure(p)
  <2>1. PICK ptr \in Buffptr \ heap, junk \in [1..entry.size -> Byte] : Store(p, ptr, junk)
    BY <1>5 DEF WriteAfterFailure
  <2>2. junk \in Seq(Byte)
    <3>1. entry.size \in Nat
      BY DEF DeviceInv, DeviceTypeOK, Entries
    <3>2. QED
      BY <3>1
  <2>3. QED
    BY <1>2, <2>1, <2>2, StoreInv
<1> QED
  BY <1>1, <1>3, <1>4, <1>5

-----------------------------------------------------------------------------
(* All steps, and the theorems.                                            *)

\* A system call passes arguments of the right types.
LEMMA SyscallInv ==
  ASSUME DeviceInv, NEW p \in Procs, SysRead(p) \/ SysWrite(p) \/ SysLlseek(p) \/ SysIoctl(p)
  PROVE  DeviceInv'
<1>1. CASE SysRead(p)
  <2>1. PICK f \in Files, u \in UserPtrs, count \in Sizes :
          Invoke(p, NewCall("read", f, u, NULL, count, 0, << >>))
    BY <1>1 DEF SysRead
  <2>2. NewCall("read", f, u, NULL, count, 0, << >>) \in Calls
    BY ArgumentsAssumption, SizesAssumption DEF NewCall, Calls
  <2>3. QED
    BY <2>1, <2>2, InvokeInv
<1>2. CASE SysWrite(p)
  <2>1. PICK f \in Files, u \in UserPtrs, d \in Chunks :
          Invoke(p, NewCall("write", f, u, NULL, 0, 0, d))
    BY <1>2 DEF SysWrite
  <2>2. NewCall("write", f, u, NULL, 0, 0, d) \in Calls
    BY ArgumentsAssumption, ByteAssumption DEF NewCall, Calls
  <2>3. QED
    BY <2>1, <2>2, InvokeInv
<1>3. CASE SysLlseek(p)
  <2>1. PICK f \in Files, offset \in SeekOffsets, origin \in Origins :
          Invoke(p, NewCall("llseek", f, "ok", NULL, offset, origin, << >>))
    BY <1>3 DEF SysLlseek
  <2>2. NewCall("llseek", f, "ok", NULL, offset, origin, << >>) \in Calls
    BY ArgumentsAssumption, OffsetsAssumption DEF NewCall, Calls
  <2>3. QED
    BY <2>1, <2>2, InvokeInv
<1>4. CASE SysIoctl(p)
  <2>1. PICK f \in Files, c \in Cmds, write_cmd \in 0..N, write_cmd_offset \in Sizes :
          Invoke(p, NewCall("ioctl", f, "ok", c, write_cmd, write_cmd_offset, << >>))
    BY <1>4 DEF SysIoctl
  <2>2. NewCall("ioctl", f, "ok", c, write_cmd, write_cmd_offset, << >>) \in Calls
    BY SizesAssumption, CapacityAssumption DEF NewCall, Calls
  <2>3. QED
    BY <2>1, <2>2, InvokeInv
<1> QED
  BY <1>1, <1>2, <1>3, <1>4

\* The module and its files.
LEMMA ModuleInv ==
  ASSUME DeviceInv,
         \/ aesd_init_module
         \/ aesd_cleanup_module
         \/ \E f \in Files : aesd_open(f) \/ aesd_release(f)
  PROVE  DeviceInv'
<1>1. CASE aesd_init_module
  <2> USE <1>1 DEF aesd_init_module
  <2>1. \A p \in Procs : pc[p] # "locked"
    BY DEF DeviceInv, ModulePinned
  <2>2. BufferTypeOK' /\ BufferShape'
    BY InitShape DEF BufferTypeOK, BufferShape
  <2>3. DeviceTypeOK'
    BY <2>2 DEF DeviceInv, DeviceTypeOK, Entries, ZeroEntry
  <2>4. LockHeldInside' /\ ModulePinned'
    BY <2>1, ProcsAssumption DEF DeviceInv, LockHeldInside, ModulePinned
  <2>5. MemorySound' /\ NewlineSplit'
    BY DEF MemorySound, NewlineSplit, Used, aesd_circular_buffer_init, ZeroEntry
  <2> QED
    BY <2>2, <2>3, <2>4, <2>5 DEF DeviceInv
<1>2. CASE aesd_cleanup_module
  <2> USE <1>2 DEF aesd_cleanup_module
  <2>1. mem' \in [Buffptr -> Seq(Byte)]
    BY DEF DeviceInv, DeviceTypeOK
  <2>2. DeviceTypeOK' /\ BufferShape'
    BY <2>1 DEF DeviceInv, DeviceTypeOK, BufferTypeOK, BufferShape
  <2>3. LockHeldInside' /\ ModulePinned'
    BY DEF DeviceInv, LockHeldInside, ModulePinned
  <2>4. MemorySound' /\ NewlineSplit'
    BY DEF MemorySound, NewlineSplit
  <2> QED
    BY <2>2, <2>3, <2>4 DEF DeviceInv
<1>3. ASSUME NEW f \in Files, aesd_open(f) PROVE DeviceInv'
  <2> USE <1>3 DEF aesd_open, device
  <2>1. BufferTypeOK' /\ BufferShape' /\ MemorySound' /\ NewlineSplit'
    BY KeptInv DEF kept
  <2>2. DeviceTypeOK'
    BY <2>1 DEF DeviceInv, DeviceTypeOK
  <2>3. LockHeldInside' /\ ModulePinned'
    BY DEF DeviceInv, LockHeldInside, ModulePinned
  <2> QED
    BY <2>1, <2>2, <2>3 DEF DeviceInv
<1>4. ASSUME NEW f \in Files, aesd_release(f) PROVE DeviceInv'
  <2> USE <1>4 DEF aesd_release, device
  <2>1. BufferTypeOK' /\ BufferShape' /\ MemorySound' /\ NewlineSplit'
    BY KeptInv DEF kept
  <2>2. DeviceTypeOK'
    BY <2>1 DEF DeviceInv, DeviceTypeOK
  <2>3. LockHeldInside' /\ ModulePinned'
    BY DEF DeviceInv, LockHeldInside, ModulePinned
  <2> QED
    BY <2>1, <2>2, <2>3 DEF DeviceInv
<1> QED
  BY <1>1, <1>2, <1>3, <1>4

\* Taking the lock, and the return to user space.
LEMMA LockReturnInv ==
  ASSUME DeviceInv, NEW p \in Procs, Lock(p) \/ Return(p)
  PROVE  DeviceInv'
<1> USE DEF Lock, Return, device
<1>1. BufferTypeOK' /\ BufferShape' /\ MemorySound' /\ NewlineSplit'
  BY KeptInv DEF kept
<1>2. DeviceTypeOK'
  BY <1>1, NoCallType DEF DeviceInv, DeviceTypeOK
<1>3. LockHeldInside'
  BY ProcsAssumption DEF DeviceInv, DeviceTypeOK, LockHeldInside
<1>4. ModulePinned'
  BY DEF DeviceInv, DeviceTypeOK, ModulePinned
<1> QED
  BY <1>1, <1>2, <1>3, <1>4 DEF DeviceInv

\* The handlers.
LEMMA HandlerInv ==
  ASSUME DeviceInv, NEW p \in Procs,
         aesd_read(p) \/ aesd_write(p) \/ aesd_llseek(p) \/ aesd_ioctl(p)
  PROVE  DeviceInv'
<1>1. CASE aesd_read(p)
  BY <1>1, UnlockInv DEF aesd_read, ReadPastEnd, ReadEntry, Inside
<1>2. CASE aesd_write(p)
  BY <1>2, WriteInv
<1>3. CASE aesd_llseek(p)
  BY <1>3, UnlockInv DEF aesd_llseek, Inside
<1>4. CASE aesd_ioctl(p)
  BY <1>4, UnlockInv DEF aesd_ioctl, Inside
<1> QED
  BY <1>1, <1>2, <1>3, <1>4

\* A step that changes nothing.
LEMMA StutterInv ==
  ASSUME DeviceInv, UNCHANGED vars
  PROVE  DeviceInv'
<1> USE DEF vars
<1>1. BufferTypeOK' /\ BufferShape' /\ MemorySound' /\ NewlineSplit'
  BY KeptInv DEF kept
<1>2. DeviceTypeOK' /\ LockHeldInside' /\ ModulePinned'
  BY <1>1 DEF DeviceInv, DeviceTypeOK, LockHeldInside, ModulePinned
<1> QED
  BY <1>1, <1>2 DEF DeviceInv

LEMMA NextInv == DeviceInv /\ [Next]_vars => DeviceInv'
<1> SUFFICES ASSUME DeviceInv, [Next]_vars PROVE DeviceInv'
  OBVIOUS
<1>1. CASE \/ aesd_init_module
           \/ aesd_cleanup_module
           \/ \E f \in Files : aesd_open(f) \/ aesd_release(f)
  BY <1>1, ModuleInv
<1>2. ASSUME NEW p \in Procs, SysRead(p) \/ SysWrite(p) \/ SysLlseek(p) \/ SysIoctl(p)
      PROVE  DeviceInv'
  BY <1>2, SyscallInv
<1>3. ASSUME NEW p \in Procs, Lock(p) \/ Return(p) PROVE DeviceInv'
  BY <1>3, LockReturnInv
<1>4. ASSUME NEW p \in Procs, Reject(p) \/ LockInterrupted(p) PROVE DeviceInv'
  BY <1>4, LeaveInv DEF Reject, LockInterrupted
<1>5. ASSUME NEW p \in Procs, aesd_read(p) \/ aesd_write(p) \/ aesd_llseek(p) \/ aesd_ioctl(p)
      PROVE  DeviceInv'
  BY <1>5, HandlerInv
<1>6. CASE UNCHANGED vars
  BY <1>6, StutterInv
<1> QED
  BY <1>1, <1>2, <1>3, <1>4, <1>5, <1>6 DEF Next, Progress

\* The inductive invariant holds in every behaviour of the driver.
THEOREM DeviceCorrect == Spec => []DeviceInv
  BY InitInv, NextInv, PTL DEF Spec

\* dev->lock excludes and is released on every path out of every handler of
\* main.c, signals and failures included.
THEOREM LockCorrect == Spec => []LockHeldInside
<1>1. DeviceInv => LockHeldInside
  BY DEF DeviceInv
<1> QED
  BY <1>1, DeviceCorrect, PTL

\* No entry of the ring ever points to freed memory, to fewer bytes than its
\* size, or to the memory of another entry, for any sequence of reads, writes,
\* seeks, failures, closes and reloads of the module.
THEOREM MemoryCorrect == Spec => []MemorySound
<1>1. DeviceInv => MemorySound
  BY DEF DeviceInv
<1> QED
  BY <1>1, DeviceCorrect, PTL

\* Every entry of the ring is a complete write and dev->entry never is,
\* however the bytes were divided among calls of aesd_write.
THEOREM NewlineCorrect == Spec => []NewlineSplit
<1>1. DeviceInv => NewlineSplit
  BY DEF DeviceInv
<1> QED
  BY <1>1, DeviceCorrect, PTL

-----------------------------------------------------------------------------
(* The loop of SEEK_END.                                                   *)

\* totalLength after k rounds: the bytes of the k oldest entries, added to what
\* it started with.
LEMMA TotalIsSum ==
  ASSUME NEW b \in Buffers, NEW B, SumsOf(B, b), NEW u \in Int
  PROVE  \A k \in Nat : TotalAfter(b, u)[k] = u + B[k]
<1> DEFINE Unfolds(f) ==
             f = [i \in Nat |-> IF i = 0 THEN u ELSE f[i - 1] + b.entry[SlotOf(b, i - 1)].size]
           g == [k \in Nat |-> u + B[k]]
           total == CHOOSE f : Unfolds(f)
<1>0. B \in [Nat -> Int] /\ B[0] = 0
  BY DEF SumsOf
<1>1. ASSUME NEW k \in Nat, k # 0
      PROVE  /\ k - 1 \in Nat /\ B[k] = B[k - 1] + b.entry[SlotOf(b, k - 1)].size
             /\ b.entry[SlotOf(b, k - 1)].size \in Int
  <2>1. k - 1 \in Nat /\ (k - 1) + 1 = k
    BY <1>1
  <2>2. \A n \in Nat : B[n + 1] = B[n] + b.entry[SlotOf(b, n)].size
    BY DEF SumsOf
  <2>3. b.entry[SlotOf(b, k - 1)].size \in Int
    BY <2>1, SlotType DEF Entries
  <2>4. B[(k - 1) + 1] = B[k - 1] + b.entry[SlotOf(b, k - 1)].size
    BY <2>1, <2>2
  <2> QED
    BY <2>1, <2>3, <2>4
<1>2. Unfolds(g)
  <2>1. \A k \in Nat : g[k] = IF k = 0 THEN u ELSE g[k - 1] + b.entry[SlotOf(b, k - 1)].size
    BY <1>0, <1>1
  <2>2. g = [k \in Nat |-> g[k]]
    OBVIOUS
  <2> HIDE DEF g
  <2> QED
    BY <2>1, <2>2
<1>3. Unfolds(total)
  <2> HIDE DEF Unfolds, g
  <2> QED
    BY <1>2
<1>4. TotalAfter(b, u) = total
  BY DEF TotalAfter
<1> HIDE DEF total, g
<1> DEFINE S == {k \in Nat : total[k] = u + B[k]}
<1>5. 0 \in S
  BY <1>0, <1>3
<1>6. ASSUME NEW k \in Nat, k \in S PROVE k + 1 \in S
  <2>1. k + 1 \in Nat /\ k + 1 # 0 /\ (k + 1) - 1 = k
    OBVIOUS
  <2>2. total[k + 1] = total[k] + b.entry[SlotOf(b, k)].size
    BY <1>3, <2>1
  <2>3. B[k + 1] = B[k] + b.entry[SlotOf(b, k)].size /\ b.entry[SlotOf(b, k)].size \in Int
    BY <1>1, <2>1
  <2>4. total[k] = u + B[k] /\ B[k] \in Int
    BY <1>0, <1>6
  <2> QED
    BY <2>1, <2>2, <2>3, <2>4
<1>7. Nat \subseteq S
  <2> HIDE DEF S
  <2> QED
    BY <1>5, <1>6, InductiveSet
<1> QED
  BY <1>4, <1>7

\* The loop goes once around the ring, or up to in_offs if there are entries
\* and free slots.
LEMMA RoundsOfLoop ==
  ASSUME NEW b \in Buffers, RingShape(b)
  PROVE  Rounds(b, 1) = IF b.full \/ b.in_offs = 0 THEN N ELSE b.in_offs
<1> DEFINE last == IF b.full \/ b.in_offs = 0 THEN N ELSE b.in_offs
           Stops(k) == /\ SlotOf(b, k) = b.in_offs
                       /\ \A j \in 1..(k - 1) : SlotOf(b, j) # b.in_offs
<1>1. N \in 1..255 /\ b.in_offs \in 0..(N - 1) /\ b.out_offs \in 0..(N - 1)
  BY CapacityAssumption DEF Buffers, Slots
<1>2. \A k \in 0..N : SlotOf(b, k) = IF b.out_offs + k < N THEN b.out_offs + k ELSE b.out_offs + k - N
  BY <1>1, ModPlus DEF SlotOf, Slots
<1>3. \/ b.in_offs = b.out_offs /\ last = N
      \/ b.out_offs = 0 /\ b.in_offs # 0 /\ last = b.in_offs
  BY DEF RingShape
<1>4. last \in 1..N /\ Stops(last)
  BY <1>1, <1>2, <1>3
<1>5. \A k \in 1..N : Stops(k) => k = last
  <2> SUFFICES ASSUME NEW k \in 1..N, Stops(k), k # last PROVE FALSE
    OBVIOUS
  <2>1. k < last => last \notin 1..(k - 1)
    BY <1>1
  <2>2. last < k => last \in 1..(k - 1)
    BY <1>1, <1>4
  <2> QED
    BY <1>1, <1>2, <1>3, <1>4, <2>1, <2>2
<1>6. (CHOOSE k \in 1..N : Stops(k)) = last
  <2> HIDE DEF last, Stops
  <2> QED
    BY <1>4, <1>5
<1> QED
  BY <1>6 DEF Rounds

-----------------------------------------------------------------------------
(* The slots in use, and the unfinished write.                             *)

\* The entries a reader sees have memory, and dev->entry has as many bytes of
\* it as its size says.
Filled ==
  loaded =>
    /\ \A i \in Slots : buffer.full \/ i < buffer.in_offs => buffer.entry[i].buffptr # NULL
    /\ entry.buffptr # NULL => Len(mem[entry.buffptr]) = entry.size

\* Only insmod, rmmod and aesd_write change the device.
DeviceStep ==
  \/ UNCHANGED kept
  \/ aesd_init_module
  \/ aesd_cleanup_module
  \/ \E p \in Procs : aesd_write(p)

LEMMA KeptSteps ==
  ASSUME [Next]_vars
  PROVE  DeviceStep
<1>1. CASE \E f \in Files : aesd_open(f) \/ aesd_release(f)
  BY <1>1 DEF aesd_open, aesd_release, device, kept, DeviceStep
<1>2. ASSUME NEW p \in Procs, SysRead(p) \/ SysWrite(p) \/ SysLlseek(p) \/ SysIoctl(p)
      PROVE  UNCHANGED kept
  BY <1>2 DEF SysRead, SysWrite, SysLlseek, SysIoctl, Invoke, device, kept
<1>3. ASSUME NEW p \in Procs, Lock(p) \/ Return(p) \/ Reject(p) \/ LockInterrupted(p)
      PROVE  UNCHANGED kept
  BY <1>3 DEF Lock, Return, Reject, LockInterrupted, device, kept
<1>4. ASSUME NEW p \in Procs, aesd_read(p) \/ aesd_llseek(p) \/ aesd_ioctl(p)
      PROVE  UNCHANGED kept
  BY <1>4 DEF aesd_read, aesd_llseek, aesd_ioctl, device, kept
<1>5. CASE UNCHANGED vars
  BY <1>5 DEF vars, kept, DeviceStep
<1> QED
  BY <1>1, <1>2, <1>3, <1>4, <1>5 DEF Next, Progress, DeviceStep

\* What a write does to the device, when new bytes come behind the old ones in
\* the block ptr.
Stored(ptr, old, new) ==
  /\ accepted' = accepted \o new
  /\ mem'[ptr] = old \o new
  /\ \A a \in heap : a # ptr => mem'[a] = mem[a]
  /\ LET e == [buffptr |-> ptr, size |-> Len(old \o new)]
     IN  \/ entry' = ZeroEntry /\ buffer' = aesd_circular_buffer_add_entry(buffer, e)
         \/ entry' = e /\ buffer' = buffer

\* The bytes of dev->entry that a write goes on with.  After a failed krealloc
\* they are not the ones written before.
Continues(ptr, old) ==
  \/ entry.size = 0 /\ old = << >> /\ ptr \notin heap
  \/ entry.size > 0 /\ entry.buffptr = ptr /\ old = mem[ptr]
  \/ entry.size > 0 /\ entry.buffptr = NULL

LEMMA WriteStores ==
  ASSUME DeviceInv, NEW p \in Procs, aesd_write(p)
  PROVE  /\ loaded /\ UNCHANGED loaded
         /\ \/ OutOfMemory(p)
            \/ \E ptr \in Buffptr, old \in Seq(Byte), new \in Seq(Byte) :
                 /\ \A i \in Slots : buffer.entry[i].buffptr # ptr
                 /\ Continues(ptr, old)
                 /\ Stored(ptr, old, new)
<1>1. loaded /\ UNCHANGED loaded
  BY DEF aesd_write, Inside, DeviceInv, ModulePinned
<1>2. ASSUME NEW ptr \in Buffptr, NEW old \in Seq(Byte), Store(p, ptr, old)
      PROVE  \E new \in Seq(Byte) : Stored(ptr, old, new)
  <2>1. PICK bytes \in Uncopied(Len(call[p].data)) :
        LET new == Copied(call[p].data, bytes)
            all == Appended(old, new)
            e   == [buffptr |-> ptr, size |-> Len(all)]
        IN  /\ accepted' = accepted \o new
            /\ IF Complete(all)
               THEN /\ buffer' = aesd_circular_buffer_add_entry(buffer, e)
                    /\ heap' = (heap \cup {ptr}) \ Evicted(buffer, ptr)
                    /\ entry' = ZeroEntry
               ELSE /\ buffer' = buffer
                    /\ heap' = heap \cup {ptr}
                    /\ entry' = e
            /\ mem' = [a \in Buffptr |-> IF a \notin heap' THEN << >>
                                         ELSE IF a = ptr THEN all ELSE mem[a]]
    BY <1>2 DEF Store
  <2> DEFINE new == Copied(call[p].data, bytes)
  <2>2. new \in Seq(Byte) /\ Appended(old, new) = old \o new
    <3>1. call[p].data \in Seq(Byte)
      BY DEF DeviceInv, DeviceTypeOK, Calls
    <3> QED
      BY <3>1, StoredType DEF Appended
  <2>3. heap' = heap \cup {ptr} /\ heap \subseteq Buffptr
    BY <2>1 DEF Evicted, kfree, DeviceInv, DeviceTypeOK
  <2>4. \A a \in Buffptr : mem'[a] = IF a \notin heap' THEN << >>
                                    ELSE IF a = ptr THEN old \o new ELSE mem[a]
    BY <2>1, <2>2
  <2>5. /\ accepted' = accepted \o new
        /\ \/ /\ entry' = ZeroEntry
              /\ buffer' = aesd_circular_buffer_add_entry(buffer,
                              [buffptr |-> ptr, size |-> Len(old \o new)])
           \/ entry' = [buffptr |-> ptr, size |-> Len(old \o new)] /\ buffer' = buffer
    BY <2>1, <2>2
  <2> HIDE DEF new
  <2>6. Stored(ptr, old, new)
    BY <2>3, <2>4, <2>5 DEF Stored
  <2> QED
    BY <2>2, <2>6
<1>3. ASSUME NEW ptr \in Buffptr \ heap
      PROVE  \A i \in Slots : buffer.entry[i].buffptr # ptr
  BY <1>1, NullAssumption DEF DeviceInv, MemorySound, Used
<1>4. CASE WriteFirst(p)
  <2>1. PICK ptr \in Buffptr \ heap : Store(p, ptr, << >>)
    BY <1>4 DEF WriteFirst
  <2>2. << >> \in Seq(Byte) /\ Continues(ptr, << >>)
    BY <1>4 DEF WriteFirst, Continues
  <2> QED
    BY <1>1, <1>2, <1>3, <2>1, <2>2
<1>5. CASE WriteMore(p)
  <2>1. entry.buffptr \in Buffptr /\ mem[entry.buffptr] \in Seq(Byte)
    BY <1>5 DEF WriteMore, DeviceInv, DeviceTypeOK, Entries
  <2>2. \A i \in Slots : buffer.entry[i].buffptr # entry.buffptr
    BY <1>1, <1>5 DEF WriteMore, DeviceInv, MemorySound
  <2>3. Continues(entry.buffptr, mem[entry.buffptr])
    BY <1>5 DEF WriteMore, Continues
  <2> QED
    BY <1>1, <1>2, <1>5, <2>1, <2>2, <2>3 DEF WriteMore
<1>6. CASE WriteAfterFailure(p)
  <2>1. PICK ptr \in Buffptr \ heap, junk \in [1..entry.size -> Byte] : Store(p, ptr, junk)
    BY <1>6 DEF WriteAfterFailure
  <2>2. junk \in Seq(Byte)
    <3>1. entry.size \in Nat
      BY DEF DeviceInv, DeviceTypeOK, Entries
    <3> QED
      BY <3>1
  <2>3. Continues(ptr, junk)
    BY <1>6 DEF WriteAfterFailure, Continues
  <2> QED
    BY <1>1, <1>2, <1>3, <2>1, <2>2, <2>3
<1> QED
  BY <1>1, <1>4, <1>5, <1>6 DEF aesd_write

LEMMA FilledNext ==
  ASSUME DeviceInv, Filled, DeviceStep
  PROVE  Filled'
<1>1. CASE UNCHANGED kept
  BY <1>1 DEF kept, Filled
<1>2. CASE aesd_init_module
  BY <1>2 DEF aesd_init_module, Filled, aesd_circular_buffer_init, ZeroEntry, Slots
<1>3. CASE aesd_cleanup_module
  BY <1>3 DEF aesd_cleanup_module, Filled
<1>4. ASSUME NEW p \in Procs, OutOfMemory(p), loaded, UNCHANGED loaded PROVE Filled'
  <2>1. entry'.buffptr = NULL /\ UNCHANGED <<buffer, mem>>
    BY <1>4 DEF OutOfMemory, DeviceInv, DeviceTypeOK, Entries
  <2> QED
    BY <1>4, <2>1 DEF Filled
<1>5. ASSUME NEW ptr \in Buffptr, NEW old \in Seq(Byte), NEW new \in Seq(Byte),
             Stored(ptr, old, new), loaded, UNCHANGED loaded
      PROVE  Filled'
  <2> DEFINE e == [buffptr |-> ptr, size |-> Len(old \o new)]
  <2>1. mem'[ptr] = old \o new /\ ptr # NULL /\ e.buffptr = ptr /\ e.size = Len(old \o new)
    BY <1>5, NullAssumption DEF Stored
  <2>2. \/ entry' = ZeroEntry /\ buffer' = aesd_circular_buffer_add_entry(buffer, e)
        \/ entry' = e /\ buffer' = buffer
    BY <1>5 DEF Stored
  <2> HIDE DEF e
  <2>3. entry'.buffptr # NULL => Len(mem'[entry'.buffptr]) = entry'.size
    <3>1. CASE entry' = ZeroEntry
      BY <3>1 DEF ZeroEntry
    <3>2. CASE entry' = e
      BY <2>1, <3>2
    <3> QED
      BY <2>2, <3>1, <3>2
  <2>4. buffer \in Buffers /\ RingShape(buffer)
    BY DEF DeviceInv, DeviceTypeOK, BufferTypeOK, BufferShape
  <2>5. \A i \in Slots : buffer.full \/ i < buffer.in_offs => buffer.entry[i].buffptr # NULL
    BY <1>5 DEF Filled
  <2>6. CASE entry' = ZeroEntry /\ buffer' = aesd_circular_buffer_add_entry(buffer, e)
    <3>1. /\ \A i \in Slots : buffer'.entry[i] = IF i = buffer.in_offs THEN e ELSE buffer.entry[i]
          /\ buffer.in_offs \in Slots
      BY <2>4, <2>6, AddEntrySlots
    <3>2. /\ buffer'.in_offs = IF buffer.in_offs = N - 1 THEN 0 ELSE buffer.in_offs + 1
          /\ buffer'.out_offs = IF buffer.full
                                THEN IF buffer.out_offs = N - 1 THEN 0 ELSE buffer.out_offs + 1
                                ELSE buffer.out_offs
          /\ buffer'.full = (buffer.full \/ buffer'.in_offs = buffer'.out_offs)
      BY <2>4, <2>6, AddEntryFields
    <3>3. ASSUME NEW i \in Slots, buffer'.full \/ i < buffer'.in_offs
          PROVE  buffer'.entry[i].buffptr # NULL
      <4>1. CASE i = buffer.in_offs
        BY <2>1, <3>1, <4>1
      <4>2. CASE i # buffer.in_offs
        <5>1. buffer.full \/ i < buffer.in_offs
          BY <2>4, <3>1, <3>2, <3>3, <4>2, CapacityAssumption DEF RingShape, Slots, Buffers
        <5> QED
          BY <2>5, <3>1, <4>2, <5>1
      <4> QED
        BY <4>1, <4>2
    <3> QED
      BY <2>3, <3>3 DEF Filled
  <2>7. CASE entry' = e /\ buffer' = buffer
    BY <2>3, <2>5, <2>7 DEF Filled
  <2> QED
    BY <2>2, <2>6, <2>7
<1>6. ASSUME NEW p \in Procs, aesd_write(p) PROVE Filled'
  BY <1>4, <1>5, <1>6, WriteStores
<1> QED
  BY <1>1, <1>2, <1>3, <1>6 DEF DeviceStep

\* The slots that totalEntries counts are never empty.
LEMMA FilledAlways == Spec => []Filled
<1>1. Init => Filled
  BY DEF Init, Filled
<1> QED
  BY <1>1, KeptSteps, FilledNext, DeviceCorrect, PTL DEF Spec

-----------------------------------------------------------------------------
(* The bytes of the device, end to end.                                    *)

\* The blocks of the n oldest entries.
Blocks(n) == [i \in 1..n |-> mem[buffer.entry[SlotOf(buffer, i - 1)].buffptr]]

\* Each holds as many bytes as its entry says.
LEMMA BlocksSound ==
  ASSUME DeviceInv, Filled, loaded, NEW n \in 0..totalEntries(buffer)
  PROVE  /\ Blocks(n) \in Seq(Seq(Byte)) /\ Len(Blocks(n)) = n
         /\ \A i \in 1..n :
              /\ SlotOf(buffer, i - 1) \in Used(buffer)
              /\ Blocks(n)[i] = mem[buffer.entry[SlotOf(buffer, i - 1)].buffptr]
              /\ Len(Blocks(n)[i]) = buffer.entry[SlotOf(buffer, i - 1)].size
<1>1. /\ buffer \in Buffers /\ RingShape(buffer)
      /\ totalEntries(buffer) \in 0..N /\ n \in Nat
  BY TotalType, CapacityAssumption DEF DeviceInv, DeviceTypeOK, BufferTypeOK, BufferShape
<1>2. ASSUME NEW i \in 1..n
      PROVE  /\ SlotOf(buffer, i - 1) \in Used(buffer)
             /\ buffer.entry[SlotOf(buffer, i - 1)].buffptr \in Buffptr
  <2>1. i - 1 \in 0..(totalEntries(buffer) - 1) /\ i - 1 \in Nat
    BY <1>1
  <2>2. SlotOf(buffer, i - 1) \in Slots /\ buffer.entry[SlotOf(buffer, i - 1)] \in Entries
    BY <1>1, <2>1, SlotType
  <2>3. buffer.full \/ SlotOf(buffer, i - 1) < buffer.in_offs
    <3>1. CASE ~buffer.full
      <4>1. buffer.out_offs = 0 /\ i - 1 < buffer.in_offs /\ buffer.in_offs \in Slots
        BY <1>1, <2>1, <3>1 DEF RingShape, totalEntries, Buffers, Slots
      <4>2. SlotOf(buffer, i - 1) = i - 1
        <5> DEFINE k == i - 1
        <5>1. k \in Nat /\ k < N /\ buffer.out_offs = 0
          BY <2>1, <4>1, CapacityAssumption DEF Slots
        <5> HIDE DEF k
        <5>2. SlotOf(buffer, k) = k
          BY <5>1, CapacityAssumption DEF SlotOf
        <5> QED
          BY <5>2 DEF k
      <4> QED
        BY <4>1, <4>2
    <3> QED
      BY <3>1
  <2>4. buffer.entry[SlotOf(buffer, i - 1)].buffptr # NULL
    BY <2>2, <2>3 DEF Filled
  <2> QED
    BY <2>2, <2>4 DEF Used, Entries
<1>3. ASSUME NEW i \in 1..n
      PROVE  /\ mem[buffer.entry[SlotOf(buffer, i - 1)].buffptr] \in Seq(Byte)
             /\ Len(mem[buffer.entry[SlotOf(buffer, i - 1)].buffptr])
                  = buffer.entry[SlotOf(buffer, i - 1)].size
  BY <1>2 DEF DeviceInv, DeviceTypeOK, MemorySound
<1>4. Blocks(n) \in Seq(Seq(Byte)) /\ Len(Blocks(n)) = n
  <2>1. DOMAIN Blocks(n) = 1..n /\ \A i \in 1..n : Blocks(n)[i] \in Seq(Byte)
    BY <1>3 DEF Blocks
  <2>2. Blocks(n) = [i \in 1..n |-> Blocks(n)[i]]
    BY DEF Blocks
  <2> QED
    BY <1>1, <2>1, <2>2
<1> QED
  BY <1>2, <1>3, <1>4 DEF Blocks

\* The n oldest entries end where the sums of the sizes say.
LEMMA OldestLocated ==
  ASSUME DeviceInv, Filled, loaded, NEW n \in 0..totalEntries(buffer),
         NEW B, SumsOf(B, buffer)
  PROVE  /\ Oldest(buffer, n) = FlattenSeq(Blocks(n))
         /\ Oldest(buffer, n) \in Seq(Byte)
         /\ Len(Oldest(buffer, n)) = B[n]
         /\ Located(B, Blocks(n))
<1>1. Oldest(buffer, n) = FlattenSeq(Blocks(n))
  BY DEF Oldest, Blocks
<1>2. /\ Blocks(n) \in Seq(Seq(Byte)) /\ Len(Blocks(n)) = n
      /\ \A i \in 1..n : Len(Blocks(n)[i]) = buffer.entry[SlotOf(buffer, i - 1)].size
  BY BlocksSound
<1>3. ASSUME NEW i \in 1..n
      PROVE  B[i] = B[i - 1] + Len(Blocks(n)[i])
  <2> DEFINE k == i - 1
  <2>1. k \in Nat /\ k + 1 = i
    BY TotalType DEF DeviceInv, DeviceTypeOK, BufferTypeOK
  <2> HIDE DEF k
  <2>2. B[k + 1] = B[k] + buffer.entry[SlotOf(buffer, k)].size
    BY <2>1 DEF SumsOf
  <2>3. Len(Blocks(n)[i]) = buffer.entry[SlotOf(buffer, k)].size
    BY <1>2 DEF k
  <2> QED
    BY <2>1, <2>2, <2>3 DEF k
<1>4. Ends(B, Blocks(n))
  BY <1>2, <1>3 DEF Ends, SumsOf
<1>5. Located(B, Blocks(n))
  BY <1>2, <1>4, FlattenLocated
<1>6. Len(FlattenSeq(Blocks(n))) = B[n]
  BY <1>2, <1>5 DEF Located
<1> QED
  BY <1>1, <1>2, <1>5, <1>6, FlattenType

\* The rounds of the loop past the last entry of an empty ring add nothing.
LEMMA RoundsCountAll ==
  ASSUME NEW b \in Buffers, RingShape(b), NEW B, SumsOf(B, b)
  PROVE  B[Rounds(b, 1)] = B[totalEntries(b)] /\ Rounds(b, 1) \in Nat
<1>1. N \in Nat /\ b.in_offs \in Nat /\ b.full \in BOOLEAN
  BY CapacityAssumption DEF Buffers, Slots
<1>2. CASE b.full \/ b.in_offs # 0
  BY <1>1, <1>2, RoundsOfLoop DEF totalEntries
<1>3. CASE ~b.full /\ b.in_offs = 0
  <2> DEFINE S == {k \in Nat : B[k] = 0}
  <2>1. ASSUME NEW k \in Nat PROVE b.entry[SlotOf(b, k)].size = 0
    <3>1. SlotOf(b, k) \in Slots /\ SlotOf(b, k) >= b.in_offs
      BY <1>3, SlotType DEF Slots
    <3>2. b.entry[SlotOf(b, k)] = ZeroEntry
      BY <1>3, <3>1 DEF RingShape
    <3> QED
      BY <3>2 DEF ZeroEntry
  <2>2. 0 \in S
    BY DEF SumsOf
  <2>3. \A k \in Nat : k \in S => k + 1 \in S
    BY <2>1 DEF SumsOf
  <2> HIDE DEF S
  <2>4. Nat \subseteq S
    BY <2>2, <2>3, InductiveSet
  <2>5. B[N] = 0 /\ B[0] = 0
    BY <1>1, <2>4 DEF S
  <2> QED
    BY <1>1, <1>3, <2>5, RoundsOfLoop DEF totalEntries
<1> QED
  BY <1>1, <1>2, <1>3

LEMMA SeekEnd ==
  ASSUME DeviceInv, Filled
  PROVE  SeekEndCountsAll
<1> SUFFICES ASSUME loaded, NEW u \in Uninit
             PROVE  SumEntries(buffer, u) = u + Len(Contents(buffer))
  BY DEF SeekEndCountsAll
<1>1. buffer \in Buffers /\ RingShape(buffer) /\ u \in Int
  BY OffsetsAssumption DEF DeviceInv, DeviceTypeOK, BufferTypeOK, BufferShape
<1>2. PICK B : SumsOf(B, buffer)
  BY <1>1, SumsExist
<1>3. SumEntries(buffer, u) = u + B[totalEntries(buffer)]
  BY <1>1, <1>2, RoundsCountAll, TotalIsSum DEF SumEntries
<1>4. totalEntries(buffer) \in 0..totalEntries(buffer)
  BY <1>1, TotalType, CapacityAssumption
<1>5. Len(Contents(buffer)) = B[totalEntries(buffer)]
  BY <1>2, <1>4, OldestLocated DEF Contents
<1> QED
  BY <1>3, <1>5

\* Whatever the uninitialised totalLength of aesd_llseek holds, its loop adds
\* exactly the number of readable bytes to it: every entry once, of an empty,
\* a partly filled and a full ring, wherever it has wrapped around.
THEOREM SeekEndCorrect == Spec => []SeekEndCountsAll
  BY SeekEnd, DeviceCorrect, FilledAlways, PTL

-----------------------------------------------------------------------------
(* What aesd_read finds at a position.                                     *)

\* The entry found holds the byte at position o, at the offset found, and from
\* there to its end the bytes that follow it.
FoundAt(found, o) ==
  LET e == buffer.entry[found.slot]
  IN  /\ found \in [slot : Slots, offset : Nat]
      /\ e.buffptr \in Buffptr /\ e.size \in Nat
      /\ found.offset < e.size
      /\ mem[e.buffptr] \in Seq(Byte) /\ Len(mem[e.buffptr]) = e.size
      /\ o + (e.size - found.offset) <= Len(Contents(buffer))
      /\ \A j \in 1..(e.size - found.offset) :
           Contents(buffer)[o + j] = mem[e.buffptr][found.offset + j]

LEMMA ReadFinds ==
  ASSUME DeviceInv, Filled, loaded, NEW o \in Nat
  PROVE  LET found == aesd_circular_buffer_find_entry_offset_for_fpos(buffer, o)
         IN  /\ Contents(buffer) \in Seq(Byte)
             /\ \/ found = NULL /\ o >= Len(Contents(buffer))
                \/ found # NULL /\ o < Len(Contents(buffer)) /\ FoundAt(found, o)
<1> DEFINE found == aesd_circular_buffer_find_entry_offset_for_fpos(buffer, o)
           n == totalEntries(buffer)
<1>1. buffer \in Buffers
  BY DEF DeviceInv, DeviceTypeOK, BufferTypeOK
<1>2. PICK B : SumsOf(B, buffer)
  BY <1>1, SumsExist
<1>3. n \in Nat /\ n \in 0..n
  BY <1>1, TotalType, CapacityAssumption
<1>4. /\ Contents(buffer) = FlattenSeq(Blocks(n))
      /\ Contents(buffer) \in Seq(Byte) /\ Len(Contents(buffer)) = B[n]
      /\ Located(B, Blocks(n))
  BY <1>2, <1>3, OldestLocated DEF Contents
<1>5. /\ Len(Blocks(n)) = n
      /\ \A i \in 1..n :
           /\ Blocks(n)[i] = mem[buffer.entry[SlotOf(buffer, i - 1)].buffptr]
           /\ Len(Blocks(n)[i]) = buffer.entry[SlotOf(buffer, i - 1)].size
           /\ SlotOf(buffer, i - 1) \in Used(buffer)
  BY <1>3, BlocksSound
<1> HIDE DEF n
<1>6. CASE o >= B[n]
  <2>1. B[n] <= o
    BY <1>2, <1>3, <1>6 DEF SumsOf
  <2>2. found = NULL
    BY <1>1, <1>2, <2>1, FindMiss DEF n
  <2> QED
    BY <1>4, <1>6, <2>2
<1>7. CASE o < B[n]
  <2>1. o + 1 \in 1..B[n]
    BY <1>2, <1>3, <1>7 DEF SumsOf
  <2>2. PICK i \in 1..n : (o + 1) - B[i - 1] \in 1..Len(Blocks(n)[i])
    BY <1>4, <1>5, <2>1 DEF Located
  <2> DEFINE k == i - 1
             slot == SlotOf(buffer, k)
             e == buffer.entry[slot]
             place == [slot |-> slot, offset |-> o - B[k]]
  <2>3. k \in Nat /\ k + 1 = i /\ k \in 0..(n - 1)
    BY <1>3
  <2> HIDE DEF k
  <2>4. /\ Blocks(n)[i] = mem[e.buffptr] /\ Len(Blocks(n)[i]) = e.size
        /\ slot \in Used(buffer)
    BY <1>5 DEF k
  <2>5. slot \in Slots /\ e \in Entries /\ e.buffptr \in Buffptr /\ e.size \in Nat
    BY <1>1, <2>3, <2>4, SlotType DEF Used, Entries
  <2>6. B[k] \in Int /\ B[k + 1] = B[k] + e.size /\ (o + 1) - B[k] \in 1..e.size
    BY <1>2, <2>2, <2>3, <2>4 DEF SumsOf, k
  <2>7. B[k] <= o /\ o < B[k + 1] /\ o - B[k] \in Nat /\ o - B[k] < e.size
    BY <2>5, <2>6
  <2>8. found = place
    BY <1>1, <1>2, <2>3, <2>7, FindHit DEF n
  <2>9. place \in [slot : Slots, offset : Nat] /\ place # NULL
    BY <2>5, <2>7, MissAssumption DEF Slots
  <2>10. \A j \in 1..e.size : /\ B[k] + j \in 1..B[n]
                              /\ Contents(buffer)[B[k] + j] = mem[e.buffptr][j]
    <3>1. \A j \in 1..Len(Blocks(n)[i]) :
            /\ B[k] + j \in 1..B[n]
            /\ FlattenSeq(Blocks(n))[B[k] + j] = Blocks(n)[i][j]
      BY <1>4, <1>5 DEF Located, k
    <3> HIDE DEF slot, e
    <3> QED
      BY <1>4, <2>4, <3>1
  <2>11. mem[e.buffptr] \in Seq(Byte) /\ Len(mem[e.buffptr]) = e.size
    BY <2>4, <2>5 DEF DeviceInv, DeviceTypeOK
  <2>12. o + (e.size - (o - B[k])) <= Len(Contents(buffer))
    <3>1. B[k] + e.size \in 1..B[n]
      BY <2>5, <2>7, <2>10
    <3> QED
      BY <1>4, <2>5, <2>6, <3>1
  <2>13. \A j \in 1..(e.size - (o - B[k])) :
           Contents(buffer)[o + j] = mem[e.buffptr][(o - B[k]) + j]
    <3> TAKE j \in 1..(e.size - (o - B[k]))
    <3> DEFINE h == (o - B[k]) + j
    <3>1. h \in 1..e.size /\ B[k] + h = o + j
      BY <2>5, <2>6, <2>7
    <3> HIDE DEF h
    <3>2. Contents(buffer)[B[k] + h] = mem[e.buffptr][h]
      BY <2>10, <3>1
    <3> QED
      BY <3>1, <3>2 DEF h
  <2>14. FoundAt(place, o)
    <3>1. place.slot = slot /\ place.offset = o - B[k]
      OBVIOUS
    <3> HIDE DEF place, slot, e
    <3>2. e = buffer.entry[slot]
      BY DEF e
    <3> QED
      BY <2>5, <2>7, <2>9, <2>11, <2>12, <2>13, <3>1, <3>2 DEF FoundAt
  <2> QED
    BY <1>4, <1>7, <2>8, <2>9, <2>14
<1> QED
  BY <1>2, <1>3, <1>6, <1>7 DEF SumsOf

\* The bytes a handler copies from the entry found.
LEMMA BytesFound ==
  ASSUME DeviceInv, NEW o \in Nat, NEW found, FoundAt(found, o),
         Contents(buffer) \in Seq(Byte),
         NEW c \in Nat, c <= buffer.entry[found.slot].size - found.offset
  PROVE  LET data == BytesAt(buffer.entry[found.slot], found.offset, c)
         IN  /\ data \in Seq(Byte) /\ Len(data) = c
             /\ data = SubSeq(Contents(buffer), o + 1, o + c)
<1> DEFINE e == buffer.entry[found.slot]
           all == Contents(buffer)
           h == found.offset
           block == mem[e.buffptr]
           data == SubSeq(block, h + 1, h + c)
<1>1. /\ h \in Nat /\ e.size \in Nat /\ h < e.size
      /\ block \in Seq(Byte) /\ Len(block) = e.size
      /\ o + (e.size - h) <= Len(all)
      /\ \A j \in 1..(e.size - h) : all[o + j] = block[h + j]
  BY DEF FoundAt
<1>2. c <= e.size - h /\ all \in Seq(Byte)
  OBVIOUS
<1> HIDE DEF e, all, h, block
<1>3. data = [j \in 1..c |-> block[h + j]]
  <2>1. (h + c) - (h + 1) + 1 = c /\ \A j \in 1..c : j + (h + 1) - 1 = h + j
    BY <1>1
  <2> QED
    BY <1>1, <1>2
<1>4. SubSeq(all, o + 1, o + c) = [j \in 1..c |-> all[o + j]]
  <2>1. (o + c) - (o + 1) + 1 = c /\ \A j \in 1..c : j + (o + 1) - 1 = o + j
    BY <1>1
  <2> QED
    BY <1>1, <1>2
<1>5. ASSUME NEW j \in 1..c PROVE all[o + j] = block[h + j] /\ block[h + j] \in Byte
  <2>1. j \in 1..(e.size - h) /\ h + j \in 1..Len(block)
    BY <1>1, <1>2
  <2> QED
    BY <1>1, <2>1
<1>6. data \in Seq(Byte) /\ Len(data) = c /\ data = SubSeq(all, o + 1, o + c)
  <2> HIDE DEF data
  <2> QED
    BY <1>3, <1>4, <1>5
<1> QED
  BY <1>6 DEF BytesAt, e, h, block, all

-----------------------------------------------------------------------------
(* The bytes that aesd_ioctl counts, in the order of the slots.            *)

\* D[k] is the number of bytes in the slots below k.
SlotSums(D, b) ==
  /\ D \in [Nat -> Int] /\ D[0] = 0
  /\ \A k \in Slots : D[k + 1] = D[k] + b.entry[k].size

LEMMA SlotSumsExist ==
  ASSUME NEW b \in Buffers
  PROVE  \E D : SlotSums(D, b)
<1> DEFINE size == [k \in Nat |-> IF k \in Slots THEN b.entry[k].size ELSE 0]
<1>1. size \in [Nat -> Int]
  BY DEF Buffers, Entries
<1>2. \A k \in Slots : k \in Nat /\ size[k] = b.entry[k].size
  BY CapacityAssumption DEF Slots
<1> HIDE DEF size
<1>3. PICK D : RunsUp(D, 0, size)
  BY <1>1, RunningSum
<1>4. SlotSums(D, b)
  BY <1>2, <1>3 DEF RunsUp, SlotSums
<1> QED
  BY <1>4

LEMMA SlotSumsMonotonic ==
  ASSUME NEW b \in Buffers, NEW D, SlotSums(D, b), NEW i \in 0..N, NEW j \in 0..N, i <= j
  PROVE  D[i] <= D[j]
<1>1. D \in [Nat -> Int] /\ N \in Nat
  BY CapacityAssumption DEF SlotSums
<1>2. ASSUME NEW k \in 0..(N - 1) PROVE D[k] <= D[k + 1]
  <2>1. k \in Slots /\ k \in Nat /\ b.entry[k].size \in Nat
    BY CapacityAssumption DEF Slots, Buffers, Entries
  <2> QED
    BY <1>1, <2>1 DEF SlotSums
<1> QED
  BY <1>1, <1>2, SumsGrow

LEMMA BytesBeforeIsSum ==
  ASSUME NEW b \in Buffers, NEW D, SlotSums(D, b), NEW c \in 0..N
  PROVE  BytesBefore(b, c) = D[c]
<1> DEFINE Unfolds(f) == f = [i \in 0..N |-> IF i = 0 THEN 0 ELSE f[i - 1] + b.entry[i - 1].size]
           g == [k \in 0..N |-> D[k]]
           sum == CHOOSE f : Unfolds(f)
<1>0. D \in [Nat -> Int] /\ D[0] = 0 /\ N \in Nat
  BY CapacityAssumption DEF SlotSums
<1>1. ASSUME NEW k \in 0..N, k # 0
      PROVE  k - 1 \in 0..N /\ D[k] = D[k - 1] + b.entry[k - 1].size
  <2> DEFINE h == k - 1
  <2>1. h \in Slots /\ h + 1 = k /\ h \in 0..N
    BY <1>0, <1>1 DEF Slots
  <2> HIDE DEF h
  <2>2. D[h + 1] = D[h] + b.entry[h].size
    BY <2>1 DEF SlotSums
  <2> QED
    BY <2>1, <2>2 DEF h
<1>2. Unfolds(g)
  <2>1. \A k \in 0..N : g[k] = IF k = 0 THEN 0 ELSE g[k - 1] + b.entry[k - 1].size
    BY <1>0, <1>1
  <2>2. g = [k \in 0..N |-> g[k]]
    OBVIOUS
  <2> HIDE DEF g
  <2> QED
    BY <2>1, <2>2
<1>3. Unfolds(sum)
  <2> HIDE DEF Unfolds, g
  <2> QED
    BY <1>2
<1>4. BytesBefore(b, c) = sum[c]
  BY DEF BytesBefore
<1> HIDE DEF sum, g
<1> DEFINE S == {k \in Nat : k <= N => sum[k] = D[k]}
<1>5. 0 \in S
  BY <1>0, <1>3
<1>6. ASSUME NEW k \in Nat, k \in S PROVE k + 1 \in S
  <2> SUFFICES ASSUME k + 1 <= N PROVE sum[k + 1] = D[k + 1]
    OBVIOUS
  <2>1. k + 1 \in 0..N /\ k + 1 # 0 /\ (k + 1) - 1 = k
    BY <1>0
  <2>2. sum[k + 1] = sum[k] + b.entry[k].size
    BY <1>3, <2>1
  <2>3. D[k + 1] = D[k] + b.entry[k].size
    BY <1>1, <2>1
  <2>4. sum[k] = D[k]
    BY <1>0, <1>6
  <2> QED
    BY <2>2, <2>3, <2>4
<1>7. Nat \subseteq S
  <2> HIDE DEF S
  <2> QED
    BY <1>5, <1>6, InductiveSet
<1> QED
  BY <1>0, <1>4, <1>7

\* Both orders count the same bytes, and count them alike while the oldest
\* entry is in slot 0.
LEMMA OrdersAgree ==
  ASSUME NEW b \in Buffers, RingShape(b), NEW B, SumsOf(B, b), NEW D, SlotSums(D, b)
  PROVE  /\ B[totalEntries(b)] = D[N]
         /\ b.out_offs = 0 => \A k \in 0..N : B[k] = D[k]
<1> DEFINE out == b.out_offs
<1>0. B \in [Nat -> Int] /\ D \in [Nat -> Int] /\ B[0] = 0 /\ D[0] = 0
  BY DEF SumsOf, SlotSums
<1>1. N \in Nat /\ out \in 0..(N - 1) /\ b.in_offs \in 0..(N - 1)
  BY CapacityAssumption DEF Buffers, Slots
<1> HIDE DEF out
<1>2. ASSUME NEW k \in 0..(N - 1)
      PROVE  B[k + 1] - B[k] = b.entry[IF out + k < N THEN out + k ELSE out + k - N].size
  <2>1. SlotOf(b, k) = IF out + k < N THEN out + k ELSE out + k - N
    <3>1. b.out_offs \in Slots /\ k \in 0..N
      BY <1>1 DEF Slots, out
    <3> QED
      BY <3>1, ModPlus DEF SlotOf, out
  <2>2. k \in Nat /\ b.entry[SlotOf(b, k)].size \in Int
    BY <1>1, SlotType DEF Entries
  <2>3. B[k + 1] = B[k] + b.entry[SlotOf(b, k)].size /\ B[k] \in Int
    BY <1>0, <2>2 DEF SumsOf
  <2>4. B[k + 1] - B[k] = b.entry[SlotOf(b, k)].size
    BY <2>2, <2>3
  <2> QED
    BY <2>1, <2>4
<1>3. ASSUME NEW k \in 0..(N - 1)
      PROVE  D[k + 1] - D[k] = b.entry[k].size
  <2>1. k \in Slots /\ k \in Nat /\ b.entry[k].size \in Int
    <3>1. k \in Slots /\ k \in Nat
      BY <1>1 DEF Slots
    <3> QED
      BY <3>1 DEF Buffers, Entries
  <2>2. D[k + 1] = D[k] + b.entry[k].size /\ D[k] \in Int
    BY <1>0, <2>1 DEF SlotSums
  <2> QED
    BY <2>1, <2>2
<1>4. ASSUME out = 0 PROVE \A k \in 0..N : B[k] = D[k]
  <2>1. ASSUME NEW k \in 0..(N - 1)
        PROVE  B[(0 + k) + 1] - B[0 + k] = D[(0 + k) + 1] - D[0 + k]
    <3>1. 0 + k = k /\ k < N
      BY <1>1
    <3> QED
      BY <1>2, <1>3, <1>4, <3>1
  <2>2. \A k \in 0..N : B[0 + k] - B[0] = D[0 + k] - D[0]
    <3>1. SameSteps(B, 0, D, 0, N)
      BY <2>1 DEF SameSteps
    <3>2. GrowAlike(B, 0, D, 0, N)
      BY <1>0, <1>1, <3>1, SumsAgree
    <3> QED
      BY <3>2 DEF GrowAlike
  <2>3. ASSUME NEW k \in 0..N PROVE B[k] = D[k]
    <3>1. 0 + k = k /\ B[k] \in Int /\ D[k] \in Int
      BY <1>0, <1>1
    <3>2. B[k] - B[0] = D[k] - D[0]
      BY <2>2, <3>1
    <3> QED
      BY <1>0, <3>1, <3>2
  <2> QED
    BY <2>3
<1>5. CASE ~b.full
  <2>1. out = 0 /\ totalEntries(b) = b.in_offs
    BY <1>5 DEF RingShape, totalEntries, out
  <2> DEFINE zero == [k \in Nat |-> 0]
             i == b.in_offs
             n == N - i
  <2>2. zero \in [Nat -> Int] /\ i \in Nat /\ n \in Nat /\ i + n = N /\ i \in 0..N
    BY <1>1
  <2>3. ASSUME NEW k \in 0..(n - 1)
        PROVE  D[(i + k) + 1] - D[i + k] = zero[(0 + k) + 1] - zero[0 + k]
    <3>1. i + k \in 0..(N - 1) /\ i + k \in Slots /\ i + k >= b.in_offs
      BY <1>1, <2>2 DEF Slots
    <3>2. b.entry[i + k].size = 0
      BY <1>5, <3>1 DEF RingShape, ZeroEntry
    <3>3. D[(i + k) + 1] - D[i + k] = 0
      BY <1>3, <3>1, <3>2
    <3> QED
      BY <3>3
  <2> HIDE DEF zero, i, n
  <2>4. \A k \in 0..n : D[i + k] - D[i] = zero[0 + k] - zero[0]
    <3>1. SameSteps(D, i, zero, 0, n)
      BY <2>3 DEF SameSteps
    <3>2. GrowAlike(D, i, zero, 0, n)
      BY <1>0, <2>2, <3>1, SumsAgree
    <3> QED
      BY <3>2 DEF GrowAlike
  <2>5. n \in 0..n /\ zero[0 + n] = 0 /\ zero[0] = 0
    BY <2>2 DEF zero
  <2>6. D[N] - D[i] = 0 /\ D[N] \in Int /\ D[i] \in Int
    <3>1. D[i + n] - D[i] = zero[0 + n] - zero[0]
      BY <2>4, <2>5
    <3> QED
      BY <1>0, <1>1, <2>2, <2>5, <3>1
  <2>7. B[i] = D[i]
    BY <1>4, <2>1, <2>2
  <2> QED
    BY <1>4, <2>1, <2>6, <2>7 DEF out, i
<1>6. CASE b.full
  <2> DEFINE n == N - out
  <2>1. n \in Nat /\ out \in Nat /\ n + out = N /\ out + n = N
    BY <1>1
  <2>2. ASSUME NEW k \in 0..(n - 1)
        PROVE  B[(0 + k) + 1] - B[0 + k] = D[(out + k) + 1] - D[out + k]
    <3>1. 0 + k = k /\ k \in 0..(N - 1) /\ out + k < N /\ out + k \in 0..(N - 1)
      BY <1>1, <2>1
    <3> QED
      BY <1>2, <1>3, <3>1
  <2>3. ASSUME NEW k \in 0..(out - 1)
        PROVE  B[(n + k) + 1] - B[n + k] = D[(0 + k) + 1] - D[0 + k]
    <3>1. /\ 0 + k = k /\ k \in 0..(N - 1) /\ n + k \in 0..(N - 1)
          /\ ~(out + (n + k) < N) /\ out + (n + k) - N = k
      BY <1>1, <2>1
    <3> QED
      BY <1>2, <1>3, <3>1
  <2> HIDE DEF n
  <2>4. \A k \in 0..n : B[0 + k] - B[0] = D[out + k] - D[out]
    <3>1. SameSteps(B, 0, D, out, n)
      BY <2>2 DEF SameSteps
    <3>2. GrowAlike(B, 0, D, out, n)
      BY <1>0, <2>1, <3>1, SumsAgree
    <3> QED
      BY <3>2 DEF GrowAlike
  <2>5. \A k \in 0..out : B[n + k] - B[n] = D[0 + k] - D[0]
    <3>1. SameSteps(B, n, D, 0, out)
      BY <2>3 DEF SameSteps
    <3>2. GrowAlike(B, n, D, 0, out)
      BY <1>0, <2>1, <3>1, SumsAgree
    <3> QED
      BY <3>2 DEF GrowAlike
  <2>6. n \in 0..n /\ 0 + n = n /\ out \in 0..out /\ 0 + out = out
    BY <2>1
  <2>7. B[n] - B[0] = D[N] - D[out]
    BY <2>1, <2>4, <2>6
  <2>8. B[N] - B[n] = D[out] - D[0]
    BY <2>1, <2>5, <2>6
  <2>9. B[n] \in Int /\ B[N] \in Int /\ D[N] \in Int /\ D[out] \in Int
    BY <1>0, <1>1, <2>1
  <2>10. B[N] = D[N]
    BY <1>0, <2>7, <2>8, <2>9
  <2> QED
    BY <1>4, <1>6, <2>10 DEF totalEntries, out
<1> QED
  BY <1>5, <1>6 DEF Buffers

-----------------------------------------------------------------------------
(* Positions and results.                                                  *)

\* The arguments that reach the handlers unsigned.
ArgumentsOK ==
  \A p \in Procs : call[p].op \in {"read", "ioctl"} => call[p].n \in Nat /\ call[p].m \in Nat

\* Before a handler returns, no bytes have been copied to its caller.
NothingRead == \A p \in Procs : pc[p] # "exit" => result[p].data = << >>

PositionsOK ==
  /\ f_pos \in [Files -> Nat]
  /\ result \in [Procs -> Results]
  /\ ArgumentsOK
  /\ NothingRead

\* A process inside a call has a file, and a position and a result to return.
LEMMA InCall ==
  ASSUME DeviceInv, PositionsOK, NEW p \in Procs, pc[p] # "idle"
  PROVE  /\ call[p].file \in Files /\ loaded
         /\ call[p].n \in Int /\ call[p].m \in Int /\ call[p].data \in Seq(Byte)
         /\ result[p].pos \in Nat /\ result[p].ret \in Int /\ result[p].data \in Seq(Byte)
         /\ result[p] \in Results
<1>1. call[p].file \in Files /\ loaded
  BY DEF DeviceInv, DeviceTypeOK, ModulePinned
<1>2. call[p] \in Calls /\ result[p] \in Results
  BY DEF DeviceInv, DeviceTypeOK, PositionsOK
<1>3. call[p].n \in Int /\ call[p].m \in Int /\ call[p].data \in Seq(Byte)
  BY <1>2 DEF Calls
<1>4. result[p].pos \in Nat /\ result[p].ret \in Int /\ result[p].data \in Seq(Byte)
  BY <1>2 DEF Results
<1> QED
  BY <1>1, <1>2, <1>3, <1>4

\* A handler that leaves with a result and does not move the file.
LEMMA LeavePositions ==
  ASSUME DeviceInv, PositionsOK, NEW p \in Procs, NEW r \in Results, Leave(p, r),
         f_pos' \in [Files -> Nat]
  PROVE  PositionsOK'
<1>1. pc' = [pc EXCEPT ![p] = "exit"] /\ DOMAIN pc = Procs
  BY DEF Leave, DeviceInv, DeviceTypeOK
<1>2. result' \in [Procs -> Results] /\ ArgumentsOK'
  BY DEF PositionsOK, ArgumentsOK, Leave
<1>3. NothingRead'
  BY <1>1 DEF PositionsOK, NothingRead, Leave
<1> QED
  BY <1>2, <1>3 DEF PositionsOK

\* A process outside a call has the empty result.
LEMMA NoResultType == NoResult \in Results /\ NoResult.data = << >>
  BY DEF NoResult, Results

\* A process that enters a call with arguments of their C types.
LEMMA InvokePositions ==
  ASSUME DeviceInv, PositionsOK, NEW p \in Procs, NEW c, Invoke(p, c),
         c.op \in {"read", "ioctl"} => c.n \in Nat /\ c.m \in Nat
  PROVE  PositionsOK'
<1>1. f_pos[c.file] \in Nat /\ call' = [call EXCEPT ![p] = c] /\ DOMAIN call = Procs
  BY DEF Invoke, DeviceInv, DeviceTypeOK, PositionsOK
<1>2. [NoResult EXCEPT !.pos = f_pos[c.file]] \in Results
  BY <1>1, NoResultType DEF Results
<1>3. result' \in [Procs -> Results] /\ f_pos' \in [Files -> Nat]
  BY <1>2 DEF Invoke, PositionsOK
<1>4. ArgumentsOK'
  BY <1>1 DEF PositionsOK, ArgumentsOK
<1>5. NothingRead'
  <2>1. [NoResult EXCEPT !.pos = f_pos[c.file]].data = << >>
    BY NoResultType DEF Results
  <2> QED
    BY <2>1 DEF PositionsOK, NothingRead, Invoke, DeviceInv, DeviceTypeOK
<1> QED
  BY <1>3, <1>4, <1>5 DEF PositionsOK

\* What aesd_read leaves with, whatever it finds.
ReadLeaves(p, c) ==
  LET all == Contents(buffer)
      o   == result[p].pos
  IN  /\ c \in Nat
      /\ result'[p].pos = o + c /\ result'[p].ret = c
      /\ result'[p].data \in Seq(Byte) /\ Len(result'[p].data) = c
      /\ c > 0 => result'[p].data = SubSeq(all, o + 1, o + c)
      /\ "copy" \notin Faults /\ call[p].n > 0 => (c = 0 <=> o >= Len(all))
      /\ result'[p] \in Results
      /\ Leave(p, result'[p])

\* The bytes read are those at the position, as many as the call asked for or
\* as the entry still has.
LEMMA ReadBytes ==
  ASSUME DeviceInv, Filled, PositionsOK, NEW p \in Procs, aesd_read(p)
  PROVE  \E c : ReadLeaves(p, c)
<1> DEFINE o == result[p].pos
           all == Contents(buffer)
           found == aesd_circular_buffer_find_entry_offset_for_fpos(buffer, o)
           e == buffer.entry[found.slot]
           count == Minimum(call[p].n, e.size - found.offset)
<1>1. /\ loaded /\ o \in Nat /\ result[p] \in Results /\ call[p].n \in Nat
      /\ DOMAIN result = Procs /\ result[p].data = << >>
  <2>1. pc[p] # "idle" /\ pc[p] # "exit" /\ call[p].op = "read"
    BY DEF aesd_read, Inside
  <2> QED
    BY <2>1, InCall DEF PositionsOK, ArgumentsOK, NothingRead
<1>2. /\ all \in Seq(Byte)
      /\ \/ found = NULL /\ o >= Len(all)
         \/ found # NULL /\ o < Len(all) /\ FoundAt(found, o)
  BY <1>1, ReadFinds
<1>3. CASE found = NULL /\ o >= Len(all)
  <2>1. Leave(p, [result[p] EXCEPT !.ret = 0])
    BY <1>3 DEF aesd_read, ReadPastEnd, ReadEntry, UnlockAndLeave
  <2>2. result'[p] = [result[p] EXCEPT !.ret = 0] /\ Leave(p, result'[p])
    BY <1>1, <2>1 DEF Leave
  <2>3. result'[p].ret = 0 /\ result'[p].pos = o /\ result'[p].data = << >>
    BY <1>1, <2>2 DEF Results
  <2>4. result'[p] \in Results
    BY <1>1, <2>2 DEF Results
  <2> HIDE DEF o, all
  <2>5. ReadLeaves(p, 0)
    <3> DEFINE none == 0
    <3>1. << >> \in Seq(Byte) /\ Len(<< >>) = none /\ none \in Nat /\ ~(none > 0) /\ none = 0
      OBVIOUS
    <3>2. o + none = o
      BY <1>1 DEF o
    <3> HIDE DEF none
    <3>3. ReadLeaves(p, none)
      BY <1>3, <2>2, <2>3, <2>4, <3>1, <3>2 DEF ReadLeaves, o, all
    <3> QED
      BY <3>1, <3>3
  <2> QED
    BY <2>5
<1>4. CASE found # NULL /\ o < Len(all) /\ FoundAt(found, o)
  <2>1. PICK bytes \in Uncopied(count) :
          Leave(p, [result[p] EXCEPT
                      !.ret  = count - bytes,
                      !.pos  = Advanced(@, count - bytes),
                      !.data = BytesAt(e, found.offset, count - bytes)])
    BY <1>4 DEF aesd_read, ReadPastEnd, ReadEntry, UnlockAndLeave
  <2> DEFINE c == count - bytes
             data == BytesAt(e, found.offset, c)
  <2>2. e.size \in Nat /\ found.offset \in Nat /\ found.offset < e.size
    BY <1>4 DEF FoundAt
  <2>3. count \in Nat /\ count <= e.size - found.offset /\ (call[p].n > 0 => count > 0)
    <3> HIDE DEF e, found
    <3> QED
      BY <1>1, <2>2 DEF Minimum
  <2>4. bytes \in 0..count /\ ("copy" \notin Faults => bytes = 0)
    BY <2>3 DEF Uncopied
  <2>5. /\ c \in Nat /\ c <= e.size - found.offset
        /\ "copy" \notin Faults /\ call[p].n > 0 => c > 0
    <3> HIDE DEF e, found, count
    <3> QED
      BY <2>2, <2>3, <2>4
  <2>6. data \in Seq(Byte) /\ Len(data) = c /\ data = SubSeq(all, o + 1, o + c)
    <3> HIDE DEF c, o, found
    <3> QED
      BY <1>1, <1>2, <1>4, <2>5, BytesFound
  <2>7. /\ result'[p] = [result[p] EXCEPT !.ret = c, !.pos = o + c, !.data = data]
        /\ Leave(p, result'[p])
    <3> HIDE DEF c, data
    <3>1. Leave(p, [result[p] EXCEPT !.ret = c, !.pos = Advanced(@, c), !.data = data])
      BY <2>1 DEF c, data
    <3>2. Advanced(result[p].pos, c) = o + c
      BY DEF Advanced
    <3> QED
      BY <1>1, <3>1, <3>2 DEF Leave
  <2> HIDE DEF c, data, e, found, count, all
  <2>8. result'[p].ret = c /\ result'[p].pos = o + c /\ result'[p].data = data
    BY <1>1, <2>7 DEF Results
  <2>9. result'[p] \in Results
    <3> HIDE DEF o
    <3>0. o \in Nat
      BY <1>1
    <3>1. c \in Int /\ o + c \in Nat /\ data \in Seq(Byte)
      BY <2>5, <2>6, <3>0
    <3> QED
      BY <1>1, <2>7, <3>1 DEF Results
  <2>10. "copy" \notin Faults /\ call[p].n > 0 => (c = 0 <=> o >= Len(all))
    BY <1>1, <1>2, <1>4, <2>5
  <2>11. ReadLeaves(p, c)
    BY <2>5, <2>6, <2>7, <2>8, <2>9, <2>10 DEF ReadLeaves, all
  <2> QED
    BY <2>11
<1> QED
  BY <1>2, <1>3, <1>4

\* A handler that leaves with a value and does not move its position.
LEMMA RetType ==
  ASSUME NEW r \in Results, NEW x \in Int
  PROVE  [r EXCEPT !.ret = x] \in Results
  BY DEF Results

\* aesd_llseek leaves a position that is not negative, or none.
LEMMA LlseekPositions ==
  ASSUME DeviceInv, PositionsOK, NEW p \in Procs, aesd_llseek(p)
  PROVE  PositionsOK'
<1>1. PICK target \in SeekTargets(call[p].file, call[p].n, call[p].m) :
        LET retval == IF Refused(target) THEN -EINVAL ELSE target
        IN  /\ f_pos' = IF Refused(target) THEN f_pos
                        ELSE [f_pos EXCEPT ![call[p].file] = retval]
            /\ Leave(p, [result[p] EXCEPT !.ret = retval])
  BY DEF aesd_llseek, UnlockAndLeave
<1>2. /\ call[p].file \in Files /\ call[p].n \in Int /\ result[p] \in Results
      /\ f_pos[call[p].file] \in Nat
  BY InCall DEF aesd_llseek, Inside, PositionsOK
<1>3. \A u \in Uninit : SumEntries(buffer, u) \in Int
  <2>1. buffer \in Buffers /\ RingShape(buffer)
    BY DEF DeviceInv, DeviceTypeOK, BufferTypeOK, BufferShape
  <2>2. PICK B : SumsOf(B, buffer)
    BY <2>1, SumsExist
  <2>3. Rounds(buffer, 1) \in Nat /\ B \in [Nat -> Int]
    BY <2>1, <2>2, RoundsCountAll DEF SumsOf
  <2>4. ASSUME NEW u \in Uninit PROVE SumEntries(buffer, u) \in Int
    <3>1. u \in Int
      BY OffsetsAssumption
    <3>2. SumEntries(buffer, u) = u + B[Rounds(buffer, 1)]
      BY <2>1, <2>2, <2>3, <3>1, TotalIsSum DEF SumEntries
    <3> QED
      BY <2>3, <3>1, <3>2
  <2> QED
    BY <2>4
<1>4. target \in Int
  <2>1. \/ target = call[p].n
        \/ target = f_pos[call[p].file] + call[p].n
        \/ \E u \in Uninit : target = SumEntries(buffer, u) + call[p].n
        \/ target = -EINVAL
    BY DEF SeekTargets, SEEK_SET, SEEK_CUR, SEEK_END
  <2> QED
    BY <1>2, <1>3, <2>1 DEF EINVAL
<1> DEFINE retval == IF Refused(target) THEN -EINVAL ELSE target
<1>5. retval \in Int /\ (~Refused(target) => retval \in Nat)
  BY <1>4 DEF Refused, EINVAL
<1>6. /\ f_pos' = IF Refused(target) THEN f_pos ELSE [f_pos EXCEPT ![call[p].file] = retval]
      /\ Leave(p, [result[p] EXCEPT !.ret = retval])
  BY <1>1
<1> HIDE DEF retval
<1>7. f_pos' \in [Files -> Nat]
  BY <1>2, <1>5, <1>6 DEF PositionsOK
<1> QED
  BY <1>2, <1>5, <1>6, <1>7, RetType, LeavePositions

\* The position aesd_ioctl sets, in the order of the slots.
LEMMA IoctlMoves ==
  ASSUME DeviceInv, PositionsOK, NEW p \in Procs, Inside(p, "ioctl"),
         ~SeekInvalid(buffer, call[p].n, call[p].m), NEW D, SlotSums(D, buffer)
  PROVE  /\ call[p].n \in Slots /\ call[p].m \in Nat
         /\ call[p].m < buffer.entry[call[p].n].size
         /\ BytesBefore(buffer, call[p].n) = D[call[p].n]
         /\ D[call[p].n] \in Nat
<1>1. buffer \in Buffers /\ call[p].n \in Nat /\ call[p].m \in Nat
  BY DEF DeviceInv, DeviceTypeOK, BufferTypeOK, PositionsOK, ArgumentsOK, Inside
<1>2. call[p].n \in Slots /\ call[p].n \in 0..N /\ 0 \in 0..N /\ 0 <= call[p].n
  BY <1>1, CapacityAssumption DEF SeekInvalid, Slots
<1>3. buffer.entry[call[p].n].size \in Nat
  BY <1>1, <1>2 DEF Buffers, Entries
<1>4. call[p].m < buffer.entry[call[p].n].size
  BY <1>1, <1>3 DEF SeekInvalid
<1>5. BytesBefore(buffer, call[p].n) = D[call[p].n]
  BY <1>1, <1>2, BytesBeforeIsSum
<1>6. D[0] <= D[call[p].n]
  BY <1>1, <1>2, SlotSumsMonotonic
<1>7. D[call[p].n] \in Nat
  BY <1>1, <1>6 DEF SlotSums
<1> QED
  BY <1>1, <1>2, <1>4, <1>5, <1>7

LEMMA IoctlPositions ==
  ASSUME DeviceInv, PositionsOK, NEW p \in Procs, aesd_ioctl(p)
  PROVE  PositionsOK'
<1>1. call[p].file \in Files /\ result[p] \in Results
  BY InCall DEF aesd_ioctl, Inside
<1>2. CASE SeekInvalid(buffer, call[p].n, call[p].m)
  <2>1. Leave(p, [result[p] EXCEPT !.ret = -EINVAL]) /\ f_pos' = f_pos /\ -EINVAL \in Int
    BY <1>2 DEF aesd_ioctl, UnlockAndLeave, EINVAL
  <2> QED
    BY <1>1, <2>1, RetType, LeavePositions DEF PositionsOK
<1>3. CASE ~SeekInvalid(buffer, call[p].n, call[p].m)
  <2>1. /\ Leave(p, [result[p] EXCEPT !.ret = 0])
        /\ f_pos' = [f_pos EXCEPT ![call[p].file] = BytesBefore(buffer, call[p].n) + call[p].m]
    BY <1>3 DEF aesd_ioctl, UnlockAndLeave
  <2>2. PICK D : SlotSums(D, buffer)
    BY SlotSumsExist DEF DeviceInv, DeviceTypeOK, BufferTypeOK
  <2>3. BytesBefore(buffer, call[p].n) + call[p].m \in Nat
    BY <1>3, <2>2, IoctlMoves DEF aesd_ioctl
  <2>4. f_pos' \in [Files -> Nat] /\ 0 \in Int
    BY <1>1, <2>1, <2>3 DEF PositionsOK
  <2> QED
    BY <1>1, <2>1, <2>4, RetType, LeavePositions
<1> QED
  BY <1>2, <1>3

LEMMA WritePositions ==
  ASSUME DeviceInv, PositionsOK, NEW p \in Procs, aesd_write(p)
  PROVE  PositionsOK'
<1>1. /\ result[p] \in Results /\ result[p].pos \in Nat /\ call[p].data \in Seq(Byte)
      /\ UNCHANGED f_pos
  BY InCall DEF aesd_write, Inside
<1>2. CASE OutOfMemory(p)
  <2>1. Leave(p, [result[p] EXCEPT !.ret = -ENOMEM]) /\ -ENOMEM \in Int
    BY <1>2 DEF OutOfMemory, UnlockAndLeave, ENOMEM
  <2> QED
    BY <1>1, <2>1, RetType, LeavePositions DEF PositionsOK
<1>3. ASSUME NEW ptr, NEW old \in Seq(Byte), Store(p, ptr, old) PROVE PositionsOK'
  <2>1. PICK bytes \in Uncopied(Len(call[p].data)) :
          LET new == Copied(call[p].data, bytes)
              all == Appended(old, new)
          IN  Leave(p, [result[p] EXCEPT !.ret = Len(new), !.pos = PosAfter(@, all)])
    BY <1>3 DEF Store, UnlockAndLeave
  <2> DEFINE new == Copied(call[p].data, bytes)
             all == Appended(old, new)
             pos == PosAfter(result[p].pos, all)
  <2>2. new \in Seq(Byte) /\ all \in Seq(Byte)
    BY <1>1, StoredType
  <2>3. Leave(p, [result[p] EXCEPT !.ret = Len(new), !.pos = pos])
    BY <2>1
  <2> HIDE DEF new, all
  <2>4. Len(new) \in Int /\ pos \in Nat
    BY <1>1, <2>2 DEF PosAfter
  <2> HIDE DEF pos
  <2>5. [result[p] EXCEPT !.ret = Len(new), !.pos = pos] \in Results
    BY <1>1, <2>4 DEF Results
  <2> QED
    BY <1>1, <2>3, <2>5, LeavePositions DEF PositionsOK
<1>4. CASE WriteFirst(p)
  <2>1. << >> \in Seq(Byte)
    OBVIOUS
  <2> QED
    BY <1>3, <1>4, <2>1 DEF WriteFirst
<1>5. CASE WriteMore(p)
  <2>1. mem[entry.buffptr] \in Seq(Byte)
    BY <1>5 DEF WriteMore, DeviceInv, DeviceTypeOK, Entries
  <2> QED
    BY <1>3, <1>5, <2>1 DEF WriteMore
<1>6. CASE WriteAfterFailure(p)
  <2>1. PICK ptr \in Buffptr \ heap, junk \in [1..entry.size -> Byte] : Store(p, ptr, junk)
    BY <1>6 DEF WriteAfterFailure
  <2>2. entry.size \in Nat
    BY DEF DeviceInv, DeviceTypeOK, Entries
  <2>3. junk \in Seq(Byte)
    BY <2>2
  <2> QED
    BY <1>3, <2>1, <2>3
<1> QED
  BY <1>2, <1>4, <1>5, <1>6 DEF aesd_write

LEMMA SyscallPositions ==
  ASSUME DeviceInv, PositionsOK, NEW p \in Procs,
         SysRead(p) \/ SysWrite(p) \/ SysLlseek(p) \/ SysIoctl(p)
  PROVE  PositionsOK'
<1>1. ASSUME NEW op, NEW file, NEW buf, NEW cmd, NEW n, NEW m, NEW data,
             op \in {"read", "ioctl"} => n \in Nat /\ m \in Nat,
             Invoke(p, NewCall(op, file, buf, cmd, n, m, data))
      PROVE  PositionsOK'
  <2> DEFINE c == NewCall(op, file, buf, cmd, n, m, data)
  <2>1. c.op = op /\ c.n = n /\ c.m = m
    BY DEF NewCall
  <2> HIDE DEF c
  <2>2. Invoke(p, c)
    BY <1>1 DEF c
  <2> QED
    BY <1>1, <2>1, <2>2, InvokePositions
<1>2. CASE SysRead(p)
  BY <1>1, <1>2, SizesAssumption DEF SysRead
<1>3. CASE SysWrite(p)
  BY <1>1, <1>3 DEF SysWrite
<1>4. CASE SysLlseek(p)
  BY <1>1, <1>4 DEF SysLlseek
<1>5. CASE SysIoctl(p)
  <2>1. 0..N \subseteq Nat
    BY CapacityAssumption
  <2> QED
    BY <1>1, <1>5, <2>1, SizesAssumption DEF SysIoctl
<1> QED
  BY <1>2, <1>3, <1>4, <1>5

LEMMA RejectPositions ==
  ASSUME DeviceInv, PositionsOK, NEW p \in Procs, Reject(p) \/ LockInterrupted(p)
  PROVE  PositionsOK'
<1>1. result[p] \in Results /\ f_pos' \in [Files -> Nat]
  BY DEF PositionsOK, Reject, LockInterrupted
<1>2. \A r \in Rejections(call[p]) : r \in Int
  BY DEF Rejections, ReadRejections, WriteRejections, IoctlRejections, EFAULT, ENOTTY
<1>3. -EFAULT \in Int /\ -ERESTARTSYS \in Int
  BY DEF EFAULT, ERESTARTSYS
<1>4. \E x \in Int : Leave(p, [result[p] EXCEPT !.ret = x])
  BY <1>2, <1>3 DEF Reject, LockInterrupted
<1> QED
  BY <1>1, <1>4, RetType, LeavePositions

LEMMA HandlerPositions ==
  ASSUME DeviceInv, Filled, PositionsOK, NEW p \in Procs,
         aesd_read(p) \/ aesd_write(p) \/ aesd_llseek(p) \/ aesd_ioctl(p)
  PROVE  PositionsOK'
<1>1. CASE aesd_read(p)
  <2>1. PICK c : ReadLeaves(p, c)
    BY <1>1, ReadBytes
  <2>2. Leave(p, result'[p]) /\ result'[p] \in Results /\ f_pos' \in [Files -> Nat]
    BY <1>1, <2>1 DEF ReadLeaves, aesd_read, PositionsOK
  <2> QED
    BY <2>2, LeavePositions
<1> QED
  BY <1>1, WritePositions, LlseekPositions, IoctlPositions

LEMMA ReturnPositions ==
  ASSUME DeviceInv, PositionsOK, NEW p \in Procs, Return(p)
  PROVE  PositionsOK'
<1>1. call[p].file \in Files /\ result[p].pos \in Nat
  BY InCall DEF Return
<1>2. f_pos' \in [Files -> Nat]
  BY <1>1 DEF Return, PositionsOK
<1>3. result' \in [Procs -> Results] /\ NothingRead'
  BY NoResultType DEF Return, PositionsOK, NothingRead, DeviceInv, DeviceTypeOK
<1>4. ArgumentsOK'
  BY DEF Return, PositionsOK, ArgumentsOK, NoCall, NewCall, DeviceInv, DeviceTypeOK
<1> QED
  BY <1>2, <1>3, <1>4 DEF PositionsOK

LEMMA PositionsNext ==
  ASSUME DeviceInv, Filled, PositionsOK, [Next]_vars
  PROVE  PositionsOK'
<1>1. CASE aesd_init_module \/ aesd_cleanup_module \/ UNCHANGED vars
  BY <1>1 DEF aesd_init_module, aesd_cleanup_module, vars, PositionsOK, ArgumentsOK, NothingRead
<1>2. ASSUME NEW f \in Files, aesd_open(f) \/ aesd_release(f) PROVE PositionsOK'
  BY <1>2 DEF aesd_open, aesd_release, PositionsOK, ArgumentsOK, NothingRead
<1>3. ASSUME NEW p \in Procs, SysRead(p) \/ SysWrite(p) \/ SysLlseek(p) \/ SysIoctl(p)
      PROVE  PositionsOK'
  BY <1>3, SyscallPositions
<1>4. ASSUME NEW p \in Procs, Lock(p) PROVE PositionsOK'
  BY <1>4 DEF Lock, PositionsOK, ArgumentsOK, NothingRead, DeviceInv, DeviceTypeOK
<1>5. ASSUME NEW p \in Procs, Reject(p) \/ LockInterrupted(p) PROVE PositionsOK'
  BY <1>5, RejectPositions
<1>6. ASSUME NEW p \in Procs, aesd_read(p) \/ aesd_write(p) \/ aesd_llseek(p) \/ aesd_ioctl(p)
      PROVE  PositionsOK'
  BY <1>6, HandlerPositions
<1>7. ASSUME NEW p \in Procs, Return(p) PROVE PositionsOK'
  BY <1>7, ReturnPositions
<1> QED
  BY <1>1, <1>2, <1>3, <1>4, <1>5, <1>6, <1>7 DEF Next, Progress

LEMMA PositionsAlways == Spec => []PositionsOK
<1>1. Init => PositionsOK
  BY NoResultType DEF Init, PositionsOK, ArgumentsOK, NothingRead, NoCall, NewCall
<1> QED
  BY <1>1, PositionsNext, DeviceCorrect, FilledAlways, PTL DEF Spec

\* Every variable keeps its type: in particular no sequence of reads, writes
\* and seeks, of however many processes sharing a file, makes f_pos negative.
THEOREM DriverTypeCorrect == Spec => []TypeOK
<1>1. DeviceInv /\ PositionsOK => TypeOK
  BY DEF DeviceInv, PositionsOK, TypeOK
<1> QED
  BY <1>1, DeviceCorrect, PositionsAlways, PTL

-----------------------------------------------------------------------------
(* What a read delivers and where a seek lands.                            *)

\* Only its own handler takes a process out of the lock.
LEMMA HandlerStep ==
  ASSUME DeviceInv, [Next]_vars, NEW p \in Procs, pc[p] = "locked", pc'[p] = "exit"
  PROVE  aesd_read(p) \/ aesd_write(p) \/ aesd_llseek(p) \/ aesd_ioctl(p)
<1>1. pc \in [Procs -> {"idle", "entry", "locked", "exit"}]
  BY DEF DeviceInv, DeviceTypeOK
<1>2. ~UNCHANGED pc
  OBVIOUS
<1>3. ~(aesd_init_module \/ aesd_cleanup_module)
  BY <1>2 DEF aesd_init_module, aesd_cleanup_module
<1>4. \A f \in Files : ~(aesd_open(f) \/ aesd_release(f))
  BY <1>2 DEF aesd_open, aesd_release
<1>5. \A q \in Procs : ~(SysRead(q) \/ SysWrite(q) \/ SysLlseek(q) \/ SysIoctl(q))
  BY <1>1 DEF SysRead, SysWrite, SysLlseek, SysIoctl, Invoke
<1>6. \A q \in Procs : ~(Lock(q) \/ LockInterrupted(q) \/ Reject(q) \/ Return(q))
  BY <1>1 DEF Lock, LockInterrupted, Reject, Return, Leave
<1>7. \A q \in Procs : aesd_read(q) \/ aesd_write(q) \/ aesd_llseek(q) \/ aesd_ioctl(q) => q = p
  <2>1. \A q \in Procs : pc[q] = "locked" => q = p
    BY DEF DeviceInv, LockHeldInside
  <2> QED
    BY <2>1 DEF aesd_read, aesd_write, aesd_llseek, aesd_ioctl, Inside
<1> QED
  BY <1>2, <1>3, <1>4, <1>5, <1>6, <1>7 DEF Next, Progress, vars

\* A read returns the bytes of the concatenated entries that start at the
\* position its call began with, for any number of readers and writers, wrapped
\* around or not, and reports the end only at the end.
THEOREM ReadCorrect == Spec => ReadDelivers
<1>1. ASSUME DeviceInv, Filled, PositionsOK, [Next]_vars,
             NEW p \in Procs, Inside(p, "read"), pc'[p] = "exit"
      PROVE  LET all == Contents(buffer)
                 c   == result'[p]
             IN  /\ Len(c.data) = c.ret
                 /\ c.pos = result[p].pos + c.ret
                 /\ c.ret > 0 => c.data = SubSeq(all, result[p].pos + 1, c.pos)
                 /\ "copy" \notin Faults /\ call[p].n > 0
                      => (c.ret = 0 <=> result[p].pos >= Len(all))
  <2>1. aesd_read(p)
    BY <1>1, HandlerStep DEF Inside, aesd_write, aesd_llseek, aesd_ioctl
  <2>2. PICK c : ReadLeaves(p, c)
    BY <1>1, <2>1, ReadBytes
  <2> QED
    BY <2>2 DEF ReadLeaves
<1>2. DeviceInv /\ Filled /\ PositionsOK /\ [Next]_vars
        => [\A p \in Procs :
              Inside(p, "read") /\ pc'[p] = "exit" =>
                LET all == Contents(buffer)
                    c   == result'[p]
                IN  /\ Len(c.data) = c.ret
                    /\ c.pos = result[p].pos + c.ret
                    /\ c.ret > 0 => c.data = SubSeq(all, result[p].pos + 1, c.pos)
                    /\ "copy" \notin Faults /\ call[p].n > 0
                         => (c.ret = 0 <=> result[p].pos >= Len(all))]_vars
  BY <1>1
<1> QED
  BY <1>2, DeviceCorrect, FilledAlways, PositionsAlways, PTL DEF Spec, ReadDelivers

\* A successful AESDCHAR_IOCSEEKTO leaves f_pos on a byte of the device for
\* every ring, wrapped around or not, although its loop counts the slots in
\* another order than a reader; it is the byte asked for while the oldest write
\* is in slot 0.
THEOREM SeekCorrect == Spec => SeekLandsOnByte
<1>1. ASSUME DeviceInv, Filled, PositionsOK, [Next]_vars, NEW p \in Procs, SeekSucceeds(p)
      PROVE  LET pos == f_pos'[call[p].file]
             IN  /\ pos < Len(Contents(buffer))
                 /\ buffer.out_offs = 0 => pos = PositionOf(buffer, call[p].n, call[p].m)
  <2> DEFINE n == call[p].n
             m == call[p].m
             pos == f_pos'[call[p].file]
             total == totalEntries(buffer)
  <2>1. aesd_ioctl(p) /\ loaded /\ call[p].file \in Files /\ Inside(p, "ioctl")
    BY <1>1, HandlerStep, InCall
    DEF SeekSucceeds, Inside, aesd_write, aesd_llseek, aesd_read
  <2>2. buffer \in Buffers /\ RingShape(buffer)
    BY <1>1 DEF DeviceInv, DeviceTypeOK, BufferTypeOK, BufferShape
  <2>3. ~SeekInvalid(buffer, n, m)
    <3>1. SUFFICES ASSUME SeekInvalid(buffer, n, m) PROVE result'[p].ret = -EINVAL
      BY <1>1 DEF SeekSucceeds, EINVAL
    <3>2. result' = [result EXCEPT ![p] = [result[p] EXCEPT !.ret = -EINVAL]]
      BY <2>1, <3>1 DEF aesd_ioctl, UnlockAndLeave, Leave
    <3> QED
      BY <1>1, <3>2 DEF PositionsOK, Results
  <2>4. f_pos' = [f_pos EXCEPT ![call[p].file] = BytesBefore(buffer, n) + m]
    BY <2>1, <2>3 DEF aesd_ioctl
  <2>5. PICK D : SlotSums(D, buffer)
    BY <2>2, SlotSumsExist
  <2>6. PICK B : SumsOf(B, buffer)
    BY <2>2, SumsExist
  <2>7. /\ n \in Slots /\ m \in Nat /\ m < buffer.entry[n].size
        /\ BytesBefore(buffer, n) = D[n] /\ D[n] \in Nat
    BY <1>1, <2>1, <2>3, <2>5, IoctlMoves
  <2>8. pos = D[n] + m
    BY <1>1, <2>1, <2>4, <2>7 DEF PositionsOK
  <2> HIDE DEF n, m, pos
  <2>9. n \in 0..N /\ n + 1 \in 0..N /\ N \in 0..N /\ n + 1 <= N
    BY <2>7, CapacityAssumption DEF Slots
  <2>10. D[n + 1] = D[n] + buffer.entry[n].size /\ buffer.entry[n].size \in Nat
    BY <2>2, <2>5, <2>7 DEF SlotSums, Buffers, Entries
  <2>11. D[n + 1] <= D[N]
    BY <2>2, <2>5, <2>9, SlotSumsMonotonic
  <2>12. total \in 0..N /\ total \in 0..total
    BY <2>2, TotalType, CapacityAssumption
  <2>13. Len(Contents(buffer)) = D[N]
    <3>1. Len(Contents(buffer)) = B[total]
      BY <1>1, <2>1, <2>6, <2>12, OldestLocated DEF Contents
    <3> QED
      BY <2>2, <2>5, <2>6, <3>1, OrdersAgree
  <2>14. D[N] \in Int /\ pos < Len(Contents(buffer))
    <3>1. D[N] \in Int
      BY <2>5, CapacityAssumption DEF SlotSums
    <3> QED
      BY <2>7, <2>8, <2>10, <2>11, <2>13, <3>1
  <2>15. ASSUME buffer.out_offs = 0 PROVE pos = PositionOf(buffer, n, m)
    <3>1. n \in 0..total
      <4>1. CASE ~buffer.full /\ n >= buffer.in_offs
        <5>1. buffer.entry[n] = ZeroEntry
          BY <2>2, <2>7, <4>1 DEF RingShape
        <5> QED
          BY <2>7, <5>1 DEF ZeroEntry
      <4>2. CASE buffer.full \/ n < buffer.in_offs
        BY <2>2, <2>9, <2>7, <4>2, CapacityAssumption DEF totalEntries, Slots, Buffers
      <4> QED
        BY <2>2, <2>7, <4>1, <4>2 DEF Buffers, Slots
    <3>2. Len(Oldest(buffer, n)) = B[n]
      BY <1>1, <2>1, <2>6, <3>1, OldestLocated
    <3>3. B[n] = D[n]
      BY <2>2, <2>5, <2>6, <2>9, <2>15, OrdersAgree
    <3> QED
      BY <2>8, <3>2, <3>3 DEF PositionOf
  <2> QED
    BY <2>14, <2>15 DEF n, m, pos
<1>2. DeviceInv /\ Filled /\ PositionsOK /\ [Next]_vars
        => [\A p \in Procs :
              SeekSucceeds(p) =>
                LET pos == f_pos'[call[p].file]
                IN  /\ pos < Len(Contents(buffer))
                    /\ buffer.out_offs = 0
                         => pos = PositionOf(buffer, call[p].n, call[p].m)]_vars
  BY <1>1
<1> QED
  BY <1>2, DeviceCorrect, FilledAlways, PositionsAlways, PTL DEF Spec, SeekLandsOnByte

-----------------------------------------------------------------------------
(* The stream of accepted bytes.                                           *)

\* The blocks of the entries of a log, in memory m.
BytesIn(log, m) == [i \in 1..Len(log) |-> m[log[i].buffptr]]

\* The log of the ring, and its bytes end to end.
LEMMA LogBytes ==
  ASSUME NEW b \in Buffers, NEW m
  PROVE  /\ LogOf(b) \in Seq(Entries) /\ Len(LogOf(b)) = totalEntries(b)
         /\ FlattenSeq([i \in 1..totalEntries(b) |-> m[b.entry[SlotOf(b, i - 1)].buffptr]])
              = FlattenSeq(BytesIn(LogOf(b), m))
<1>1. totalEntries(b) \in Nat
  BY TotalType, CapacityAssumption
<1>2. ASSUME NEW i \in 1..totalEntries(b) PROVE b.entry[SlotOf(b, i - 1)] \in Entries
  <2>1. i - 1 \in Nat
    BY <1>1
  <2> QED
    BY <2>1, SlotType
<1>3. LogOf(b) \in Seq(Entries) /\ Len(LogOf(b)) = totalEntries(b)
  BY <1>1, <1>2 DEF LogOf
<1>4. BytesIn(LogOf(b), m) = [i \in 1..totalEntries(b) |-> m[b.entry[SlotOf(b, i - 1)].buffptr]]
  BY <1>3 DEF BytesIn, LogOf
<1> QED
  BY <1>3, <1>4

\* Memories m and n agree on the blocks of the log.
SameBlocks(log, m, n) == \A i \in 1..Len(log) : n[log[i].buffptr] = m[log[i].buffptr]

\* One more entry adds its block behind the others.
LEMMA BytesAppend ==
  ASSUME NEW log \in Seq(Entries), NEW e \in Entries, NEW m, NEW n,
         SameBlocks(log, m, n),
         BytesIn(log, m) \in Seq(Seq(Byte)), n[e.buffptr] \in Seq(Byte)
  PROVE  BytesIn(Append(log, e), n) = Append(BytesIn(log, m), n[e.buffptr])
<1> DEFINE more == Append(log, e)
           s == BytesIn(log, m)
<1>1. /\ Len(log) \in Nat /\ Len(more) = Len(log) + 1
      /\ \A i \in 1..Len(log) : more[i] = log[i]
      /\ more[Len(log) + 1] = e
  OBVIOUS
<1>2. Len(s) = Len(log) /\ \A i \in 1..Len(log) : s[i] = m[log[i].buffptr]
  BY <1>1 DEF BytesIn
<1>3. /\ Append(s, n[e.buffptr]) = [i \in 1..(Len(s) + 1) |-> Append(s, n[e.buffptr])[i]]
      /\ \A i \in 1..Len(s) : Append(s, n[e.buffptr])[i] = s[i]
      /\ Append(s, n[e.buffptr])[Len(s) + 1] = n[e.buffptr]
  <2> DEFINE x == n[e.buffptr]
             t == Append(s, x)
  <2>1. s \in Seq(Seq(Byte)) /\ x \in Seq(Byte)
    OBVIOUS
  <2> HIDE DEF s, x
  <2>2. /\ Len(s) \in Nat /\ Len(t) = Len(s) + 1 /\ t \in Seq(Seq(Byte))
        /\ \A i \in 1..Len(s) : t[i] = s[i]
        /\ t[Len(s) + 1] = x
    BY <2>1
  <2> HIDE DEF t
  <2>3. t = [i \in 1..(Len(s) + 1) |-> t[i]]
    BY <2>2
  <2> QED
    BY <2>2, <2>3 DEF t, x
<1>4. BytesIn(more, n) = [i \in 1..(Len(log) + 1) |-> n[more[i].buffptr]]
  BY <1>1 DEF BytesIn
<1> HIDE DEF more, s
<1>5. \A i \in 1..(Len(log) + 1) : n[more[i].buffptr] = Append(s, n[e.buffptr])[i]
  <2> TAKE i \in 1..(Len(log) + 1)
  <2>1. CASE i \in 1..Len(log)
    BY <1>1, <1>2, <1>3, <2>1 DEF SameBlocks
  <2>2. CASE i = Len(log) + 1
    BY <1>1, <1>2, <1>3, <2>2
  <2>3. Len(log) \in Nat
    OBVIOUS
  <2>4. i \in 1..Len(log) \/ i = Len(log) + 1
    BY <2>3
  <2> QED
    BY <2>1, <2>2, <2>4
<1>6. BytesIn(more, n) = Append(s, n[e.buffptr])
  BY <1>2, <1>3, <1>4, <1>5
<1> QED
  BY <1>6 DEF more, s

\* Dropping the oldest entry drops its block.
LEMMA BytesTail ==
  ASSUME NEW log \in Seq(Entries), log # << >>, NEW m, BytesIn(log, m) \in Seq(Seq(Byte))
  PROVE  /\ BytesIn(Tail(log), m) = Tail(BytesIn(log, m))
         /\ BytesIn(log, m) # << >>
<1> DEFINE s == BytesIn(log, m)
           rest == Tail(log)
<1>1. /\ Len(log) \in Nat /\ Len(log) > 0 /\ Len(rest) = Len(log) - 1
      /\ \A i \in 1..(Len(log) - 1) : rest[i] = log[i + 1]
  OBVIOUS
<1>2. Len(s) = Len(log) /\ \A i \in 1..Len(log) : s[i] = m[log[i].buffptr]
  BY <1>1 DEF BytesIn
<1>3. s \in Seq(Seq(Byte))
  OBVIOUS
<1>4. BytesIn(rest, m) = [i \in 1..(Len(log) - 1) |-> m[rest[i].buffptr]]
  BY <1>1 DEF BytesIn
<1> HIDE DEF s, rest
<1>5. s # << >> /\ Tail(s) = [i \in 1..(Len(log) - 1) |-> s[i + 1]]
  <2>1. s # << >>
    BY <1>1, <1>2, <1>3
  <2> DEFINE t == Tail(s)
  <2>2. t \in Seq(Seq(Byte)) /\ Len(t) = Len(s) - 1 /\ \A i \in 1..Len(t) : t[i] = s[i + 1]
    BY <1>3, <2>1
  <2> HIDE DEF t
  <2>3. t = [i \in 1..(Len(log) - 1) |-> t[i]]
    BY <1>2, <2>2
  <2> QED
    BY <1>2, <2>1, <2>2, <2>3 DEF t
<1>6. \A i \in 1..(Len(log) - 1) : m[rest[i].buffptr] = s[i + 1]
  <2> TAKE i \in 1..(Len(log) - 1)
  <2>1. i + 1 \in 1..Len(log)
    BY <1>1
  <2> QED
    BY <1>1, <1>2, <2>1
<1>7. BytesIn(rest, m) = Tail(s)
  BY <1>4, <1>5, <1>6
<1> QED
  BY <1>5, <1>7 DEF s, rest

\* While no allocation fails inside an unfinished write: what the device holds
\* is what was accepted last, and dev->entry has lost no block.
StreamInv ==
  loaded =>
    /\ \E u \in Seq(Byte) : accepted = u \o (Contents(buffer) \o Pending)
    /\ entry.buffptr = NULL => entry.size = 0

\* A step never brings back bytes that the device has forgotten.
Forgets ==
  \E u, w \in Seq(Byte) :
    /\ accepted = u \o (Contents(buffer) \o Pending)
    /\ accepted' = w \o (Contents(buffer)' \o Pending')
    /\ Len(u) <= Len(w)

LEMMA ForgetsIntro ==
  ASSUME NEW u \in Seq(Byte), NEW w \in Seq(Byte), Len(u) <= Len(w),
         accepted = u \o (Contents(buffer) \o Pending),
         accepted' = w \o (Contents(buffer)' \o Pending')
  PROVE  Forgets
  BY Zenon DEF Forgets

\* The bytes of the unfinished write are the ones a write goes on with.
LEMMA ContinuesPending ==
  ASSUME DeviceInv, Filled, StreamInv, loaded, NEW ptr \in Buffptr, NEW old \in Seq(Byte),
         Continues(ptr, old)
  PROVE  old = Pending
<1>1. entry.buffptr # NULL => /\ entry.buffptr \in Buffptr
                              /\ mem[entry.buffptr] \in Seq(Byte)
                              /\ Len(mem[entry.buffptr]) = entry.size
  BY DEF DeviceInv, DeviceTypeOK, Entries, Filled
<1>2. entry.size = 0 => Pending = << >>
  BY <1>1 DEF Pending
<1>3. entry.size > 0 => entry.buffptr # NULL
  BY DEF StreamInv
<1> QED
  BY <1>2, <1>3, NullAssumption DEF Continues, Pending

\* The bytes in the ring, in a memory that agrees on the ring's blocks.
LEMMA RingBytes ==
  ASSUME DeviceInv, Filled, loaded
  PROVE  /\ LogOf(buffer) \in Seq(Entries) /\ Len(LogOf(buffer)) = totalEntries(buffer)
         /\ Contents(buffer) = FlattenSeq(BytesIn(LogOf(buffer), mem))
         /\ Contents(buffer) \in Seq(Byte)
         /\ BytesIn(LogOf(buffer), mem) \in Seq(Seq(Byte))
         /\ \A i \in 1..totalEntries(buffer) :
              /\ LogOf(buffer)[i].buffptr \in heap
              /\ \E j \in Slots : LogOf(buffer)[i].buffptr = buffer.entry[j].buffptr
<1> DEFINE n == totalEntries(buffer)
<1>1. buffer \in Buffers
  BY DEF DeviceInv, DeviceTypeOK, BufferTypeOK
<1>2. n \in 0..n
  BY <1>1, TotalType, CapacityAssumption
<1>3. /\ LogOf(buffer) \in Seq(Entries) /\ Len(LogOf(buffer)) = n
      /\ Contents(buffer) = FlattenSeq(BytesIn(LogOf(buffer), mem))
  BY <1>1, LogBytes DEF Contents, Oldest
<1>4. /\ Blocks(n) \in Seq(Seq(Byte))
      /\ \A i \in 1..n : SlotOf(buffer, i - 1) \in Used(buffer)
  BY <1>2, BlocksSound
<1>5. Blocks(n) = BytesIn(LogOf(buffer), mem)
  BY <1>3 DEF Blocks, BytesIn, LogOf
<1>6. ASSUME NEW i \in 1..n
      PROVE  /\ LogOf(buffer)[i].buffptr \in heap
             /\ \E j \in Slots : LogOf(buffer)[i].buffptr = buffer.entry[j].buffptr
  <2>1. LogOf(buffer)[i] = buffer.entry[SlotOf(buffer, i - 1)]
    BY DEF LogOf
  <2> QED
    BY <1>4, <2>1 DEF DeviceInv, MemorySound, Used
<1> QED
  BY <1>3, <1>4, <1>5, <1>6, FlattenType

\* Joining bytes.
LEMMA Joined == \A a, b \in Seq(Byte) : a \o b \in Seq(Byte) /\ a \o << >> = a
  OBVIOUS

LEMMA Associative == \A a, b, c \in Seq(Byte) : (a \o b) \o c = a \o (b \o c)
  OBVIOUS

LEMMA StoredStream ==
  ASSUME DeviceInv, Filled, StreamInv, loaded, UNCHANGED loaded,
         NEW ptr \in Buffptr, NEW old \in Seq(Byte), NEW new \in Seq(Byte),
         \A i \in Slots : buffer.entry[i].buffptr # ptr,
         Continues(ptr, old), Stored(ptr, old, new)
  PROVE  StreamInv' /\ Forgets
<1> DEFINE log  == LogOf(buffer)
           C    == Contents(buffer)
           all  == old \o new
           e    == [buffptr |-> ptr, size |-> Len(all)]
<1>1. /\ log \in Seq(Entries) /\ C = FlattenSeq(BytesIn(log, mem)) /\ C \in Seq(Byte)
      /\ BytesIn(log, mem) \in Seq(Seq(Byte))
      /\ \A i \in 1..Len(log) : /\ log[i].buffptr \in heap
                                /\ \E j \in Slots : log[i].buffptr = buffer.entry[j].buffptr
  BY RingBytes
<1>2. SameBlocks(log, mem, mem')
  BY <1>1 DEF Stored, SameBlocks
<1>3. /\ accepted' = accepted \o new /\ mem'[ptr] = all
      /\ \/ entry' = ZeroEntry /\ buffer' = aesd_circular_buffer_add_entry(buffer, e)
         \/ entry' = e /\ buffer' = buffer
  BY DEF Stored
<1>4. /\ all \in Seq(Byte) /\ e \in Entries /\ e.buffptr = ptr /\ e.size = Len(all)
      /\ ptr # NULL
  BY NullAssumption DEF Entries
<1>5. PICK u \in Seq(Byte) : accepted = u \o (C \o old)
  BY ContinuesPending DEF StreamInv
<1>10. accepted = u \o (Contents(buffer) \o Pending) /\ Len(u) <= Len(u)
  <2>1. Pending = old
    BY ContinuesPending
  <2>2. Len(u) <= Len(u)
    BY <1>5
  <2> QED
    BY <1>5, <2>1, <2>2, Zenon
<1>6. buffer \in Buffers /\ RingShape(buffer)
  BY DEF DeviceInv, DeviceTypeOK, BufferTypeOK, BufferShape
<1> HIDE DEF log, C, all, e
<1>7. accepted' = u \o (C \o all)
  <2>1. C \o old \in Seq(Byte)
    BY <1>1, Joined, Zenon
  <2>2. (u \o (C \o old)) \o new = u \o ((C \o old) \o new)
    BY <1>5, <2>1, Associative, Zenon
  <2>3. (C \o old) \o new = C \o (old \o new)
    BY <1>1, Associative, ZenonT(40)
  <2> QED
    BY <1>3, <1>5, <2>2, <2>3 DEF all
<1>8. CASE entry' = e /\ buffer' = buffer
  <2>1. Pending' = all
    BY <1>3, <1>4, <1>8 DEF Pending
  <2>2. Contents(buffer)' = FlattenSeq(BytesIn(log, mem'))
    BY <1>6, <1>8, LogBytes DEF Contents, Oldest, log
  <2>3. BytesIn(log, mem') = BytesIn(log, mem)
    BY <1>2 DEF BytesIn, SameBlocks
  <2> QED
    <3>1. accepted' = u \o (Contents(buffer)' \o Pending')
      BY <1>1, <1>7, <2>1, <2>2, <2>3
    <3>2. StreamInv'
      BY <1>4, <1>5, <1>8, <3>1 DEF StreamInv
    <3> QED
      BY <1>5, <1>10, <3>1, <3>2, ForgetsIntro
<1>9. CASE entry' = ZeroEntry /\ buffer' = aesd_circular_buffer_add_entry(buffer, e)
  <2>1. Pending' = << >> /\ entry'.buffptr = NULL /\ entry'.size = 0
    BY <1>9 DEF Pending, ZeroEntry
  <2>2. buffer' \in Buffers
    BY <1>4, <1>6, <1>9, AddEntryShape
  <2>3. Contents(buffer)' = FlattenSeq(BytesIn(LogOf(buffer'), mem'))
    BY <2>2, LogBytes DEF Contents, Oldest
  <2>4. LogOf(buffer') = Append(IF Len(log) < N THEN log ELSE Tail(log), e)
    BY <1>4, <1>6, <1>9, AddEntryLog DEF log
  <2>5. CASE Len(log) < N
    <3>1. BytesIn(LogOf(buffer'), mem') = Append(BytesIn(log, mem), all)
      BY <1>1, <1>2, <1>3, <1>4, <2>4, <2>5, BytesAppend
    <3>2. Contents(buffer)' = C \o all
      BY <1>1, <1>4, <2>3, <3>1, FlattenAppend
    <3>3. accepted' = u \o (Contents(buffer)' \o Pending')
      <4>1. C \o all \in Seq(Byte)
        BY <1>1, <1>4, Joined, Zenon
      <4>2. (C \o all) \o << >> = C \o all
        BY <4>1, Joined, Zenon
      <4> QED
        BY <1>7, <2>1, <3>2, <4>2
    <3> QED
      <4>1. StreamInv'
        BY <1>5, <2>1, <3>3 DEF StreamInv
      <4> QED
        BY <1>5, <1>10, <3>3, <4>1, ForgetsIntro
  <2>6. CASE ~(Len(log) < N)
    <3> DEFINE rest == Tail(log)
               s == BytesIn(log, mem)
    <3>1. log # << >> /\ rest \in Seq(Entries)
      <4>1. Len(log) # 0
        BY <2>6, CapacityAssumption
      <4> QED
        BY <1>1, <4>1
    <3>2. BytesIn(rest, mem) = Tail(s) /\ s # << >>
      BY <1>1, <3>1, BytesTail
    <3>3. Head(s) \in Seq(Byte) /\ Tail(s) \in Seq(Seq(Byte))
      BY <1>1, <3>2
    <3>4. SameBlocks(rest, mem, mem')
      <4>1. Len(rest) = Len(log) - 1 /\ \A i \in 1..Len(rest) : rest[i] = log[i + 1]
        BY <1>1, <3>1
      <4>2. \A i \in 1..Len(rest) : i + 1 \in 1..Len(log)
        BY <1>1, <4>1
      <4> HIDE DEF rest
      <4> QED
        BY <1>2, <4>1, <4>2 DEF SameBlocks
    <3> HIDE DEF rest, s
    <3>5. BytesIn(LogOf(buffer'), mem') = Append(Tail(s), all)
      <4>1. LogOf(buffer') = Append(rest, e)
        BY <2>4, <2>6 DEF rest
      <4>2. BytesIn(rest, mem) \in Seq(Seq(Byte)) /\ mem'[e.buffptr] = all
        BY <1>3, <1>4, <3>2, <3>3
      <4>3. BytesIn(Append(rest, e), mem') = Append(BytesIn(rest, mem), mem'[e.buffptr])
        BY <1>4, <3>1, <3>4, <4>2, BytesAppend
      <4> QED
        BY <3>2, <4>1, <4>2, <4>3
    <3> DEFINE R == FlattenSeq(Tail(s))
               h == Head(s)
    <3>6. Contents(buffer)' = R \o all
      BY <1>4, <2>3, <3>3, <3>5, FlattenAppend
    <3>7. C = h \o R /\ R \in Seq(Byte) /\ h \in Seq(Byte)
      BY <1>1, <3>2, <3>3, FlattenHead, FlattenType DEF s
    <3> HIDE DEF R, h
    <3>8. accepted' = (u \o h) \o (R \o all)
      <4>0. h \in Seq(Byte) /\ R \in Seq(Byte) /\ all \in Seq(Byte) /\ u \in Seq(Byte)
        BY <1>4, <1>5, <3>7
      <4>1. (h \o R) \o all = h \o (R \o all) /\ R \o all \in Seq(Byte)
        <5>1. (h \o R) \o all = h \o (R \o all)
          BY <4>0, SMTT(40)
        <5>2. R \o all \in Seq(Byte)
          BY <4>0, Joined, Zenon
        <5> QED
          BY <5>1, <5>2
      <4>2. (u \o h) \o (R \o all) = u \o (h \o (R \o all))
        BY <4>0, <4>1, Associative, Zenon
      <4> QED
        BY <1>7, <3>7, <4>1, <4>2
    <3>9. (R \o all) \o << >> = R \o all /\ u \o h \in Seq(Byte)
      <4>1. R \o all \in Seq(Byte)
        BY <1>4, <3>7, Joined, Zenon
      <4> QED
        BY <1>5, <3>7, <4>1, Joined, Zenon
    <3>10. accepted' = (u \o h) \o (Contents(buffer)' \o Pending')
      BY <2>1, <3>6, <3>8, <3>9
    <3> QED
      <4>1. StreamInv'
        BY <2>1, <3>9, <3>10 DEF StreamInv
      <4>2. Len(u) <= Len(u \o h)
        BY <1>5, <3>7
      <4> QED
        BY <1>5, <1>10, <3>9, <3>10, <4>1, <4>2, ForgetsIntro
  <2> QED
    BY <2>5, <2>6
<1> QED
  BY <1>3, <1>8, <1>9

LEMMA StreamNext ==
  ASSUME "nomem" \notin Faults, DeviceInv, Filled, StreamInv, DeviceStep
  PROVE  StreamInv' /\ (loaded /\ loaded' => Forgets)
<1>1. CASE UNCHANGED kept
  <2>1. /\ UNCHANGED <<accepted, entry, loaded>>
        /\ Contents(buffer)' = Contents(buffer) /\ Pending' = Pending
    BY <1>1 DEF kept, Contents, Oldest, Pending
  <2>2. StreamInv'
    BY <2>1 DEF StreamInv
  <2>3. ASSUME loaded PROVE Forgets
    <3>1. PICK u \in Seq(Byte) : accepted = u \o (Contents(buffer) \o Pending)
      BY <2>3 DEF StreamInv
    <3>2. accepted' = u \o (Contents(buffer)' \o Pending') /\ Len(u) <= Len(u)
      BY <2>1, <3>1
    <3> QED
      BY <3>1, <3>2, ForgetsIntro
  <2> QED
    BY <2>2, <2>3
<1>2. CASE aesd_init_module
  <2>1. /\ accepted' = accepted /\ accepted \in Seq(Byte) /\ entry' = ZeroEntry
        /\ buffer' = aesd_circular_buffer_init
    BY <1>2 DEF aesd_init_module, DeviceInv, DeviceTypeOK
  <2>2. Contents(buffer)' = << >>
    <3>1. totalEntries(buffer') = 0
      BY <2>1 DEF totalEntries, aesd_circular_buffer_init
    <3>2. Contents(buffer)' = FlattenSeq([i \in 1..0 |-> mem'[buffer'.entry[SlotOf(buffer', i - 1)].buffptr]])
      BY <3>1 DEF Contents, Oldest
    <3> QED
      BY <3>2, FlattenEmpty
  <2>3. Pending' = << >> /\ entry'.buffptr = NULL /\ entry'.size = 0
    BY <2>1 DEF Pending, ZeroEntry
  <2>4. accepted' = accepted \o (<< >> \o << >>)
    BY <2>1
  <2>5. accepted' = accepted \o (Contents(buffer)' \o Pending')
    BY <2>2, <2>3, <2>4
  <2> QED
    BY <1>2, <2>1, <2>3, <2>5 DEF StreamInv, aesd_init_module
<1>3. CASE aesd_cleanup_module
  BY <1>3 DEF aesd_cleanup_module, StreamInv
<1>4. ASSUME NEW p \in Procs, OutOfMemory(p), loaded, UNCHANGED loaded
      PROVE  StreamInv' /\ Forgets
  <2>1. entry.size = 0 /\ UNCHANGED <<buffer, mem, accepted>>
    BY <1>4 DEF OutOfMemory
  <2>2. entry'.buffptr = NULL /\ entry'.size = 0
    BY <1>4, <2>1 DEF OutOfMemory, DeviceInv, DeviceTypeOK, Entries
  <2>3. Pending = << >>
    <3>1. entry.buffptr # NULL => /\ mem[entry.buffptr] \in Seq(Byte)
                                  /\ Len(mem[entry.buffptr]) = 0
      BY <1>4, <2>1 DEF DeviceInv, DeviceTypeOK, Entries, Filled
    <3> QED
      BY <3>1 DEF Pending
  <2>4. Pending' = << >>
    BY <2>2 DEF Pending
  <2>5. Contents(buffer)' = Contents(buffer)
    BY <2>1 DEF Contents, Oldest
  <2> QED
    <3>1. StreamInv'
      BY <1>4, <2>1, <2>2, <2>3, <2>4, <2>5 DEF StreamInv
    <3>2. PICK u \in Seq(Byte) : accepted = u \o (Contents(buffer) \o Pending)
      BY <1>4 DEF StreamInv
    <3>3. accepted' = u \o (Contents(buffer)' \o Pending') /\ Len(u) <= Len(u)
      BY <2>1, <2>3, <2>4, <2>5, <3>2
    <3> QED
      BY <3>1, <3>2, <3>3, ForgetsIntro
<1>5. ASSUME NEW p \in Procs, aesd_write(p) PROVE StreamInv' /\ Forgets
  BY <1>4, <1>5, WriteStores, StoredStream
<1> QED
  BY <1>1, <1>2, <1>3, <1>5 DEF DeviceStep

\* As long as the kernel does not run out of memory inside an unfinished write,
\* the ring and dev->entry hold the most recent bytes that aesd_write accepted,
\* in order and without a gap, whoever wrote them and however often the ring
\* has wrapped around.
THEOREM StreamCorrect ==
  ASSUME "nomem" \notin Faults
  PROVE  Spec => []StreamIntact
<1>1. Init => StreamInv
  BY DEF Init, StreamInv
<1>2. DeviceInv /\ Filled /\ StreamInv /\ [Next]_vars => StreamInv'
  BY KeptSteps, StreamNext
<1>3. ASSUME DeviceInv, Filled, StreamInv PROVE StreamIntact
  <2> SUFFICES ASSUME loaded PROVE IsSuffix(Contents(buffer) \o Pending, accepted)
    BY DEF StreamIntact
  <2>1. PICK u \in Seq(Byte) : accepted = u \o (Contents(buffer) \o Pending)
    BY <1>3 DEF StreamInv
  <2>2. Pending \in Seq(Byte)
    BY <1>3 DEF Pending, DeviceInv, DeviceTypeOK, Entries
  <2>3. Contents(buffer) \o Pending \in Seq(Byte)
    BY <1>3, <2>2, RingBytes
  <2> QED
    BY <2>1, <2>3, SuffixIntro
<1> QED
  BY <1>1, <1>2, <1>3, DeviceCorrect, FilledAlways, PTL DEF Spec
=============================================================================
