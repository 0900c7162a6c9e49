------------------------- MODULE AesdCircularBuffer -------------------------
(***************************************************************************)
(* The ring of the most recent write operations kept by the aesdchar       *)
(* driver (aesd-circular-buffer.c).  Every function of the C file is an    *)
(* operator on a value of struct aesd_circular_buffer, so that the driver  *)
(* can apply it to dev->buffer; BufferSpec is the ring on its own, with an *)
(* arbitrary caller of aesd_circular_buffer_add_entry.                     *)
(***************************************************************************)
EXTENDS Integers, Sequences, SequencesExt

CONSTANTS
  AESDCHAR_MAX_WRITE_OPERATIONS_SUPPORTED,  \* number of slots, 10 in the code
  Buffptr,                                  \* memory blocks an entry can point to
  NULL,                                     \* the null pointer
  Sizes                                     \* sizes and byte counts that callers pass

N == AESDCHAR_MAX_WRITE_OPERATIONS_SUPPORTED

\* in_offs, out_offs and the loop counters are uint8_t.
ASSUME CapacityAssumption == N \in 1..255
ASSUME NullAssumption == NULL \notin Buffptr
ASSUME SizesAssumption == Sizes \subseteq Nat
ASSUME MissAssumption == NULL \notin [slot : 0..(N - 1), offset : Nat]

VARIABLE buffer  \* struct aesd_circular_buffer

Slots == 0..(N - 1)

\* struct aesd_buffer_entry
Entries == [buffptr : Buffptr \cup {NULL}, size : Nat]

\* An entry whose bytes are all zero, as memset leaves it.
ZeroEntry == [buffptr |-> NULL, size |-> 0]

\* struct aesd_circular_buffer
Buffers == [entry : [Slots -> Entries], in_offs : Slots, out_offs : Slots,
            full : BOOLEAN]

-----------------------------------------------------------------------------
(* The functions of aesd-circular-buffer.c.                                *)

aesd_circular_buffer_init ==
  [entry |-> [i \in Slots |-> ZeroEntry], in_offs |-> 0, out_offs |-> 0,
   full |-> FALSE]

\* The number of entries in use, as find_entry_offset_for_fpos computes it.
totalEntries(b) == IF b.full THEN N ELSE b.in_offs

\* The slot of the i-th oldest entry, counting from 0.
SlotOf(b, i) == (b.out_offs + i) % N

\* Mutant: the ring forgets to move out_offs past the entry it overwrites.
AddEntryKeepingOut(b, add_entry) ==
  LET in == (b.in_offs + 1) % N
  IN  [entry |-> [b.entry EXCEPT ![b.in_offs] = add_entry], in_offs |-> in,
       out_offs |-> b.out_offs, full |-> b.full \/ in = b.out_offs]

\* Mutant: one slot too few is used before the ring calls itself full.
AddEntryFullTooSoon(b, add_entry) ==
  LET out == IF b.full THEN (b.out_offs + 1) % N ELSE b.out_offs
      in  == (b.in_offs + 1) % N
  IN  [entry |-> [b.entry EXCEPT ![b.in_offs] = add_entry], in_offs |-> in,
       out_offs |-> out, full |-> b.full \/ (in + 1) % N = out]

\* Mutant: in_offs is advanced without the wrap around.
AddEntryNoWrap(b, add_entry) ==
  LET out == IF b.full THEN (b.out_offs + 1) % N ELSE b.out_offs
      in  == b.in_offs + 1
  IN  [entry |-> [b.entry EXCEPT ![b.in_offs] = add_entry], in_offs |-> in,
       out_offs |-> out, full |-> b.full \/ in = out]

\* The ring after add_entry was stored at in_offs.  (Both pointers are
\* non-null in every call the driver makes.)
aesd_circular_buffer_add_entry(b, add_entry) ==
  LET out == IF b.full THEN (b.out_offs + 1) % N ELSE b.out_offs
      in  == (b.in_offs + 1) % N
  IN  [entry    |-> [b.entry EXCEPT ![b.in_offs] = add_entry],
       in_offs  |-> in,
       out_offs |-> out,
       full     |-> b.full \/ in = out]

\* What the same call returns: the memory of the entry it overwrites.
removed(b) == IF b.full THEN b.entry[b.out_offs].buffptr ELSE NULL

\* char_offset at the start of each iteration of the loop of
\* find_entry_offset_for_fpos, as long as it goes on.
OffsetLeft(b, char_offset) ==
  LET left[i \in Nat] ==
        IF i = 0 THEN char_offset ELSE left[i - 1] - b.entry[SlotOf(b, i - 1)].size
  IN  left

\* What the loop returns from the first iteration that hits, or after the last.
FirstHit(b, left, hits) ==
  IF hits = {} THEN NULL
  ELSE LET i == CHOOSE i \in hits : \A j \in hits : i <= j
       IN  [slot |-> SlotOf(b, i), offset |-> left[i]]

\* Mutant: an offset equal to an entry's size is taken to be inside it.
FindAtOrBefore(b, char_offset) ==
  LET left == OffsetLeft(b, char_offset)
  IN  FirstHit(b, left, {i \in 0..(totalEntries(b) - 1) : left[i] <= b.entry[SlotOf(b, i)].size})

\* The entry holding byte char_offset of the concatenated entries, and the
\* offset of that byte within it; NULL when there is no such byte.
aesd_circular_buffer_find_entry_offset_for_fpos(b, char_offset) ==
  LET left == OffsetLeft(b, char_offset)
  IN  FirstHit(b, left, {i \in 0..(totalEntries(b) - 1) : left[i] < b.entry[SlotOf(b, i)].size})

-----------------------------------------------------------------------------
(* The ring with an arbitrary caller.                                      *)

BufferInit == buffer = aesd_circular_buffer_init

AddEntry(e) == buffer' = aesd_circular_buffer_add_entry(buffer, e)

NewEntries == [buffptr : Buffptr, size : Sizes]

BufferNext == \E e \in NewEntries : AddEntry(e)

BufferSpec == BufferInit /\ [][BufferNext]_buffer

-----------------------------------------------------------------------------
(* Properties.                                                             *)

\* The fields of struct aesd_circular_buffer hold values of their types, and
\* both offsets always name a slot.
BufferTypeOK == buffer \in Buffers

\* How in_offs, out_offs and full describe the used part of the array
\* (aesd-circular-buffer.h:39-51): until the ring is full it occupies the
\* slots below in_offs and the others are still zero; once it is full the
\* next slot to write is the oldest one.
RingShape(b) ==
  /\ b.full => b.in_offs = b.out_offs
  /\ ~b.full => b.out_offs = 0 /\ \A i \in Slots : i >= b.in_offs => b.entry[i] = ZeroEntry

BufferShape == RingShape(buffer)

\* The entries in the order a reader sees them.
LogOf(b) == [i \in 1..totalEntries(b) |-> b.entry[SlotOf(b, i - 1)]]

Log == INSTANCE BoundedLog WITH Values <- NewEntries, Capacity <- N,
                                log <- LogOf(buffer)

\* aesd_circular_buffer_add_entry keeps exactly the N most recent entries in
\* the order they were added (aesd-circular-buffer.c:60-64).
ImplementsLog == Log!LogSpec

\* Every byte of the concatenated entries, as <<slot, offset in the entry>>.
Concatenation(b) ==
  FlattenSeq([i \in 1..totalEntries(b) |->
    [j \in 1..b.entry[SlotOf(b, i - 1)].size |->
       [slot |-> SlotOf(b, i - 1), offset |-> j - 1]]])

\* find_entry_offset_for_fpos agrees with indexing the entries "concatenated
\* end to end" (aesd-circular-buffer.c:23-29) at every offset, and returns
\* NULL at and past the end.
FindIsConcatenation ==
  LET bytes == Concatenation(buffer)
      found(p) == aesd_circular_buffer_find_entry_offset_for_fpos(buffer, p)
  IN  /\ \A p \in DOMAIN bytes : found(p - 1) = bytes[p]
      /\ \A p \in {Len(bytes), Len(bytes) + 1} : found(p) = NULL
=============================================================================
