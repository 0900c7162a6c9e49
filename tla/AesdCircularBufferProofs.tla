---------------------- MODULE AesdCircularBufferProofs ----------------------
(***************************************************************************)
(* The ring is correct for every capacity from 1 to 255, every set of      *)
(* blocks and every set of sizes: it stays well formed, and it implements  *)
(* the bounded log.                                                        *)
(***************************************************************************)
EXTENDS AesdCircularBuffer, RecursionLemmas, TLAPS

\* Advancing an offset by one, as aesd_circular_buffer_add_entry does for
\* in_offs and out_offs, wraps at the last slot only.
LEMMA ModSucc ==
  ASSUME NEW x \in Slots
  PROVE  (x + 1) % N = IF x = N - 1 THEN 0 ELSE x + 1
  BY CapacityAssumption DEF Slots, N

\* The i-th slot after x, as find_entry_offset_for_fpos computes it.
LEMMA ModPlus ==
  ASSUME NEW x \in Slots, NEW i \in 0..N
  PROVE  (x + i) % N = IF x + i < N THEN x + i ELSE x + i - N
  BY CapacityAssumption DEF Slots, N

\* The zeroed ring of aesd_circular_buffer_init is well formed.
LEMMA InitShape ==
  /\ aesd_circular_buffer_init \in Buffers
  /\ RingShape(aesd_circular_buffer_init)
  BY CapacityAssumption
  DEF aesd_circular_buffer_init, Buffers, Entries, ZeroEntry, Slots, RingShape

\* The four fields of the ring aesd_circular_buffer_add_entry leaves behind,
\* with the wrap around resolved.
LEMMA AddEntryFields ==
  ASSUME NEW b \in Buffers, NEW e
  PROVE  LET c == aesd_circular_buffer_add_entry(b, e)
         IN  /\ c.entry = [b.entry EXCEPT ![b.in_offs] = e]
             /\ c.in_offs = IF b.in_offs = N - 1 THEN 0 ELSE b.in_offs + 1
             /\ c.out_offs = IF b.full
                             THEN IF b.out_offs = N - 1 THEN 0 ELSE b.out_offs + 1
                             ELSE b.out_offs
             /\ c.full = (b.full \/ c.in_offs = c.out_offs)
             /\ c = [entry |-> c.entry, in_offs |-> c.in_offs,
                     out_offs |-> c.out_offs, full |-> c.full]
<1>1. b.in_offs \in Slots /\ b.out_offs \in Slots
  BY DEF Buffers
<1>2. QED
  BY <1>1, ModSucc DEF aesd_circular_buffer_add_entry

\* aesd_circular_buffer_add_entry keeps the ring well typed and well formed.
LEMMA AddEntryShape ==
  ASSUME NEW b \in Buffers, RingShape(b), NEW e \in Entries
  PROVE  /\ aesd_circular_buffer_add_entry(b, e) \in Buffers
         /\ RingShape(aesd_circular_buffer_add_entry(b, e))
<1> DEFINE c == aesd_circular_buffer_add_entry(b, e)
<1>1. /\ c.entry = [b.entry EXCEPT ![b.in_offs] = e]
      /\ c.in_offs = IF b.in_offs = N - 1 THEN 0 ELSE b.in_offs + 1
      /\ c.out_offs = IF b.full
                      THEN IF b.out_offs = N - 1 THEN 0 ELSE b.out_offs + 1
                      ELSE b.out_offs
      /\ c.full = (b.full \/ c.in_offs = c.out_offs)
      /\ c = [entry |-> c.entry, in_offs |-> c.in_offs,
              out_offs |-> c.out_offs, full |-> c.full]
  BY AddEntryFields
<1> HIDE DEF c
<1>2. /\ b.entry \in [Slots -> Entries] /\ b.in_offs \in Slots
      /\ b.out_offs \in Slots /\ b.full \in BOOLEAN
  BY DEF Buffers
<1>3. c.entry \in [Slots -> Entries]
  BY <1>1, <1>2
<1>4. c.in_offs \in Slots /\ c.out_offs \in Slots
  <2>0. c.in_offs = 0 \/ (b.in_offs # N - 1 /\ c.in_offs = b.in_offs + 1)
    BY <1>1, Zenon
  <2>1. c.in_offs \in Slots
    BY <2>0, <1>2, CapacityAssumption DEF Slots
  <2>2. c.out_offs = b.out_offs \/ c.out_offs = 0
          \/ (b.out_offs # N - 1 /\ c.out_offs = b.out_offs + 1)
    BY <1>1, Zenon
  <2>3. c.out_offs \in Slots
    BY <2>2, <1>2, CapacityAssumption DEF Slots
  <2>4. QED
    BY <2>1, <2>3
<1>5. c.full \in BOOLEAN
  BY <1>1, <1>2
<1>6. c \in Buffers
  BY <1>1, <1>3, <1>4, <1>5 DEF Buffers
<1>7. RingShape(c)
  <2>1. CASE b.full
    BY <2>1, <1>1, <1>2 DEF RingShape
  <2>2. CASE ~b.full
    <3>1. b.out_offs = 0 /\ c.out_offs = 0
      BY <2>2, <1>1 DEF RingShape
    <3>2. CASE b.in_offs = N - 1
      BY <3>1, <3>2, <1>1 DEF RingShape
    <3>3. CASE b.in_offs # N - 1
      <4>1. c.in_offs = b.in_offs + 1 /\ c.full = FALSE
        BY <3>1, <3>3, <2>2, <1>1, <1>2 DEF Slots
      <4>2. \A i \in Slots : i >= c.in_offs => c.entry[i] = ZeroEntry
        BY <4>1, <2>2, <1>1, <1>2 DEF RingShape, Slots
      <4>3. QED
        BY <4>1, <4>2, <3>1 DEF RingShape
    <3>4. QED
      BY <3>2, <3>3
  <2>3. QED
    BY <2>1, <2>2
<1>8. QED
  BY <1>6, <1>7 DEF c

\* Adding an entry appends it to the log a reader sees, and drops the oldest
\* one exactly when the ring was full.
LEMMA AddEntryLog ==
  ASSUME NEW b \in Buffers, RingShape(b), NEW e \in Entries
  PROVE  LogOf(aesd_circular_buffer_add_entry(b, e))
           = Append(IF Len(LogOf(b)) < N THEN LogOf(b) ELSE Tail(LogOf(b)), e)
<1> DEFINE c == aesd_circular_buffer_add_entry(b, e)
<1>1. /\ c.entry = [b.entry EXCEPT ![b.in_offs] = e]
      /\ c.in_offs = IF b.in_offs = N - 1 THEN 0 ELSE b.in_offs + 1
      /\ c.out_offs = IF b.full
                      THEN IF b.out_offs = N - 1 THEN 0 ELSE b.out_offs + 1
                      ELSE b.out_offs
      /\ c.full = (b.full \/ c.in_offs = c.out_offs)
  BY AddEntryFields
<1> HIDE DEF c
<1>2. /\ b.entry \in [Slots -> Entries] /\ b.in_offs \in Slots
      /\ b.out_offs \in Slots /\ b.full \in BOOLEAN
  BY DEF Buffers
<1>3. N \in Nat \ {0}
  BY CapacityAssumption
<1>4. CASE ~b.full
  <2>1. b.out_offs = 0 /\ c.out_offs = 0
    BY <1>4, <1>1 DEF RingShape
  <2>2. totalEntries(b) = b.in_offs /\ totalEntries(c) = b.in_offs + 1
    <3>1. CASE b.in_offs = N - 1
      <4>1. c.in_offs = 0
        BY <3>1, <1>1, Zenon
      <4>2. c.full
        BY <4>1, <2>1, <1>1, Zenon
      <4>3. totalEntries(b) = b.in_offs /\ totalEntries(c) = N
        BY <4>2, <1>4 DEF totalEntries
      <4>4. QED
        BY <4>3, <3>1, <1>3
    <3>2. CASE b.in_offs # N - 1
      <4>1. c.in_offs = b.in_offs + 1 /\ c.full = FALSE
        BY <3>2, <2>1, <1>4, <1>1, <1>2 DEF Slots
      <4>2. QED
        BY <4>1, <1>4 DEF totalEntries
    <3>3. QED
      BY <3>1, <3>2
  <2>3. ASSUME NEW i \in 1..(b.in_offs + 1)
        PROVE  SlotOf(b, i - 1) = i - 1 /\ SlotOf(c, i - 1) = i - 1
    <3>1. i - 1 \in 0..N /\ i - 1 < N /\ 0 \in Slots
      BY <1>2, <1>3 DEF Slots
    <3>2. (0 + (i - 1)) % N = i - 1
      BY <3>1, ModPlus
    <3>3. QED
      BY <3>2, <2>1 DEF SlotOf
  <2>4. LogOf(b) = [i \in 1..b.in_offs |-> b.entry[i - 1]]
    BY <2>2, <2>3, <1>2 DEF LogOf, Slots
  <2>5. LogOf(c) = [i \in 1..(b.in_offs + 1) |-> c.entry[i - 1]]
    BY <2>2, <2>3, <1>2 DEF LogOf, Slots
  <2>6. LogOf(b) \in Seq(Entries) /\ Len(LogOf(b)) = b.in_offs
    BY <2>4, <1>2, <1>3 DEF Slots
  <2>7. LogOf(c) = Append(LogOf(b), e)
    BY <2>4, <2>5, <2>6, <1>1, <1>2, <1>3 DEF Slots
  <2>8. QED
    BY <2>6, <2>7, <1>2, <1>3 DEF c, Slots
<1>5. CASE b.full
  <2>1. b.in_offs = b.out_offs /\ c.in_offs = c.out_offs /\ c.full
    BY <1>5, <1>1 DEF RingShape
  <2>2. totalEntries(b) = N /\ totalEntries(c) = N
    BY <2>1, <1>5 DEF totalEntries
  <2>3. c.out_offs = IF b.out_offs = N - 1 THEN 0 ELSE b.out_offs + 1
    BY <1>1, <1>5
  <2>4. c.out_offs \in Slots
    BY <2>3, <1>2, <1>3 DEF Slots
  <2>5. ASSUME NEW i \in 1..N
        PROVE  /\ SlotOf(b, i - 1) \in Slots
               /\ i < N => SlotOf(c, i - 1) = SlotOf(b, i)
               /\ i < N => SlotOf(c, i - 1) # b.in_offs
               /\ i = N => SlotOf(c, i - 1) = b.in_offs
    <3>1. i \in 0..N /\ i - 1 \in 0..N
      BY <1>3
    <3>2. (b.out_offs + i) % N = IF b.out_offs + i < N THEN b.out_offs + i
                                 ELSE b.out_offs + i - N
      BY <3>1, <1>2, ModPlus
    <3>3. (b.out_offs + (i - 1)) % N = IF b.out_offs + (i - 1) < N THEN b.out_offs + (i - 1)
                                       ELSE b.out_offs + (i - 1) - N
      BY <3>1, <1>2, ModPlus
    <3>4. (c.out_offs + (i - 1)) % N = IF c.out_offs + (i - 1) < N THEN c.out_offs + (i - 1)
                                       ELSE c.out_offs + (i - 1) - N
      BY <3>1, <2>4, ModPlus
    <3> DEFINE o == b.out_offs
               oo == c.out_offs
    <3>5. o \in 0..(N - 1) /\ oo = IF o = N - 1 THEN 0 ELSE o + 1
      BY <2>3, <1>2 DEF Slots
    <3>6. /\ SlotOf(b, i) = IF o + i < N THEN o + i ELSE o + i - N
          /\ SlotOf(b, i - 1) = IF o + (i - 1) < N THEN o + (i - 1) ELSE o + (i - 1) - N
          /\ SlotOf(c, i - 1) = IF oo + (i - 1) < N THEN oo + (i - 1) ELSE oo + (i - 1) - N
      BY <3>2, <3>3, <3>4 DEF SlotOf
    <3>7. b.in_offs = o
      BY <2>1
    <3> HIDE DEF o, oo
    <3>8. QED
      BY <3>5, <3>6, <3>7, <1>3 DEF Slots
  <2>6. LogOf(b) = [i \in 1..N |-> b.entry[SlotOf(b, i - 1)]]
    BY <2>2 DEF LogOf
  <2>7. LogOf(c) = [i \in 1..N |-> c.entry[SlotOf(c, i - 1)]]
    BY <2>2 DEF LogOf
  <2>8. LogOf(b) \in Seq(Entries) /\ Len(LogOf(b)) = N
    BY <2>5, <2>6, <1>2, <1>3
  <2>9. Tail(LogOf(b)) = [i \in 1..(N - 1) |-> b.entry[SlotOf(b, i)]]
    BY <2>6, <2>8, <1>3
  <2>10. Append(Tail(LogOf(b)), e) = [i \in 1..N |-> IF i = N THEN e ELSE b.entry[SlotOf(b, i)]]
    <3>1. /\ Tail(LogOf(b)) \in Seq(Entries)
          /\ Len(Tail(LogOf(b))) = N - 1
      BY <2>8, <1>3
    <3> DEFINE t == Tail(LogOf(b))
               f == [i \in 1..N |-> IF i = N THEN e ELSE b.entry[SlotOf(b, i)]]
    <3>2. /\ Append(t, e) \in Seq(Entries)
          /\ Len(Append(t, e)) = N
          /\ \A i \in 1..(N - 1) : Append(t, e)[i] = t[i]
          /\ Append(t, e)[N] = e
      BY <3>1, <1>3, AppendProperties
    <3>3. \A i \in 1..(N - 1) : t[i] = b.entry[SlotOf(b, i)]
      BY <2>9
    <3>4. f \in Seq(Entries) /\ Len(f) = N
      BY <2>5, <1>2, <1>3
    <3>5. \A i \in 1..N : Append(t, e)[i] = f[i]
      BY <3>2, <3>3, <1>3
    <3> HIDE DEF t, f
    <3>6. Append(t, e) = f
      BY <3>2, <3>4, <3>5, SeqEqual
    <3>7. QED
      BY <3>6 DEF t, f
  <2>11. ASSUME NEW i \in 1..N
         PROVE  c.entry[SlotOf(c, i - 1)] = IF i = N THEN e ELSE b.entry[SlotOf(b, i)]
    BY <2>5, <1>1, <1>2, <1>3
  <2>12. LogOf(c) = Append(Tail(LogOf(b)), e)
    BY <2>7, <2>10, <2>11
  <2>13. QED
    BY <2>8, <2>12, <1>3 DEF c
<1>6. QED
  BY <1>4, <1>5

-----------------------------------------------------------------------------
\* Type correctness of struct aesd_circular_buffer under any sequence of calls
\* of aesd_circular_buffer_add_entry.
THEOREM BufferTypeCorrect == BufferSpec => []BufferTypeOK
<1> DEFINE Inv == BufferTypeOK /\ BufferShape
<1>1. BufferInit => Inv
  BY InitShape DEF BufferInit, BufferTypeOK, BufferShape
<1>2. Inv /\ [BufferNext]_buffer => Inv'
  BY SizesAssumption, AddEntryShape
  DEF BufferNext, AddEntry, NewEntries, Entries, BufferTypeOK, BufferShape
<1>3. QED
  BY <1>1, <1>2, PTL DEF BufferSpec

\* in_offs, out_offs and full always describe the used part of the array.
THEOREM BufferShapeCorrect == BufferSpec => []BufferShape
<1>1. BufferInit => BufferShape
  BY InitShape DEF BufferInit, BufferShape
<1>2. BufferTypeOK /\ BufferShape /\ [BufferNext]_buffer => BufferShape'
  BY SizesAssumption, AddEntryShape
  DEF BufferNext, AddEntry, NewEntries, Entries, BufferTypeOK, BufferShape
<1>3. QED
  BY <1>1, <1>2, BufferTypeCorrect, PTL DEF BufferSpec

\* The ring implements the bounded log: no call of
\* aesd_circular_buffer_add_entry loses, duplicates or reorders an entry
\* among the N most recent ones.
THEOREM BufferImplementsLog == BufferSpec => ImplementsLog
<1>1. BufferInit => Log!LogInit
  BY CapacityAssumption
  DEF BufferInit, Log!LogInit, LogOf, totalEntries, aesd_circular_buffer_init
<1>2. BufferTypeOK /\ BufferShape /\ [BufferNext]_buffer
        => [Log!LogNext]_(LogOf(buffer))
  <2> SUFFICES ASSUME BufferTypeOK, BufferShape, [BufferNext]_buffer
               PROVE  [Log!LogNext]_(LogOf(buffer))
    OBVIOUS
  <2>1. ASSUME NEW e \in NewEntries, AddEntry(e)
        PROVE  Log!LogNext
    <3>0. e \in Entries
      BY SizesAssumption DEF NewEntries, Entries
    <3>1. LogOf(buffer)' = Append(IF Len(LogOf(buffer)) < N THEN LogOf(buffer)
                                  ELSE Tail(LogOf(buffer)), e)
      BY <3>0, <2>1, AddEntryLog DEF AddEntry, BufferTypeOK, BufferShape
    <3>2. QED
      BY <3>1 DEF Log!LogNext, Log!Remember
  <2>2. CASE UNCHANGED buffer
    BY <2>2 DEF LogOf, totalEntries, SlotOf
  <2>3. QED
    BY <2>1, <2>2 DEF BufferNext
<1>3. QED
  BY <1>1, <1>2, BufferTypeCorrect, BufferShapeCorrect, PTL
  DEF BufferSpec, ImplementsLog, Log!LogSpec

-----------------------------------------------------------------------------
(* aesd_circular_buffer_find_entry_offset_for_fpos.                        *)

\* The slot of every iteration of a loop over the ring exists.
LEMMA SlotType ==
  ASSUME NEW b \in Buffers, NEW i \in Nat
  PROVE  SlotOf(b, i) \in Slots /\ b.entry[SlotOf(b, i)] \in Entries
<1>1. b.out_offs \in Nat /\ b.entry \in [Slots -> Entries]
  BY DEF Buffers, Slots
<1>2. (b.out_offs + i) % N \in 0..(N - 1)
  BY <1>1, CapacityAssumption
<1> QED
  BY <1>1, <1>2 DEF SlotOf, Slots

\* B[k] is the number of bytes in the k oldest entries.
SumsOf(B, b) ==
  /\ B \in [Nat -> Int] /\ B[0] = 0
  /\ \A k \in Nat : B[k + 1] = B[k] + b.entry[SlotOf(b, k)].size

LEMMA SumsExist ==
  ASSUME NEW b \in Buffers
  PROVE  \E B : SumsOf(B, b)
<1> DEFINE size == [k \in Nat |-> b.entry[SlotOf(b, k)].size]
<1>1. size \in [Nat -> Int]
  BY SlotType DEF Entries
<1>2. PICK f : RunsUp(f, 0, size)
  <2> HIDE DEF size
  <2>1. 0 \in Int
    OBVIOUS
  <2> QED
    BY <1>1, <2>1, RunningSum
<1>3. SumsOf(f, b)
  BY <1>2 DEF SumsOf, RunsUp
<1> QED
  BY <1>3

\* Further entries never hold fewer bytes.
LEMMA SumsMonotonic ==
  ASSUME NEW b \in Buffers, NEW B, SumsOf(B, b), NEW i \in Nat, NEW j \in Nat, i <= j
  PROVE  B[i] <= B[j]
<1>1. B \in [Nat -> Int]
  BY DEF SumsOf
<1>2. \A k \in 0..(j - 1) : B[k] <= B[k + 1]
  <2> SUFFICES ASSUME NEW k \in 0..(j - 1) PROVE B[k] <= B[k + 1]
    OBVIOUS
  <2>1. b.entry[SlotOf(b, k)].size \in Nat /\ B[k + 1] = B[k] + b.entry[SlotOf(b, k)].size
    BY SlotType DEF SumsOf, Entries
  <2> QED
    BY <1>1, <2>1
<1>3. \A x, y \in 0..j : x <= y => B[x] <= B[y]
  BY <1>1, <1>2, SumsGrow
<1> QED
  BY <1>3

\* char_offset in the k-th iteration: what the k oldest entries leave of it.
LEMMA LeftIsRest ==
  ASSUME NEW b \in Buffers, NEW B, SumsOf(B, b), NEW o \in Int
  PROVE  \A k \in Nat : OffsetLeft(b, o)[k] = o - B[k]
<1> DEFINE Unfolds(f) ==
             f = [i \in Nat |-> IF i = 0 THEN o ELSE f[i - 1] - b.entry[SlotOf(b, i - 1)].size]
           g == [k \in Nat |-> o - B[k]]
           left == CHOOSE f : Unfolds(f)
<1>0. B \in [Nat -> Int] /\ B[0] = 0
  BY DEF SumsOf
<1>1. ASSUME NEW k \in Nat, k # 0
      PROVE  /\ k - 1 \in Nat /\ B[k] = B[k - 1] + b.entry[SlotOf(b, k - 1)].size
             /\ b.entry[SlotOf(b, k - 1)].size \in Int
  <2>1. k - 1 \in Nat /\ (k - 1) + 1 = k
    BY <1>1
  <2>2. \A n \in Nat : B[n + 1] = B[n] + b.entry[SlotOf(b, n)].size
    BY DEF SumsOf
  <2>3. b.entry[SlotOf(b, k - 1)].size \in Int
    BY <2>1, SlotType DEF Entries
  <2>4. B[(k - 1) + 1] = B[k - 1] + b.entry[SlotOf(b, k - 1)].size
    BY <2>1, <2>2
  <2> QED
    BY <2>1, <2>3, <2>4
<1>2. Unfolds(g)
  <2>1. \A k \in Nat : g[k] = IF k = 0 THEN o ELSE g[k - 1] - b.entry[SlotOf(b, k - 1)].size
    BY <1>0, <1>1
  <2>2. g = [k \in Nat |-> g[k]]
    OBVIOUS
  <2> HIDE DEF g
  <2> QED
    BY <2>1, <2>2
<1>3. Unfolds(left)
  <2> HIDE DEF Unfolds, g
  <2> QED
    BY <1>2
<1>4. OffsetLeft(b, o) = left
  BY DEF OffsetLeft
<1> HIDE DEF left, g
<1> DEFINE S == {k \in Nat : left[k] = o - B[k]}
<1>5. 0 \in S
  BY <1>0, <1>3
<1>6. ASSUME NEW k \in Nat, k \in S PROVE k + 1 \in S
  <2>1. k + 1 \in Nat /\ k + 1 # 0 /\ (k + 1) - 1 = k
    OBVIOUS
  <2>2. left[k + 1] = left[k] - b.entry[SlotOf(b, k)].size
    BY <1>3, <2>1
  <2>3. B[k + 1] = B[k] + b.entry[SlotOf(b, k)].size /\ b.entry[SlotOf(b, k)].size \in Int
    BY <1>1, <2>1
  <2>4. left[k] = o - B[k] /\ B[k] \in Int
    BY <1>0, <1>6
  <2> QED
    BY <2>1, <2>2, <2>3, <2>4
<1>7. Nat \subseteq S
  <2> HIDE DEF S
  <2> QED
    BY <1>5, <1>6, InductiveSet
<1> QED
  BY <1>4, <1>7

LEMMA TotalType ==
  ASSUME NEW b \in Buffers
  PROVE  totalEntries(b) \in 0..N
  BY CapacityAssumption DEF totalEntries, Buffers, Slots

\* The loop stops at the entry that holds the byte.
LEMMA FindHit ==
  ASSUME NEW b \in Buffers, NEW B, SumsOf(B, b), NEW o \in Nat,
         NEW k \in 0..(totalEntries(b) - 1), B[k] <= o, o < B[k + 1]
  PROVE  aesd_circular_buffer_find_entry_offset_for_fpos(b, o)
           = [slot |-> SlotOf(b, k), offset |-> o - B[k]]
<1> DEFINE left == OffsetLeft(b, o)
           hits == {i \in 0..(totalEntries(b) - 1) : left[i] < b.entry[SlotOf(b, i)].size}
<1>1. totalEntries(b) \in Nat /\ k \in Nat /\ B \in [Nat -> Int]
  BY TotalType, CapacityAssumption DEF SumsOf
<1>2. \A i \in Nat : left[i] = o - B[i]
  BY LeftIsRest
<1>3. \A i \in Nat : /\ B[i + 1] = B[i] + b.entry[SlotOf(b, i)].size
                     /\ b.entry[SlotOf(b, i)].size \in Nat
  BY SlotType DEF SumsOf, Entries
<1> HIDE DEF left
<1>4. k \in hits
  BY <1>1, <1>2, <1>3, SMTT(40)
<1>5. ASSUME NEW i \in hits PROVE k <= i
  <2> SUFFICES ASSUME i < k PROVE FALSE
    BY <1>1
  <2>1. i \in Nat /\ i + 1 \in Nat /\ i + 1 <= k
    BY <1>1
  <2>2. B[i + 1] <= B[k]
    BY <1>1, <2>1, SumsMonotonic
  <2>3. o - B[i] < B[i + 1] - B[i]
    BY <1>1, <1>2, <1>3, <2>1
  <2> QED
    BY <1>1, <2>1, <2>2, <2>3
<1>6. (CHOOSE i \in hits : \A j \in hits : i <= j) = k
  <2>1. hits \subseteq Int
    OBVIOUS
  <2> DEFINE first == CHOOSE i \in hits : \A j \in hits : i <= j
  <2> HIDE DEF hits
  <2>2. \E i \in hits : \A j \in hits : i <= j
    BY <1>4, <1>5
  <2>3. first \in hits /\ \A j \in hits : first <= j
    BY <2>2
  <2> HIDE DEF first
  <2>4. first <= k /\ k <= first /\ first \in Int
    BY <1>4, <1>5, <2>1, <2>3
  <2>5. first = k
    BY <1>1, <2>4
  <2> QED
    BY <2>5 DEF first
<1>7. FirstHit(b, left, hits) = [slot |-> SlotOf(b, k), offset |-> left[k]]
  <2> HIDE DEF hits
  <2> QED
    BY <1>4, <1>6 DEF FirstHit
<1>8. aesd_circular_buffer_find_entry_offset_for_fpos(b, o) = FirstHit(b, left, hits)
  BY DEF aesd_circular_buffer_find_entry_offset_for_fpos, left
<1> HIDE DEF hits
<1> QED
  BY <1>1, <1>2, <1>7, <1>8

\* It finds nothing behind the last byte.
LEMMA FindMiss ==
  ASSUME NEW b \in Buffers, NEW B, SumsOf(B, b), NEW o \in Nat, B[totalEntries(b)] <= o
  PROVE  aesd_circular_buffer_find_entry_offset_for_fpos(b, o) = NULL
<1> DEFINE left == OffsetLeft(b, o)
           hits == {i \in 0..(totalEntries(b) - 1) : left[i] < b.entry[SlotOf(b, i)].size}
<1>1. totalEntries(b) \in Nat /\ B \in [Nat -> Int]
  BY TotalType, CapacityAssumption DEF SumsOf
<1>2. \A i \in Nat : left[i] = o - B[i]
  BY LeftIsRest
<1>3. \A i \in Nat : /\ B[i + 1] = B[i] + b.entry[SlotOf(b, i)].size
                     /\ b.entry[SlotOf(b, i)].size \in Nat
  BY SlotType DEF SumsOf, Entries
<1> HIDE DEF left
<1>4. ASSUME NEW i \in hits PROVE FALSE
  <2>1. i \in Nat /\ i + 1 \in Nat /\ i + 1 <= totalEntries(b)
    BY <1>1
  <2>2. B[i + 1] <= B[totalEntries(b)]
    BY <1>1, <2>1, SumsMonotonic
  <2>3. o - B[i] < B[i + 1] - B[i]
    BY <1>1, <1>2, <1>3, <2>1
  <2> QED
    BY <1>1, <2>1, <2>2, <2>3
<1>5. hits = {}
  BY <1>4
<1>6. aesd_circular_buffer_find_entry_offset_for_fpos(b, o) = FirstHit(b, left, hits)
  BY DEF aesd_circular_buffer_find_entry_offset_for_fpos, left
<1> HIDE DEF hits
<1> QED
  BY <1>5, <1>6 DEF FirstHit

\* The search agrees with the concatenated entries in every well-typed ring.
LEMMA FindConcatenation ==
  ASSUME BufferTypeOK
  PROVE  FindIsConcatenation
<1> DEFINE n == totalEntries(buffer)
           Size(i) == buffer.entry[SlotOf(buffer, i - 1)].size
           Place(i, j) == [slot |-> SlotOf(buffer, i - 1), offset |-> j - 1]
           X == [slot : Slots, offset : Nat]
           bytesOf == [i \in 1..n |-> [j \in 1..Size(i) |-> Place(i, j)]]
           bytes == Concatenation(buffer)
           found(p) == aesd_circular_buffer_find_entry_offset_for_fpos(buffer, p)
<1>1. buffer \in Buffers /\ n \in Nat
  BY TotalType, CapacityAssumption DEF BufferTypeOK
<1>2. \A i \in 1..n : Size(i) \in Nat /\ SlotOf(buffer, i - 1) \in Slots
  BY <1>1, SlotType DEF Entries
<1>3. \A i \in 1..n : /\ bytesOf[i] \in Seq(X) /\ Len(bytesOf[i]) = Size(i)
                      /\ \A j \in 1..Size(i) : bytesOf[i][j] = Place(i, j)
  <2> SUFFICES ASSUME NEW i \in 1..n
               PROVE  /\ [j \in 1..Size(i) |-> Place(i, j)] \in Seq(X)
                      /\ Len([j \in 1..Size(i) |-> Place(i, j)]) = Size(i)
    BY <1>1
  <2>1. Size(i) \in Nat /\ \A j \in 1..Size(i) : Place(i, j) \in X
    BY <1>2
  <2> HIDE DEF Size, Place, X
  <2> QED
    BY <2>1
<1>4. bytes = FlattenSeq(bytesOf)
  BY DEF Concatenation
<1>5. bytesOf \in Seq(Seq(X)) /\ Len(bytesOf) = n
  <2>1. bytesOf = [i \in 1..n |-> bytesOf[i]] /\ DOMAIN bytesOf = 1..n
    OBVIOUS
  <2> HIDE DEF bytesOf, n, X
  <2> QED
    BY <1>1, <1>3, <2>1
<1>6. PICK B : SumsOf(B, buffer)
  BY <1>1, SumsExist
<1>7. /\ B \in [Nat -> Int] /\ B[0] = 0
      /\ \A i \in 1..n : i - 1 \in 0..(n - 1) /\ i - 1 \in Nat /\ B[i] = B[i - 1] + Size(i)
  <2>1. \A i \in 1..n : i - 1 \in 0..(n - 1) /\ i - 1 \in Nat /\ (i - 1) + 1 = i
    BY <1>1
  <2> HIDE DEF n
  <2> QED
    BY <1>6, <2>1 DEF SumsOf
<1> HIDE DEF Size, Place, bytesOf, bytes, found, n, X
<1>8. Ends(B, bytesOf)
  BY <1>3, <1>5, <1>7 DEF Ends
<1>9. Located(B, bytesOf)
  BY <1>5, <1>8, FlattenLocated
<1>10. bytes \in Seq(X) /\ Len(bytes) = B[n]
  BY <1>4, <1>5, <1>9, FlattenType DEF Located
<1>11. ASSUME NEW p \in DOMAIN bytes PROVE found(p - 1) = bytes[p]
  <2>1. p \in 1..B[n] /\ p - 1 \in Nat
    BY <1>10
  <2>2. PICK i \in 1..n : p - B[i - 1] \in 1..Size(i)
    BY <1>3, <1>5, <1>9, <2>1 DEF Located
  <2> DEFINE j == p - B[i - 1]
  <2>3. B[i - 1] \in Int /\ B[i] \in Int /\ Size(i) \in Nat /\ j \in 1..Size(i) /\ p = B[i - 1] + j
    BY <1>1, <1>2, <1>7, <2>1, <2>2 DEF Size
  <2>4. FlattenSeq(bytesOf)[B[i - 1] + j] = bytesOf[i][j]
    <3> HIDE DEF j
    <3> QED
      BY <1>3, <1>5, <1>9, <2>3 DEF Located
  <2>5. bytes[p] = [slot |-> SlotOf(buffer, i - 1), offset |-> (p - 1) - B[i - 1]]
    <3>1. bytes[p] = Place(i, j)
      BY <1>3, <1>4, <2>3, <2>4
    <3>2. j - 1 = (p - 1) - B[i - 1]
      BY <2>1, <2>3
    <3> QED
      BY <3>1, <3>2 DEF Place
  <2>6. B[i - 1] <= p - 1 /\ p - 1 < B[(i - 1) + 1] /\ i - 1 \in 0..(totalEntries(buffer) - 1)
    BY <1>7, <2>1, <2>3 DEF n
  <2>7. found(p - 1) = [slot |-> SlotOf(buffer, i - 1), offset |-> (p - 1) - B[i - 1]]
    <3> DEFINE k == i - 1
               o == p - 1
    <3>1. k \in 0..(totalEntries(buffer) - 1) /\ o \in Nat /\ B[k] <= o /\ o < B[k + 1]
      BY <2>1, <2>6
    <3> HIDE DEF k, o
    <3>2. found(o) = [slot |-> SlotOf(buffer, k), offset |-> o - B[k]]
      BY <1>1, <1>6, <3>1, FindHit DEF found
    <3> QED
      BY <3>2 DEF k, o
  <2> QED
    BY <2>5, <2>7
<1>12. ASSUME NEW p \in {Len(bytes), Len(bytes) + 1} PROVE found(p) = NULL
  <2>1. p \in Nat /\ B[totalEntries(buffer)] <= p
    BY <1>10 DEF n
  <2> QED
    BY <1>1, <1>6, <2>1, FindMiss DEF found
<1> QED
  BY <1>11, <1>12 DEF FindIsConcatenation, found, bytes

\* aesd_circular_buffer_find_entry_offset_for_fpos returns the entry and the
\* offset that indexing the concatenated entries gives, and NULL behind the last
\* byte, for every ring that calls of add_entry can build.
THEOREM FindCorrect == BufferSpec => []FindIsConcatenation
  BY FindConcatenation, BufferTypeCorrect, PTL
=============================================================================
