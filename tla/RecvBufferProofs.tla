-------------------------- MODULE RecvBufferProofs --------------------------
(***************************************************************************)
(* Proofs about the receive loop for every kBufferStartLength of at least  *)
(* two, requests of any length and any division into calls of recv().      *)
(***************************************************************************)
EXTENDS RecvBuffer, RecursionLemmas, TLAPS

\* The inductive invariant.
RecvInv == Bounds /\ ReceivedKept /\ FirstBlockClean

LEMMA FreshInv ==
  ASSUME recvBuffer = FirstBlock, bufferSize = K, bufferIndex = 0, received = << >>
  PROVE  RecvInv
<1>1. Bounds
  BY RecvAssumption DEF Bounds, FirstBlock
<1>2. ReceivedKept
  BY DEF ReceivedKept
<1>3. FirstBlockClean
  BY RecvAssumption DEF FirstBlockClean, FirstBlock
<1> QED
  BY <1>1, <1>2, <1>3 DEF RecvInv

\* What Filled leaves at each place of a block of at least the old size.
LEMMA FilledBytes ==
  ASSUME NEW data, NEW size \in Nat, NEW junk
  PROVE  /\ DOMAIN Filled(data, size, junk) = 1..size
         /\ \A i \in 1..size : Filled(data, size, junk)[i] =
              IF i = size THEN 0
              ELSE IF i > bufferIndex /\ i <= bufferIndex + Len(data) THEN data[i - bufferIndex]
              ELSE IF i <= bufferSize THEN recvBuffer[i]
              ELSE junk[i]
  BY DEF Filled

\* The bytes of one more call of recv() follow the ones received before.
LEMMA AppendedBytes ==
  ASSUME ReceivedKept, bufferIndex \in Nat, NEW n \in Nat, NEW data \in [1..n -> Byte]
  PROVE  /\ data \in Seq(Byte) /\ Len(data) = n
         /\ received \o data \in Seq(Byte)
         /\ Len(received \o data) = bufferIndex + n
         /\ \A i \in 1..(bufferIndex + n) :
              (received \o data)[i] = IF i <= bufferIndex THEN received[i]
                                      ELSE data[i - bufferIndex]
<1>1. data \in Seq(Byte) /\ Len(data) = n
  OBVIOUS
<1> QED
  BY <1>1 DEF ReceivedKept

LEMMA PartInv ==
  ASSUME RecvInv, RecvPart
  PROVE  RecvInv'
<1>0. PICK n \in 0..(Window - 1) : \E data \in [1..n -> Byte] :
        /\ recvBuffer' = Filled(data, bufferSize, << >>)
        /\ bufferIndex' = bufferIndex + n
        /\ received' = received \o data
  BY DEF RecvPart
<1>1. PICK data \in [1..n -> Byte] :
        /\ recvBuffer' = Filled(data, bufferSize, << >>)
        /\ bufferIndex' = bufferIndex + n
        /\ received' = received \o data
  BY <1>0
<1>2. /\ bufferSize' = bufferSize /\ bufferSize \in Nat /\ bufferIndex \in Nat
      /\ n \in Nat /\ bufferIndex + n + 2 <= bufferSize /\ bufferSize >= K
  BY RecvAssumption DEF RecvPart, Window, RecvInv, Bounds
<1>3. /\ Len(data) = n
      /\ received' \in Seq(Byte)
      /\ Len(received') = bufferIndex + n
      /\ \A i \in 1..(bufferIndex + n) :
           received'[i] = IF i <= bufferIndex THEN received[i] ELSE data[i - bufferIndex]
  BY <1>1, <1>2, AppendedBytes DEF RecvInv
<1>4. /\ DOMAIN recvBuffer' = 1..bufferSize
      /\ \A i \in 1..bufferSize : recvBuffer'[i] =
           IF i = bufferSize THEN 0
           ELSE IF i > bufferIndex /\ i <= bufferIndex + n THEN data[i - bufferIndex]
           ELSE recvBuffer[i]
  BY <1>1, <1>2, <1>3, FilledBytes
<1>5. Bounds'
  BY <1>1, <1>2, <1>4, RecvAssumption DEF Bounds
<1>6. ReceivedKept'
  BY <1>1, <1>2, <1>3, <1>4 DEF RecvInv, ReceivedKept
<1>7. FirstBlockClean'
  BY <1>1, <1>2, <1>4 DEF RecvInv, FirstBlockClean
<1> QED
  BY <1>5, <1>6, <1>7 DEF RecvInv

LEMMA FullInv ==
  ASSUME RecvInv, RecvFull
  PROVE  RecvInv'
<1>1. PICK data \in [1..Window -> Byte], junk \in [(bufferSize + 1)..GrownSize -> Junk] :
        /\ recvBuffer' = Filled(data, GrownSize, junk)
        /\ received' = received \o data
  BY DEF RecvFull
<1>2. /\ bufferSize \in Nat /\ bufferIndex \in Nat /\ Window \in Nat
      /\ bufferIndex + Window = bufferSize - 1
      /\ bufferSize' = bufferSize + K /\ GrownSize = bufferSize + K
      /\ bufferIndex' = bufferSize - 1
      /\ K \in Nat /\ K >= 2 /\ bufferSize >= K
  BY RecvAssumption DEF RecvFull, Window, GrownSize, GrownIndex, RecvInv, Bounds
<1>3. /\ Len(data) = Window
      /\ received' \in Seq(Byte)
      /\ Len(received') = bufferSize - 1
      /\ \A i \in 1..(bufferSize - 1) :
           received'[i] = IF i <= bufferIndex THEN received[i] ELSE data[i - bufferIndex]
  BY <1>1, <1>2, AppendedBytes DEF RecvInv
<1>4. /\ DOMAIN recvBuffer' = 1..(bufferSize + K)
      /\ recvBuffer'[bufferSize + K] = 0
      /\ \A i \in 1..(bufferSize - 1) : recvBuffer'[i] =
           IF i > bufferIndex THEN data[i - bufferIndex] ELSE recvBuffer[i]
  BY <1>1, <1>2, <1>3, FilledBytes, SMTT(40)
<1>5. Bounds'
  BY <1>2, <1>4, RecvAssumption DEF Bounds
<1>6. ReceivedKept'
  <2>1. \A i \in 1..bufferIndex : recvBuffer[i] = received[i]
    BY DEF RecvInv, ReceivedKept
  <2>2. ASSUME NEW i \in 1..(bufferSize - 1) PROVE recvBuffer'[i] = received'[i]
    <3>1. CASE i <= bufferIndex
      BY <1>2, <1>3, <1>4, <2>1, <3>1
    <3>2. CASE i > bufferIndex
      BY <1>2, <1>3, <1>4, <3>2
    <3> QED
      BY <1>2, <3>1, <3>2
  <2> QED
    BY <1>2, <1>3, <2>2 DEF ReceivedKept
<1>7. FirstBlockClean'
  BY <1>2 DEF FirstBlockClean
<1> QED
  BY <1>5, <1>6, <1>7 DEF RecvInv

LEMMA RecvStep == RecvInv /\ [Next]_vars => RecvInv'
<1> SUFFICES ASSUME RecvInv, [Next]_vars PROVE RecvInv'
  OBVIOUS
<1>1. CASE RecvPart
  BY <1>1, PartInv
<1>2. CASE RecvFull
  BY <1>2, FullInv
<1>3. CASE NextRequest
  <2> USE <1>3 DEF NextRequest
  <2>1. Bounds'
    BY RecvAssumption DEF Bounds, FirstBlock
  <2>2. ReceivedKept' /\ FirstBlockClean'
    BY RecvAssumption DEF ReceivedKept, FirstBlockClean, FirstBlock
  <2> QED
    BY <2>1, <2>2 DEF RecvInv
<1>4. CASE UNCHANGED vars
  BY <1>4 DEF vars, RecvInv, Bounds, ReceivedKept, FirstBlockClean
<1> QED
  BY <1>1, <1>2, <1>3, <1>4 DEF Next

\* The receive loop never runs out of room or out of its block, for every
\* starting length and every request.
THEOREM BoundsCorrect == Spec => []Bounds
<1>1. Init => RecvInv
  BY FreshInv DEF Init
<1>2. RecvInv => Bounds
  BY DEF RecvInv
<1> QED
  BY <1>1, <1>2, RecvStep, PTL DEF Spec

\* No received byte is lost, overwritten or moved when the block grows.
THEOREM ReceivedCorrect == Spec => []ReceivedKept
<1>1. Init => RecvInv
  BY FreshInv DEF Init
<1>2. RecvInv => ReceivedKept
  BY DEF RecvInv
<1> QED
  BY <1>1, <1>2, RecvStep, PTL DEF Spec

\* Behind a request shorter than kBufferStartLength the block is zero.
THEOREM FirstBlockCorrect == Spec => []FirstBlockClean
<1>1. Init => RecvInv
  BY FreshInv DEF Init
<1>2. RecvInv => FirstBlockClean
  BY DEF RecvInv
<1> QED
  BY <1>1, <1>2, RecvStep, PTL DEF Spec

-----------------------------------------------------------------------------
(* Short requests.                                                         *)

\* The loop ends only when strchr() finds a newline.
FoundNewline == found => StrchrNewline(recvBuffer)

LEMMA FoundStep == FoundNewline /\ [Next]_vars => FoundNewline'
<1> SUFFICES ASSUME FoundNewline, [Next]_vars PROVE FoundNewline'
  OBVIOUS
<1>1. CASE RecvPart \/ RecvFull
  BY <1>1 DEF RecvPart, RecvFull, FoundNewline, StrchrNewline
<1>2. CASE NextRequest
  BY <1>2 DEF NextRequest, FoundNewline
<1>3. CASE UNCHANGED vars
  BY <1>3 DEF vars, FoundNewline, StrchrNewline
<1> QED
  BY <1>1, <1>2, <1>3 DEF Next

\* strlen() stops at the first zero, which is in the block.
LEMMA StrlenAtZero ==
  ASSUME Bounds
  PROVE  /\ Strlen(recvBuffer) \in 0..bufferSize
         /\ recvBuffer[Strlen(recvBuffer) + 1] = 0
         /\ \A j \in 1..Strlen(recvBuffer) : recvBuffer[j] # 0
<1> DEFINE Z == {i \in 1..bufferSize : recvBuffer[i] = 0}
           Stops(n) == recvBuffer[n + 1] = 0 /\ \A j \in 1..n : recvBuffer[j] # 0
<1>1. bufferSize \in Nat /\ bufferSize > 0 /\ bufferSize \in Z /\ Z \subseteq Nat
  BY RecvAssumption DEF Bounds
<1>2. PICK z \in Z : \A y \in Z : z <= y
  <2> HIDE DEF Z
  <2> QED
    BY <1>1, Least
<1>3. Len(recvBuffer) = bufferSize
  BY <1>1 DEF Bounds
<1>4. z - 1 \in 0..bufferSize /\ (z - 1) + 1 = z /\ recvBuffer[z] = 0
  BY <1>1
<1>5. \A j \in 1..(z - 1) : recvBuffer[j] # 0
  <2> SUFFICES ASSUME NEW j \in 1..(z - 1), recvBuffer[j] = 0 PROVE FALSE
    OBVIOUS
  <2>1. j \in Z /\ ~(z <= j)
    BY <1>1
  <2> QED
    BY <1>2, <2>1
<1>6. Stops(z - 1)
  BY <1>4, <1>5
<1>7. Strlen(recvBuffer) = CHOOSE n \in 0..bufferSize : Stops(n)
  BY <1>3 DEF Strlen
<1> DEFINE length == CHOOSE n \in 0..bufferSize : Stops(n)
<1>8. length \in 0..bufferSize /\ Stops(length)
  <2> HIDE DEF Stops
  <2> QED
    BY <1>4, <1>6
<1> QED
  BY <1>7, <1>8

LEMMA ShortExact ==
  ASSUME RecvInv, FoundNewline
  PROVE  ShortRequestExact
<1> SUFFICES ASSUME found, bufferSize = K
             PROVE  /\ StrchrNewline(received)
                    /\ Strlen(recvBuffer) <= Len(received)
                    /\ \/ Strlen(recvBuffer) = Len(received)
                       \/ received[Strlen(recvBuffer) + 1] = 0
  BY DEF ShortRequestExact
<1>1. /\ bufferIndex \in Nat /\ bufferSize \in Nat /\ bufferIndex + 2 <= bufferSize
      /\ DOMAIN recvBuffer = 1..bufferSize
      /\ received \in Seq(Byte) /\ Len(received) = bufferIndex
      /\ \A i \in 1..bufferIndex : recvBuffer[i] = received[i]
      /\ \A i \in (bufferIndex + 1)..bufferSize : recvBuffer[i] = 0
  BY DEF RecvInv, Bounds, ReceivedKept, FirstBlockClean
<1>2. StrchrNewline(received)
  <2>1. PICK i \in 1..bufferSize : recvBuffer[i] = NL /\ \A j \in 1..i : recvBuffer[j] # 0
    BY <1>1 DEF FoundNewline, StrchrNewline
  <2>2. i \in 1..bufferIndex
    BY <1>1, <2>1, RecvAssumption
  <2>3. \A j \in 1..i : j \in 1..bufferIndex
    BY <1>1, <2>2
  <2>4. received[i] = NL /\ \A j \in 1..i : received[j] # 0
    BY <1>1, <2>1, <2>2, <2>3
  <2>5. i \in DOMAIN received
    BY <1>1, <2>2
  <2> QED
    BY <2>4, <2>5 DEF StrchrNewline
<1>3. Strlen(recvBuffer) <= bufferIndex
  <2>1. /\ Strlen(recvBuffer) \in 0..bufferSize
        /\ \A j \in 1..Strlen(recvBuffer) : recvBuffer[j] # 0
    BY StrlenAtZero DEF RecvInv
  <2>2. recvBuffer[bufferIndex + 1] = 0 /\ bufferIndex + 1 \in Nat /\ bufferIndex + 1 >= 1
    BY <1>1
  <2> QED
    BY <1>1, <2>1, <2>2
<1>4. Strlen(recvBuffer) = bufferIndex \/ received[Strlen(recvBuffer) + 1] = 0
  <2> DEFINE n == Strlen(recvBuffer)
  <2>1. n \in 0..bufferSize /\ recvBuffer[n + 1] = 0
    BY StrlenAtZero DEF RecvInv
  <2> HIDE DEF n
  <2>2. n # bufferIndex => n + 1 \in 1..bufferIndex
    BY <1>1, <1>3, <2>1 DEF n
  <2> QED
    BY <1>1, <2>1, <2>2 DEF n
<1> QED
  BY <1>1, <1>2, <1>3, <1>4

\* A request shorter than kBufferStartLength is found only when the client sent
\* its newline, and strlen() counts every byte that recv() returned, up to the
\* first zero among them.
THEOREM ShortRequestCorrect == Spec => []ShortRequestExact
<1>1. Init => RecvInv /\ FoundNewline
  BY FreshInv DEF Init, FoundNewline
<1> QED
  BY <1>1, RecvStep, FoundStep, ShortExact, PTL DEF Spec
=============================================================================
