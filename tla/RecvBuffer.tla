----------------------------- MODULE RecvBuffer -----------------------------
(***************************************************************************)
(* How process() in server/aesdsocket.c collects a request: recv() into a  *)
(* block that grows by kBufferStartLength whenever recv() fills it, until  *)
(* strchr() finds a newline.  calloc() zeroes the first block; realloc()   *)
(* leaves what it adds uninitialised, except that the last byte is set to  *)
(* zero.  Bytes are 0, NL and others; bytes of the block count from 1.     *)
(***************************************************************************)
EXTENDS Integers, Sequences

CONSTANTS
  kBufferStartLength,  \* 128 in the code
  Byte, NL,            \* the bytes a client sends, and the newline among them
  Junk,                \* values that uninitialised memory can have
  MaxReceived          \* bound: bytes of one request

K == kBufferStartLength

ASSUME RecvAssumption ==
  /\ K \in Nat /\ K >= 2
  /\ NL \in Byte /\ NL # 0
  /\ MaxReceived \in Nat

VARIABLES
  recvBuffer,   \* the block, a sequence of bufferSize bytes
  bufferSize,
  bufferIndex,
  found,        \* whether the loop has ended
  received      \* history: the bytes recv() returned for this request

vars == <<recvBuffer, bufferSize, bufferIndex, found, received>>

\* Mutant: the first block is not zeroed.
FirstBlockMalloc == [i \in 1..K |-> IF i = K THEN 0 ELSE NL]

\* calloc(kBufferStartLength, sizeof(char)), at the top of the outer loop.
FirstBlock == [i \in 1..K |-> 0]

Init ==
  /\ recvBuffer = FirstBlock
  /\ bufferSize = K
  /\ bufferIndex = 0
  /\ found = FALSE
  /\ received = << >>

\* Mutant: recv() is offered the last byte too.
WindowWhole == bufferSize - bufferIndex

\* The room recv() is offered: one byte is kept for the terminating zero.
Window == bufferSize - bufferIndex - 1

\* The block after recv() stored data at bufferIndex, in a block of size bytes
\* whose new part holds junk and whose last byte is zeroed.
Filled(data, size, junk) ==
  [i \in 1..size |->
     IF i = size THEN 0
     ELSE IF i > bufferIndex /\ i <= bufferIndex + Len(data) THEN data[i - bufferIndex]
     ELSE IF i <= bufferSize THEN recvBuffer[i]
     ELSE junk[i]]

\* strchr(recvBuffer, '\n') != NULL: a newline before the first zero.
StrchrNewline(b) == \E i \in DOMAIN b : b[i] = NL /\ \A j \in 1..i : b[j] # 0

\* recv() returns fewer bytes than it was offered; none when the client closed.
RecvPart ==
  /\ ~found
  /\ \E n \in 0..(Window - 1) : \E data \in [1..n -> Byte] :
       /\ Len(received) + n <= MaxReceived
       /\ recvBuffer' = Filled(data, bufferSize, << >>)
       /\ bufferIndex' = bufferIndex + n
       /\ received' = received \o data
  /\ bufferSize' = bufferSize
  /\ found' = StrchrNewline(recvBuffer')

\* Mutant: the index after growing points behind the byte kept for the zero.
GrownIndexPastZero == bufferSize

\* bufferIndex = bufferSize - kBufferStartLength - 1, after bufferSize grew.
GrownIndex == bufferSize + K - K - 1

GrownSize == bufferSize + K

\* recv() fills the window: the block grows.
RecvFull ==
  /\ ~found
  /\ Len(received) + Window <= MaxReceived
  /\ \E data \in [1..Window -> Byte], junk \in [(bufferSize + 1)..GrownSize -> Junk] :
       /\ recvBuffer' = Filled(data, GrownSize, junk)
       /\ received' = received \o data
  /\ bufferSize' = GrownSize
  /\ bufferIndex' = GrownIndex
  /\ found' = StrchrNewline(recvBuffer')

\* The request is stored or obeyed, and the outer loop starts again.
NextRequest ==
  /\ found
  /\ recvBuffer' = FirstBlock
  /\ bufferSize' = K
  /\ bufferIndex' = 0
  /\ found' = FALSE
  /\ received' = << >>

Next == RecvPart \/ RecvFull \/ NextRequest

Spec == Init /\ [][Next]_vars

-----------------------------------------------------------------------------
(* Properties.                                                             *)

\* The block always has room for another byte and its terminating zero, so
\* that recv() is never called with a length of 0 (whose answer would be taken
\* for a closed connection) and strchr() and strlen() stop inside the block.
Bounds ==
  /\ bufferSize \in Nat /\ bufferSize >= K
  /\ bufferIndex \in Nat /\ bufferIndex + 2 <= bufferSize
  /\ DOMAIN recvBuffer = 1..bufferSize
  /\ recvBuffer[bufferSize] = 0

\* The block starts with exactly the bytes received, however recv() divided
\* them and however often the block grew: no byte is lost or overwritten.
ReceivedKept ==
  /\ received \in Seq(Byte)
  /\ Len(received) = bufferIndex
  /\ \A i \in 1..bufferIndex : recvBuffer[i] = received[i]

\* A block that never grew holds zeros behind the bytes received.
FirstBlockClean ==
  bufferSize = K => \A i \in (bufferIndex + 1)..bufferSize : recvBuffer[i] = 0

\* strlen(recvBuffer): what a found request is stored with.
Strlen(b) == CHOOSE n \in 0..Len(b) : b[n + 1] = 0 /\ \A j \in 1..n : b[j] # 0

\* A request below kBufferStartLength bytes is found only when the client sent
\* its newline, and what is stored is all that was received, or what came before
\* the first zero in it.  (A longer one may end in a newline, and go on with
\* bytes, that the client never sent.)
ShortRequestExact ==
  found /\ bufferSize = K =>
    LET n == Strlen(recvBuffer)
    IN  /\ StrchrNewline(received)
        /\ n <= Len(received)
        /\ n = Len(received) \/ received[n + 1] = 0
=============================================================================
