------------------------------- MODULE MCChar -------------------------------
(***************************************************************************)
(* Small instances of the driver.  Chunks with and without a newline make  *)
(* entries of one or several calls, and a ring of two slots wraps around   *)
(* within MaxBytes.                                                        *)
(***************************************************************************)
EXTENDS AesdChar, TLC

Newline == 0
Bytes == {Newline, 1}

\* Two processes on one shared file: few arguments, all interleavings.
SharedChunks == {<<1>>, <<Newline>>}
WholeLines == {<<Newline>>}
OneByte == {1}
FromEnd == {-1}
EndOnly == {SEEK_END}
ZeroOrJunk == {-9, 0}
NoFaults == {}
IOCSEEKTO == [type |-> "AESD", nr |-> 1]
SeekOnly == {IOCSEEKTO}

\* One process: every argument and every failure.
AnyChunks == {<< >>, <<1>>, <<Newline, 1>>}
Counts == 0..2
Around == {-1, 1}
AllOrigins == {SEEK_SET, SEEK_CUR, SEEK_END, 3}
AnyCmds == {IOCSEEKTO, [type |-> "AESD", nr |-> 2], [type |-> "other", nr |-> 1]}
AllFaults == {"nomem", "copy", "signal"}

Symmetric == Permutations(Buffptr) \cup Permutations(Procs)
=============================================================================
