-------------------------- MODULE MCSocketOnDevice --------------------------
(***************************************************************************)
(* Two threads of the server, one other process, and a ring of two slots   *)
(* that wraps: clients send lines of one byte, the other process writes    *)
(* lines of two.  Three blocks of memory are used up by the leak of        *)
(* evicted entries within MaxBytes.                                        *)
(***************************************************************************)
EXTENDS SocketOnDevice

Newline == 0
Bytes == {Newline, 1}
ClientLines == {<<Newline>>}
ClientSeeks == {[cmd |-> 1, offset |-> 0]}
OtherLines == {<<1, Newline>>}
Unused == {0}
SeekCmd == {[type |-> AESD_IOC_MAGIC, nr |-> 1]}
ZeroOrJunk == {-2, 0}
=============================================================================
