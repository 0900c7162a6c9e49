------------------------------- MODULE MCParts -------------------------------
(***************************************************************************)
(* Three parts that share nothing: the receive loop, with a block of three *)
(* bytes which two refills make grow twice; a program that starts and      *)
(* joins threads; and a program that runs commands.                        *)
(***************************************************************************)
EXTENDS RecvBuffer, Threading, SystemCalls

VARIABLE part

Newline == 2
Bytes == {0, 1, Newline}

partsVars == <<part, vars, threadingVars, processVars>>

PartsInit ==
  /\ part \in {"recv", "threading", "systemcalls"}
  /\ Init
  /\ ThreadingInit
  /\ ProcessInit

PartsNext ==
  /\ UNCHANGED part
  /\ \/ part = "recv" /\ Next /\ UNCHANGED <<threadingVars, processVars>>
     \/ part = "threading" /\ ThreadingNext /\ UNCHANGED <<vars, processVars>>
     \/ part = "systemcalls" /\ ProcessNext /\ UNCHANGED <<vars, threadingVars>>

PartsSpec == PartsInit /\ [][PartsNext]_partsVars /\ ThreadingFairness
=============================================================================
