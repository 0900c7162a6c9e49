------------------------------ MODULE MCSocket ------------------------------
(***************************************************************************)
(* Small instances of the server.                                          *)
(***************************************************************************)
EXTENDS AesdSocket, TLC

Symmetric == Permutations(Conns)
=============================================================================
