-------------------------- MODULE MCCircularBuffer --------------------------
(***************************************************************************)
(* The ring on its own, small enough to wrap around several times, with    *)
(* entries of size 0 (which the function accepts, though the driver never  *)
(* adds one) among the sizes.                                              *)
(***************************************************************************)
EXTENDS AesdCircularBuffer

SmallSizes == 0..2
=============================================================================
