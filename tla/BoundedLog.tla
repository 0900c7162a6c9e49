----------------------------- MODULE BoundedLog -----------------------------
(***************************************************************************)
(* What aesd_circular_buffer promises its callers: a log that remembers    *)
(* the most recent Capacity entries, oldest first.  Appending to a full    *)
(* log forgets the oldest entry and nothing else.                          *)
(***************************************************************************)
EXTENDS Naturals, Sequences

CONSTANTS
  Values,   \* the entries that can be appended
  Capacity  \* how many of them are remembered

VARIABLE log

LogTypeOK ==
  /\ log \in Seq(Values)
  /\ Len(log) <= Capacity

LogInit == log = << >>

Remember(v) ==
  log' = Append(IF Len(log) < Capacity THEN log ELSE Tail(log), v)

LogNext == \E v \in Values : Remember(v)

LogSpec == LogInit /\ [][LogNext]_log
=============================================================================
