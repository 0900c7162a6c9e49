------------------------- MODULE SystemCallsProofs -------------------------
(***************************************************************************)
(* Proofs about the systemcalls example for any number of processes and    *)
(* every set of calls that may fail.                                       *)
(***************************************************************************)
EXTENDS SystemCalls, TLAPS

\* The process the program starts in is always in the program.
MainStays == proc[MAIN].at \in {"code", "wait"} /\ proc[MAIN].stdout = "inherited"

\* What the place of a process says about its last call: a child that has not
\* yet become its command has forked nobody, only do_exec_redirect() opens a
\* file, do_system() never waits, a process that waits has not returned, and one
\* that has ended has a status.
PlaceSound ==
  \A p \in Procs :
    /\ proc[p].at \in {"unused", "open", "execv", "command", "reaped"} => proc[p].pid = NULL
    /\ proc[p].at = "open" => proc[p].called = "do_exec_redirect"
    /\ proc[p].at = "wait" => /\ proc[p].called # "do_system" /\ proc[p].pid # NULL
                              /\ proc[p].ret = NULL
    /\ proc[p].at = "zombie" => proc[p].status \in Statuses
    /\ proc[p].pid # NULL => proc[proc[p].pid].at # "unused"

\* OutputSeparate, from the fork on.
OutputFollows ==
  \A p, c \in Procs :
    proc[p].pid = c /\ proc[c].at \in {"open", "execv", "command"} =>
      \/ proc[c].stdout = proc[p].stdout
      \/ proc[c].called = "do_exec_redirect" /\ proc[c].stdout = "file"

\* The inductive invariant.
ProcessInv ==
  /\ ProcessTypeOK
  /\ ResultReported
  /\ ChildrenReaped
  /\ MainStays
  /\ PlaceSound
  /\ OutputFollows

LEMMA ProcessInitInv == ProcessInit => ProcessInv
<1> SUFFICES ASSUME ProcessInit PROVE ProcessInv
  OBVIOUS
<1>1. \A p \in Procs : /\ proc[p].at = IF p = MAIN THEN "code" ELSE "unused"
                       /\ proc[p].pid = NULL /\ proc[p].called = NULL
                       /\ proc[p].ret = NULL /\ proc[p].stdout = "inherited"
                       /\ proc[p].status = NULL /\ proc[p].outcome = NULL
  BY DEF ProcessInit, NoProcess
<1>2. proc \in [Procs -> Processes]
  BY DEF ProcessInit, NoProcess, Processes
<1>3. ProcessTypeOK /\ ResultReported
  BY <1>1, <1>2, SystemCallsAssumption DEF ProcessTypeOK, ResultReported
<1>4. ChildrenReaped /\ MainStays /\ PlaceSound /\ OutputFollows
  BY <1>1, SystemCallsAssumption DEF ChildrenReaped, MainStays, PlaceSound, OutputFollows
<1> QED
  BY <1>3, <1>4 DEF ProcessInv

-----------------------------------------------------------------------------
(* Steps that change one process.                                          *)

\* The part of the invariant that speaks of one process.
LocalSound(q) ==
  /\ q.at = "code" /\ q.called # NULL => q.ret # NULL
  /\ q.ret # NULL /\ q.called # "do_system" =>
       /\ q.outcome = "zero" => q.ret = TRUE
       /\ q.outcome \in {"nonzero", "unknown"} => q.ret = FALSE
       /\ q.pid = NULL => q.ret = FALSE
  /\ q.at \in {"unused", "open", "execv", "command", "reaped"} => q.pid = NULL
  /\ q.at = "open" => q.called = "do_exec_redirect"
  /\ q.at = "wait" => q.called # "do_system" /\ q.pid # NULL /\ q.ret = NULL
  /\ q.at = "zombie" => q.status \in Statuses

LEMMA InvLocal ==
  ASSUME ProcessInv, NEW p \in Procs
  PROVE  proc[p] \in Processes /\ LocalSound(proc[p])
  BY DEF ProcessInv, ProcessTypeOK, ResultReported, PlaceSound, LocalSound

\* Process p becomes q.  It forks nobody; if it still remembers a child then it
\* has waited for it already, or it gives up waiting and returns false, or it never
\* returns; and its output changes only between fork() and execv(), when it has
\* no child.
Becomes(p, q) ==
  /\ proc' = [proc EXCEPT ![p] = q]
  /\ proc[p].at \notin {"unused", "reaped"}
  /\ q.at \notin {"unused", "reaped", "open"}
  /\ p = MAIN => q.at \in {"code", "wait"}
  /\ q.pid # NULL => /\ q.pid = proc[p].pid
                     /\ \/ q.outcome = "unknown" /\ q.ret = FALSE
                        \/ q.outcome = proc[p].outcome /\ q.ret = proc[p].ret
  /\ \/ q.stdout = proc[p].stdout
     \/ proc[p].at = "open" /\ q.called = "do_exec_redirect" /\ q.stdout = "file"
  /\ q.at \in {"execv", "command"} =>
       proc[p].at \in {"open", "execv"} /\ q.called = proc[p].called

LEMMA BecomesInv ==
  ASSUME ProcessInv, NEW p \in Procs, NEW q \in Processes, LocalSound(q), Becomes(p, q)
  PROVE  ProcessInv'
<1>1. proc' \in [Procs -> Processes]
  BY DEF ProcessInv, ProcessTypeOK, Becomes
<1>2. \A x \in Procs : proc'[x] = IF x = p THEN q ELSE proc[x]
  BY DEF ProcessInv, ProcessTypeOK, Becomes
<1>3. \A x \in Procs : proc'[x].pid \in Procs \cup {NULL} /\ proc[x].pid \in Procs \cup {NULL}
  BY <1>1 DEF ProcessInv, ProcessTypeOK, Processes
<1>4. ProcessTypeOK' /\ ResultReported'
  BY <1>1, <1>2 DEF ProcessInv, ProcessTypeOK, ResultReported, LocalSound
<1>5. ChildrenReaped'
  <2> SUFFICES ASSUME NEW x \in Procs, proc'[x].pid # NULL, proc'[x].ret # NULL,
                      ~(proc'[x].outcome = "unknown" /\ proc'[x].ret = FALSE)
               PROVE  proc'[proc'[x].pid].at = "reaped"
    BY DEF ChildrenReaped
  <2>1. /\ proc[x].pid = proc'[x].pid /\ proc[x].ret # NULL
        /\ ~(proc[x].outcome = "unknown" /\ proc[x].ret = FALSE)
    BY <1>2 DEF Becomes
  <2>2. proc[proc[x].pid].at = "reaped"
    BY <2>1 DEF ProcessInv, ChildrenReaped
  <2>3. QED
    BY <1>2, <1>3, <2>1, <2>2 DEF Becomes
<1>6. MainStays'
  BY <1>2, SystemCallsAssumption DEF ProcessInv, MainStays, Becomes
<1>7. PlaceSound'
  BY <1>2, <1>3 DEF ProcessInv, PlaceSound, LocalSound, Becomes
<1>8. OutputFollows'
  <2> SUFFICES ASSUME NEW x \in Procs, NEW c \in Procs, proc'[x].pid = c,
                      proc'[c].at \in {"open", "execv", "command"}
               PROVE  \/ proc'[c].stdout = proc'[x].stdout
                      \/ proc'[c].called = "do_exec_redirect" /\ proc'[c].stdout = "file"
    BY DEF OutputFollows
  <2>1. c # NULL /\ proc[x].pid = c /\ proc[x].at # "open"
    BY <1>2, SystemCallsAssumption DEF ProcessInv, PlaceSound, Becomes
  <2>2. proc'[x].stdout = proc[x].stdout
    BY <1>2, <2>1 DEF Becomes
  <2>3. /\ proc[c].at \in {"open", "execv", "command"}
        /\ proc'[c].called = proc[c].called
    BY <1>2, <2>1 DEF Becomes
  <2>4. \/ proc[c].stdout = proc[x].stdout
        \/ proc[c].called = "do_exec_redirect" /\ proc[c].stdout = "file"
    BY <2>1, <2>3 DEF ProcessInv, OutputFollows
  <2>5. \/ proc'[c].stdout = proc[c].stdout
        \/ proc'[c].called = "do_exec_redirect" /\ proc'[c].stdout = "file"
    BY <1>2 DEF Becomes
  <2>6. QED
    BY <2>2, <2>3, <2>4, <2>5
<1> QED
  BY <1>4, <1>5, <1>6, <1>7, <1>8 DEF ProcessInv

\* do_system(), which runs the command in one call.
LEMMA DoSystemInv ==
  ASSUME ProcessInv, NEW p \in Procs, do_system(p)
  PROVE  ProcessInv'
<1>1. PICK what \in Statuses \cup {"failed"} :
        proc' = [proc EXCEPT ![p] = [Entering(p, "do_system") EXCEPT
                                       !.ret = what # "failed", !.outcome = what]]
  BY DEF do_system
<1> DEFINE value == what # "failed"
           q == [Entering(p, "do_system") EXCEPT !.ret = value, !.outcome = what]
<1>2. value \in BOOLEAN /\ (value = TRUE => what # "failed")
  OBVIOUS
<1>3. value # NULL
  BY <1>2, SystemCallsAssumption
<1>4. proc[p] \in Processes /\ LocalSound(proc[p]) /\ proc[p].at = "code"
  BY InvLocal DEF do_system
<1>5. proc' = [proc EXCEPT ![p] = q]
  BY <1>1
<1> HIDE DEF value
<1>6. q \in Processes
  BY <1>2, <1>4 DEF Entering, Processes, Functions
<1>7. /\ q.at = "code" /\ q.called = "do_system" /\ q.pid = NULL /\ q.ret = value
      /\ q.outcome = what /\ q.stdout = proc[p].stdout
  BY <1>4 DEF Entering, Processes
<1>8. LocalSound(q)
  BY <1>2, <1>3, <1>7 DEF LocalSound, Statuses
<1>9. Becomes(p, q)
  BY <1>4, <1>5, <1>7 DEF Becomes
<1> QED
  BY <1>6, <1>8, <1>9, BecomesInv

\* do_exec() and do_exec_redirect() that return before there is a child.
LEMMA NotForkedInv ==
  ASSUME ProcessInv, NEW p \in Procs, NEW f \in {"do_exec", "do_exec_redirect"}, NotForked(p, f)
  PROVE  ProcessInv'
<1> DEFINE q == [Entering(p, f) EXCEPT !.ret = FALSE, !.outcome = "failed"]
<1>1. proc[p] \in Processes /\ proc[p].at = "code" /\ proc' = [proc EXCEPT ![p] = q]
  BY InvLocal DEF NotForked
<1>2. q \in Processes
  BY <1>1 DEF Entering, Processes, Functions
<1>3. /\ q.at = "code" /\ q.called = f /\ q.pid = NULL /\ q.ret = FALSE
      /\ q.outcome = "failed" /\ q.stdout = proc[p].stdout
  BY <1>1 DEF Entering, Processes
<1>4. LocalSound(q)
  BY <1>3, SystemCallsAssumption DEF LocalSound
<1>5. Becomes(p, q)
  BY <1>1, <1>3 DEF Becomes
<1> QED
  BY <1>2, <1>4, <1>5, BecomesInv

\* A function that returns false: in a child that could not run the command,
\* or in a parent whose waitpid() failed.
LEMMA ReturnsFalseInv ==
  ASSUME ProcessInv, NEW p \in Procs, NEW what \in {"failed", "unknown"},
         proc[p].at \in {"open", "execv", "wait"},
         proc[p].at = "wait" => what = "unknown",
         proc' = [proc EXCEPT ![p] = Returned(p, FALSE, what)]
  PROVE  ProcessInv'
<1> DEFINE q == Returned(p, FALSE, what)
<1>1. proc[p] \in Processes /\ LocalSound(proc[p])
  BY InvLocal
<1>2. q \in Processes
  BY <1>1 DEF Returned, Processes
<1>3. /\ q.at = "code" /\ q.called = proc[p].called /\ q.pid = proc[p].pid
      /\ q.ret = FALSE /\ q.outcome = what /\ q.stdout = proc[p].stdout
  BY <1>1 DEF Returned, Processes
<1>4. LocalSound(q)
  BY <1>3, SystemCallsAssumption DEF LocalSound
<1>5. Becomes(p, q)
  BY <1>1, <1>3 DEF Becomes, LocalSound
<1> QED
  BY <1>2, <1>4, <1>5, BecomesInv

\* The child before its command: open(), dup2() and execv().
LEMMA ChildInv ==
  ASSUME ProcessInv, NEW c \in Procs, OpenOutput(c) \/ Execv(c)
  PROVE  ProcessInv'
<1>1. CASE proc' = [proc EXCEPT ![c] = Returned(c, FALSE, "failed")]
  BY <1>1, ReturnsFalseInv DEF OpenOutput, Execv
<1>2. ASSUME NEW q, proc' = [proc EXCEPT ![c] = q],
             \/ /\ proc[c].at = "open"
                /\ q = [proc[c] EXCEPT !.at = "execv", !.stdout = "file"]
             \/ proc[c].at = "open" /\ q = [proc[c] EXCEPT !.at = "execv"]
             \/ proc[c].at = "execv" /\ q = [proc[c] EXCEPT !.at = "command"]
      PROVE  ProcessInv'
  <2>1. proc[c] \in Processes /\ LocalSound(proc[c])
    BY InvLocal
  <2>2. q \in Processes
    BY <1>2, <2>1, ZenonT(40) DEF Processes
  <2>3. /\ q.at \in {"execv", "command"} /\ q.called = proc[c].called /\ q.pid = proc[c].pid
        /\ q.ret = proc[c].ret /\ q.outcome = proc[c].outcome
        /\ q.stdout = proc[c].stdout \/ (proc[c].at = "open" /\ q.stdout = "file")
    BY <1>2, <2>1 DEF Processes
  <2>4. c # MAIN
    BY <1>2 DEF ProcessInv, MainStays
  <2>5. LocalSound(q)
    BY <1>2, <2>1, <2>3 DEF LocalSound
  <2>6. Becomes(c, q)
    BY <1>2, <2>1, <2>3, <2>4 DEF Becomes, LocalSound
  <2> QED
    BY <2>2, <2>5, <2>6, BecomesInv
<1> QED
  BY <1>1, <1>2 DEF OpenOutput, Execv

\* A process that ends, by itself or by a signal.
LEMMA ExitInv ==
  ASSUME ProcessInv, NEW c \in Procs, Exit(c) \/ Killed(c)
  PROVE  ProcessInv'
<1>1. PICK s \in Statuses : proc' = [proc EXCEPT ![c].at = "zombie", ![c].status = s]
  BY DEF Exit, Killed, Terminate, Statuses
<1> DEFINE q == [proc[c] EXCEPT !.at = "zombie", !.status = s]
<1>2. /\ proc[c] \in Processes /\ LocalSound(proc[c]) /\ c # MAIN
      /\ proc[c].at \in {"command", "code", "open", "execv", "wait"}
      /\ proc' = [proc EXCEPT ![c] = q]
  BY <1>1, InvLocal DEF Exit, Killed, ProcessInv, ProcessTypeOK
<1>3. q \in Processes
  BY <1>2 DEF Processes
<1>4. /\ q.at = "zombie" /\ q.called = proc[c].called /\ q.pid = proc[c].pid
      /\ q.ret = proc[c].ret /\ q.outcome = proc[c].outcome
      /\ q.stdout = proc[c].stdout /\ q.status = s /\ q.ret = proc[c].ret
  BY <1>2 DEF Processes
<1>5. LocalSound(q)
  BY <1>2, <1>4 DEF LocalSound
<1>6. Becomes(c, q)
  BY <1>2, <1>4 DEF Becomes
<1> QED
  BY <1>3, <1>5, <1>6, BecomesInv

-----------------------------------------------------------------------------
(* Steps that change a parent and its child.                               *)

\* fork(): the child is a process nobody knew of.
LEMMA ForkInv ==
  ASSUME ProcessInv, NEW p \in Procs, NEW f \in {"do_exec", "do_exec_redirect"}, Fork(p, f)
  PROVE  ProcessInv'
<1>1. PICK c \in Procs :
        /\ proc[c].at = "unused"
        /\ proc' = [proc EXCEPT ![p] = ParentAfterFork(p, f, c), ![c] = ChildAfterFork(p, f)]
  BY DEF Fork
<1> DEFINE q == ParentAfterFork(p, f, c)
           d == ChildAfterFork(p, f)
<1>2. /\ proc[p] \in Processes /\ LocalSound(proc[p])
      /\ proc[p].at = "code" /\ c # p /\ c # MAIN /\ c # NULL
  BY <1>1, InvLocal, SystemCallsAssumption DEF Fork, ProcessInv, MainStays
<1>3. q \in Processes /\ d \in Processes
  BY <1>2, ZenonT(40) DEF ParentAfterFork, ChildAfterFork, Entering, NoProcess, Processes, Functions
<1>4. /\ q.at = "wait" /\ q.pid = c /\ q.called = f /\ q.ret = NULL /\ q.stdout = proc[p].stdout
      /\ d.at = (IF f = "do_exec" THEN "execv" ELSE "open") /\ d.pid = NULL /\ d.called = f
      /\ d.ret = NULL /\ d.stdout = proc[p].stdout
  BY <1>2 DEF ParentAfterFork, ChildAfterFork, Entering, NoProcess, Processes
<1>5. \A x \in Procs : proc'[x] = IF x = p THEN q ELSE IF x = c THEN d ELSE proc[x]
  BY <1>1, <1>2 DEF ProcessInv, ProcessTypeOK
<1>6. proc' \in [Procs -> Processes]
  BY <1>1, <1>3 DEF ProcessInv, ProcessTypeOK
<1> HIDE DEF q, d
\* Nobody has waited for c, or forked it, before.
<1>7. \A x \in Procs : /\ proc[x].pid \in Procs \cup {NULL}
                       /\ proc[x].pid # c
  BY <1>1, <1>2 DEF ProcessInv, ProcessTypeOK, Processes, PlaceSound
<1>8. ProcessTypeOK' /\ ResultReported'
  BY <1>4, <1>5, <1>6, SystemCallsAssumption, ZenonT(40)
  DEF ProcessInv, ProcessTypeOK, ResultReported
<1>9. ChildrenReaped'
  <2> SUFFICES ASSUME NEW x \in Procs, proc'[x].pid # NULL, proc'[x].ret # NULL,
                      ~(proc'[x].outcome = "unknown" /\ proc'[x].ret = FALSE)
               PROVE  proc'[proc'[x].pid].at = "reaped"
    BY DEF ChildrenReaped
  <2>1. x # p /\ x # c
    BY <1>4, <1>5
  <2>2. proc'[x] = proc[x] /\ proc[proc[x].pid].at = "reaped"
    BY <1>5, <2>1 DEF ProcessInv, ChildrenReaped
  <2>3. proc[x].pid \in Procs /\ proc[x].pid # c /\ proc[x].pid # p
    BY <1>2, <1>7, <2>2
  <2> QED
    BY <1>5, <2>2, <2>3
<1>10. MainStays'
  BY <1>2, <1>4, <1>5, SystemCallsAssumption DEF ProcessInv, MainStays
<1>11. PlaceSound'
  BY <1>2, <1>4, <1>5, <1>7 DEF ProcessInv, PlaceSound
<1>12. OutputFollows'
  <2> SUFFICES ASSUME NEW x \in Procs, NEW y \in Procs, proc'[x].pid = y,
                      proc'[y].at \in {"open", "execv", "command"}
               PROVE  \/ proc'[y].stdout = proc'[x].stdout
                      \/ proc'[y].called = "do_exec_redirect" /\ proc'[y].stdout = "file"
    BY DEF OutputFollows
  <2>1. x # c /\ y # p
    BY <1>4, <1>5, SystemCallsAssumption
  <2>2. CASE x = p
    BY <1>2, <1>4, <1>5, <2>2
  <2>3. CASE x # p
    <3>1. proc'[x] = proc[x] /\ proc'[y] = proc[y]
      BY <1>5, <1>7, <2>1, <2>3
    <3> QED
      BY <3>1 DEF ProcessInv, OutputFollows
  <2> QED
    BY <2>2, <2>3
<1> QED
  BY <1>8, <1>9, <1>10, <1>11, <1>12 DEF ProcessInv

\* waitpid(): what the parent returns is what became of the child.
LEMMA WaitpidInv ==
  ASSUME ProcessInv, NEW p \in Procs, Waitpid(p)
  PROVE  ProcessInv'
<1> DEFINE c == proc[p].pid
           value == Succeeded(proc[c].status)
           q == Returned(p, value, Became(c))
           d == [NoProcess EXCEPT !.at = "reaped"]
<1>1. /\ proc[p].at = "wait" /\ proc[c].at = "zombie"
      /\ proc' = [proc EXCEPT ![p] = q, ![c] = d]
  BY DEF Waitpid
<1>2. /\ proc[p] \in Processes /\ LocalSound(proc[p])
      /\ c \in Procs /\ c # p /\ c # MAIN
  BY <1>1, InvLocal DEF ProcessInv, PlaceSound, MainStays, Processes
<1>3. LocalSound(proc[c]) /\ proc[c].status \in Statuses
  BY <1>1, <1>2, InvLocal DEF LocalSound
<1>4. value \in BOOLEAN /\ (value = TRUE <=> proc[c].status # "nonzero")
  BY DEF Succeeded
<1>5. value # NULL
  BY <1>4, SystemCallsAssumption
<1>6. Became(c) \in Statuses \cup {"failed"}
  BY <1>3 DEF Became
<1>7. (Became(c) = "zero" => value = TRUE) /\ (Became(c) = "nonzero" => value = FALSE)
  BY <1>4 DEF Became
<1> HIDE DEF value
<1>8. q \in Processes /\ d \in Processes
  BY <1>2, <1>4, <1>6, ZenonT(40) DEF Returned, NoProcess, Processes
<1>9. /\ q.at = "code" /\ q.pid = c /\ q.called = proc[p].called /\ q.ret = value
      /\ q.stdout = proc[p].stdout /\ q.outcome = Became(c)
      /\ d.at = "reaped" /\ d.pid = NULL /\ d.ret = NULL
  BY <1>2 DEF Returned, NoProcess, Processes
<1>10. \A x \in Procs : proc'[x] = IF x = p THEN q ELSE IF x = c THEN d ELSE proc[x]
  BY <1>1, <1>2 DEF ProcessInv, ProcessTypeOK
<1>11. proc' \in [Procs -> Processes]
  BY <1>1, <1>8 DEF ProcessInv, ProcessTypeOK
<1>12. \A x \in Procs : proc[x].pid \in Procs \cup {NULL}
  BY DEF ProcessInv, ProcessTypeOK, Processes
<1>13. c # NULL /\ proc[p].called # "do_system"
  BY <1>1, <1>2 DEF LocalSound
<1> HIDE DEF q, d, c
<1>14. ProcessTypeOK'
  BY <1>5, <1>9, <1>10, <1>11 DEF ProcessInv, ProcessTypeOK
<1>15. ResultReported'
  BY <1>6, <1>7, <1>9, <1>10, <1>13, SystemCallsAssumption, ZenonT(40)
  DEF ProcessInv, ResultReported, Statuses
<1>16. ChildrenReaped'
  <2> SUFFICES ASSUME NEW x \in Procs, proc'[x].pid # NULL, proc'[x].ret # NULL,
                      ~(proc'[x].outcome = "unknown" /\ proc'[x].ret = FALSE)
               PROVE  proc'[proc'[x].pid].at = "reaped"
    BY DEF ChildrenReaped
  <2>1. CASE x = p
    BY <1>2, <1>9, <1>10, <2>1
  <2>2. CASE x # p
    <3>1. x # c
      BY <1>9, <1>10, <2>2
    <3>2. proc'[x] = proc[x] /\ proc[proc[x].pid].at = "reaped" /\ proc[x].pid \in Procs
      BY <1>10, <1>12, <2>2, <3>1 DEF ProcessInv, ChildrenReaped
    <3> QED
      BY <1>1, <1>10, <3>2 DEF c
  <2> QED
    BY <2>1, <2>2
<1>17. MainStays'
  BY <1>2, <1>9, <1>10, SystemCallsAssumption DEF ProcessInv, MainStays
<1>18. PlaceSound'
  BY <1>2, <1>9, <1>10, <1>12 DEF ProcessInv, PlaceSound
<1>19. OutputFollows'
  BY <1>2, <1>9, <1>10, <1>12, SystemCallsAssumption DEF ProcessInv, OutputFollows
<1> QED
  BY <1>14, <1>15, <1>16, <1>17, <1>18, <1>19 DEF ProcessInv

-----------------------------------------------------------------------------
(* All steps, and the theorems.                                            *)

LEMMA ProcessNextInv == ProcessInv /\ [ProcessNext]_processVars => ProcessInv'
<1> SUFFICES ASSUME ProcessInv, [ProcessNext]_processVars PROVE ProcessInv'
  OBVIOUS
<1>1. ASSUME NEW p \in Procs, do_system(p) PROVE ProcessInv'
  BY <1>1, DoSystemInv
<1>2. ASSUME NEW p \in Procs, NEW f \in {"do_exec", "do_exec_redirect"},
             NotForked(p, f) \/ Fork(p, f)
      PROVE  ProcessInv'
  BY <1>2, NotForkedInv, ForkInv
<1>3. ASSUME NEW p \in Procs, Run(p) PROVE ProcessInv'
  BY <1>3, ChildInv, WaitpidInv DEF Run
<1>4. ASSUME NEW p \in Procs, WaitpidFails(p) PROVE ProcessInv'
  BY <1>4, ReturnsFalseInv DEF WaitpidFails
<1>5. ASSUME NEW p \in Procs, Exit(p) \/ Killed(p) PROVE ProcessInv'
  BY <1>5, ExitInv
<1>6. CASE UNCHANGED processVars
  BY <1>6 DEF processVars, ProcessInv, ProcessTypeOK, ResultReported, ChildrenReaped, MainStays, PlaceSound,
              OutputFollows
<1> QED
  BY <1>1, <1>2, <1>3, <1>4, <1>5, <1>6 DEF ProcessNext

\* The inductive invariant holds in every behaviour of the example.
THEOREM ProcessCorrect == ProcessSpec => []ProcessInv
  BY ProcessInitInv, ProcessNextInv, PTL DEF ProcessSpec

\* Every function returns a value, also in a child that could not run the
\* command, and the processes keep their types.
THEOREM ProcessTypeCorrect == ProcessSpec => []ProcessTypeOK
<1>1. ProcessInv => ProcessTypeOK
  BY DEF ProcessInv
<1> QED
  BY <1>1, ProcessCorrect, PTL

\* systemcalls.c:43-101 and 108-167: what do_exec() and do_exec_redirect() report
\* of a command that ran, for any nesting of the program's copies.
THEOREM ResultCorrect == ProcessSpec => []ResultReported
<1>1. ProcessInv => ResultReported
  BY DEF ProcessInv
<1> QED
  BY <1>1, ProcessCorrect, PTL

\* A do_exec() or do_exec_redirect() leaves neither a running process nor a zombie
\* behind, unless its waitpid() failed and it returned false.
THEOREM ReapedCorrect == ProcessSpec => []ChildrenReaped
<1>1. ProcessInv => ChildrenReaped
  BY DEF ProcessInv
<1> QED
  BY <1>1, ProcessCorrect, PTL

\* systemcalls.c:135-145: dup2() in the child never redirects the program's own
\* output, and a command run by do_exec() writes where the process that ran it
\* does, whose output an earlier failure of execv() may have left redirected.
THEOREM OutputCorrect == ProcessSpec => []OutputSeparate
<1>1. ProcessInv => OutputSeparate
  BY DEF ProcessInv, MainStays, OutputFollows, OutputSeparate
<1> QED
  BY <1>1, ProcessCorrect, PTL

-----------------------------------------------------------------------------
(* One process at a time.                                                  *)

LEMMA AloneInit == ProcessInit => RunsAlone
<1> SUFFICES ASSUME ProcessInit PROVE RunsAlone
  OBVIOUS
<1>1. \A p \in Procs : Busy(p) => p = MAIN
  BY DEF ProcessInit, NoProcess, Busy
<1> QED
  BY <1>1 DEF RunsAlone

\* RunsAlone, for a step that leaves deserted alone.
OneBusy == \A p, q \in Procs : Busy(p) /\ Busy(q) => p = q

\* A step of the process that runs, whatever becomes of it.
LEMMA AloneLocal ==
  ASSUME OneBusy, NEW p \in Procs, Busy(p), \A x \in Procs \ {p} : proc'[x] = proc[x]
  PROVE  OneBusy'
  BY DEF OneBusy, Busy

\* fork() puts the child in the place of its parent, which waits; waitpid() puts the
\* parent in the place of its child, the one process that was not waiting.
LEMMA AloneNext ==
  ASSUME ProcessInv, RunsAlone, [ProcessNext]_processVars
  PROVE  RunsAlone'
<1> SUFFICES ASSUME ~deserted' PROVE OneBusy'
  BY DEF RunsAlone, OneBusy
<1>1. proc \in [Procs -> Processes]
  BY DEF ProcessInv, ProcessTypeOK
<1>2. OneBusy /\ ~deserted
  <2>1. \/ deserted' = deserted
        \/ \E p \in Procs : deserted' = (deserted \/ proc[p].at = "wait")
    BY DEF ProcessNext, processVars
  <2>2. ~deserted
    BY <2>1, Zenon
  <2> QED
    BY <2>2 DEF RunsAlone, OneBusy
<1>3. ASSUME NEW p \in Procs, do_system(p) PROVE OneBusy'
  BY <1>1, <1>3, AloneLocal, <1>2 DEF do_system, Busy
<1>4. ASSUME NEW p \in Procs, NEW f \in {"do_exec", "do_exec_redirect"}, NotForked(p, f)
      PROVE  OneBusy'
  BY <1>1, <1>4, AloneLocal, <1>2 DEF NotForked, Busy
<1>5. ASSUME NEW p \in Procs, OpenOutput(p) \/ Execv(p) PROVE OneBusy'
  <2>1. Busy(p)
    BY <1>5 DEF OpenOutput, Execv, Busy
  <2>2. \A x \in Procs \ {p} : proc'[x] = proc[x]
    BY <1>1, <1>5 DEF OpenOutput, Execv
  <2> QED
    BY <2>1, <2>2, AloneLocal, <1>2
<1>6. ASSUME NEW p \in Procs, Exit(p) PROVE OneBusy'
  <2>1. Busy(p)
    BY <1>6 DEF Exit, Busy
  <2>2. \A x \in Procs \ {p} : proc'[x] = proc[x]
    BY <1>1, <1>6 DEF Exit, Terminate
  <2> QED
    BY <2>1, <2>2, AloneLocal, <1>2
<1>7. ASSUME NEW p \in Procs, NEW f \in {"do_exec", "do_exec_redirect"}, Fork(p, f)
      PROVE  OneBusy'
  <2>1. PICK c \in Procs :
          /\ proc[c].at = "unused"
          /\ proc' = [proc EXCEPT ![p] = ParentAfterFork(p, f, c), ![c] = ChildAfterFork(p, f)]
    BY <1>7 DEF Fork
  <2>2. Busy(p) /\ c # p
    BY <1>7, <2>1 DEF Fork, Busy
  <2>3. \A x \in Procs \ {p, c} : proc'[x] = proc[x]
    BY <1>1, <2>1
  <2>4. proc'[p].at = "wait"
    <3>1. proc[p] \in Processes /\ proc'[p] = ParentAfterFork(p, f, c)
      BY <1>1, <2>1, <2>2
    <3>2. ParentAfterFork(p, f, c).at = "wait"
      BY <3>1 DEF ParentAfterFork, Entering, Processes
    <3> QED
      BY <3>1, <3>2
  <2> QED
    BY <2>2, <2>3, <2>4, <1>2 DEF OneBusy, Busy
<1>8. ASSUME NEW p \in Procs, Waitpid(p) PROVE OneBusy'
  <2> DEFINE c == proc[p].pid
  <2>1. c \in Procs /\ Busy(c) /\ c # p
    BY <1>1, <1>8 DEF Waitpid, Busy, ProcessInv, PlaceSound, Processes
  <2>2. \A x \in Procs \ {p, c} : proc'[x] = proc[x]
    BY <1>1, <1>8 DEF Waitpid
  <2>3. proc'[c].at = "reaped"
    BY <1>1, <1>8, <2>1 DEF Waitpid, NoProcess
  <2> QED
    BY <1>8, <2>1, <2>2, <2>3, <1>2 DEF OneBusy, Busy
\* A signal that ends a child on its way to its command.
<1>9. ASSUME NEW p \in Procs, Killed(p), proc[p].at # "wait" PROVE OneBusy'
  <2>1. Busy(p)
    BY <1>9 DEF Killed, Busy
  <2>2. \A x \in Procs \ {p} : proc'[x] = proc[x]
    BY <1>1, <1>9 DEF Killed, Terminate
  <2> QED
    BY <2>1, <2>2, AloneLocal, <1>2
<1>10. ASSUME NEW p \in Procs, WaitpidFails(p), deserted' = (deserted \/ proc[p].at = "wait")
      PROVE  FALSE
  BY <1>10 DEF WaitpidFails
<1>11. CASE UNCHANGED processVars
  BY <1>2, <1>11 DEF processVars, OneBusy, Busy
<1> QED
  BY <1>3, <1>4, <1>5, <1>6, <1>7, <1>8, <1>9, <1>10, <1>11 DEF ProcessNext, Run

\* systemcalls.c:79-89 and 133-155: the copies of the program that failed calls of
\* execv() or open() leave behind never run beside each other, nor beside a
\* command, until some waitpid() has failed or a signal has ended a copy in one.
THEOREM AloneCorrect == ProcessSpec => []RunsAlone
<1>1. ProcessInv /\ RunsAlone /\ [ProcessNext]_processVars => RunsAlone'
  BY AloneNext
<1> QED
  BY <1>1, AloneInit, ProcessCorrect, PTL DEF ProcessSpec

-----------------------------------------------------------------------------
(* Where the redirected output can be.                                     *)

\* Only a child of do_exec_redirect() that is to become its command, or has,
\* writes to the output file.
FileForCommand ==
  \A p \in Procs :
    proc[p].stdout = "file" =>
      proc[p].at \in {"execv", "command", "zombie"} /\ proc[p].called = "do_exec_redirect"

LEMMA FileNext ==
  ASSUME "execv" \notin CallFaults, ProcessInv, FileForCommand, [ProcessNext]_processVars
  PROVE  FileForCommand'
<1>1. proc \in [Procs -> Processes]
  BY DEF ProcessInv, ProcessTypeOK
<1>2. ASSUME NEW p \in Procs, NEW q, proc' = [proc EXCEPT ![p] = q],
             q.stdout = "file" =>
               q.at \in {"execv", "command", "zombie"} /\ q.called = "do_exec_redirect"
      PROVE  FileForCommand'
  BY <1>1, <1>2 DEF FileForCommand
\* A function that is entered or left does not touch the output.
<1>3. ASSUME NEW p \in Procs, proc[p].at \in {"code", "wait", "open"},
             NEW q, q.stdout = proc[p].stdout, proc' = [proc EXCEPT ![p] = q]
      PROVE  FileForCommand'
  BY <1>2, <1>3 DEF FileForCommand
<1>4. ASSUME NEW p \in Procs, do_system(p) PROVE FileForCommand'
  <2>1. PICK what \in Statuses \cup {"failed"} :
          proc' = [proc EXCEPT ![p] = [Entering(p, "do_system") EXCEPT
                                         !.ret = what # "failed", !.outcome = what]]
    BY <1>4 DEF do_system
  <2> DEFINE q == [Entering(p, "do_system") EXCEPT !.ret = what # "failed", !.outcome = what]
  <2>2. q.stdout = Entering(p, "do_system").stdout
    BY DEF Entering
  <2>3. Entering(p, "do_system").stdout = proc[p].stdout
    BY <1>1 DEF Entering, Processes
  <2> QED
    BY <1>3, <1>4, <2>1, <2>2, <2>3 DEF do_system
<1>5. ASSUME NEW p \in Procs, NEW f \in {"do_exec", "do_exec_redirect"}, NotForked(p, f)
      PROVE  FileForCommand'
  <2> DEFINE q == [Entering(p, f) EXCEPT !.ret = FALSE, !.outcome = "failed"]
  <2>1. q.stdout = proc[p].stdout
    BY <1>1 DEF Entering, Processes
  <2> QED
    BY <1>3, <1>5, <2>1 DEF NotForked
<1>6. ASSUME NEW p \in Procs, NEW value, NEW what
      PROVE  Returned(p, value, what).stdout = proc[p].stdout
  BY <1>1 DEF Returned, Processes
<1>7. ASSUME NEW p \in Procs, OpenOutput(p) \/ Execv(p) PROVE FileForCommand'
  <2>1. CASE /\ proc[p].at = "open"
             /\ proc' = [proc EXCEPT ![p] = Returned(p, FALSE, "failed")]
    <3>1. proc[p].at \in {"code", "wait", "open"}
      BY <2>1
    <3> QED
      BY <1>3, <1>6, <2>1, <3>1
  <2>2. CASE /\ proc[p].at = "open"
             /\ \/ proc' = [proc EXCEPT ![p].at = "execv", ![p].stdout = "file"]
                \/ proc' = [proc EXCEPT ![p].at = "execv"]
    <3>1. proc[p].called = "do_exec_redirect"
      BY <2>2 DEF ProcessInv, PlaceSound
    <3>2. \A x \in Procs \ {p} : proc'[x] = proc[x]
      BY <1>1, <2>2
    <3>3. proc'[p].at = "execv" /\ proc'[p].called = proc[p].called
      BY <1>1, <2>2 DEF Processes
    <3> QED
      BY <3>1, <3>2, <3>3 DEF FileForCommand
  <2>3. CASE proc[p].at = "execv" /\ proc' = [proc EXCEPT ![p].at = "command"]
    <3>1. \A x \in Procs \ {p} : proc'[x] = proc[x]
      BY <1>1, <2>3
    <3>2. /\ proc'[p].at = "command" /\ proc'[p].called = proc[p].called
          /\ proc'[p].stdout = proc[p].stdout
      BY <1>1, <2>3 DEF Processes
    <3> QED
      BY <2>3, <3>1, <3>2 DEF FileForCommand
  <2> QED
    BY <1>7, <2>1, <2>2, <2>3 DEF OpenOutput, Execv
<1>8. ASSUME NEW p \in Procs, Exit(p) \/ Killed(p) PROVE FileForCommand'
  <2>1. PICK s \in Statuses : proc' = [proc EXCEPT ![p].at = "zombie", ![p].status = s]
    BY <1>8 DEF Exit, Killed, Terminate, Statuses
  <2>2. \A x \in Procs \ {p} : proc'[x] = proc[x]
    BY <1>1, <2>1
  <2>3. /\ proc'[p].at = "zombie" /\ proc'[p].called = proc[p].called
        /\ proc'[p].stdout = proc[p].stdout
    BY <1>1, <2>1 DEF Processes
  <2> QED
    BY <2>2, <2>3 DEF FileForCommand
<1>9. ASSUME NEW p \in Procs, NEW f \in {"do_exec", "do_exec_redirect"}, Fork(p, f)
      PROVE  FileForCommand'
  <2>1. PICK c \in Procs :
          /\ proc[c].at = "unused"
          /\ proc' = [proc EXCEPT ![p] = ParentAfterFork(p, f, c), ![c] = ChildAfterFork(p, f)]
    BY <1>9 DEF Fork
  <2>2. proc[p].at = "code" /\ c # p /\ proc[p].stdout # "file"
    BY <1>9, <2>1 DEF Fork, FileForCommand
  <2>3. /\ ParentAfterFork(p, f, c).stdout = proc[p].stdout
        /\ ChildAfterFork(p, f).stdout = proc[p].stdout
    <3>1. proc[p] \in Processes
      BY <1>1
    <3> QED
      BY <3>1 DEF ParentAfterFork, ChildAfterFork, Entering, NoProcess, Processes
  <2>4. /\ proc'[p] = ParentAfterFork(p, f, c) /\ proc'[c] = ChildAfterFork(p, f)
        /\ \A x \in Procs \ {p, c} : proc'[x] = proc[x]
    BY <1>1, <2>1, <2>2
  <2> QED
    BY <2>2, <2>3, <2>4 DEF FileForCommand
<1>10. ASSUME NEW p \in Procs, Waitpid(p) PROVE FileForCommand'
  <2> DEFINE c == proc[p].pid
             d == [NoProcess EXCEPT !.at = "reaped"]
  <2>1. c \in Procs /\ c # p /\ proc[p].stdout # "file"
    BY <1>1, <1>10 DEF Waitpid, FileForCommand, ProcessInv, PlaceSound, Processes
  <2>2. PICK value, what : proc' = [proc EXCEPT ![p] = Returned(p, value, what), ![c] = d]
    BY <1>10 DEF Waitpid
  <2>3. d.stdout = "inherited"
    BY DEF NoProcess
  <2>4. /\ proc'[p] = Returned(p, value, what) /\ proc'[c] = d
        /\ \A x \in Procs \ {p, c} : proc'[x] = proc[x]
    BY <1>1, <2>1, <2>2
  <2>5. proc'[p].stdout # "file" /\ proc'[c].stdout # "file"
    BY <1>6, <2>1, <2>3, <2>4
  <2> HIDE DEF c, d
  <2> QED
    BY <2>4, <2>5 DEF FileForCommand
<1>11. ASSUME NEW p \in Procs, WaitpidFails(p) PROVE FileForCommand'
  BY <1>3, <1>6, <1>11 DEF WaitpidFails
<1>12. CASE UNCHANGED processVars
  BY <1>12 DEF processVars, FileForCommand
<1> QED
  BY <1>4, <1>5, <1>7, <1>8, <1>9, <1>10, <1>11, <1>12 DEF ProcessNext, Run

\* systemcalls.c:135-152: where execv() does not fail, no command but that of a
\* do_exec_redirect() ever writes to an output file, nor does any copy of the
\* program.  (Where it fails, the copy that goes on keeps the redirected output.)
THEOREM OutputContained ==
  ASSUME "execv" \notin CallFaults
  PROVE  ProcessSpec => []FileForCommand
<1>1. ProcessInit => FileForCommand
  BY DEF ProcessInit, NoProcess, FileForCommand
<1>2. ProcessInv /\ FileForCommand /\ [ProcessNext]_processVars => FileForCommand'
  BY FileNext
<1> QED
  BY <1>1, <1>2, ProcessCorrect, PTL DEF ProcessSpec
=============================================================================
