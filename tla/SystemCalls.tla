---------------------------- MODULE SystemCalls ----------------------------
(***************************************************************************)
(* examples/systemcalls: a program that runs commands with do_system(),    *)
(* do_exec() and do_exec_redirect().  After fork() the child is a second   *)
(* copy of the program: if it cannot become the command it returns from    *)
(* the function as its parent does, and goes on with the caller's code.    *)
(***************************************************************************)
CONSTANTS
  Procs,      \* process ids
  MAIN,       \* the process the program starts in
  NULL,
  CallFaults  \* the calls that may fail, and "killed" if a signal may end a copy of
              \* the program while it is inside one of the functions

ASSUME SystemCallsAssumption == MAIN \in Procs /\ NULL \notin Procs /\ NULL \notin BOOLEAN

VARIABLES
  proc,      \* the processes
  deserted   \* history: whether a process stopped waiting before its child ended

processVars == <<proc, deserted>>

Functions == {"do_system", "do_exec", "do_exec_redirect"}
Statuses == {"zero", "nonzero", "signal"}

Processes ==
  [at      : {"unused", "code", "wait", "open", "execv", "command", "zombie", "reaped"},
   pid     : Procs \cup {NULL},        \* what fork() returned in the last call
   called  : Functions \cup {NULL},    \* the function called last
   ret     : BOOLEAN \cup {NULL},      \* what it returned
   stdout  : {"inherited", "file"},    \* where file descriptor 1 leads
   status  : Statuses \cup {NULL},     \* how the process ended
   outcome : Statuses \cup {"failed", "unknown", NULL}]
                                       \* history: what became of its command

NoProcess ==
  [at |-> "unused", pid |-> NULL, called |-> NULL, ret |-> NULL,
   stdout |-> "inherited", status |-> NULL, outcome |-> NULL]

ProcessInit ==
  /\ proc = [p \in Procs |-> IF p = MAIN THEN [NoProcess EXCEPT !.at = "code"] ELSE NoProcess]
  /\ deserted = FALSE

\* Mutant: the function ends without a return statement.
ReturnedNothing(p, value, what) == [proc[p] EXCEPT !.at = "code", !.outcome = what]

\* Process p, returned from a function into the caller's code.
Returned(p, value, what) ==
  [proc[p] EXCEPT !.at = "code", !.ret = value, !.outcome = what]

\* A process in the caller's code enters a function.
Entering(p, f) == [proc[p] EXCEPT !.called = f, !.pid = NULL, !.ret = NULL, !.outcome = NULL]

\* system() runs the whole command; -1 means that it could not.
do_system(p) ==
  /\ proc[p].at = "code"
  /\ \E what \in Statuses \cup {"failed"} :
       /\ what = "failed" => "system" \in CallFaults
       /\ proc' = [proc EXCEPT ![p] = [Entering(p, "do_system") EXCEPT
                                         !.ret = what # "failed", !.outcome = what]]

\* do_exec() refuses a command without an absolute path; fork() fails.
NotForked(p, f) ==
  /\ proc[p].at = "code"
  /\ f = "do_exec" \/ "fork" \in CallFaults
  /\ proc' = [proc EXCEPT ![p] = [Entering(p, f) EXCEPT !.ret = FALSE, !.outcome = "failed"]]

\* Mutant: standard output is redirected before fork().
ParentAfterForkRedirected(p, f, c) ==
  [Entering(p, f) EXCEPT !.at = "wait", !.pid = c,
                         !.stdout = IF f = "do_exec_redirect" THEN "file" ELSE @]

\* Mutant: the parent does not wait.
ParentReturns(p, f, c) ==
  [Entering(p, f) EXCEPT !.at = "code", !.pid = c, !.ret = TRUE, !.outcome = "zero"]

\* The parent goes on to waitpid().
ParentAfterFork(p, f, c) == [Entering(p, f) EXCEPT !.at = "wait", !.pid = c]

\* The child goes on to open() or execv(), with the parent's descriptors.
ChildAfterFork(p, f) ==
  [NoProcess EXCEPT !.at = IF f = "do_exec" THEN "execv" ELSE "open",
                    !.called = f, !.stdout = proc[p].stdout]

Fork(p, f) ==
  /\ proc[p].at = "code"
  /\ \E c \in Procs :
       /\ proc[c].at = "unused"
       /\ proc' = [proc EXCEPT ![p] = ParentAfterFork(p, f, c), ![c] = ChildAfterFork(p, f)]

\* open(outputfile) and dup2(fd, 1) in the child; only the first is checked.
OpenOutput(c) ==
  /\ proc[c].at = "open"
  /\ \/ proc' = [proc EXCEPT ![c].at = "execv", ![c].stdout = "file"]
     \/ "dup2" \in CallFaults /\ proc' = [proc EXCEPT ![c].at = "execv"]
     \/ "open" \in CallFaults /\ proc' = [proc EXCEPT ![c] = Returned(c, FALSE, "failed")]

\* execv(command[0], command): a failure returns false in the child.
Execv(c) ==
  /\ proc[c].at = "execv"
  /\ \/ proc' = [proc EXCEPT ![c].at = "command"]
     \/ "execv" \in CallFaults /\ proc' = [proc EXCEPT ![c] = Returned(c, FALSE, "failed")]

\* Process c ends with status s.
Terminate(c, s) == proc' = [proc EXCEPT ![c].at = "zombie", ![c].status = s]

\* The command ends, or a child's copy of the program does.
Exit(c) ==
  /\ c # MAIN
  /\ proc[c].at \in {"command", "code"}
  /\ \E s \in Statuses : Terminate(c, s)

\* A signal ends a child inside one of the functions.  If it waits for a child of
\* its own then nobody does any more.
Killed(c) ==
  /\ "killed" \in CallFaults
  /\ c # MAIN
  /\ proc[c].at \in {"open", "execv", "wait"}
  /\ Terminate(c, "signal")

\* What became of the command that process c was forked for: it was run if c
\* never returned into the program, where it may have called a function again.
Became(c) ==
  IF proc[c].ret = NULL /\ proc[c].pid = NULL THEN proc[c].status ELSE "failed"

\* Mutant: the exit status is not compared with 0.
SucceededIfExited(s) == TRUE

\* WIFEXITED and WEXITSTATUS: a child that a signal killed falls through to
\* "return true".
Succeeded(s) == s # "nonzero"

\* waitpid(pid, &status, 0), which returns when the child has ended.
Waitpid(p) ==
  /\ proc[p].at = "wait"
  /\ LET c == proc[p].pid
     IN  /\ proc[c].at = "zombie"
         /\ proc' = [proc EXCEPT ![p] = Returned(p, Succeeded(proc[c].status), Became(c)),
                                 ![c] = [NoProcess EXCEPT !.at = "reaped"]]

\* waitpid() is interrupted: the child is left behind.
WaitpidFails(p) ==
  /\ "waitpid" \in CallFaults
  /\ proc[p].at = "wait"
  /\ proc' = [proc EXCEPT ![p] = Returned(p, FALSE, "unknown")]

\* What a process does inside one of the functions.
Run(p) == OpenOutput(p) \/ Execv(p) \/ Waitpid(p)

ProcessNext ==
  \E p \in Procs :
    \/ /\ \/ do_system(p)
          \/ \E f \in {"do_exec", "do_exec_redirect"} : NotForked(p, f) \/ Fork(p, f)
          \/ Run(p) \/ Exit(p)
       /\ deserted' = deserted
    \/ /\ WaitpidFails(p) \/ Killed(p)
       /\ deserted' = (deserted \/ proc[p].at = "wait")

ProcessSpec == ProcessInit /\ [][ProcessNext]_processVars

-----------------------------------------------------------------------------
(* Properties.                                                             *)

\* Processes have their types, and a function that has returned, to its caller or
\* in a child that could not run the command, has returned a value.
ProcessTypeOK ==
  /\ proc \in [Procs -> Processes]
  /\ \A p \in Procs : proc[p].at = "code" /\ proc[p].called # NULL => proc[p].ret # NULL

\* What the result of do_exec() and do_exec_redirect() says of a command that was
\* run: true if it exited with 0 and false if with anything else.  The result is
\* also false if there is no child, in the child itself when it returns, and if
\* waitpid() failed.  (TrueOnlyIfZero is the rest of what systemcalls.c:37-40
\* promises, and does not hold.)
ResultReported ==
  \A p \in Procs :
    proc[p].ret # NULL /\ proc[p].called # "do_system" =>
      /\ proc[p].outcome = "zero" => proc[p].ret = TRUE
      /\ proc[p].outcome \in {"nonzero", "unknown"} => proc[p].ret = FALSE
      /\ proc[p].pid = NULL => proc[p].ret = FALSE

\* When do_exec() or do_exec_redirect() has returned, the process it forked has
\* ended and been waited for, whatever that process became.  The only way to
\* leave it behind is a failed waitpid(), and then the caller gets false.
ChildrenReaped ==
  \A p \in Procs :
    proc[p].pid # NULL /\ proc[p].ret # NULL =>
      \/ proc[proc[p].pid].at = "reaped"
      \/ proc[p].outcome = "unknown" /\ proc[p].ret = FALSE

\* A process that runs, or that has ended and is not yet waited for.
Busy(p) == proc[p].at \notin {"unused", "wait", "reaped"}

\* A child that could not run its command goes on with the caller's code, and
\* so does its parent; but never at the same time: each process of the program
\* waits until all that its child did, as a command or as a copy of the program
\* with children of its own, is over.  Only after a waitpid() that failed, or a
\* signal that ended a copy in its waitpid(), may two of them run.
RunsAlone == ~deserted => \A p, q \in Procs : Busy(p) /\ Busy(q) => p = q

\* Redirection stays in the child: the program keeps its own output, and a
\* command writes where the process that ran it does unless it was run by
\* do_exec_redirect().  (That process may itself be a copy whose output was
\* redirected before its execv() failed.)
OutputSeparate ==
  /\ proc[MAIN].stdout = "inherited"
  /\ \A p, c \in Procs :
       proc[p].pid = c /\ proc[c].at = "command" =>
         \/ proc[c].stdout = proc[p].stdout
         \/ proc[c].called = "do_exec_redirect" /\ proc[c].stdout = "file"

-----------------------------------------------------------------------------
(* What comments say and the code does not do.                             *)

\* systemcalls.c:5-8: do_system() returns false "if a non-zero return value was
\* returned by the command".
SystemReportsStatus ==
  \A p \in Procs : proc[p].called = "do_system" /\ proc[p].outcome = "nonzero"
                    => proc[p].ret = FALSE

\* systemcalls.c:37-40: do_exec() returns true "if the command ... were executed
\* successfully", and false "if an error occurred, either in invocation of the
\* fork, waitpid, or execv() command".
TrueOnlyIfZero ==
  \A p \in Procs : proc[p].called # "do_system" /\ proc[p].ret = TRUE
                    => proc[p].outcome = "zero"
=============================================================================
