----------------------------- MODULE Threading -----------------------------
(***************************************************************************)
(* examples/threading: a caller starts threads that sleep, obtain the      *)
(* caller's mutex, sleep while they hold it and release it.  Every thread  *)
(* returns its thread_data to the caller, which joins it and frees the     *)
(* data.                                                                   *)
(***************************************************************************)
CONSTANTS
  Threads,      \* threads the caller tries to start, each once
  CALLER,       \* the caller, which uses the mutex too
  NOBODY,
  ThreadFaults  \* the calls that may fail

ASSUME ThreadingAssumption == CALLER # NOBODY /\ {CALLER, NOBODY} \cap Threads = {}

VARIABLES
  thread,      \* where each thread is
  mutex,       \* who holds the mutex, or NOBODY
  success,     \* thread_data->thread_complete_success
  allocated    \* the threads whose thread_data is allocated

threadingVars == <<thread, mutex, success, allocated>>

ThreadingInit ==
  /\ thread = [t \in Threads |-> "none"]
  /\ mutex = NOBODY
  /\ success = [t \in Threads |-> FALSE]
  /\ allocated = {}

Step(t, from, to) == thread[t] = from /\ thread' = [thread EXCEPT ![t] = to]

\* The caller starts a thread; true is returned.
start_thread_obtaining_mutex(t) ==
  /\ Step(t, "none", "obtain")
  /\ allocated' = allocated \cup {t}
  /\ UNCHANGED <<mutex, success>>

\* Mutant: the data is not freed when pthread_create() fails.
FreedNever(t) == allocated \cup {t}

\* What is allocated after free(pThreadData).
Freed(t) == allocated \ {t}

\* calloc() or pthread_create() fails; false is returned.
StartFails(t) ==
  /\ ThreadFaults \cap {"calloc", "pthread_create"} # {}
  /\ Step(t, "none", "refused")
  /\ allocated' = Freed(t)
  /\ UNCHANGED <<mutex, success>>

\* usleep(wait_to_obtain_ms * 1000)
WaitToObtain(t) ==
  /\ Step(t, "obtain", "lock")
  /\ UNCHANGED <<mutex, success, allocated>>

\* pthread_mutex_lock()
Obtain(t) ==
  /\ mutex = NOBODY
  /\ Step(t, "lock", "hold")
  /\ mutex' = t
  /\ UNCHANGED <<success, allocated>>

\* Mutant: success is reported before pthread_mutex_unlock() returns.
WaitToReleaseReporting(t) ==
  /\ Step(t, "hold", "release")
  /\ success' = [success EXCEPT ![t] = TRUE]
  /\ UNCHANGED <<mutex, allocated>>

\* usleep(wait_to_release_ms * 1000)
WaitToRelease(t) ==
  /\ Step(t, "hold", "release")
  /\ UNCHANGED <<mutex, success, allocated>>

\* Mutant: success is reported without unlocking.
ReleaseNothing(t) ==
  /\ Step(t, "release", "report")
  /\ UNCHANGED <<mutex, success, allocated>>

\* pthread_mutex_unlock()
Release(t) ==
  /\ Step(t, "release", "report")
  /\ mutex' = NOBODY
  /\ UNCHANGED <<success, allocated>>

\* thread_complete_success = true; return thread_param
Report(t) ==
  /\ Step(t, "report", "finished")
  /\ success' = [success EXCEPT ![t] = TRUE]
  /\ UNCHANGED <<mutex, allocated>>

\* Mutant: failures lead to the common end of the function.
FailsToReport(t, label) == Step(t, label, "report")

\* A failing call returns at once, the mutex as it is.
Fails(t, label) == Step(t, label, "finished")

ThreadFails(t) ==
  /\ \/ "usleep" \in ThreadFaults /\ (Fails(t, "obtain") \/ Fails(t, "hold"))
     \/ "lock" \in ThreadFaults /\ Fails(t, "lock")
     \/ "unlock" \in ThreadFaults /\ Fails(t, "release")
  /\ UNCHANGED <<mutex, success, allocated>>

threadfunc(t) == WaitToObtain(t) \/ WaitToRelease(t) \/ Release(t) \/ Report(t)

\* The caller joins a thread and frees what it returned (threading.h:5-8).
JoinAndFree(t) ==
  /\ Step(t, "finished", "joined")
  /\ allocated' = allocated \ {t}
  /\ UNCHANGED <<mutex, success>>

\* The caller uses the mutex.
CallerLock ==
  /\ mutex = NOBODY
  /\ mutex' = CALLER
  /\ UNCHANGED <<thread, success, allocated>>

CallerUnlock ==
  /\ mutex = CALLER
  /\ mutex' = NOBODY
  /\ UNCHANGED <<thread, success, allocated>>

ThreadingNext ==
  \/ \E t \in Threads : \/ start_thread_obtaining_mutex(t) \/ StartFails(t)
                        \/ threadfunc(t) \/ Obtain(t) \/ ThreadFails(t)
                        \/ JoinAndFree(t)
  \/ CallerLock \/ CallerUnlock

\* Started threads run, the caller releases the mutex, and the mutex is not
\* denied for ever to a thread that waits while others take it in turn.
ThreadingFairness ==
  /\ \A t \in Threads : WF_threadingVars(threadfunc(t)) /\ SF_threadingVars(Obtain(t))
  /\ WF_threadingVars(CallerUnlock)

ThreadingSpec == ThreadingInit /\ [][ThreadingNext]_threadingVars /\ ThreadingFairness

-----------------------------------------------------------------------------
(* Properties.                                                             *)

Ended(t) == thread[t] \in {"finished", "joined"}

\* The state has its types, and success is not reported before the thread is
\* through.
ThreadingTypeOK ==
  /\ thread \in [Threads -> {"none", "refused", "obtain", "lock", "hold", "release",
                             "report", "finished", "joined"}]
  /\ mutex \in Threads \cup {CALLER, NOBODY}
  /\ success \in [Threads -> BOOLEAN]
  /\ allocated \subseteq Threads
  /\ \A t \in Threads : success[t] => Ended(t)

\* Two threads never hold the mutex at once, and a thread that reports
\* success has released it: the caller can tell from thread_complete_success
\* whether the mutex came back.  (A thread that fails after pthread_mutex_lock
\* keeps it, threading.c:27-35.)
SuccessReleases ==
  \A t \in Threads :
    /\ thread[t] \in {"hold", "release"} => mutex = t
    /\ mutex = t => thread[t] \in {"hold", "release"} \/ (Ended(t) /\ ~success[t])

\* thread_data lives from a successful start to the join, for every thread,
\* and no longer: nothing is freed under a running thread and nothing leaks.
DataLifetime ==
  \A t \in Threads : t \in allocated <=> thread[t] \notin {"none", "refused", "joined"}

Abandoned == \E t \in Threads : mutex = t /\ Ended(t) /\ ~success[t]

\* Every thread that was started ends, unless one of them failed with the
\* mutex held.
ThreadsEnd == \A t \in Threads : thread[t] = "obtain" ~> Ended(t) \/ Abandoned
=============================================================================
