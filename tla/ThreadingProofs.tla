-------------------------- MODULE ThreadingProofs --------------------------
(***************************************************************************)
(* Proofs about the threading example for any number of threads and every  *)
(* set of calls that may fail.                                             *)
(***************************************************************************)
EXTENDS Threading, TLAPS

\* The inductive invariant: the three parts need each other.  A thread reports
\* success only if it no longer has the mutex, which is known from the label it
\* reports at.
ThreadingInv == ThreadingTypeOK /\ SuccessReleases /\ DataLifetime

LEMMA ThreadingInitInv == ThreadingInit => ThreadingInv
  BY ThreadingAssumption
  DEF ThreadingInit, ThreadingInv, ThreadingTypeOK, SuccessReleases, DataLifetime, Ended

\* The steps by which a thread's data comes and goes; the mutex stays.
LEMMA LifetimeStepInv ==
  ASSUME ThreadingInv, NEW t \in Threads,
         start_thread_obtaining_mutex(t) \/ StartFails(t) \/ JoinAndFree(t)
  PROVE  ThreadingInv'
<1> USE DEF start_thread_obtaining_mutex, StartFails, JoinAndFree, Step, Freed, ThreadingInv
<1>1. ThreadingTypeOK'
  BY DEF ThreadingTypeOK, Ended
<1>2. SuccessReleases'
  BY DEF ThreadingTypeOK, SuccessReleases, Ended
<1>3. DataLifetime'
  BY DEF ThreadingTypeOK, DataLifetime
<1> QED
  BY <1>1, <1>2, <1>3

\* The steps of threadfunc() that fail or only wait.
LEMMA WaitStepInv ==
  ASSUME ThreadingInv, NEW t \in Threads,
         WaitToObtain(t) \/ WaitToRelease(t) \/ ThreadFails(t)
  PROVE  ThreadingInv'
<1> USE DEF WaitToObtain, WaitToRelease, ThreadFails, Fails, Step, ThreadingInv
<1>1. ThreadingTypeOK'
  BY DEF ThreadingTypeOK, Ended
<1>2. SuccessReleases'
  BY DEF ThreadingTypeOK, SuccessReleases, Ended
<1>3. DataLifetime'
  BY DEF ThreadingTypeOK, DataLifetime
<1> QED
  BY <1>1, <1>2, <1>3

\* The steps of threadfunc() that take the mutex, give it back and report.
LEMMA MutexStepInv ==
  ASSUME ThreadingInv, NEW t \in Threads, Obtain(t) \/ Release(t) \/ Report(t)
  PROVE  ThreadingInv'
<1> USE DEF Obtain, Release, Report, Step, ThreadingInv
<1>1. ThreadingTypeOK'
  BY DEF ThreadingTypeOK, Ended
<1>2. SuccessReleases'
  BY ThreadingAssumption DEF ThreadingTypeOK, SuccessReleases, Ended
<1>3. DataLifetime'
  BY DEF ThreadingTypeOK, DataLifetime
<1> QED
  BY <1>1, <1>2, <1>3

LEMMA CallerStepInv ==
  ASSUME ThreadingInv, CallerLock \/ CallerUnlock
  PROVE  ThreadingInv'
<1> USE DEF CallerLock, CallerUnlock, ThreadingInv
<1>1. ThreadingTypeOK'
  BY DEF ThreadingTypeOK, Ended
<1>2. SuccessReleases'
  BY ThreadingAssumption DEF SuccessReleases, Ended
<1>3. DataLifetime'
  BY DEF DataLifetime
<1> QED
  BY <1>1, <1>2, <1>3

LEMMA ThreadingNextInv == ThreadingInv /\ [ThreadingNext]_threadingVars => ThreadingInv'
<1> SUFFICES ASSUME ThreadingInv, [ThreadingNext]_threadingVars PROVE ThreadingInv'
  OBVIOUS
<1>1. ASSUME NEW t \in Threads,
             start_thread_obtaining_mutex(t) \/ StartFails(t) \/ JoinAndFree(t)
      PROVE  ThreadingInv'
  BY <1>1, LifetimeStepInv
<1>2. ASSUME NEW t \in Threads, threadfunc(t) \/ Obtain(t) \/ ThreadFails(t)
      PROVE  ThreadingInv'
  BY <1>2, WaitStepInv, MutexStepInv DEF threadfunc
<1>3. CASE CallerLock \/ CallerUnlock
  BY <1>3, CallerStepInv
<1>4. CASE UNCHANGED threadingVars
  BY <1>4 DEF threadingVars, ThreadingInv, ThreadingTypeOK, SuccessReleases, DataLifetime, Ended
<1> QED
  BY <1>1, <1>2, <1>3, <1>4 DEF ThreadingNext

\* The inductive invariant holds in every behaviour of the example.
THEOREM ThreadingCorrect == ThreadingSpec => []ThreadingInv
  BY ThreadingInitInv, ThreadingNextInv, PTL DEF ThreadingSpec

\* The state keeps its types, and thread_complete_success is not set before
\* threadfunc() is through (threading.c:37).
THEOREM ThreadingTypeCorrect == ThreadingSpec => []ThreadingTypeOK
<1>1. ThreadingInv => ThreadingTypeOK
  BY DEF ThreadingInv
<1> QED
  BY <1>1, ThreadingCorrect, PTL

\* threading.c:11-40: two threads never hold the mutex at once, and one that set
\* thread_complete_success has released it, whichever calls fail.
THEOREM SuccessCorrect == ThreadingSpec => []SuccessReleases
<1>1. ThreadingInv => SuccessReleases
  BY DEF ThreadingInv
<1> QED
  BY <1>1, ThreadingCorrect, PTL

\* threading.c:43-65 and the caller's free(): a thread's data is allocated from
\* its start to its join and at no other time.
THEOREM LifetimeCorrect == ThreadingSpec => []DataLifetime
<1>1. ThreadingInv => DataLifetime
  BY DEF ThreadingInv
<1> QED
  BY <1>1, ThreadingCorrect, PTL
=============================================================================
