CONSTANTS
  kBufferStartLength = 3
  Byte <- Bytes
  NL <- Newline
  Junk <- Bytes
  MaxReceived = 6
  Threads = {t1, t2}
  CALLER = CALLER
  NOBODY = NOBODY
  NULL = NULL
  ThreadFaults = {"calloc", "pthread_create", "usleep", "lock", "unlock"}
  Procs = {p1, p2, p3}
  MAIN = p1
  CallFaults = {"system", "fork", "open", "dup2", "execv", "waitpid", "killed"}
SPECIFICATION PartsSpec
INVARIANTS
  Bounds
  ReceivedKept
  FirstBlockClean
  ShortRequestExact
  ThreadingTypeOK
  SuccessReleases
  DataLifetime
  ProcessTypeOK
  ResultReported
  ChildrenReaped
  RunsAlone
  OutputSeparate
PROPERTIES
  ThreadsEnd
CHECK_DEADLOCK FALSE
