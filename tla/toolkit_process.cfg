\* One execution under fair scheduling.  Another execution bears on this one
\* only through the lock, and who is refused the lock ends at once.
CONSTANTS
  Proc = {p1}
  None = None
  Empty = Empty
  Mixed = Mixed
SPECIFICATION FairSpec
CHECK_DEADLOCK FALSE
PROPERTIES
  ImplementsExitDecision
  SignalTerminates
  NoDaemonTerminates
