\* Two executions that may overlap: every interleaving of both main
\* goroutines, both signal goroutines, kills and stray commands.
CONSTANTS
  Proc = {p1, p2}
  None = None
  Empty = Empty
  Mixed = Mixed
SPECIFICATION Spec
SYMMETRY ProcSymmetry
CHECK_DEADLOCK FALSE
INVARIANTS
  IInv
  CleanupNotInterrupted
  NeverDeadlocked
  ExclusiveUntilRemoved
  PidFileNamesOnlyHolder
  WaitingMeansConfigured
PROPERTIES
  GracefulExitRestores
  RefusedOnlyByLiveHolder
