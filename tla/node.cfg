\* Two instances of nvidia-toolkit with their commands: one after the other,
\* or at once when the lock does not keep them apart.
CONSTANTS
  Proc = {p1, p2}
  None = None
  Empty = Empty
  Mixed = Mixed
  Modes = {"daemon"}
SPECIFICATION Spec
SYMMETRY ProcSymmetry
CHECK_DEADLOCK FALSE
INVARIANTS
  IInv
  WaitingMeansUsable
  RunningHookResolves
  UnreadableHookExplained
PROPERTY ImplementsDaemon
