\* The collector closes the descriptor that carries the lock.
CONSTANTS
  Proc = {p1, p2}
  None = None
  Empty = Empty
  Mixed = Mixed
SPECIFICATION Spec
SYMMETRY ProcSymmetry
CHECK_DEADLOCK FALSE
INVARIANT SingleInstance
