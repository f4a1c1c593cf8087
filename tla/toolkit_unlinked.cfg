\* The pid file is removed between open and lock of another execution.
CONSTANTS
  Proc = {p1, p2, p3}
  None = None
  Empty = Empty
  Mixed = Mixed
SPECIFICATION Spec
SYMMETRY ProcSymmetry
CHECK_DEADLOCK FALSE
INVARIANT SingleLockHolder
