\* Two installs and a delete that may overlap, over what an earlier
\* installation left.
CONSTANTS
  Install = {i1, i2}
  Delete = {d}
  None = None
  Versioned = TRUE
  Remains <- MCRemains
  Short <- MCShort
SPECIFICATION Spec
SYMMETRY InstallSymmetry
CHECK_DEADLOCK FALSE
INVARIANTS
  IInv
  SuccessInstalls
  NothingDangles
  CutExplained
  SuccessesAddUp
PROPERTY ImplementsInstallation
