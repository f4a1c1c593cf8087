\* Two commands that may overlap, an edit of the user who has a version 1 file
\* with a runtime of their own, and a containerd that comes and goes.
CONSTANTS
  Class <- MCClass
  Dir <- MCDir
  UserBinary <- MCUserBinary
  Base <- MCBase
  PlainBase <- MCPlainBase
  DefaultBase = "default"
  Other <- MCOther
  SetupOptions <- SomeOptions
  Command = {c1, c2}
  MaxReloadAttempts = 1
  InitialFile <- NoFile
  UserConfig <- OldWithRunc
  MaxEdits = 1
  None = None
SPECIFICATION Spec
CHECK_DEADLOCK FALSE
SYMMETRY CommandSymmetry
INVARIANTS
  IInv
  DefaultResolves
  UserSettingsKept
  DaemonFollowsFile
  StandardClassRemoved
  SuccessTakesEffect
