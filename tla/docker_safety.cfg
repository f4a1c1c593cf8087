\* Two commands that may overlap, an edit of the user and a dockerd that comes
\* and goes.
CONSTANTS
  Name <- MCName
  Dir <- MCDir
  UserPath <- MCUserPath
  Other <- MCOther
  SetupOptions <- SomeOptions
  Command = {c1, c2}
  MaxReloadAttempts = 1
  InitialFile <- Sound
  UserConfig <- OneUserConfig
  MaxEdits = 1
  None = None
SPECIFICATION Spec
SYMMETRY CommandSymmetry
CHECK_DEADLOCK FALSE
INVARIANTS
  IInv
  DefaultResolves
  UserSettingsKept
  BrokenFileExplained
  DaemonFollowsFile
  SuccessTakesEffect
PROPERTY ImplementsRuntimeConfig
