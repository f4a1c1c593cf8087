\* A setup and a cleanup one after the other.
CONSTANTS
  Name <- MCName
  Dir <- MCDir
  UserPath <- MCUserPath
  Other <- MCOther
  SetupOptions <- AllOptions
  Command = {c1, c2}
  MaxReloadAttempts = 1
  InitialFile <- Sound
  UserConfig <- MCUserConfig
  MaxEdits = 0
  None = None
SPECIFICATION Spec
CHECK_DEADLOCK FALSE
INVARIANT CleanupRemovesRuntime
