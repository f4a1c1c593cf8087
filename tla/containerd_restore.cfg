\* A setup and a cleanup with the same options.
CONSTANTS
  Class <- MCClass
  Dir <- MCDir
  UserBinary <- MCUserBinary
  Base <- MCBase
  PlainBase <- MCPlainBase
  DefaultBase = "default"
  Other <- MCOther
  SetupOptions <- QuietOptions
  Command = {c1, c2}
  MaxReloadAttempts = 1
  InitialFile <- Sound
  UserConfig <- MCUserConfig
  MaxEdits = 0
  None = None
SPECIFICATION Spec
CHECK_DEADLOCK FALSE
INVARIANT ConfigRestored
