\* One command on any file, in every restart mode and with the real number of
\* attempts, and an edit of the user at any moment.
CONSTANTS
  Class <- MCClass
  Dir <- MCDir
  UserBinary <- MCUserBinary
  Base <- MCBase
  PlainBase <- MCPlainBase
  DefaultBase = "default"
  Other <- MCOther
  SetupOptions <- AllOptions
  Command = {c1}
  MaxReloadAttempts = 6
  InitialFile <- AnyFile
  UserConfig <- MCUserConfig
  MaxEdits = 1
  None = None
SPECIFICATION FairSpec
CHECK_DEADLOCK FALSE
PROPERTIES
  CommandTerminates
  NeverSetBack
  ImplementsRuntimeConfig
