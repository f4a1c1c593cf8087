\* One command on any file, sound or not, with the real number of attempts.
CONSTANTS
  Name <- MCName
  Dir <- MCDir
  UserPath <- MCUserPath
  Other <- MCOther
  SetupOptions <- AllOptions
  Command = {c1}
  MaxReloadAttempts = 6
  InitialFile <- AnyFile
  UserConfig <- MCUserConfig
  MaxEdits = 1
  None = None
SPECIFICATION FairSpec
CHECK_DEADLOCK FALSE
PROPERTIES
  CommandTerminates
  NeverSetBack
