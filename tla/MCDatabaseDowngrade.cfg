\* New may have been called as often as the bound allows.
CHECK_DEADLOCK FALSE
CONSTANTS
  Releases = {2, 3, 4, 5}
  Baseline = 2
  WithBackup = TRUE
  MaxBackups = 1
  NoTable = NoTable
  Partial = Partial
  MaxOpens = 2
SPECIFICATION DatabaseSpec
INVARIANT NoSilentDowngrade
