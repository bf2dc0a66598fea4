\* The executable may be gone for good, and downloads and calls of New used up.
CHECK_DEADLOCK FALSE
CONSTANTS
  w1 = w1
  w2 = w2
  Workers = {w1, w2}
  Versions = {1, 2, 3}
  Signed = {2}
  Missing = Missing
  Torn = Torn
  NoFile = NoFile
  MaxDownloads = 2
  MaxRestarts = 1
  Releases = {2, 3, 4, 5}
  Baseline = 2
  WithBackup = TRUE
  MaxBackups = 1
  NoTable = NoTable
  Partial = Partial
  MaxOpens = 6
SYMMETRY Symmetry
SPECIFICATION Spec
INVARIANTS
  OnlyVerifiedRuns
  AlwaysRecoverable
  ApplyAllOrNothing
  VersionTellsSchema
  DowngradeRefused
  BackedUp
