\* Every part ends: the calls are counted, and a submission is made once.
CHECK_DEADLOCK FALSE
CONSTANTS
  l1 = l1
  l2 = l2
  l3 = l3
  l4 = l4
  l5 = l5
  Loggers = {l1, l2, l3, l4, l5}
  Root = Root
  Derivation <- MCDerivation
  Keys = {"token", "port"}
  Values = {"", "short", "long"}
  SensitiveKeys = {"token"}
  Records <- MCRecords
  MaxLogged = 2
  MaxLines = 1
  MaxLogSize = 2
  PasswordKeys = {"token"}
  SettingsValues <- MCSettings
  Collectors <- MCCollectors
  CrashLogs = 1
  MaxBundles = 2
  RetryLimits <- MCRetryLimits
  MaxWrites = 3
SPECIFICATION Spec
INVARIANTS
  NoSecretLogged
  LogsWithinCap
  SubmittedWasReceived
  RetriesJustified
PROPERTIES
  ImplementsBundleFile
  SubmitEnds
