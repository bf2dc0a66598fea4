\* The application may have nothing more to save.
CHECK_DEADLOCK FALSE
CONSTANTS
  s1 = s1
  s2 = s2
  m = m
  number = number
  Setters = {s1, s2}
  Readers = {m}
  Fields <- MCFields
  Booleans = {}
  Numbers = {number}
  Forms <- MCForms
  Mask = "mask"
  Defaults <- MCDefaults
  Env <- MCEnv
  NoFile = NoFile
  Garbage = Garbage
  Torn = Torn
  OldFiles <- MCOldFiles
  Nobody = Nobody
  MaxCalls = 1
  MaxCrashes = 0
  Registered = {"anthropic"}
  NoProvider = NoProvider
SPECIFICATION ProviderSpec
INVARIANT ProviderHasSecret
