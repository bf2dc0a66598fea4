CONSTANTS
  l1 = l1
  l2 = l2
  l3 = l3
  l4 = l4
  Loggers = {l1, l2, l3, l4}
  Root = Root
  Derivation <- MCDerivation
  Keys = {"token", "port"}
  Values = {"", "short", "long"}
  SensitiveKeys = {"token"}
  Records <- MCRecords
  MaxLogged = 2
SPECIFICATION LoggingSpec
INVARIANT FieldsKept
