CONSTANTS
  a = a
  b = b
  c = c
  Names <- MCNames
  Configs <- MCPair
  MaxStartups = 1
SPECIFICATION Spec
PROPERTY StartupEnds
