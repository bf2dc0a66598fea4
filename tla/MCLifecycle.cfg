CONSTANTS
  a = a
  b = b
  c = c
  Names <- MCNames
  Configs <- MCConfigs
  MaxStartups = 2
SPECIFICATION Spec
INVARIANTS
  StartsOnLiveDependencies
  StopsAfterDependents
  BooksMatchServices
  EventsMatchBooks
PROPERTIES
  ImplementsDependencyOrder
  ShutdownEnds
