SPECIFICATION FairSpec
CONSTANTS
  c1 = c1
  c2 = c2
  Calls <- MCCalls
  PoolSize = 1
  MaxPools = 3
INVARIANTS
  TypeOK
  LiveIsOpen
  DeactivatedIsQuiet
PROPERTIES
  CallsEnd
  DeactivationEnds
  StraysEnd
