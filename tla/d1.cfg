SPECIFICATION Spec
CONSTANTS
  w1 = w1
  w2 = w2
  o1 = o1
  o2 = o2
  support = support
  k1 = k1
  NoKey = NoKey
  None = None
  filed = filed
  closed = closed
  float = float
  integer = integer
  Keys = {k1}
  Workers <- MCWorkers
  Operators <- MCOperators
  Callers = {support}
  WriterInstances = {support}
  Bodies = {filed, closed}
  InvalidBodies = {}
  Metas <- MCMetas
  RedactedAs <- MCRedactedAs
  Readings <- MCReadings
  AsJavaScript <- MCAsJavaScript
  Reserved = {}
  Unwirable = {}
  Times <- MCTimes
  Requests <- MCRequests
  MaxFresh = 1
  MaxClock = 1
  MaxOrphans = 1
SYMMETRY OperatorSymmetry
INVARIANTS
  TypeOK
  SetupIsTrue
  ServesManagedSchema
PROPERTIES
  ManagedSchemaIsKept
  KeepsPromise
