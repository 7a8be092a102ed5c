SPECIFICATION Spec
CONSTANTS
  console = console
  management = management
  support = support
  Absent = Absent
  Callers <- MCCallers
  ReaderInstances <- MCReaders
  ReaderScopes <- MCReaderScopes
  Events <- CeilingEvents
  Wirable <- MCWirable
  Queries <- CeilingQueries
  Limits = {1}
INVARIANTS
  CeilingHolds
  DeniedLooksAbsent
