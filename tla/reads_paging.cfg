SPECIFICATION FairSpec
CONSTANTS
  console = console
  management = management
  support = support
  Absent = Absent
  Callers <- PagingCallers
  ReaderInstances <- PagingCallers
  ReaderScopes <- NoReaderScopes
  Events <- MCEvents
  Wirable <- PagingWirable
  Queries <- PagingQueries
  Limits = {1, 2}
INVARIANTS
  TypeOK
  ScanIsExact
PROPERTIES
  PagesDescend
  ScansEnd
