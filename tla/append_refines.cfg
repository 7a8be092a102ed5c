SPECIFICATION FairSpec
CONSTANTS
  p1 = p1
  p2 = p2
  support = support
  billing = billing
  viewer = viewer
  k1 = k1
  NoKey = NoKey
  None = None
  filed = filed
  closed = closed
  blank = blank
  plain = plain
  tokenA = tokenA
  tokenB = tokenB
  masked = masked
  legacy = legacy
  huge = huge
  Keys = {k1}
  Providers <- MCProviders
  Callers <- MCCallers
  WriterInstances <- MCWriters
  Bodies <- MCBodies
  InvalidBodies <- MCInvalid
  Metas <- MCMetas
  RedactedAs <- MCRedactedAs
  Reserved = {legacy}
  Unwirable = {huge}
  Times <- MCTimes
  Requests <- RetriedRequests
  MaxFresh = 2
  MaxClock = 0
INVARIANTS
  IInv
PROPERTIES
  KeepsPromise
  AppendsEnd
