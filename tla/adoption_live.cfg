SPECIFICATION FairSpec
CONSTANTS
  op1 = op1
  op2 = op2
  s1 = s1
  s2 = s2
  None = None
  Adopters <- MCAdopters
  Sessions <- MCSessions
  Jobs <- LiveJobs
  InitialFaults <- Exact
PROPERTIES
  AdoptionsEnd
  LegacyWritersGoOn
