SPECIFICATION Spec
CONSTANTS
  op1 = op1
  op2 = op2
  s1 = s1
  s2 = s2
  None = None
  Adopters <- MCAdopters
  Sessions <- MCSessions
  Jobs <- MCJobs
  InitialFaults <- Unfit
SYMMETRY ActorSymmetry
INVARIANTS
  TypeOK
  AdoptedOnce
  OutcomeIsTrue
  ParticipantsNeverDeadlock
PROPERTIES
  AdoptionIsExact
  AdoptsAtomically
