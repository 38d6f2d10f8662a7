CONSTANTS
  j1 = j1
  j2 = j2
  j3 = j3
  a1 = a1
  h1 = h1
  h2 = h2
  Job <- ThreeJobs
  Scheduled <- OneScheduled
  Agent <- OneAgent
  NoAgent = NoAgent
  Hash <- TwoHashes
  NoHash = NoHash
  Limit <- Limits
  QueueLimit = 2
  InputCapacity = 2
  ResultCapacity = 2
SPECIFICATION Spec
INVARIANTS
  StartDecidedOnce
  ReleaseIsConfirmed
  EndedIsSettled
  VerdictIsEarned
  ReportHasRoom
  ReservationsFit
PROPERTIES
  EndIsFinal
  RevokedAgentIsMute
CONSTRAINT Halves
SYMMETRY Symmetry
