CONSTANTS
  Workers = 2
  Vus = 2
  MaxConcurrency = 1
  MaxIterations = 2
  MaxRequests = 1
  MaxFaults = 1
SPECIFICATION StressSpec
INVARIANTS
  WithinLimit
  CompleteIsWhole
  ProjectionKnowsAll
  NothingLeftOpen
PROPERTIES
  RunEnds
CONSTRAINT Focus
CHECK_DEADLOCK FALSE
