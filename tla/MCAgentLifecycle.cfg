CONSTANTS
  j1 = j1
  j2 = j2
  j3 = j3
  Job <- ThreeJobs
  MaxSlots = 2
  ResultSlots = 1
  FaultSlots = 3
  MaxStops = 2
SPECIFICATION AgentSpec
INVARIANTS
  AtMostOneRun
  FactIsTruthful
  SettledHasStopped
  OpenIsTended
  SlotsRespected
PROPERTIES
  ConclusionIsFinal
CONSTRAINT Halves
VIEW WithoutMessages
SYMMETRY Symmetry
CHECK_DEADLOCK FALSE
