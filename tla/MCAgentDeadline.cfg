CONSTANTS
  j1 = j1
  j2 = j2
  j3 = j3
  Job <- OneJob
  MaxSlots = 1
  ResultSlots = 1
  FaultSlots = 2
  MaxStops = 0
SPECIFICATION AgentFairSpec
PROPERTIES
  DeadlineSettles
CHECK_DEADLOCK FALSE
