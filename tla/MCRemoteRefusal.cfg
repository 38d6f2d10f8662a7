CONSTANTS
  j1 = j1
  h1 = h1
  Job <- OneJob
  Scheduled <- OneJob
  Runner = Runner
  Agent = {Runner}
  NoAgent = NoAgent
  Hash <- OneHash
  NoHash = NoHash
  Limit <- OneLimit
  QueueLimit = 1
  InputCapacity = 1
  ResultCapacity = 1
  MaxSlots = 1
  ResultSlots = 1
  FaultSlots = 2
  MaxStops = 0
SPECIFICATION SystemSpec
INVARIANT
  RefusalReachesCall
CHECK_DEADLOCK FALSE
