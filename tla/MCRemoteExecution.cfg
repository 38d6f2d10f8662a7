CONSTANTS
  j1 = j1
  h1 = h1
  Job <- OneJob
  Scheduled <- NoJob
  Runner = Runner
  Agent = {Runner}
  NoAgent = NoAgent
  Hash <- OneHash
  NoHash = NoHash
  Limit <- OneLimit
  QueueLimit = 1
  InputCapacity = 1
  ResultCapacity = 1
  MaxSlots = 1
  ResultSlots = 1
  FaultSlots = 2
  MaxStops = 1
SPECIFICATION SystemFairSpec
INVARIANTS
  ReleasedMeansStopped
  CompletedIsAcceptable
  NoReportLost
PROPERTIES
  Contract
  AssignedEnds
  AcceptedIsSettled
CONSTRAINT EndToEnd
CHECK_DEADLOCK FALSE
