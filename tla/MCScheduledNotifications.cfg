CONSTANTS
  d1 = d1
  d2 = d2
  s1 = s1
  s2 = s2
  MaxOccurrence = 3
  Driver <- TwoDrivers
  QueueOne = TRUE
  MaxBarrier = 2
  MaxGeneration = 2
  MaxTakes = 2
  Event <- Instants
  Sender <- TwoSenders
  MaxAttempts = 2
  Concurrency = 1
  MaxPending = 2
  MaxVersion = 2
  Selected <- Expired
SPECIFICATION FairSpec
INVARIANTS
  OneAtATime
  NothingOutlivesBarrier
  InstantsAccounted
  OutboxIsCurrent
  RemovedIsSpent
PROPERTIES
  DecisionIsFinal
  DeliveryEndIsFinal
  EverythingEnds
CONSTRAINTS
  FewEdits
  Staged
CHECK_DEADLOCK FALSE
