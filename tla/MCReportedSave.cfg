CONSTANTS
  w1 = w1
  w2 = w2
  Writer <- OneWriter
  NFiles = 2
  Existing = {1}
  MaxSaves = 1
  MaxCrashes = 0
  Faults <- AnyFault
SPECIFICATION JournalSpec
INVARIANTS
  ReportedIsNotRestored
CHECK_DEADLOCK FALSE
