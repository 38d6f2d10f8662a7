CONSTANTS
  w1 = w1
  w2 = w2
  Writer <- TwoWriters
  NFiles = 2
  Existing = {1}
  MaxSaves = 2
  MaxCrashes = 0
  Faults <- SaveFaults
SPECIFICATION JournalSpec
PROPERTIES
  Atomic
SYMMETRY Writers
CHECK_DEADLOCK FALSE
