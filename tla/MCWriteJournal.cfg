CONSTANTS
  w1 = w1
  w2 = w2
  Writer <- TwoWriters
  NFiles = 2
  Existing = {1}
  MaxSaves = 2
  MaxCrashes = 1
  Faults <- AnyFault
SPECIFICATION JournalSpec
INVARIANTS
  HalfAppliedCanBeUndone
PROPERTIES
  AtomicUntilDisturbed
SYMMETRY Writers
VIEW WithoutPast
CHECK_DEADLOCK FALSE
