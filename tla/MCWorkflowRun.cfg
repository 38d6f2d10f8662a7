CONSTANTS
  top = top
  both = both
  one = one
  left = left
  right = right
  Node <- Tree
  Root = top
  Parent <- BranchOf
  AnySuccess = {top}
  Handled = {top, left}
  Cleaned = {one}
  Timed = {both}
  MaxConcurrency = 1
  Attempts <- RetryLeft
  Fragile = {left, one}
  MaxVisits = 6
SPECIFICATION RunSpec
INVARIANTS
  PassIsEarned
  NothingOutlivesRoot
PROPERTIES
  AbortIsFinal
  RootEnds
CHECK_DEADLOCK FALSE
