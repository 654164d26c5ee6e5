SPECIFICATION Spec
CONSTANTS
  MaxKeys = 2
  MaxSends = 3
  MaxChanges = 2
  Values = {"v", "w"}
INVARIANTS
  BeliefTrue
  CreationKnown
  CauseShowsOwnValue
PROPERTIES
  UnseenChangeKept
  ImplementsOnce
CHECK_DEADLOCK FALSE
