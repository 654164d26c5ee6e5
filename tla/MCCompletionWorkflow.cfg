SPECIFICATION Spec
CONSTANTS
  None = None
  MaximumItems = 3
  MaximumEffects = 2
  MaximumJson = 4
  MaximumBytes = 4
  MaximumDepth = 1
  JsonValues <- MCJsonValues
  JsonSize <- MCJsonSize
  JsonDepth <- MCJsonDepth
  Reread <- MCReread
  Scope <- MCScope
  Histories <- MCHistories
  Observations <- MCObservations
  Desires <- MCDesires
  Additions <- MCAdditions
  Commands <- MCCommands
  Phrasings <- MCPhrasings
  MaxClock = 3
INVARIANTS
  HandedOnUnchanged
  RefusalsExplained
  ReplayOnce
PROPERTIES
  Settled
CHECK_DEADLOCK FALSE
