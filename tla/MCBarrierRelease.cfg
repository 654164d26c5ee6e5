SPECIFICATION FairSpec
CONSTANTS
  op = op
  a1 = a1
  a2 = a2
  s1 = s1
  s2 = s2
  NoReport = NoReport
  Operation = op
  Operations = {op}
  Attempts = {a1}
  Effects <- OneEffect
  EffectLists <- OneEffectLists
  MaximumEffects = 1
  MaxReports = 2
  MaxAsks = 2
PROPERTIES
  BarrierReleased
CHECK_DEADLOCK FALSE
