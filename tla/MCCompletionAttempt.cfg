SPECIFICATION Spec
CONSTANTS
  op = op
  otherOp = otherOp
  a1 = a1
  a2 = a2
  s1 = s1
  s2 = s2
  NoReport = NoReport
  Operation = op
  Operations <- MCOperations
  Attempts = {a1, a2}
  Effects <- MCEffects
  EffectLists <- MCEffectLists
  MaximumEffects = 2
  MaxReports = 1
INVARIANTS
  TypeOK
  RecordsComplete
  GroundsStand
  OneBarrier
PROPERTIES
  ImplementsLedger
