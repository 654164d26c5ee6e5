SPECIFICATION NSpec
CONSTANTS
  op = op
  a1 = a1
  a2 = a2
  s1 = s1
  s2 = s2
  NoReport = NoReport
  Operation = op
  Operations = {op}
  Attempts = {a1, a2}
  Effects <- OneEffect
  EffectLists <- OneEffectLists
  MaximumEffects = 1
  MaxReports = 2
  MaxAsks = 1
INVARIANTS
  EvidenceSound
  OneRequest
  AppliedOnce
  TruthAccepted
\* The system stops when both attempts are settled.
CHECK_DEADLOCK FALSE
