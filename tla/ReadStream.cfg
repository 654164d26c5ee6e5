SPECIFICATION Spec
CONSTANTS
  MaxChanges = 4
  MaxBatch = 2
  MaxInFlight = 2
INVARIANTS
  NothingRefused
  NoHole
PROPERTIES
  OutcomeIsFinal
  ImplementsReplica
