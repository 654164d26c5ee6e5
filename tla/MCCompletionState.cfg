SPECIFICATION ResponseSpec
CONSTANTS
  MaximumItems = 2
  MaximumEffects = 2
  MaximumJson = 2
  MaximumBytes = 4
  MaximumDepth = 1
  JsonValues <- MCJsonValues
  JsonSize <- MCJsonSize
  JsonDepth <- MCJsonDepth
  Reread <- MCReread
  MaximumStateItems = 3
  Account = "account"
  Behavior <- MCBehavior
  Requests <- MCRequests
  SubjectLists <- MCSubjectLists
  ObservationMessages <- MCObservationMessages
  AccessMessages <- MCAccessMessages
  ReferenceMessages <- MCReferenceMessages
  FieldMessages <- MCFieldMessages
  MaxObservations = 3
  MaxAccess = 2
  MaxBindings = 2
  MaxFields = 1
  MaxItems = 4
INVARIANTS
  OrderFree
  ReferencesUnambiguous
  GroupsCanonical
  OneReading
  Encodable
CHECK_DEADLOCK FALSE
