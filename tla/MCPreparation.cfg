SPECIFICATION Spec
CONSTANTS
  MaximumItems = 2
  MaximumEffects = 2
  MaximumJson = 4
  MaximumBytes = 4
  MaximumDepth = 1
  JsonValues <- MCJsonValues
  JsonSize <- MCJsonSize
  JsonDepth <- MCJsonDepth
  Reread <- MCReread
  Subject = "show"
  Account = "account"
  OtherAccount = "other"
  ProgressFields <- MCProgressFields
  LogFields <- MCLogFields
  GroupOf <- MCGroupOf
  Units = {1, 2}
  Behaviors <- MCBehaviors
  Offered <- MCOffered
  Requests <- MCRequests
  MaxWrites = 2
  MaxRuns = 2
  MaxLog = 2
PROPERTIES
  ConditionalKeepsChanges
  MonotoneKeepsAll
  WithinMandate
CHECK_DEADLOCK FALSE
