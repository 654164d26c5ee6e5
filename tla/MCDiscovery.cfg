SPECIFICATION Spec
CONSTANTS
  MaximumItems = 2
  MaximumEffects = 2
  MaximumJson = 2
  MaximumBytes = 4
  MaximumDepth = 1
  JsonValues <- MCJsonValues
  JsonSize <- MCJsonSize
  JsonDepth <- MCJsonDepth
  Reread <- MCReread
  Account = "account"
  MaxSubjects = 4
  MaximumPageSize = 2
  MaximumFields = 2
  MaximumLabel = 3
  MaximumLibraryBytes = 2
  MaximumPageBytes = 6
  LibraryBytes <- MCLibraryBytes
  DescriptorBytes <- MCDescriptorBytes
  MaxPages = 4
  MaxAnyPages = 2
  MaxEdits = 2
  HonestLibrary <- MCHonestLibrary
  HonestSubject <- MCHonestSubject
  AnyPages <- MCAnyPages
INVARIANTS
  RefusedOnlyForSize
  WritableIsPreparable
CHECK_DEADLOCK FALSE
