SPECIFICATION Spec
CONSTANTS
  Accounts = {"a", "b"}
  SourceKeys = {"s", "t"}
  Fields = {"f", "g"}
  PROTOCOL_MAJOR = 1
  PROTOCOL_MINOR = 1
  Missing = Missing
  MaxNumber = 2
  MaxChanges = 2
  MaxAnswers = 2
INVARIANTS
  AnswerJustified
  ReadingsTrue
  AssetWhole
PROPERTIES
  Settles
