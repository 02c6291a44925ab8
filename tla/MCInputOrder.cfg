SPECIFICATION Spec
CONSTANTS
  Name <- MCName
  Unknown <- MCUnknown
INVARIANTS
  EliminatedInOrder
  QuantifiedByName
  StopsOnlyForNames
  WrittenAsSimulated
CHECK_DEADLOCK FALSE
