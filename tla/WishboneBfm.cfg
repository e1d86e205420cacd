SPECIFICATION BfmSpec
CONSTANTS
  Operations <- MCOperations
  Answer <- MCAnswer
  MaxOperations = 3
INVARIANTS
  Delivered
PROPERTIES
  ImplementsChannel
