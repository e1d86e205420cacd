CONSTANTS
  VHexFiles <- MCVHexFiles
  Tables <- MCTables
  Columns = 2
SPECIFICATION HexSpec
INVARIANTS
  ReadsBack
  HexFileComplete
CHECK_DEADLOCK FALSE
