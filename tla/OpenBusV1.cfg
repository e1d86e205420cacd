CONSTANTS
  ByteBits = 1
  Slice <- MCSlice
  PcInit = 0
  PowerUpWords = {1}
  UndefinedWord = 6
  PowerUpMems <- MCPowerUpMems
  ReadyValues = {TRUE, FALSE}
  RespValues = {0, 1}
  InstWords <- MCPathWordsV1
  DataWords = {0, 4}
SPECIFICATION FairSpec
INVARIANTS TypeOK OneTransaction ResponseAwaited OperandsRead ZeroReads OffsetHeld BusInv
PROPERTIES InstHeld RestartsProtocol Recovers
CHECK_DEADLOCK FALSE
