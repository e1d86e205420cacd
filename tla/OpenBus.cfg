CONSTANTS
  ByteBits = 1
  Slice <- MCSlice
  PcInit = 0
  PowerUpWords = {1}
  PowerUpAddrs = {2}
  PowerUpOps = {"NOP"}
  PowerUpMems <- MCPowerUpMems
  ReadyValues = {TRUE, FALSE}
  RespValues = {0, 1}
  InstWords <- MCPathWords
  DataWords = {0, 4}
SPECIFICATION FairSpec
INVARIANTS TypeOK OneTransaction ResponseAwaited OperandsHeld OffsetHeld BusInv
PROPERTIES InstHeld RestartsProtocol Recovers
CHECK_DEADLOCK FALSE
