CONSTANTS
  ByteBits = 4
  Slice <- MCSlice
  Asm <- MCAsm
  PcInit = 0
  PowerUpWords = {331}
  PowerUpAddrs = {2}
  PowerUpOps = {"NOP"}
  PowerUpMems <- MCPowerUpMems
  Tests <- MCTests
  PassFailAddress = 65536
  PassValues = {}
  OutputAddress = 65536
  CharLimit = 0
  TimerAddress = 65536
  TimerValues = {0}
SPECIFICATION UnitSpec
INVARIANTS
  Passes
  RunToEnd
PROPERTIES Finishes
CHECK_DEADLOCK FALSE
