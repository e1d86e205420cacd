CONSTANTS
  ByteBits = 4
  Slice <- MCSlice
  Asm <- MCAsm
  PcInit = 0
  PowerUpWords = {331}
  PowerUpAddrs = {2}
  PowerUpOps = {"NOP"}
  PowerUpMems <- MCPowerUpMems
  Tests <- MCOdd
  PassFailAddress = 32768
  PassValues = {19}
  OutputAddress = 32772
  CharLimit = 300
  TimerAddress = 32776
  TimerValues = {0, 60000}
SPECIFICATION FairSpec
PROPERTIES ImplementsIsa
CHECK_DEADLOCK FALSE
