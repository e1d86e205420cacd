CONSTANTS
  ByteBits = 4
  Slice <- MCSlice
  Asm <- MCAsm
  PcInit = 0
  PowerUpWords = {331}
  UndefinedWord = 12345
  PowerUpMems <- MCPowerUpMems
  Tests <- MCTests
  PassFailAddress = 32768
  PassValues = {19}
  OutputAddress = 32772
  CharLimit = 300
  TimerAddress = 32776
  TimerValues = {0, 60000}
SPECIFICATION FairSpec
INVARIANTS TypeOK EndRespected
PROPERTIES ImplementsIsa Completes
CHECK_DEADLOCK FALSE
