SPECIFICATION Spec
CONSTANTS
  Answer <- MCAnswer
  Refused <- MCRefused
  MaxRequests = 4
INVARIANTS
  TypeOK
  Observed
  NoRace
PROPERTIES
  ImplementsChannel
