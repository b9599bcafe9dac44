CONSTANTS
  LowWords = 3
  HighWords = 3
SPECIFICATION Spec
INVARIANTS
  NoEarlyTick
  Armed
PROPERTIES
  TickComes
  BackToSmode
