CONSTANTS
  TOTAL_HART_COUNT = 3
SPECIFICATION Spec
INVARIANTS
  NoHartDead
  NoCommandLost
  HandlerReady
  KinitIntact
PROPERTIES
  HartsReady
  CommandReceived
