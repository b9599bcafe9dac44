CONSTANTS
  TOTAL_HART_COUNT = 2
SPECIFICATION Spec
INVARIANTS
  SpAndTpSetUp
