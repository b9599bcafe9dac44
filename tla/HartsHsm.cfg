CONSTANTS
  TOTAL_HART_COUNT = 3
  USE_HART_COUNT = 3
  Calls <- HsmCalls
  FenceCommands = {}
  StartAddrs = {a1}
  KernelAddr = kernel
  NoAddr = NoAddr
  MaxCalls = 0
SPECIFICATION FreeSpec
INVARIANTS
  NoSelfDeadlock
  RunsOnlyWhenStarted
  OneStart
PROPERTIES
  ImplementsLifecycle
CHECK_DEADLOCK FALSE
