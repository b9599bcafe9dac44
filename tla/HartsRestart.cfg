CONSTANTS
  TOTAL_HART_COUNT = 3
  USE_HART_COUNT = 2
  Calls <- RestartCalls
  FenceCommands = {}
  StartAddrs = {a1}
  KernelAddr = kernel
  NoAddr = NoAddr
  MaxCalls = 3
SPECIFICATION LiveSpec
PROPERTIES
  StartCompletes
CHECK_DEADLOCK FALSE
