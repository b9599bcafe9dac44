CONSTANTS
  TOTAL_HART_COUNT = 2
  USE_HART_COUNT = 2
  Calls <- IpiCalls
  FenceCommands = {}
  StartAddrs = {a1}
  KernelAddr = kernel
  NoAddr = NoAddr
  MaxCalls = 2
SPECIFICATION LiveSpec
PROPERTIES
  IpiDelivered
CHECK_DEADLOCK FALSE
