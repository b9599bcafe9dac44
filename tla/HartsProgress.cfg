CONSTANTS
  TOTAL_HART_COUNT = 3
  USE_HART_COUNT = 2
  Calls <- IpiCalls
  FenceCommands = {}
  StartAddrs = {a1}
  KernelAddr = kernel
  NoAddr = NoAddr
  MaxCalls = 3
SPECIFICATION LiveSpec
PROPERTIES
  CallReturns
  CommandHandled
  IpiDelivered
  StartCompletes
CHECK_DEADLOCK FALSE
