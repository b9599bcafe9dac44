CONSTANTS
  TOTAL_HART_COUNT = 3
  USE_HART_COUNT = 3
  Calls <- FanOutCalls
  FenceCommands = {"REMOTE_FENCE_I"}
  StartAddrs = {a1}
  KernelAddr = kernel
  NoAddr = NoAddr
  MaxCalls = 3
SPECIFICATION BoundedSpec
INVARIANTS
  TypeOK
  NoLockLost
  NoUnhandledCommand
  MailboxExclusive
PROPERTIES
  ImplementsMailbox
CHECK_DEADLOCK FALSE
