SPECIFICATION RoutinesSpec
INVARIANTS
  ResultRight
  LongDivision
  PrintsRight
  TargetsReached
  AnswersTruthful
  FilesFound
  WalkRight
PROPERTIES
  Returns
CHECK_DEADLOCK FALSE
CONSTANTS
  XLEN = 6
  INT_BITS = 5
  TOTAL_HART_COUNT = 4
  USE_HART_COUNT = 3
  mhartid = 2
  MEMORY_BASE = 32
  MEMORY_AVAILABLE = 8
  ResetDevices = {TRUE, FALSE}
  MulDivXLEN = 3
  BufSize = 4
  Bits <- MCBits
  Directives <- MCDirectives
  Followers <- MCFollowers
  CpioByte = 4
  Header = 26
  Orders = {"same", "other"}
  Filenames = {"a", "bc", "d"}
  Archives <- MCArchives
  DtbByte = 16
  Register = 2
  Magics = {"big", "little", "wrong"}
  Trees <- MCTrees
  PAGE = 4
  FLAGS = 3
  Asids = {0, 3}
  Tables <- MCTables
  Frames <- MCFrames
  Machines <- MCMachines
