SPECIFICATION Spec
INVARIANTS
  IntactIffFits
CHECK_DEADLOCK FALSE
CONSTANTS
  XLEN = 7
  PROGAMIMAGE_START = 64
  mem_block_end = 69
  MEMORY_AVAILABLE = 44
  Boundary = 8
  DtbAlign = 2
  INITRAMFS = 96
  DtbSize = 2
  InitramfsSize = 3
  Flash <- MCFlash
  Kernels <- MCKernels
  FwDyninfos <- MCFwDyninfos
  DtbAddrs <- MCDtbAddrs
  InitrdAddrs <- MCInitrdAddrs
