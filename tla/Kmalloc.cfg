CONSTANTS
  Modulus = 256
  Word = 4
  mem_block_start = 128
  mem_block_end = 208
  Sizes = {0, 1, 30, 72, 120, 250, 255}
  StackSizes = {5, 16}
SPECIFICATION Spec
INVARIANTS
  ListOrdered
  ListOwned
  StacksUsable
PROPERTIES
  ImplementsHeap
