CONSTANTS
  Steps = 3
SPECIFICATION Spec
INVARIANTS
  ContextsKept
  StackKept
  SmodeContext
PROPERTIES
  ReturnsBack
