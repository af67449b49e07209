SPECIFICATION Spec
CONSTANTS
  WordBytes = 2
  ByteBits = 2
  Words = 2
INVARIANT IterSorted
CHECK_DEADLOCK FALSE
