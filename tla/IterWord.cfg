SPECIFICATION Spec
CONSTANTS
  WordBytes = 2
  ByteBits = 4
  Words = 1
INVARIANT IterSorted
CHECK_DEADLOCK FALSE
