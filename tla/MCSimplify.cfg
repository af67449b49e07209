SPECIFICATION FairSpec
CONSTANT Graphs <- Bodies
INVARIANTS
  SimplifyTypeOK
  FlowKept
  PredCountExact
  FullySimplified
PROPERTY SimplifyEnds
CHECK_DEADLOCK FALSE
