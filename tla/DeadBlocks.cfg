SPECIFICATION Spec
CONSTANT Graphs <- Bodies
INVARIANT DeadBlocksRemoved
CHECK_DEADLOCK FALSE
