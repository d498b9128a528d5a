SPECIFICATION RelaySpec
CONSTANT Blank = Blank
INVARIANT LateChunkIsDiscarded
CHECK_DEADLOCK FALSE
