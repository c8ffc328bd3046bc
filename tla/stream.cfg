SPECIFICATION FairSpec
CONSTANTS
  Size = {3, 4}
  MaxSize = 4
  Least = 2
  Full = 3
  Chunk = 7
  MaxSent = 4
INVARIANTS InOrder BufferBounded WholeReadsHandled
PROPERTY RecBufEnds
CHECK_DEADLOCK FALSE
