SPECIFICATION Spec
CONSTANTS
  Size = {3, 4}
  MaxSize = 4
  Least = 2
  Full = 3
  Chunk = 7
  MaxSent = 1
INVARIANT SplitFramesHandled
CHECK_DEADLOCK FALSE
