SPECIFICATION Spec
CONSTANTS
  MaxFrames = 6
  MaxCommands = 2
  NoFrame = NoFrame
INVARIANTS HandedOnce KeptInOrder NothingLeaked
CHECK_DEADLOCK FALSE
