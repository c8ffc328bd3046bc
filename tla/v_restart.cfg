SPECIFICATION FairSpec
CONSTANTS
  Pid = {p1,p2}
  NULL = NULL
  Unset = Unset
  Failed = Failed
  ForkFails = FALSE
PROPERTY ServerRuns
CHECK_DEADLOCK FALSE
