SPECIFICATION LFairSpec
CONSTANTS
  Pid = {p1,p2}
  NULL = NULL
  Unset = Unset
  Failed = Failed
  Sup = Sup
  ForkFails = TRUE
  Faults = {"db", "power", "water", "signal"}
INVARIANTS OneServer NoOrphan ListWhileServing OneWriter SemFree HandlerLogsAlone
PROPERTIES EndedIsReplaced ImplementsSupervisor ToldEnds
CHECK_DEADLOCK FALSE
