SPECIFICATION Spec
CONSTANTS
  clock = clock
  kwh = kwh
  d1 = d1
  d2 = d2
  Call = {clock, kwh}
  Meter = {kwh}
  Data = {d1}
  NoData = NoData
  Dispatch = {FALSE}
  Patience = 1
  Copies = 1
INVARIANT HeardCallHasResult
