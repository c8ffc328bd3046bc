SPECIFICATION FairSpec
CONSTANTS
  clock = clock
  kwh = kwh
  d1 = d1
  d2 = d2
  Call = {clock, kwh}
  Meter = {kwh}
  Data = {d1, d2}
  NoData = NoData
  Dispatch = {TRUE, FALSE}
  Patience = 1
  Copies = 2
INVARIANTS OnlyCallWaitedFor AnswersOwnCall OneOwner
PROPERTIES StoredBeforeDeleted CallReturns
