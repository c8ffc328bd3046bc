SPECIFICATION Spec
CONSTANTS
  a1 = a1
  a2 = a2
  Addr = {a1, a2}
  NoAddr = NoAddr
  ConnId = {c1, c2}
  NoConn = NoConn
  DB <- MCDB
  EleCount <- MCEle
  SeqMod = 1
  PfcMod = 2
  HeartLimit = 0
  GetLimit = 0
  Relays = FALSE
  MaxJzq = 2
INVARIANTS TypeOK DuplicatesInert SweepLinkOpen OnlineHasLink
PROPERTY ImplementsLink
