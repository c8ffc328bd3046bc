SPECIFICATION FairSpec
CONSTANTS
  a1 = a1
  a2 = a2
  Addr = {a1, a2}
  NoAddr = NoAddr
  ConnId = {c1}
  NoConn = NoConn
  DB <- MCDB2
  EleCount <- MCEle
  SeqMod = 1
  PfcMod = 1
  HeartLimit = 0
  GetLimit = 0
  Relays = TRUE
  MaxJzq = 2
PROPERTY PolledWhileConnected
