SPECIFICATION TFairSpec
CONSTANTS
  a1 = a1
  a2 = a2
  Addr = {a1}
  NoAddr = NoAddr
  ConnId = {c1}
  NoConn = NoConn
  DB <- MCDB
  EleCount <- MCEle
  SeqMod = 2
  PfcMod = 4
  HeartLimit = 0
  GetLimit = 0
  Relays = FALSE
  MaxJzq = 2
  NoSeq = NoSeq
PROPERTIES FramesNumbered SilentGoesOffline
