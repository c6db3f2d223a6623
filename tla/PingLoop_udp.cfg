SPECIFICATION Spec
CONSTANTS
  a1 = a1
  a2 = a2
  b1 = b1
  NoAddr = NoAddr
  Addrs = {a1, a2, b1}
  Family <- MCFamily
  MaxDrops = 1
  Answers <- AnswersBoth
  SocketTypes = {"udp4"}
  DeadAddrs = {a1}
  SeqSpace = 12
  Lifetime = 3
  InboxCap = 3
  Duplicates = FALSE
  ChanSize = 0
  AsksLastIP = TRUE
  InitialGap = 1
  Speeds = {}
  MaxPending = 0
  MaxGap = 1
INVARIANTS GoodMeansOwnReply LagIsCounted
PROPERTIES QueriesOnlyWhenExhausted HangsOnlyInLastIP DeadAddressAbandoned
CHECK_DEADLOCK FALSE
