SPECIFICATION Spec
CONSTANTS
  a1 = a1
  a2 = a2
  b1 = b1
  NoAddr = NoAddr
  Addrs = {a1, a2, b1}
  Family <- MCFamily
  MaxDrops = 0
  Answers <- AnswersV4
  SocketTypes = {"udp4"}
  DeadAddrs = {}
  SeqSpace = 12
  Lifetime = 2
  InboxCap = 2
  Duplicates = FALSE
  ChanSize = 0
  AsksLastIP = TRUE
  InitialGap = 0
  Speeds = {}
  MaxPending = 0
  MaxGap = 1
PROPERTIES LastIPReturns
CHECK_DEADLOCK FALSE
