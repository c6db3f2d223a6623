SPECIFICATION Spec
CONSTANTS
  a1 = a1
  a2 = a2
  b1 = b1
  NoAddr = NoAddr
  Addrs = {a1, a2, b1}
  Family <- MCFamily
  MaxDrops = 0
  Answers <- AnswersDual
  SocketTypes = {"udp6", "ip4"}
  DeadAddrs = {}
  SeqSpace = 12
  Lifetime = 1
  InboxCap = 2
  Duplicates = TRUE
  ChanSize = 1
  AsksLastIP = FALSE
  InitialGap = 2
  Speeds = {"Faster", "Slower"}
  MaxPending = 1
  MaxGap = 3
INVARIANTS TypeOK PingsUsableAddress
PROPERTIES PanicsAsAnnounced  SpeedChangesGoTheirWay
