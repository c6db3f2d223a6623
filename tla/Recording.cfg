SPECIFICATION Spec
CONSTANTS
  MaxResults = 2
  MaxSessions = 2
  MaxZeros = 1
  ChanSize = 1
  DiskFails = TRUE
INVARIANTS TypeOK EachSideOnce
PROPERTIES FileOnlyGrows ResultsArrive
