SPECIFICATION Spec
CONSTANTS
  IPs = {1, 2}
  Resolution = 4
  Times = {2, 7}
  Durations = {1, 3}
  MaxPoints = 4
  Base = 2
  IntLen = 3
  FilePoints = 2
  URL <- TheURL
INVARIANTS TypeOK NetworkSound StatisticsAgree RunsAgree FileReadsBack
PROPERTIES KeepsLog RecordsWhatArrives TornIsRefused
