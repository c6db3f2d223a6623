SPECIFICATION Spec
CONSTANTS
  Sizes = {1, 2}
  Painters = {"Toast", "Controls"}
  ShowHelp = TRUE
  Presented = {}
  Ends = TRUE
  MaxEvents = 2
PROPERTIES Settles CancelEnds
