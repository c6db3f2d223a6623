SPECIFICATION Spec
CONSTANTS
  Sizes = {1, 2}
  Painters = {"Toast", "Help"}
  ShowHelp = TRUE
  Presented = {}
  Ends = FALSE
  MaxEvents = 3
INVARIANTS TypeOK NothingForgotten
