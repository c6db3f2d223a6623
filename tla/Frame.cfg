SPECIFICATION Spec
CONSTANTS
  IPs = {}
  Resolution = 40
  NewPoints <- ThePoints
  Widths = {5, 26, 46}
  MaxPoints = 5
  StepLen = 7
  LabelLen = 3
  FramePoints = 4
  LogUnit = 100
  Sizes <- TheSizes
INVARIANTS TypeOK SpansTile SteadyIsOneSpan WidthsShareTheAxis PointsFindTheirPlace InsideTerminal PointsAreShown LossIsShown TimeRunsRight
