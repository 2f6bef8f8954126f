CONSTANTS
  a = a
  b = b
  c = c
  Areas <- MCAreas
  Rows = {1, 2, 3}
  NoRow = NoRow
  NoEdge = NoEdge
  Horizon = 3
  ChangeTime = 2
  Networks <- MCPassingNetworks
  Parties <- MCParties
  Tolerances = {10, 20}
  AreaOrder <- MCAreaOrder
SPECIFICATION MeetingSpec
INVARIANT LegsRunChronologically
CHECK_DEADLOCK FALSE
