SPECIFICATION FairSpec
CONSTANTS
  Panels = {p1, p2}
  None = None
  Modal = TRUE
  Uses = {}
  MaxMoves = 1
  MaxDeaths = 0
CHECK_DEADLOCK FALSE
PROPERTIES WaitEnds
