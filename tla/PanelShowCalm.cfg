SPECIFICATION FairSpec
CONSTANTS
  Panels = {p1, p2, p3}
  None = None
  Modal = FALSE
  Uses = {}
  MaxMoves = 4
  MaxDeaths = 0
CHECK_DEADLOCK FALSE
INVARIANTS LastWins HiderDecides
PROPERTIES WaitEnds
