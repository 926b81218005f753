SPECIFICATION FairSpec
CONSTANTS
  Panels = {p1, p2}
  None = None
  Modal = TRUE
  Uses = {"overlap", "reclick", "activate"}
  MaxMoves = 3
  MaxDeaths = 1
CHECK_DEADLOCK FALSE
INVARIANTS OneActive
PROPERTIES Settles
