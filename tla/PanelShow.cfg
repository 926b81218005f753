SPECIFICATION Spec
CONSTANTS
  Panels = {p1, p2}
  None = None
  Modal = FALSE
  Uses = {"overlap", "activate"}
  MaxMoves = 4
  MaxDeaths = 0
CHECK_DEADLOCK FALSE
INVARIANTS TypeOK Beliefs MappedIsWindow ButtonMatches
