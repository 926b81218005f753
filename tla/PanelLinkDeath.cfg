SPECIFICATION Spec
CONSTANTS
  Autoload = TRUE
  Faults = {"handshake death"}
  MaxStarts = 3
  MaxToolbars = 1
  MaxCalls = 1
  MaxFaults = 0
CHECK_DEADLOCK FALSE
INVARIANTS AttachedIsWatched
