SPECIFICATION FairSpec
CONSTANTS
  Autoload = TRUE
  Faults = {"handshake death", "timeout", "init error"}
  MaxStarts = 2
  MaxToolbars = 2
  MaxCalls = 2
  MaxFaults = 1
CHECK_DEADLOCK FALSE
INVARIANTS AskedIsEmpty
PROPERTIES SlotSpec
