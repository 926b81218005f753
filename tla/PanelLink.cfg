SPECIFICATION FairSpec
CONSTANTS
  Autoload = TRUE
  Faults = {"hasty click"}
  MaxStarts = 3
  MaxToolbars = 2
  MaxCalls = 2
  MaxFaults = 0
CHECK_DEADLOCK FALSE
INVARIANTS TypeOK ObjectsAreTracked QuietMeansAttached
PROPERTIES KeepsLivePanel RunningGetsAttached
