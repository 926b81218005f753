SPECIFICATION RadioSpec
CONSTANTS
  Uis = {"tile"}
  RefusesTech = {"tile"}
  RefusesOffline = {"tile"}
  MaxToggles = 1
  MaxRadioChanges = 0
  MaxConnmanExits = 0
CHECK_DEADLOCK FALSE
INVARIANT FailureResetsToggle
