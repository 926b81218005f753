SPECIFICATION DesktopSpec
CHECK_DEADLOCK FALSE
CONSTANTS
  Parts = {"order", "reveal", "input", "workspaces", "alttab", "presence"}
  Cells <- ScreenCells
  Places <- ScreenPlaces
  BarArea <- BarCells
  Beneath <- BottomFree
  Remap = FALSE
  Apps = {"a", "b", "c"}
  Dialogs = {"d"}
  Parent <- ParentOf
  MaxWorkspaces = 3
  MinimizeFull = FALSE
  AltWindows = {"a", "b", "c"}
  Clients = {"x", "y"}
  Timeouts = {1, 2}
  MaxIdle = 2
  MaxAlarms = 2
INVARIANTS DesktopTypeOK RestIsConsistent ReasonIsPending InputIsRight
INVARIANTS WorkspacesAreRight SwitchStartsClean WatchIsRight
PROPERTIES AsExpected RequiredStay
PROPERTIES MappedIsActive GoesToHighlighted IdlenessIsRight
