SPECIFICATION Spec
CONSTANTS
  Names = {"myzone", "people", "web"}
  Installed = {"myzone", "people", "web"}
  Required = {"myzone"}
  Normal = {"myzone", "people", "web"}
  Defaults <- MyzoneDefaults
  Screens = {3}
  MaxOrder = 3
CHECK_DEADLOCK FALSE
PROPERTIES RequiredStay
