SPECIFICATION ServicesSpec
CHECK_DEADLOCK FALSE
CONSTANTS
  Parts = {"launches", "notify", "ofono", "devices", "radio", "unlock", "list", "bluetooth", "network", "item"}
  Nobody = Nobody
  Windows = {win1}
  Locals = {win1}
  Daemons = {}
  Volumes = {usb}
  Lifetimes = {0, 1}
  MaxCalls = 2
  Modems = {"m", "n"}
  MaxSimChanges = 2
  ModemPaths = {"m", "n"}
  Locks = {"pin"}
  MaxModemChanges = 2
  MaxCodes = 2
  Items = {"a", "b"}
  MaxActs = 4
  Mounts = {"p", "q"}
  MaxSignals = 3
  MaxEjects = 2
  MaxShows = 1
  BtDevices = {"a", "b", "c"}
  Kinds = {"pin", "auth"}
  MaxNews = 3
  Uis = {"pane", "tile", "bluetooth"}
  RefusesTech = {"pane", "tile"}
  RefusesOffline = {"pane"}
  MaxToggles = 2
  MaxRadioChanges = 2
  MaxConnmanExits = 1
  Services = {"a", "b", "c"}
  MaxServiceChanges = 2
  MaxServiceExits = 1
  Paths = {"a", "b", "c"}
  Cellular = {"c"}
  MaxUpdates = 3
  MaxDrags = 1
  Adders = {"x", "y", "z"}
  Queries = {"q"}
  Executables = {"one", "two"}
  Launched <- LaunchedBy
INVARIANTS ServicesTypeOK StoreIsRight TraysAreRight PictureIsTrue DevicesAreRight
INVARIANTS TogglesFollow UnlockIsRight ListIsRight BluetoothIsRight NetworkIsRight ItemsAreRight
PROPERTIES ClosedStaysClosed
