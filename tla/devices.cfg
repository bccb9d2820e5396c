SPECIFICATION PartsSpec
CONSTANTS
  Engines = {"pinyin"}
  SourceLists <- TheirSources
  OldLists <- Stored
  SystemLists <- Suggested
  MaxCalls = 3
  SourceChanges = 6
  Options = {"shift", "alt-shift", "caps"}
  Others = {"x"}
  MaxWait = 3
  MaxInput = 6
  Switchers = {"off", "caps", "shift"}
  KeyEvents = 2
  MaxPids = 3
  KeyChanges = 4
  Pads = {"pad"}
  Mice = {"mouse", "tablet"}
  Kept = {"tablet"}
  PointerEvents = 4
  PointerChanges = 5
  Frames = 2
  LocateInput = 6
  HardCoded = {"h"}
  Settings = {"s"}
  Customs = {"c", "d"}
  Bindings = {"x", "y"}
  GrabChanges = 4
  Names = {"pci", "usb"}
  Usb = "usb"
  MaxIndex = 3
  MaxQueue = 6
  MaxMoves = 3
  Step = 2
  MaxVolume = 5
  VolumeQueue = 4
  MaxPresses = 4
  Apps = {"a", "b"}
  Connections = {"p", "q"}
  MaxWire = 3
  MaxTime = 4
  Volumes = {"/", "/home"}
  Low = 2
  Again = 0
  Period = 1
  MaxFree = 3
  DiskTime = 3
  DiskEvents = 4
  Entries = {"d", "d/e", "d/f"}
  Dirs = {"d", "d/e"}
  Root = "root"
  Parent <- TheirParent
  PurgeEvents = 1
  Files = {"a", "b"}
  MaxAge = 2
  MaxSize = 2
  ThumbEvents = 5
  Printers = {"p"}
  Remote = {}
  Reasons = {"connecting-to-device", "toner-low"}
  Silent = {}
  Endings = {"completed"}
  MaxPrinterEvents = 5
  MaxTimers = 2
  MaxStarts = 2
  MaxCupsChanges = 2
  Handlers = {"a", "b"}
  MaxStatuses = 2
  NewDevices = {"one", "odd"}
  Model <- TheirModel
  MaxNumber = 3
  Programs = {"g", "h"}
  MaxAnnounced = 2
  MaxQueueEvents = 1
INVARIANTS PartsTypeOK DevicesFollow KeysDone NothingLost
CHECK_DEADLOCK FALSE
