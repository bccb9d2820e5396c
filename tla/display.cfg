SPECIFICATION PartsSpec
CONSTANTS
  Ids = {1, 2}
  Timeouts = {0, 3, 4}
  Margin = 1
  Cap = 100
  CounterMax = 6
  QueueMax = 4
  Prompt = TRUE
  Screen <- PanelAndVga
  Laptop = "panel"
  Modes <- TheirModes
  FrameBuffer = 5
  Boots = {"nothing", "lid", "clone", "dock"}
  Allowed = {{0, 2}, {0, 1, 2, 3}}
  MaxEvents = 2
  MaxMoves = 4
  Levels = {1, 2}
  MaxWire = 2
  MaxActs = 4
  Ports <- PanelAndVga
  Panel = "panel"
  Monitors = {"m", "n"}
  ColorProfiles = {"edid", "cal"}
  Vcgt = {"cal"}
  Bright = {"cal"}
  MaxColorChanges = 2
  Dirs = {"icc", "sub"}
  UserDir = "icc"
  Depth <- TheirDepth
  ProfileFiles = {"a", "b", "c"}
  Dir <- TheirDir
  MaxLevels = 2
  MaxFileChanges = 2
  Edids <- TheirEdids
  Names = {"T61"}
  Volumes = {"cd", "usb"}
  AutoVolumes = {"cd", "usb"}
  MaxPlugs = 2
  MaxLocks = 2
  Contents = {"photos", "music"}
  Software = {}
  Programs = {"p"}
  MaxMounts = 1
  MaxClicks = 2
  Apps = {"a", "b"}
  Targets = {"text", "image"}
  Big = {"image"}
  Pieces = 2
  MaxTakes = 1
  Windows = {"w"}
  PasteTargets = {"text", "image", "movie"}
  PasteBig = {"image", "movie"}
  MaxSavings = 2
  Beside <- ThreeScreens
  Cintiq = "cintiq"
  Nameless = {}
  Turns = {"none", "cw", "ccw", "half"}
  MaxTabletChanges = 2
  Pens <- ThreePens
  MaxPenChanges = 3
  Pads = {"p", "q"}
  PadModels <- TwoPads
  Keys = {"x"}
  MaxHeld = 2
  MaxLit = 1
  MaxPadChanges = 1
  Translated = {"theme"}
  Overridable = {"theme", "extra"}
  MaxWishes = 2
  GtkFiles = {"canberra", "atk"}
  Switched = {"atk"}
  MaxSeconds = 3
  AccessNumbers = {25, 600}
  AccessOptions = {"press", "change"}
  AccessOwner <- BeepOwner
  SlowMax = 500
  Unit = 10
  MaxAccess = 4
  MaxNotes = 2
  AccessApps = {"reader", "keys"}
  MaxAppActs = 5
  Pointers = {"touch", "pen", "mouse"}
  TouchScreens = {"touch"}
  MaxUses = 6
  Samples = {"a", "b"}
  MaxTheme = 4
  MaxSoundActs = 4
  MaxRemoteActs = 6
  Conversions <- ThreeFiles
  ConvertedKeys <- FourKeys
  ConvertedFit <- FourKeys
  GconfValues = {"a", "b"}
  MaxGconfActs = 5
  Pictures = {"a", "b", "c"}
  MaxPictureActs = 3
  MaxFileTime = 2
  ScreenWindows = {"film", "text"}
  Players = {"film"}
  Plans = {"high", "balanced", "own"}
  High = "high"
  FiledPlans = {"high", "balanced"}
  NoFocus = "none"
  NoPlan = "none"
  MaxPlanActs = 6
  Panels <- ThreePanels
  Percents = {0, 50}
  MaxBrightnessActs = 3
  MaxBatteries = 2
  MaxPhoneActs = 6
INVARIANTS PartsTypeOK ActivityIsReported ScreensFollow ColorsAndTablets OthersServed
CHECK_DEADLOCK FALSE
