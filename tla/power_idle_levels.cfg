SPECIFICATION Spec
CONSTANTS
  PanelMax = 2
  KbdMax = 2
  DimPanel = 1
  DimKbd = 1
  KbdPresent = TRUE
  PanelPath = "xrandr"
  Configs <- LevelConfigs
  SleepTypes = {"SUSPEND"}
  LidTypes = {"SUSPEND", "BLANK", "NOTHING"}
  LidForceSleep = FALSE
  SessionStates = {"ACTIVE", "INACTIVE"}
  MayFail = {}
  UserMay = {}
INVARIANTS TypeOK NoStrayTimer AwakeForUser UserPanelKept UserKbdKept NormalIsRestored
PROPERTY SleepOnlyWhenIdle
