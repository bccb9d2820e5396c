SPECIFICATION Spec
CONSTANTS
  PanelMax = 0
  KbdMax = 0
  DimPanel = 0
  DimKbd = 0
  KbdPresent = FALSE
  PanelPath = "xrandr"
  Configs <- SleepConfigs
  SleepTypes = {"SUSPEND"}
  LidTypes = {"SUSPEND"}
  LidForceSleep = FALSE
  SessionStates = {"ACTIVE"}
  MayFail = {}
  UserMay = {}
PROPERTY ZeroMeansNever
