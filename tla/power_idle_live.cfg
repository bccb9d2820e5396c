SPECIFICATION FairSpec
CONSTANTS
  PanelMax = 0
  KbdMax = 1
  DimPanel = 0
  DimKbd = 1
  KbdPresent = TRUE
  PanelPath = "helper"
  Configs <- SleepConfigs
  SleepTypes = {"SUSPEND"}
  LidTypes = {"SUSPEND"}
  LidForceSleep = FALSE
  SessionStates = {"ACTIVE"}
  MayFail = {"bus", "panel"}
  UserMay = {"toggle"}
PROPERTIES BlanksWhenIdle SleepsWhenIdle
