SPECIFICATION Spec
CONSTANTS
  Devices = {"bat0", "ups"}
  Kind <- BatteryAndUps
  Removable = {"bat0", "ups"}
  Full = 3
  LowPercent = 70
  CriticalPercent = 40
  ActionPercent = 10
  ClientFirst = TRUE
  NotifyFails = FALSE
  TimerMax = 2
INVARIANTS TypeOK WarningIsSaid
