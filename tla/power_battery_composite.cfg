SPECIFICATION Spec
CONSTANTS
  Devices = {"bat0", "bat1", "mouse"}
  Kind <- WithMouse
  Removable = {"mouse"}
  Full = 1
  LowPercent = 70
  CriticalPercent = 50
  ActionPercent = 10
  ClientFirst = FALSE
  NotifyFails = TRUE
  TimerMax = 1
INVARIANTS NoBatteryAlarmOnAc
