SPECIFICATION PartsSpec
CONSTANTS
  Daemons = {1, 2}
  MayReplace = {2}
  MayFail = {"register", "proxy"}
  MayCrash = {1, 2}
  EarlyQueries = FALSE
  Backends = {"systemd", "consolekit"}
  WireMax = 2
  Callers = {"a", "b"}
  CookieMax = 3
  MayStop = TRUE
  Zones = {"PRC", "Shanghai", "GMT-5"}
  Plain = {"PRC", "Shanghai"}
  Data <- TheirData
  ZoneChanges = 2
  Timeout = 1
  HasHwclock = TRUE
  MaxClock = 3
  Ids = {1, 2}
  Timeouts = {0, 3, 4}
  Margin = 1
  Cap = 100
  CounterMax = 6
  QueueMax = 4
  Prompt = TRUE
  Looks = {"x"}
  Seconds = 2
  MaxDialogs = 2
  MaxSaves = 3
  MaxFlying = 4
  Hardware = {"laptop", "docked"}
  MaxChanges = 3
  Slots = 2
  Bindable = {"a", "b", "super"}
  Super = "super"
  Usable = {"a", "b"}
  KeyCommands = {"x", "y"}
  Keymaps = {"us", "de"}
  Code <- TheirCodes
  Unbound = Unbound
  MaxKeyActs = 3
  Keyboard = {"l"}
  MaxMoves = 8
INVARIANTS PartsTypeOK NoSquatter OwnerServes Settled Released KeysAndZones Reverts
PROPERTIES OneInTheEnd QueryIsAnswered IdlenessKnown ReactionsEnd
CHECK_DEADLOCK FALSE
