SPECIFICATION FairSpec
CONSTANTS
  Slots = {1}
  Cards = {"login", "other"}
  NoCard = "no card"
  LoginCard = "login"
  Settings = {"none", "lock-screen"}
  SeriesMax = 5
  PipeSize = 3
INVARIANTS TypeOK RemovalsArePaired
PROPERTIES Watched SettlesInTheEnd
