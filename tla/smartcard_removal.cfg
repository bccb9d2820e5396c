SPECIFICATION FairSpec
CONSTANTS
  Slots = {1, 2}
  Cards = {"login"}
  NoCard = "no card"
  LoginCard = "login"
  Settings = {"none", "lock-screen"}
  SeriesMax = 3
  PipeSize = 3
PROPERTY RemovalIsActedOn
