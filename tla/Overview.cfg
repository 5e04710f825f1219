SPECIFICATION OverviewSpec
CONSTANTS
  Thing = {"t1", "t2"}
  Overtakes = FALSE
  Returns = FALSE
  MaxChanges = 2
  MaxAsks = 1
  MaxLosses = 1
  Least = 0
  Most = 2
  Multiple = 2
  None = None
  MaxChoices = 1
  MaxVisits = 2
  NoWord = "none"
  MaxClicks = 2
  MaxPresses = 2
  MaxTurns = 3
  MaxFaults = 1
  MaxRestarts = 1
  Device = {"d1", "d2"}
  NeedsPin = {"d1"}
  NeedsLogin = {"d1"}
  Web = "w"
  MaxShows = 2
  MaxTries = 1
  Addon = {"a1", "a2"}
  MaxPages = 5
  MaxCalls = 3
  MaxFails = 1
  User = {"u1", "u2"}
  Me = "u1"
  Newcomer = "n"
  MaxForms = 8
  MaxSteps = 4
  Hasty = FALSE
  Tile = {"t1", "t2", "t3"}
  Group = {"g1", "g2"}
  NoGroup = "none"
  MaxMoves = 2
  MaxFailures = 1
  Extension = {"x1", "x2"}
  Listed = {"x1"}
  Missing = "x0"
  Views = {"things", "settings"}
  Home = "things"
  MaxOpens = 4
  MaxEvents = 5
  MaxAddresses = 3
  MaxNews = 2
  Point = {3, 4}
  MaxDrops = 1
  MaxTouches = 1
  MaxUpsets = 2
  Reduced = TRUE
INVARIANTS
  InStep
  DeviceShown
  RecordKept
  VisitsKeptApart
  PagesTell
  
  InPlace
  ShellTells
CHECK_DEADLOCK FALSE
