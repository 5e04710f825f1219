SPECIFICATION ServicesSpec
CONSTANTS
  Window = 6
  Cap = 4
  Limit = 4
  MaxStreak = 6
  Version = {"v1", "v2"}
  Loadable = {"v1"}
  MaxJobs = 3
  MaxCrashes = 1
  Settled = TRUE
  MaxStarts = 3
  MaxPosts = 2
  LanSetting = {"dhcp", "static"}
  BadSetting = "bad"
  Ssid = {"a", "b"}
  Hidden = ""
  Name = {"n1", "n2"}
  MaxQuality = 2
  MaxSeen = 3
  MaxChanges = 2
  MaxCerts = 3
  MaxServers = 3
  MaxSubmits = 2
  User = {"u1"}
  Client = {"c1", "c2"}
  Registered = {"c1"}
  Value = {"x", "y"}
  Unset = "Unset"
  Session = "Session"
  MaxTokens = 4
  MaxRequests = 3
  Item = {t1, t2, t3}
  Group = {g1}
  NoGroup = NoGroup
  Undefined = Undefined
  MaxMoves = 2
  Bundle = {"b1", "b2", "b3"}
  MaxOrders = 2
  Reduced = TRUE
INVARIANTS
  Spacing
  RunsAsChosen
  GatewayWithoutAp
  NetworkIsTold
  ServesWhatIsOnDisk
  RecordsHold
  Arranged
  AllTold
CHECK_DEADLOCK FALSE
