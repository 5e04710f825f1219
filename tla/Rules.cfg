SPECIFICATION RulesSpec
CONSTANTS
  Level = {l1, l2}
  NullMeets = {l2}
  Event = {e1}
  Rules <- MCRules
  Value = {low, mid, high}
  Goal = high
  Negation = low
  Null = Null
  MaxSends = 4
  Loader = {boot}
  Add = {a1}
  Update = {u1}
  Delete = {d1}
  PropertyRule = {p}
  EventRule = {e}
  Orphan = {x}
  Stored = {p, e}
  MaxId = 2
  MaxObject = 4
  None = None
  Metric = {m1, m2}
  Permanent = {m2}
  NoMetric = NoMetric
  MaxMetricId = 2
  MaxRequests = 4
  MaxSamples = 1
  MaxReloads = 2
  Hasty = FALSE
  Device = {"meter", "plug"}
  Sensor = {"meter"}
  Outlet = {"bell"}
  MaxEdits = 3
  MaxShows = 3
  MaxBlocks = 3
  MaxRuleId = 3
INVARIANTS
  EffectFollows
  PulseRestores
  RunsWhatIsStored
  NoneLeftRunning
  ValuesBelong
  SavedAsMade
PROPERTIES
  SetsOnce
  HasItsWay
  LoadingEnds
CHECK_DEADLOCK FALSE
