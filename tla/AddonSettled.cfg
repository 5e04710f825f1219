SPECIFICATION FairSpec
CONSTANTS
  Boot = boot
  Enable = {e1}
  Disable = {d1, d2}
  Reconfigure = {k1}
  Component = {c1, c2}
  MaxPlugins = 3
  MaxProcesses = 6
  MaxCrashes = 2
  Pace = "settled"
INVARIANTS
  KnownAndLoaded
PROPERTIES
  EnabledServes
  DownWhenDisabled
  RequestsAnswered
CHECK_DEADLOCK FALSE
