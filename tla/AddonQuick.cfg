SPECIFICATION FairSpec
CONSTANTS
  Boot = boot
  Enable = {e1}
  Disable = {d1}
  Reconfigure = {}
  Component = {c1}
  MaxPlugins = 3
  MaxProcesses = 4
  MaxCrashes = 0
  Pace = "quick"
INVARIANTS
  ProcessKnown
CHECK_DEADLOCK FALSE
