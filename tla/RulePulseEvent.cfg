SPECIFICATION FairSpec
CONSTANTS
  Level = {l1, l2}
  NullMeets = {l2}
  Event = {e1}
  Rules <- MCEventRules
  Value = {low, mid, high}
  Goal = high
  Negation = low
  Null = Null
  MaxSends = 4
INVARIANT PulseRestores
CHECK_DEADLOCK FALSE
