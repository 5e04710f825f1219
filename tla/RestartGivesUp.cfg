SPECIFICATION Spec
CONSTANTS
  Window = 1
  Cap = 30
  Limit = 30
  MaxStreak = 31
INVARIANT GivesUp
