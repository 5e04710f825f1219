SPECIFICATION Spec
CONSTANTS
  Thing = {t1, t2}
  Present = {t1}
  Feed = {f1}
  Watcher = {w1}
  MaxWaiting = 2
INVARIANTS
  ConnectionsShown
  NoThingListenerLeft
PROPERTY
  StrangersOffered
CONSTRAINTS
  Undisturbed
  OneAudience
