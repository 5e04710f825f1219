SPECIFICATION PairingRuns
CONSTANTS
  Request = {r1}
  Thing = {t1}
  Adapter = {a1}
  Owner <- MCOwner
  MaxProxies = 2
  NoRequest = NoRequest
  NoThing = NoThing
  Post = {p1}
  Socket = {s1}
  Removal = {d1}
  Call = {c1}
  Set = {v1}
  NoAction = NoAction
  MaxWaiting = 3
  MaxCrashes = 1
PROPERTIES
  RemovalsSettle
CHECK_DEADLOCK FALSE
