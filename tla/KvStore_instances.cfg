SPECIFICATION Spec
CONSTANTS
  Apps = {a1, a2}
  Usernames = {u1, u2}
  Null = Null
  NoRequest = NoRequest
  MaxLaunches = 3
INVARIANTS
  OneRowPerKey
  LaunchesCounted
  IdleHoldsNoLock
PROPERTIES
  ImplementsMap
