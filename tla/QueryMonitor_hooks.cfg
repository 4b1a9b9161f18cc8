SPECIFICATION Spec
CONSTANTS
  Monitors = {m1, m2}
  Listeners = {l1, l2, l3}
  Null = Null
INVARIANTS
  RegisteredIsLive
  HooksOfOneMonitor
  GoneOnlyMidway
PROPERTIES
  ToldOnce
