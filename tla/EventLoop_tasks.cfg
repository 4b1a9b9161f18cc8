SPECIFICATION FairSpec
CONSTANTS
  Tasks = {t1, t2, t3, t4}
  Clients = {c1, c2}
  Owning = {t4}
  None = None
  LoopThread = LoopThread
INVARIANTS
  NoLostWakeup
  DtorWaitsForTask
PROPERTIES
  ImplementsRunner
  EventuallyRuns
  DtorReturns
