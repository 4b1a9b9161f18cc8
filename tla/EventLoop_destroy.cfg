SPECIFICATION Spec
CONSTANTS
  Tasks = {t1}
  Clients = {c1}
  Owning = {}
  None = None
  LoopThread = LoopThread
INVARIANT
  NoUseAfterDestroy
