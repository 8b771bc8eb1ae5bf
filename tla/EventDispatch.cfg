SPECIFICATION DispatchSpec
CONSTANTS
  Fds = {f1, f2}
  KickFd = kick
  Objs = {o1, o2, o3}
  Masks <- OneMask
  Handlers = {}
  HandlerLists <- NoHandlers
  MaxHandlers = 0
  Ops <- SomeOps
  Closable = {f1}
  CheckedPark = TRUE
  DeleteFirst = TRUE
  None = None
INVARIANTS DispatchTypeOK ParkedHasParker KernelPointersAlive ReadyIsBoxed HandlerFdIsValid AliveIsHeard
PROPERTIES NobodyWaitsForever
