SPECIFICATION Spec
CONSTANTS
  Fds = {f1, f2}
  KickFd = kick
  Objs = {o1, o2, o3}
  Masks <- OneMask
  h = h
  Handlers = {h}
  HandlerLists <- NoHandlers
  MaxHandlers = 1
  Ops <- AllOps
  Closable = {}
  CheckedPark = FALSE
  None = None
SYMMETRY Symmetry
INVARIANTS NoRegisterFdIsUnwatched
