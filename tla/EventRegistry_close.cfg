SPECIFICATION Spec
CONSTANTS
  Fds = {f1, f2}
  KickFd = kick
  Objs = {o1, o2, o3}
  Masks <- TwoMasks
  h = h
  Handlers = {h}
  HandlerLists <- OneOrNone
  MaxHandlers = 1
  Ops <- AllOps
  Closable = {f1}
  CheckedPark = FALSE
  None = None
SYMMETRY Addresses
INVARIANTS TypeOK RegistrySound AliveIsWatched
PROPERTIES OrphanOrigin OrphansStay FailureIsLocal ImplementsFdRegistry
