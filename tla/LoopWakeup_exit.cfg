SPECIFICATION FairSpec
CONSTANTS
  Callers = {c1}
  Timers = {t1}
  Delays = {1}
  MaxTime = 1
  Uses <- ExitOnly
  IoThread = FALSE
  NoTimeout = NoTimeout
PROPERTIES ExitIsSeen
CHECK_DEADLOCK FALSE
