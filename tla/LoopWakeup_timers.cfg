SPECIFICATION FairSpec
CONSTANTS
  Callers = {c1, c2}
  Timers = {t1, t2}
  Delays = {0, 1}
  MaxTime = 1
  Uses <- AllUses
  IoThread = TRUE
  NoTimeout = NoTimeout
INVARIANTS TypeOK TimersSorted NoLostWakeup EachTimerOnce
PROPERTIES ImplementsService DrainsWhatIsDue TimerRuns SleepsWhenQuiet
