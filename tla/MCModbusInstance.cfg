SPECIFICATION FairSpec
CONSTANTS
  Threads = {t1, t2}
  Pollers = {g1, g2}
  Models = {m1, m2}
  None = None
  Blank = Blank
  Torn = Torn
INVARIANTS TypeOK PollerSafe SettledConfig
PROPERTIES CallsReturn RootStopsPolling LifecycleSpec
