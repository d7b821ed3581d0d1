SPECIFICATION FairSpec
CONSTANTS
  t1 = t1
  t2 = t2
  Worker = {w1, w2}
  Trace = {t1, t2}
  Kinds = {"span", "poison"}
  TraceOf <- MCTraceOf
  MaxEvents = 2
  BatchSize = 2
  MaxRetries = 2
  ClaimEvery = 1
  StreamMaxLen = 2
  EvalEnqueue = TRUE
  MaxCrashes = 1
  MaxSignals = 0
  MaxFaults = 0
PROPERTIES
  EveryEntrySettles
  CommitsAreAnnounced
