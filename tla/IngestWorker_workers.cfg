SPECIFICATION Spec
CONSTANTS
  t1 = t1
  t2 = t2
  Worker = {w1, w2}
  Trace = {t1, t2}
  Kinds = {"span", "toxic", "garbled"}
  TraceOf <- MCTraceOf
  MaxEvents = 2
  BatchSize = 2
  MaxRetries = 2
  ClaimEvery = 1
  StreamMaxLen = 1
  EvalEnqueue = TRUE
  MaxCrashes = 1
  MaxSignals = 1
  MaxFaults = 1
SYMMETRY Symmetry
INVARIANTS
  TypeOK
  NoSilentLoss
  GivenUpOnlyAfterRetries
  OnlyKillsStrand
  BadEventsAreIsolated
  AnnouncedAfterCommit
PROPERTIES
  KeepsPromise
