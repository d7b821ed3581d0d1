SPECIFICATION FairSpec
CONSTANTS
  w1 = w1  w2 = w2  t1 = t1  t2 = t2  r1 = r1  r2 = r2
  None = None
  Worker = {w1}
  Trace = {t1, t2}
  Rule = {r1}
  Applies <- OneRuleEach
  Missing = {t2}
  BatchSize = 2
  Settle = 1
  Lease = 2
  MaxBounces = 1
  Endless = TRUE
  MaxWrites = 0
  MaxQueued = 1
  MaxCrashes = 1
  MaxFaults = 0
PROPERTIES
  EventuallyEvaluated
