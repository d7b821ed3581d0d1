SPECIFICATION Spec
CONSTANTS
  w1 = w1  w2 = w2  t1 = t1  t2 = t2  r1 = r1  r2 = r2
  None = None
  Worker = {w1, w2}
  Trace = {t1}
  Rule = {r1}
  Applies <- OneRule
  Missing = {}
  BatchSize = 2
  Settle = 1
  Lease = 2
  MaxBounces = 1
  Endless = FALSE
  MaxWrites = 1
  MaxQueued = 1
  MaxCrashes = 1
  MaxFaults = 0
INVARIANTS
  EveryEvaluationIsRecorded
