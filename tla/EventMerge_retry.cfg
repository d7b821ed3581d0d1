SPECIFICATION Spec
CONSTANTS
  t1 = t1  o1 = o1  s1 = s1
  Trace = {t1}
  Obs = {o1}
  Score = {}
  TraceOf <- OneTraceOf
  Generation = {}
  Unpriced = {}
  TraceShapes <- NoShapes
  CreateShapes <- SdkCreates
  UpdateShapes <- SdkUpdates
  MaxEvents = 3
  MaxDeliveries = 3
PROPERTIES
  RetriedBatchesAreSafe
CHECK_DEADLOCK FALSE
