SPECIFICATION Spec
CONSTANTS
  t1 = t1  o1 = o1  s1 = s1
  Trace = {t1}
  Obs = {o1}
  Score = {s1}
  TraceOf <- OneTraceOf
  Generation = {o1}
  Unpriced = {3}
  TraceShapes <- SdkTraces
  CreateShapes <- ClientCreates
  UpdateShapes <- ClientUpdates
  MaxEvents = 4
  MaxDeliveries = 3
INVARIANTS
  TypeOK
  SentBeatsPlaceholder
  EveryObservationHasATrace
  OnceCreatedNothingIsRejected
  CostFollowsTheRow

  
CHECK_DEADLOCK FALSE
