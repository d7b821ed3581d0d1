SPECIFICATION FairSpec
CONSTANTS
  a1 = a1
  f = f
  App = {a1}
  Flusher = f
  MaxEvents = 3
  MaxQueue = 2
  MaxBatch = 3
  MaxBatchEvents = 2
  Bad <- MCBad
  MaxTrouble = 1
INVARIANTS
  TypeOK
  Accounted
PROPERTIES
  KeepsPromise
  RoomIsMade
