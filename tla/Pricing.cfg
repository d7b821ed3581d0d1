SPECIFICATION Spec
CONSTANTS
  w1 = w1  w2 = w2  o1 = o1  create = create  usage = usage  cost = cost
  other = other  base = base  newer = newer  mine = mine  bad = bad
  a = a  m1 = m1  m2 = m2
  None = None  Client = Client
  Worker = {w1, w2}
  Generation = {o1}
  Event = {create, usage, cost, other}
  Price = {base, newer, mine, bad}
  Project = {a}
  Model = {m1, m2}
  Matches <- MCMatches
  ScopeOf <- MCScopeOf
  SinceOf <- MCSinceOf
  HasPrices = {base, newer, mine, bad}
  Seeded = {base, bad}
  Invalid = {bad}
  ObsOf <- MCObsOf
  Says <- MCSays
  ProjectOf <- MCProjectOf
  StartOf <- MCStartOf
  TTL = 2
  MaxTime = 3
SYMMETRY WorkerSymmetry
INVARIANTS
  TypeOK
  ClientCostStays
  PriceOfItsTime
  CacheIsFresh
