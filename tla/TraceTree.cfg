SPECIFICATION Spec
CONSTANTS
  t1 = t1  t2 = t2  x1 = x1  x2 = x2  s1 = s1  s2 = s2  s3 = s3  None = None
  Task = {t1, t2}
  Main = t1
  Trace = {x1, x2}
  Span = {s1, s2, s3}
  MaxDepth = 2
SYMMETRY IdSymmetry
INVARIANTS
  TypeOK
  ContextIsTheCallStack
  EventsAgree
  TreeIsHonest
CHECK_DEADLOCK FALSE
