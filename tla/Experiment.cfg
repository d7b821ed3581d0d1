SPECIFICATION Spec
CONSTANTS
  r1 = r1  r2 = r2  i1 = i1  i2 = i2  e1 = e1  n1 = n1  n2 = n2  None = None
  Runner = {r1, r2}
  Item = {i1, i2}
  Rule = {e1}
  Name = {n1, n2}
  NameOf <- MCNameOf
  Limit = 2
  MaxFeedback = 1
  MaxTrouble = 1
SYMMETRY Symmetries
INVARIANTS
  CountedScoresKnewTheAnswer
  RunIsComplete
PROPERTY WaitIsHonest
CHECK_DEADLOCK FALSE
