SPECIFICATION Spec
CONSTANTS
  k1 = k1  p1 = p1  p2 = p2  s1 = s1  a = a  b = b
  r1 = r1  r2 = r2  None = None  Garbage = Garbage
  Request = {r1, r2}
  Key = {k1}
  Public = {p1, p2}
  Secret = {s1}
  Project = {a, b}
  PublicOf <- MCPublicOf
  SecretOf <- MCSecretOf
  ProjectOf <- MCProjectOf
  ExpiryOf <- MCExpiryOf
  Asks <- MCAsks
  DemoProject = b
  PublicDemo = TRUE
  TTL = 2
  MaxTime = 4
  MaxTrouble = 1
SYMMETRY RequestSymmetry
INVARIANTS
  TypeOK
  GrantsAreEarned
  RevokedFadesOut
  NoFalseDenial
