SPECIFICATION Spec
CONSTANTS
  p1 = p1
  k1 = k1
  Producers = {p1}
  Keys = {k1}
  Contents = {c1}
  Stamps = {1, 2}
  AuthoredStamps = {1, 2}
  Strategies = {}
  Versions = {v1}
  RandomIds = {1}
  DerivedId <- Derived
  Limit = 1
  None = None
INVARIANT AuthoredTimeIsCompared
