SPECIFICATION Spec
CONSTANTS
  p1 = p1
  k1 = k1
  Producers = {p1}
  Keys = {k1}
  Contents = {c1, c2}
  Stamps = {1, 2}
  AuthoredStamps = {}
  Strategies = {s1}
  Versions = {v1}
  RandomIds = {1}
  DerivedId <- Derived
  Limit = 1
  None = None
SYMMETRY Symmetry
INVARIANTS
  TypeOK
  VersionsHaveStrategies
  RegistrationIsIdempotent
  RetryReturnsFirst
  IntentIsRecordedOnce
  PagingMissesNothing
PROPERTIES
  HistoryIsAppendOnly
