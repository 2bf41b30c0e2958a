SPECIFICATION Spec
CONSTANTS
  Keys = {k1}
  Contents = {c1, c2}
  Ids = {a1, a2, a3}
  None = None
  MetadataMayFail = TRUE
  MaxMishaps = 2
  MaxCrashes = 2
SYMMETRY Symmetry
INVARIANTS
  TypeOK
  RecordedIsStored
  
  AcknowledgedAsDeclared
PROPERTIES
  ResubmissionMintsNothing
