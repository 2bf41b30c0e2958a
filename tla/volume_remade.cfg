SPECIFICATION Spec
CONSTANTS
  Keys = {k1}
  Contents = {c1, c2}
  Ids = {a1, a2}
  None = None
  MetadataMayFail = TRUE
  MaxMishaps = 1
  MaxCrashes = 1
SYMMETRY Symmetry
INVARIANT LostVolumeIsNotRemade
