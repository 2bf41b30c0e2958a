SPECIFICATION Spec
CONSTANTS
  Threads = {t1, t2}
  Keys = {k1}
  Bodies = {b1, b2}
  Mishaps = {"file", "directory"}
  MaxMishaps = 1
  MaxCrashes = 1
  None = None
INVARIANTS
  TypeOK
  AcknowledgedInStoreIsOnDisk
  ReadyMeansWritesLand
PROPERTIES
  EveryKeyIsAcknowledged
  StoresImplementLedger
