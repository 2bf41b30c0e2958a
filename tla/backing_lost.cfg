SPECIFICATION Spec
CONSTANTS
  Threads = {t1, t2}
  Keys = {k1}
  Bodies = {b1}
  Mishaps = {"file"}
  MaxMishaps = 1
  MaxCrashes = 0
  None = None
INVARIANT AcknowledgedIsOnDisk
