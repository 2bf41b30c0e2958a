SPECIFICATION Spec
CONSTANTS
  Processes = {p1, p2}
  Builds <- SomeBuilds
  MaxCrashes = 1
INVARIANTS
  TypeOK
  RecordedIsApplied
  ReadyIsMigrated
  ReadyIsUnedited
PROPERTIES
  EveryProcessComesUp
