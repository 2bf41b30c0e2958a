SPECIFICATION FewSpec
CONSTANTS
  Producers = {p1, p2}
  Keys = {k1}
  Contents = {c1, c2}
  Stamps = {t1, t2}
  ExperimentIds = {x1}
  RunIds = {r1, r2}
  EvidenceIds = {e1, e2}
  ArtifactIds = {a1}
  Open = Open
  Ended = {Closed}
  None = None
SYMMETRY Symmetry
INVARIANTS
  TypeOK
  NoDanglingReference
  AckedIsStored
  KeyNamesOneRow
  RunRetryReturnsFirst
  EvidenceRetryReturnsFirst
PROPERTIES
  RowsAreImmutable
  AttachmentIsWrittenOnce
  RunsImplementLedger
