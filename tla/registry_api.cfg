SPECIFICATION FewApiSpec
CONSTANTS
  Producers <- PlainProducers
  Keys <- PlainKeys
  Contents = {c1, c2}
  Stamps = {t1, t2}
  Characters = {"a", "b", "c", "k", ":"}
  RandomIds = {u1, u2}
  ExperimentIds <- DerivedOrDrawn
  RunIds <- OneDerived
  EvidenceIds <- OneDerived
  ArtifactIds = {u1, u2}
  Open = Open
  Ended = {Closed}
  None = None
SYMMETRY Symmetry
INVARIANTS
  FirstUseIsNeverRefused
  ExperimentRetryReturnsFirst
  ArtifactRetryReturnsFirst
PROPERTY KeysImplementLedger
