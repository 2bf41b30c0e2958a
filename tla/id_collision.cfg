SPECIFICATION ApiSpec
CONSTANTS
  Producers <- ColonProducers
  Keys <- ColonKeys
  Contents = {c1}
  Stamps = {t1}
  Characters = {"a", "b", "c", "k", ":"}
  RandomIds = {}
  ExperimentIds <- DerivedIds
  RunIds = {}
  EvidenceIds = {}
  ArtifactIds = {}
  Open = Open
  Ended = {Closed}
  None = None
INVARIANT FirstUseIsNeverRefused
