SPECIFICATION CampaignSpec
CONSTANTS
  Workers = {w1, w2}
  Producers <- PlainProducers
  Keys <- PlainKeys
  Producer <- OneProducer
  Key <- OneKey
  Contents = {c1}
  Stamps = {t1, t2}
  Characters = {"a", "b", "c", "k", ":"}
  RandomIds = {u1, u2}
  ExperimentIds <- OneDerived
  RunIds <- OneDerived
  EvidenceIds <- OneDerived
  ArtifactIds = {u1, u2}
  Open = Open
  Closed = Closed
  Ended = {Closed}
  None = None
  MaxLate = 1
  MaxCrashes = 1
INVARIANTS
  NothingIsRefused
  CampaignIsOneChain
PROPERTIES
  EndedRunIsFrozen
  CampaignsComplete
CHECK_DEADLOCK FALSE
