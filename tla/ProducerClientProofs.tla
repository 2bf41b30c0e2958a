------------------------ MODULE ProducerClientProofs ------------------------
(***************************************************************************)
(* Proofs about ProducerClient, for any number of workers and campaigns,   *)
(* of late requests and of crashes.  Where campaigns of several producers  *)
(* meet, the names of the producers hold no colon (ColonFree): with one,   *)
(* two campaigns can be given the same ids (the run id_collision).         *)
(***************************************************************************)
EXTENDS ProducerClient, RegistryApiProofs

(* The id all the keyed records of a worker's campaign get.                *)
ChainId(w) == DerivedId(Producer[w], Key[w])

SignedBy(r, w) == r.producer = Producer[w] /\ r.key = Key[w]

LEMMA Signatures ==
  ASSUME NEW w \in Workers
  PROVE  /\ Producer[w] \in Producers /\ Key[w] \in Keys
         /\ Producer[w] # None /\ Key[w] # None /\ Key[w] \notin Blank
         /\ ChainId(w) \in ExperimentIds
         /\ ChainId(w) \in RunIds
         /\ ChainId(w) \in EvidenceIds
         /\ ChainId(w) # None
<1>1. Producer[w] \in Producers /\ Key[w] \in Keys
  BY WorkersSign
<1>2. ChainId(w) \in ExperimentIds \cap RunIds \cap EvidenceIds
  BY RoutesNameIds DEF ChainId
<1> QED
  BY <1>1, <1>2, WorkersSign, NoneIsNoValue DEF Blank

(* Two campaigns whose producers are free of colons have two ids.          *)
LEMMA ChainIdsDiffer ==
  ASSUME \A p \in Producers : ColonFree(p),
         NEW v \in Workers, NEW w \in Workers, ChainId(v) = ChainId(w)
  PROVE  Producer[v] = Producer[w] /\ Key[v] = Key[w]
<1>1. /\ Producer[v] \in Producers /\ Key[v] \in Keys
      /\ Producer[w] \in Producers /\ Key[w] \in Keys
  BY Signatures
<1>2. /\ Producer[v] \in Seq(Characters) /\ Key[v] \in Seq(Characters)
      /\ Producer[w] \in Seq(Characters) /\ Key[w] \in Seq(Characters)
  BY <1>1, NamesAreText
<1> QED
  BY <1>1, <1>2, ColonFreeNamesDiffer DEF ChainId

-----------------------------------------------------------------------------
(* The invariant.                                                          *)

OfCampaign(r, w) == SignedBy(r, w) /\ r.content = Text

(* What a row of each table looks like that a campaign recorded.           *)
RowsOfCampaigns ==
  /\ \A r \in experiments : \E w \in Workers :
       OfCampaign(r, w) /\ r.id = ChainId(w)
  /\ \A r \in runs : \E w \in Workers :
       /\ OfCampaign(r, w) /\ r.id = ChainId(w)
       /\ r.experiment = ChainId(w) /\ r.born = Open
       /\ r.status \in {Open, Closed}
  /\ \A r \in evidence : \E w \in Workers :
       /\ OfCampaign(r, w) /\ r.id = ChainId(w)
       /\ r.run = ChainId(w) /\ r.experiment = ChainId(w)
  /\ \A r \in artifacts : \E w \in Workers :
       /\ OfCampaign(r, w)
       /\ r.run = ChainId(w) /\ r.evidence = ChainId(w)

ExperimentStored(w) == Exists(experiments, ChainId(w))
RunStored(w)        == Exists(runs, ChainId(w))
EvidenceStored(w)   == Exists(evidence, ChainId(w))

RunIsClosed(w) == \E r \in WithId(runs, ChainId(w)) : r.status = Closed

ArtifactStored(w, id) ==
  \E r \in artifacts :
    r.id = id /\ r.run = ChainId(w) /\ r.evidence = ChainId(w)

(* The five requests of a worker, and what is stored once it sends them.   *)
AskExperiment(w) ==
  [method |-> "create_experiment",
   producer |-> Producer[w], header |-> Key[w], body |-> None]

AskRun(w) ==
  [method |-> "create_run", experiment |-> ChainId(w),
   producer |-> Producer[w], header |-> Key[w], body |-> None]

AskEvidence(w) ==
  [method |-> "append_evidence", experiment |-> ChainId(w),
   run |-> ChainId(w),
   producer |-> Producer[w], header |-> Key[w], body |-> Key[w]]

AskArtifact(w) ==
  [method |-> "register_artifact", run |-> ChainId(w),
   evidence |-> ChainId(w),
   producer |-> Producer[w], header |-> Key[w], body |-> None]

AskClose(w) ==
  [method |-> "close_run", run |-> ChainId(w), status |-> Closed]

IsRequestOf(m, w) ==
  \/ m = AskExperiment(w)
  \/ m = AskRun(w) /\ ExperimentStored(w)
  \/ m = AskEvidence(w) /\ ExperimentStored(w) /\ RunStored(w)
  \/ m = AskArtifact(w) /\ RunStored(w) /\ EvidenceStored(w)
  \/ m = AskClose(w) /\ RunStored(w)

(* The answers a worker may get, and what is stored once it gets them.     *)
GoodAnswer(reply, m, w) ==
  \/ /\ m.method = "create_experiment"
     /\ reply = Created(ChainId(w)) /\ ExperimentStored(w)
  \/ /\ m.method = "create_run"
     /\ reply = Created(ChainId(w)) /\ RunStored(w)
  \/ /\ m.method = "append_evidence"
     /\ reply = Created(ChainId(w)) /\ EvidenceStored(w)
  \/ /\ m.method = "register_artifact"
     /\ \E id \in ArtifactIds : reply = Created(id) /\ ArtifactStored(w, id)
  \/ /\ m.method = "close_run"
     /\ reply.code \in {"closed", "immutability_violation"}
     /\ RunIsClosed(w)

HeldSet ==
  [experiment : Optional(ExperimentIds), run : Optional(RunIds),
   evidence : Optional(EvidenceIds), artifact : Optional(ArtifactIds),
   closed : BOOLEAN]

(* What a worker holds was stored in the order of its calls.               *)
HeldInOrder(w) ==
  /\ held[w].experiment # None =>
       held[w].experiment = ChainId(w) /\ ExperimentStored(w)
  /\ held[w].run # None =>
       /\ held[w].experiment # None
       /\ held[w].run = ChainId(w) /\ RunStored(w)
  /\ held[w].evidence # None =>
       /\ held[w].run # None
       /\ held[w].evidence = ChainId(w) /\ EvidenceStored(w)
  /\ held[w].artifact # None =>
       held[w].evidence # None /\ ArtifactStored(w, held[w].artifact)
  /\ held[w].closed => held[w].artifact # None /\ RunIsClosed(w)

(* A worker waits for the call that what it holds leads to.                *)
CallInOrder(w) ==
  call[w] # None =>
    /\ call[w] = [request |-> NextCall(w), reply |-> call[w].reply]
    /\ call[w].reply # None => GoodAnswer(call[w].reply, NextCall(w), w)

WireInOrder ==
  /\ held \in [Workers -> HeldSet]
  /\ call = [w \in Workers |-> call[w]]
  /\ \A w \in Workers : HeldInOrder(w) /\ CallInOrder(w)
  /\ \A m \in late : \E w \in Workers : IsRequestOf(m, w)

CampaignInv == RowsOfCampaigns /\ WireInOrder
-----------------------------------------------------------------------------
(* The routes, one request at a time.                                      *)

LEMMA AnswerToNew ==
  ASSUME NEW table, NEW q, NEW replay, IsNew(table, q)
  PROVE  Answer(table, q, TRUE, replay) = Created(q.id)
BY DEF Answer

LEMMA AnswerToKnown ==
  ASSUME NEW table, NEW q, NEW r, ~IsNew(table, q)
  PROVE  Answer(table, q, TRUE, {r}) = Created(r.id)
<1>1. (CHOOSE x \in {r} : TRUE) = r
  OBVIOUS
<1> QED
  BY <1>1 DEF Answer

LEMMA TextIsContent == Text \in Contents
BY SomethingToRecord DEF Text

(* A table of campaigns holds nothing under a campaign's id and key, or    *)
(* holds one row there.                                                    *)
LEMMA KeyedLookup ==
  ASSUME \A p \in Producers : ColonFree(p),
         NEW table, UniqueIds(table),
         \A r \in table : \E v \in Workers :
           SignedBy(r, v) /\ r.id = ChainId(v),
         NEW w \in Workers, NEW q, SignedBy(q, w), q.id = ChainId(w)
  PROVE  \/ IsNew(table, q)
         \/ /\ ~IsNew(table, q)
            /\ \E r \in table : /\ r.id = ChainId(w) /\ SignedBy(r, w)
                                /\ Keyed(table, q) = {r}
<1>1. ASSUME NEW s \in Keyed(table, q)
      PROVE  s \in table /\ s.id = ChainId(w)
  <2>1. s \in table /\ SignedBy(s, w)
    BY DEF Keyed, SignedBy
  <2>2. PICK v \in Workers : SignedBy(s, v) /\ s.id = ChainId(v)
    BY <2>1
  <2>3. ChainId(v) = ChainId(w)
    BY <2>1, <2>2 DEF SignedBy, ChainId
  <2> QED
    BY <2>1, <2>2, <2>3
<1>2. CASE WithId(table, q.id) = {}
  BY <1>1, <1>2 DEF IsNew, WithId
<1>3. CASE WithId(table, q.id) # {}
  <2>1. PICK r \in table : r.id = ChainId(w)
    BY <1>3 DEF WithId
  <2>2. PICK v \in Workers : SignedBy(r, v) /\ r.id = ChainId(v)
    OBVIOUS
  <2>3. SignedBy(r, w)
    BY <2>1, <2>2, ChainIdsDiffer DEF SignedBy
  <2>4. r \in Keyed(table, q)
    BY <2>1, <2>3, Signatures DEF Keyed, SignedBy
  <2>5. Keyed(table, q) = {r}
    BY <1>1, <2>1, <2>4 DEF UniqueIds
  <2> QED
    BY <1>3, <2>1, <2>3, <2>5 DEF IsNew
<1> QED
  BY <1>2, <1>3

LEMMA ServesExperiment ==
  ASSUME \A p \in Producers : ColonFree(p),
         TablesTyped, Uniqueness, RowsOfCampaigns,
         NEW w \in Workers, NEW reply, Serve(AskExperiment(w), reply)
  PROVE  /\ \E q \in ExperimentRow : PostExperiment(q)
         /\ UNCHANGED <<runs, evidence, artifacts>>
         /\ reply = Created(ChainId(w))
         /\ \/ experiments' = experiments /\ Exists(experiments, ChainId(w))
            \/ \E q : /\ experiments' = experiments \cup {q}
                      /\ OfCampaign(q, w) /\ q.id = ChainId(w)
<1> DEFINE m == AskExperiment(w)
<1>1. /\ m.method = "create_experiment" /\ ResolvedKey(m) = Key[w]
      /\ m.producer = Producer[w]
  BY Signatures DEF AskExperiment, ResolvedKey
<1>2. ChosenIds(m) = {ChainId(w)}
  BY <1>1, Signatures DEF ChosenIds, ChainId
<1>3. PICK at \in Stamps :
        ServeExperiment(NewExperiment(m, ChainId(w), at), reply)
  <2> HIDE DEF m
  <2> QED
    BY <1>1, <1>2 DEF Serve, m
<1> DEFINE q == NewExperiment(m, ChainId(w), at)
<1>4. /\ q \in ExperimentRow /\ OfCampaign(q, w) /\ q.id = ChainId(w)
      /\ q.content = Text
  BY <1>1, Signatures, TextIsContent
  DEF NewExperiment, ExperimentRow, Optional, OfCampaign, SignedBy
<1>5. /\ reply = Answer(experiments, q, TRUE, ExperimentReplay(q))
      /\ PostExperiment(q)
  BY <1>3 DEF ServeExperiment
<1> HIDE DEF m, q
<1>6. UNCHANGED <<runs, evidence, artifacts>>
  BY <1>5 DEF PostExperiment, CreateExperiment, Refuse, tables, vars
<1>7. CASE IsNew(experiments, q)
  <2>1. reply = Created(ChainId(w))
    BY <1>4, <1>5, <1>7, AnswerToNew
  <2>2. ExperimentReplay(q) = {}
    BY <1>7 DEF ExperimentReplay, IsNew
  <2>3. experiments' = experiments \cup {q}
    BY <1>5, <1>7, <2>2 DEF PostExperiment, CreateExperiment
  <2> QED
    BY <1>4, <1>5, <1>6, <2>1, <2>3
<1>8. ASSUME NEW r \in experiments, r.id = ChainId(w), SignedBy(r, w),
             Keyed(experiments, q) = {r}, ~IsNew(experiments, q)
      PROVE  /\ reply = Created(ChainId(w))
             /\ experiments' = experiments /\ Exists(experiments, ChainId(w))
  <2>1. r.content = Text
    BY DEF RowsOfCampaigns, OfCampaign
  <2>2. SameExperiment(r, q)
    BY <1>4, <1>8, <2>1 DEF SameExperiment, OfCampaign, SignedBy
  <2>3. ExperimentReplay(q) = {r}
    BY <1>8, <2>2 DEF ExperimentReplay
  <2>4. reply = Created(ChainId(w))
    BY <1>5, <1>8, <2>3, AnswerToKnown
  <2>5. experiments' = experiments
    BY <1>5, <1>8, <2>3 DEF PostExperiment, CreateExperiment, tables
  <2> QED
    BY <1>8, <2>4, <2>5 DEF Exists
<1>9. \/ IsNew(experiments, q)
      \/ /\ ~IsNew(experiments, q)
         /\ \E r \in experiments : /\ r.id = ChainId(w) /\ SignedBy(r, w)
                                   /\ Keyed(experiments, q) = {r}
  <2>1. /\ UniqueIds(experiments)
        /\ \A r \in experiments : \E v \in Workers :
             SignedBy(r, v) /\ r.id = ChainId(v)
    BY DEF Uniqueness, IdNamesOneRow, RowsOfCampaigns, OfCampaign
  <2>2. SignedBy(q, w) /\ q.id = ChainId(w)
    BY <1>4 DEF OfCampaign
  <2> QED
    BY <2>1, <2>2, KeyedLookup
<1> QED
  BY <1>4, <1>5, <1>6, <1>7, <1>8, <1>9

LEMMA ServesRun ==
  ASSUME \A p \in Producers : ColonFree(p),
         TablesTyped, Uniqueness, RowsOfCampaigns,
         NEW w \in Workers, ExperimentStored(w),
         NEW reply, Serve(AskRun(w), reply)
  PROVE  /\ \E q \in RunRequest : PostRun(q)
         /\ UNCHANGED <<experiments, evidence, artifacts>>
         /\ reply = Created(ChainId(w))
         /\ \/ runs' = runs /\ Exists(runs, ChainId(w))
            \/ \E q : /\ runs' = runs \cup {q}
                      /\ OfCampaign(q, w) /\ q.id = ChainId(w)
                      /\ q.experiment = ChainId(w)
                      /\ q.born = Open /\ q.status = Open
<1> DEFINE m == AskRun(w)
<1>1. /\ m.method = "create_run" /\ ResolvedKey(m) = Key[w]
      /\ m.producer = Producer[w] /\ m.experiment = ChainId(w)
  BY Signatures DEF AskRun, ResolvedKey
<1>2. ChosenIds(m) = {ChainId(w)}
  BY <1>1, Signatures DEF ChosenIds, ChainId
<1>3. PICK at \in Stamps : ServeRun(NewRun(m, ChainId(w), at), reply)
  <2> HIDE DEF m
  <2> QED
    BY <1>1, <1>2 DEF Serve, m
<1> DEFINE q == NewRun(m, ChainId(w), at)
<1>4. /\ q \in RunRequest /\ OfCampaign(q, w) /\ q.id = ChainId(w)
      /\ q.experiment = ChainId(w) /\ q.born = Open
  BY <1>1, Signatures, TextIsContent
  DEF NewRun, RunRequest, Optional, Status, OfCampaign, SignedBy
<1>5. /\ reply = Answer(runs, q, RunResolves(q), RunReplay(q))
      /\ PostRun(q)
  BY <1>3 DEF ServeRun
<1> HIDE DEF m, q
<1>6. UNCHANGED <<experiments, evidence, artifacts>>
  BY <1>5 DEF PostRun, CreateRun, Refuse, tables, vars
<1>7. RunResolves(q) = TRUE
  BY <1>4 DEF RunResolves, ExperimentStored
<1>8. reply = Answer(runs, q, TRUE, RunReplay(q))
  BY <1>5, <1>7
<1>9. CASE IsNew(runs, q)
  <2>1. reply = Created(ChainId(w))
    BY <1>4, <1>8, <1>9, AnswerToNew
  <2>2. RunReplay(q) = {}
    BY <1>9 DEF RunReplay, IsNew
  <2>3. runs' = runs \cup {RunOf(q)}
    BY <1>5, <1>7, <1>9, <2>2 DEF PostRun, CreateRun
  <2>4. /\ OfCampaign(RunOf(q), w) /\ RunOf(q).id = ChainId(w)
        /\ RunOf(q).experiment = ChainId(w)
        /\ RunOf(q).born = Open /\ RunOf(q).status = Open
    BY <1>4 DEF RunOf, OfCampaign, SignedBy
  <2> QED
    BY <1>4, <1>5, <1>6, <2>1, <2>3, <2>4
<1>10. ASSUME NEW r \in runs, r.id = ChainId(w), SignedBy(r, w),
              Keyed(runs, q) = {r}, ~IsNew(runs, q)
       PROVE  /\ reply = Created(ChainId(w))
              /\ runs' = runs /\ Exists(runs, ChainId(w))
  <2>1. PICK v \in Workers :
          /\ OfCampaign(r, v) /\ r.id = ChainId(v)
          /\ r.experiment = ChainId(v) /\ r.born = Open
    BY DEF RowsOfCampaigns
  <2>2. SameRun(r, q)
    BY <1>4, <1>10, <2>1 DEF SameRun, OfCampaign, SignedBy
  <2>3. RunReplay(q) = {r}
    BY <1>10, <2>2 DEF RunReplay
  <2>4. reply = Created(ChainId(w))
    BY <1>8, <1>10, <2>3, AnswerToKnown
  <2>5. runs' = runs
    BY <1>5, <1>7, <1>10, <2>3 DEF PostRun, CreateRun, tables
  <2> QED
    BY <1>10, <2>4, <2>5 DEF Exists
<1>11. \/ IsNew(runs, q)
       \/ /\ ~IsNew(runs, q)
          /\ \E r \in runs : /\ r.id = ChainId(w) /\ SignedBy(r, w)
                             /\ Keyed(runs, q) = {r}
  <2>1. /\ UniqueIds(runs)
        /\ \A r \in runs : \E v \in Workers :
             SignedBy(r, v) /\ r.id = ChainId(v)
    BY DEF Uniqueness, IdNamesOneRow, RowsOfCampaigns, OfCampaign
  <2>2. SignedBy(q, w) /\ q.id = ChainId(w)
    BY <1>4 DEF OfCampaign
  <2> QED
    BY <2>1, <2>2, KeyedLookup
<1> QED
  BY <1>4, <1>5, <1>6, <1>9, <1>10, <1>11

LEMMA ServesEvidence ==
  ASSUME \A p \in Producers : ColonFree(p),
         TablesTyped, Uniqueness, RowsOfCampaigns,
         NEW w \in Workers, ExperimentStored(w), RunStored(w),
         NEW reply, Serve(AskEvidence(w), reply)
  PROVE  /\ \E q \in EvidenceRow : PostEvidence(q)
         /\ UNCHANGED <<experiments, runs, artifacts>>
         /\ reply = Created(ChainId(w))
         /\ \/ evidence' = evidence /\ Exists(evidence, ChainId(w))
            \/ \E q : /\ evidence' = evidence \cup {q}
                      /\ OfCampaign(q, w) /\ q.id = ChainId(w)
                      /\ q.run = ChainId(w) /\ q.experiment = ChainId(w)
<1> DEFINE m == AskEvidence(w)
<1>1. /\ m.method = "append_evidence" /\ ResolvedKey(m) = Key[w]
      /\ m.producer = Producer[w] /\ m.experiment = ChainId(w)
      /\ m.run = ChainId(w)
  BY Signatures DEF AskEvidence, ResolvedKey
<1>2. ChosenIds(m) = {ChainId(w)}
  BY <1>1, Signatures DEF ChosenIds, ChainId
<1>3. PICK at \in Stamps :
        ServeEvidence(NewEvidence(m, ChainId(w), at), reply)
  <2> HIDE DEF m
  <2> QED
    BY <1>1, <1>2 DEF Serve, m
<1> DEFINE q == NewEvidence(m, ChainId(w), at)
<1>4. /\ q \in EvidenceRow /\ OfCampaign(q, w) /\ q.id = ChainId(w)
      /\ q.run = ChainId(w) /\ q.experiment = ChainId(w)
  BY <1>1, Signatures, TextIsContent
  DEF NewEvidence, EvidenceRow, Optional, OfCampaign, SignedBy
<1>5. /\ reply = Answer(evidence, q, EvidenceResolves(q), EvidenceReplay(q))
      /\ PostEvidence(q)
  BY <1>3 DEF ServeEvidence
<1> HIDE DEF m, q
<1>6. UNCHANGED <<experiments, runs, artifacts>>
  BY <1>5 DEF PostEvidence, AppendEvidence, Refuse, tables, vars
<1>7. EvidenceResolves(q) = TRUE
  BY <1>4 DEF EvidenceResolves, Resolves, ExperimentStored, RunStored
<1>8. reply = Answer(evidence, q, TRUE, EvidenceReplay(q))
  BY <1>5, <1>7
<1>9. CASE IsNew(evidence, q)
  <2>1. reply = Created(ChainId(w))
    BY <1>4, <1>8, <1>9, AnswerToNew
  <2>2. EvidenceReplay(q) = {}
    BY <1>9 DEF EvidenceReplay, IsNew
  <2>3. evidence' = evidence \cup {q}
    BY <1>5, <1>7, <1>9, <2>2 DEF PostEvidence, AppendEvidence
  <2> QED
    BY <1>4, <1>5, <1>6, <2>1, <2>3
<1>10. ASSUME NEW r \in evidence, r.id = ChainId(w), SignedBy(r, w),
              Keyed(evidence, q) = {r}, ~IsNew(evidence, q)
       PROVE  /\ reply = Created(ChainId(w))
              /\ evidence' = evidence /\ Exists(evidence, ChainId(w))
  <2>1. PICK v \in Workers :
          /\ OfCampaign(r, v) /\ r.id = ChainId(v)
          /\ r.run = ChainId(v) /\ r.experiment = ChainId(v)
    BY DEF RowsOfCampaigns
  <2>2. SameEvidence(r, q)
    BY <1>4, <1>10, <2>1 DEF SameEvidence, OfCampaign, SignedBy
  <2>3. EvidenceReplay(q) = {r}
    BY <1>10, <2>2 DEF EvidenceReplay
  <2>4. reply = Created(ChainId(w))
    BY <1>8, <1>10, <2>3, AnswerToKnown
  <2>5. evidence' = evidence
    BY <1>5, <1>7, <1>10, <2>3 DEF PostEvidence, AppendEvidence, tables
  <2> QED
    BY <1>10, <2>4, <2>5 DEF Exists
<1>11. \/ IsNew(evidence, q)
       \/ /\ ~IsNew(evidence, q)
          /\ \E r \in evidence : /\ r.id = ChainId(w) /\ SignedBy(r, w)
                                 /\ Keyed(evidence, q) = {r}
  <2>1. /\ UniqueIds(evidence)
        /\ \A r \in evidence : \E v \in Workers :
             SignedBy(r, v) /\ r.id = ChainId(v)
    BY DEF Uniqueness, IdNamesOneRow, RowsOfCampaigns, OfCampaign
  <2>2. SignedBy(q, w) /\ q.id = ChainId(w)
    BY <1>4 DEF OfCampaign
  <2> QED
    BY <2>1, <2>2, KeyedLookup
<1> QED
  BY <1>4, <1>5, <1>6, <1>9, <1>10, <1>11

LEMMA ServesArtifact ==
  ASSUME TablesTyped, Uniqueness, NoDanglingReference, RowsOfCampaigns,
         NEW w \in Workers, RunStored(w), EvidenceStored(w),
         NEW reply, Serve(AskArtifact(w), reply)
  PROVE  /\ \E q \in ArtifactRequest : PostArtifact(q)
         /\ UNCHANGED <<experiments, runs, evidence>>
         /\ \E id \in ArtifactIds :
              /\ reply = Created(id)
              /\ \/ artifacts' = artifacts /\ ArtifactStored(w, id)
                 \/ \E q : /\ artifacts' = artifacts \cup {q}
                           /\ OfCampaign(q, w) /\ q.id = id
                           /\ q.run = ChainId(w) /\ q.evidence = ChainId(w)
<1> DEFINE m == AskArtifact(w)
<1>1. /\ m.method = "register_artifact" /\ ResolvedKey(m) = Key[w]
      /\ m.producer = Producer[w] /\ m.evidence = ChainId(w)
      /\ m.run = ChainId(w)
  BY Signatures DEF AskArtifact, ResolvedKey
<1>2. PICK at \in Stamps, id \in ChosenIds(m) :
        ServeArtifact(NewArtifact(m, id, at), reply)
  <2> HIDE DEF m
  <2> QED
    BY <1>1 DEF Serve, m
<1>3. id \in RandomIds /\ ~Exists(artifacts, id)
  BY <1>1, <1>2 DEF ChosenIds, Unused, Exists
<1>4. id \in ArtifactIds
  BY <1>3, RoutesNameIds
<1> DEFINE q == NewArtifact(m, id, at)
<1>5. /\ q \in ArtifactRequest /\ OfCampaign(q, w) /\ q.id = id
      /\ q.run = ChainId(w) /\ q.evidence = ChainId(w)
  BY <1>1, <1>4, Signatures, TextIsContent
  DEF NewArtifact, ArtifactRequest, Optional, OfCampaign, SignedBy
<1>6. ServeArtifact(q, reply)
  BY <1>2
<1> HIDE DEF m, q
<1>7. UNCHANGED <<experiments, runs, evidence>>
  BY <1>6
  DEF ServeArtifact, PostArtifact, RegisterArtifact, Refuse, tables, vars
<1>8. CASE Keyed(artifacts, q) = {}
  <2>1. IsNew(artifacts, q)
    BY <1>3, <1>5, <1>8 DEF IsNew, WithId, Exists
  <2>2. ArtifactResolves(q) = TRUE
    BY <1>5 DEF ArtifactResolves, Resolves, RunStored, EvidenceStored
  <2>3. reply = Answer(artifacts, q, TRUE, {})
    BY <1>6, <1>8, <2>2 DEF ServeArtifact
  <2>4. reply = Created(id)
    BY <1>5, <2>1, <2>3, AnswerToNew
  <2>5. RegisterArtifact(q)
    BY <1>6, <1>8 DEF ServeArtifact, PostArtifact
  <2>6. ArtifactReplay(q) = {}
    BY <2>1 DEF ArtifactReplay, IsNew
  <2>7. artifacts' = artifacts \cup {q}
    BY <2>1, <2>2, <2>5, <2>6 DEF RegisterArtifact
  <2> QED
    BY <1>4, <1>5, <1>6, <1>7, <2>4, <2>7 DEF ServeArtifact
<1>9. CASE Keyed(artifacts, q) # {}
  <2>1. ASSUME NEW prior \in Keyed(artifacts, q)
        PROVE  /\ prior \in artifacts
               /\ prior.id \in ArtifactIds
               /\ [prior EXCEPT !.content = q.content] = prior
               /\ prior.run = ChainId(w) /\ prior.evidence = ChainId(w)
               /\ Keyed(artifacts, prior) = {prior}
               /\ ArtifactReplay(prior) = {prior}
               /\ ArtifactResolves(prior) = TRUE
               /\ ~IsNew(artifacts, prior)
    <3>1. /\ prior \in artifacts /\ prior \in ArtifactRequest
          /\ SignedBy(prior, w)
      BY <1>5 DEF Keyed, TablesTyped, OfCampaign, SignedBy
    <3>2. PICK v \in Workers :
            /\ OfCampaign(prior, v)
            /\ prior.run = ChainId(v) /\ prior.evidence = ChainId(v)
      BY <3>1 DEF RowsOfCampaigns
    <3>3. ChainId(v) = ChainId(w)
      BY <3>1, <3>2 DEF OfCampaign, SignedBy, ChainId
    <3>4. prior.content = q.content
      BY <1>5, <3>2 DEF OfCampaign
    <3>5. [prior EXCEPT !.content = q.content] = prior
      BY <3>1, <3>4 DEF ArtifactRequest
    <3>6. prior.key # None
      BY <3>1, Signatures DEF SignedBy
    <3>7. Keyed(artifacts, prior) = {prior}
      BY <3>1, <3>6 DEF Keyed, Uniqueness, KeyNamesOneRow, UniqueKeys
    <3>8. ArtifactReplay(prior) = {prior}
      BY <3>7 DEF ArtifactReplay, SameRegistration
    <3>9. ArtifactResolves(prior) = TRUE
      BY <3>1 DEF NoDanglingReference
    <3>10. ~IsNew(artifacts, prior)
      BY <3>7 DEF IsNew
    <3>11. prior.id \in ArtifactIds
      BY <3>1 DEF ArtifactRequest
    <3> QED
      BY <3>1, <3>2, <3>3, <3>5, <3>7, <3>8, <3>9, <3>10, <3>11
  <2>2. PICK prior \in Keyed(artifacts, q) :
          reply = Answer(artifacts, prior, ArtifactResolves(prior),
                         ArtifactReplay(prior))
    BY <1>6, <1>9, <2>1 DEF ServeArtifact
  <2>3. reply = Answer(artifacts, prior, TRUE, {prior})
    BY <2>1, <2>2
  <2>4. reply = Created(prior.id)
    BY <2>1, <2>3, AnswerToKnown
  <2>5. PICK r \in Keyed(artifacts, q) : RegisterArtifact(r)
    BY <1>6, <1>9, <2>1 DEF ServeArtifact, PostArtifact
  <2>6. artifacts' = artifacts
    BY <2>1, <2>5 DEF RegisterArtifact, tables
  <2>7. ArtifactStored(w, prior.id)
    BY <2>1 DEF ArtifactStored
  <2> QED
    BY <1>5, <1>6, <1>7, <2>1, <2>4, <2>6, <2>7 DEF ServeArtifact
<1> QED
  BY <1>8, <1>9

LEMMA ServesClose ==
  ASSUME TablesTyped, RowsOfCampaigns, NEW w \in Workers, RunStored(w),
         NEW reply, Serve(AskClose(w), reply)
  PROVE  /\ \E at \in Stamps : CloseRun(ChainId(w), Closed, at)
         /\ UNCHANGED <<experiments, evidence, artifacts>>
         /\ reply.code \in {"closed", "immutability_violation"}
         /\ \/ runs' = runs /\ RunIsClosed(w)
            \/ \E r \in WithId(runs, ChainId(w)), at \in Stamps :
                 runs' = (runs \ {r})
                         \cup {[r EXCEPT !.status = Closed, !.ended = at]}
<1> DEFINE m == AskClose(w)
<1>1. /\ m.method = "close_run" /\ m.run = ChainId(w) /\ m.status = Closed
  BY DEF AskClose
<1>2. PICK at \in Stamps : ServeClose(m, at, reply)
  <2> HIDE DEF m
  <2> QED
    BY <1>1 DEF Serve, m
<1> HIDE DEF m
<1>3. CloseRun(ChainId(w), Closed, at)
  BY <1>1, <1>2 DEF ServeClose
<1>4. UNCHANGED <<experiments, evidence, artifacts>>
  BY <1>3 DEF CloseRun, Refuse, vars
<1>5. reply.code \in {"closed", "immutability_violation"}
  BY <1>1, <1>2 DEF ServeClose, RunStored, RaisedAs
<1>6. CASE \A r \in WithId(runs, ChainId(w)) : r.status # Open
  <2>1. runs' = runs
    BY <1>3, <1>6 DEF CloseRun, Refuse, vars
  <2>2. PICK r \in runs : r.id = ChainId(w)
    BY DEF RunStored, Exists
  <2>3. r.status = Closed
    BY <1>6, <2>2 DEF WithId, RowsOfCampaigns
  <2>4. RunIsClosed(w)
    BY <2>2, <2>3 DEF RunIsClosed, WithId
  <2> QED
    BY <1>3, <1>4, <1>5, <2>1, <2>4
<1>7. CASE ~ \A r \in WithId(runs, ChainId(w)) : r.status # Open
  <2>1. PICK r \in WithId(runs, ChainId(w)) :
          runs' = (runs \ {r})
                  \cup {[r EXCEPT !.status = Closed, !.ended = at]}
    BY <1>3, <1>7 DEF CloseRun
  <2> QED
    BY <1>3, <1>4, <1>5, <2>1
<1> QED
  BY <1>6, <1>7

(* Any request, whoever still waits for it.                                *)
LEMMA ServesRequest ==
  ASSUME \A p \in Producers : ColonFree(p),
         TablesTyped, Uniqueness, NoDanglingReference, RowsOfCampaigns,
         NEW w \in Workers, NEW m, IsRequestOf(m, w),
         NEW reply, Serve(m, reply)
  PROVE  /\ ApiNext
         /\ RowsOfCampaigns'
         /\ artifacts \subseteq artifacts'
         /\ GoodAnswer(reply, m, w)'
<1>1. CASE m = AskExperiment(w)
  <2>1. /\ \E q \in ExperimentRow : PostExperiment(q)
        /\ UNCHANGED <<runs, evidence, artifacts>>
        /\ reply = Created(ChainId(w))
        /\ \/ experiments' = experiments /\ Exists(experiments, ChainId(w))
           \/ \E q : /\ experiments' = experiments \cup {q}
                     /\ OfCampaign(q, w) /\ q.id = ChainId(w)
    BY <1>1, ServesExperiment
  <2>2. RowsOfCampaigns'
    BY <2>1 DEF RowsOfCampaigns
  <2>3. ExperimentStored(w)'
    BY <2>1 DEF ExperimentStored, Exists
  <2>4. m.method = "create_experiment"
    BY <1>1 DEF AskExperiment
  <2>5. GoodAnswer(reply, m, w)'
    BY <2>1, <2>3, <2>4 DEF GoodAnswer
  <2> QED
    BY <2>1, <2>2, <2>5 DEF ApiNext
<1>2. CASE m = AskRun(w) /\ ExperimentStored(w)
  <2>1. /\ \E q \in RunRequest : PostRun(q)
        /\ UNCHANGED <<experiments, evidence, artifacts>>
        /\ reply = Created(ChainId(w))
        /\ \/ runs' = runs /\ Exists(runs, ChainId(w))
           \/ \E q : /\ runs' = runs \cup {q}
                     /\ OfCampaign(q, w) /\ q.id = ChainId(w)
                     /\ q.experiment = ChainId(w)
                     /\ q.born = Open /\ q.status = Open
    BY <1>2, ServesRun
  <2>2. RowsOfCampaigns'
    BY <2>1 DEF RowsOfCampaigns
  <2>3. RunStored(w)'
    BY <2>1 DEF RunStored, Exists
  <2>4. m.method = "create_run"
    BY <1>2 DEF AskRun
  <2>5. GoodAnswer(reply, m, w)'
    BY <2>1, <2>3, <2>4 DEF GoodAnswer
  <2> QED
    BY <2>1, <2>2, <2>5 DEF ApiNext
<1>3. CASE m = AskEvidence(w) /\ ExperimentStored(w) /\ RunStored(w)
  <2>1. /\ \E q \in EvidenceRow : PostEvidence(q)
        /\ UNCHANGED <<experiments, runs, artifacts>>
        /\ reply = Created(ChainId(w))
        /\ \/ evidence' = evidence /\ Exists(evidence, ChainId(w))
           \/ \E q : /\ evidence' = evidence \cup {q}
                     /\ OfCampaign(q, w) /\ q.id = ChainId(w)
                     /\ q.run = ChainId(w) /\ q.experiment = ChainId(w)
    BY <1>3, ServesEvidence
  <2>2. RowsOfCampaigns'
    BY <2>1 DEF RowsOfCampaigns
  <2>3. EvidenceStored(w)'
    BY <2>1 DEF EvidenceStored, Exists
  <2>4. m.method = "append_evidence"
    BY <1>3 DEF AskEvidence
  <2>5. GoodAnswer(reply, m, w)'
    BY <2>1, <2>3, <2>4 DEF GoodAnswer
  <2> QED
    BY <2>1, <2>2, <2>5 DEF ApiNext
<1>4. CASE m = AskArtifact(w) /\ RunStored(w) /\ EvidenceStored(w)
  <2>1. /\ \E q \in ArtifactRequest : PostArtifact(q)
        /\ UNCHANGED <<experiments, runs, evidence>>
    BY <1>4, ServesArtifact
  <2>2. PICK id \in ArtifactIds :
          /\ reply = Created(id)
          /\ \/ artifacts' = artifacts /\ ArtifactStored(w, id)
             \/ \E q : /\ artifacts' = artifacts \cup {q}
                       /\ OfCampaign(q, w) /\ q.id = id
                       /\ q.run = ChainId(w) /\ q.evidence = ChainId(w)
    BY <1>4, ServesArtifact
  <2>3. RowsOfCampaigns'
    BY <2>1, <2>2 DEF RowsOfCampaigns
  <2>4. ArtifactStored(w, id)'
    BY <2>2 DEF ArtifactStored
  <2>5. m.method = "register_artifact"
    BY <1>4 DEF AskArtifact
  <2>6. GoodAnswer(reply, m, w)'
    BY <2>2, <2>4, <2>5 DEF GoodAnswer
  <2> QED
    BY <2>1, <2>2, <2>3, <2>6 DEF ApiNext
<1>5. CASE m = AskClose(w) /\ RunStored(w)
  <2>1. /\ \E at \in Stamps : CloseRun(ChainId(w), Closed, at)
        /\ UNCHANGED <<experiments, evidence, artifacts>>
        /\ reply.code \in {"closed", "immutability_violation"}
        /\ \/ runs' = runs /\ RunIsClosed(w)
           \/ \E r \in WithId(runs, ChainId(w)), at \in Stamps :
                runs' = (runs \ {r})
                        \cup {[r EXCEPT !.status = Closed, !.ended = at]}
    BY <1>5, ServesClose
  <2>2. ASSUME runs' = runs, RunIsClosed(w)
        PROVE  RowsOfCampaigns' /\ RunIsClosed(w)'
    BY <2>1, <2>2 DEF RowsOfCampaigns, RunIsClosed, WithId
  <2>3. ASSUME NEW r \in runs, r.id = ChainId(w), NEW at \in Stamps,
               runs' = (runs \ {r})
                       \cup {[r EXCEPT !.status = Closed, !.ended = at]}
        PROVE  RowsOfCampaigns' /\ RunIsClosed(w)'
    <3> DEFINE s == [r EXCEPT !.status = Closed, !.ended = at]
    <3>1. /\ s.producer = r.producer /\ s.key = r.key
          /\ s.content = r.content /\ s.id = r.id
          /\ s.experiment = r.experiment /\ s.born = r.born
          /\ s.status = Closed
      BY DEF TablesTyped, RunRow
    <3>2. runs' = (runs \ {r}) \cup {s}
      BY <2>3
    <3> HIDE DEF s
    <3>3. \A x \in runs' : \E v \in Workers :
            /\ OfCampaign(x, v) /\ x.id = ChainId(v)
            /\ x.experiment = ChainId(v) /\ x.born = Open
            /\ x.status \in {Open, Closed}
      BY <3>1, <3>2 DEF RowsOfCampaigns, OfCampaign, SignedBy
    <3>4. RowsOfCampaigns'
      BY <2>1, <3>3 DEF RowsOfCampaigns
    <3>5. RunIsClosed(w)'
      BY <2>3, <3>1, <3>2 DEF RunIsClosed, WithId
    <3> QED
      BY <3>4, <3>5
  <2>4. RowsOfCampaigns' /\ RunIsClosed(w)'
    BY <2>1, <2>2, <2>3 DEF RunIsClosed, WithId, RowsOfCampaigns
  <2>5. m.method = "close_run"
    BY <1>5 DEF AskClose
  <2>6. GoodAnswer(reply, m, w)'
    BY <2>1, <2>4, <2>5 DEF GoodAnswer
  <2>7. Closed \in Status /\ ChainId(w) \in RunIds
    BY ClosedIsFinal, Signatures DEF Status
  <2>8. ApiNext
    BY <2>1, <2>7 DEF ApiNext
  <2> QED
    BY <2>1, <2>4, <2>6, <2>8
<1> QED
  BY <1>1, <1>2, <1>3, <1>4, <1>5 DEF IsRequestOf

-----------------------------------------------------------------------------
(* What was stored stays, so what a request or an answer relied on holds   *)
(* however late it arrives.                                                *)

Stays(w) ==
  /\ ExperimentStored(w) => ExperimentStored(w)'
  /\ RunStored(w) => RunStored(w)'
  /\ EvidenceStored(w) => EvidenceStored(w)'
  /\ RunIsClosed(w) => RunIsClosed(w)'
  /\ \A id : ArtifactStored(w, id) => ArtifactStored(w, id)'

LEMMA StoredStays ==
  ASSUME TablesTyped, [Next]_vars, artifacts \subseteq artifacts',
         NEW w \in Workers
  PROVE  Stays(w)
<1>1. /\ ExperimentStored(w) => ExperimentStored(w)'
      /\ RunStored(w) => RunStored(w)'
      /\ EvidenceStored(w) => EvidenceStored(w)'
  BY ReferencesSurvive DEF ExperimentStored, RunStored, EvidenceStored
<1>2. RunIsClosed(w) => RunIsClosed(w)'
  <2>1. Closed # Open
    BY ClosedIsFinal, OpenIsNotEnded
  <2>2. \A r \in runs : r.status # Open => r \in runs'
    BY RunsSurvive DEF RunSurvives
  <2> QED
    BY <2>1, <2>2 DEF RunIsClosed, WithId
<1>3. \A id : ArtifactStored(w, id) => ArtifactStored(w, id)'
  BY DEF ArtifactStored
<1> QED
  BY <1>1, <1>2, <1>3 DEF Stays

LEMMA RequestsStay ==
  ASSUME NEW w \in Workers, Stays(w), NEW m, IsRequestOf(m, w)
  PROVE  IsRequestOf(m, w)'
BY DEF Stays, IsRequestOf

LEMMA AnswersStay ==
  ASSUME NEW w \in Workers, Stays(w), NEW m, NEW reply,
         GoodAnswer(reply, m, w)
  PROVE  GoodAnswer(reply, m, w)'
BY DEF Stays, GoodAnswer

-----------------------------------------------------------------------------
(* The wire, one action at a time.                                         *)

(* A worker that takes no part in a step.                                  *)
LEMMA BystanderStays ==
  ASSUME NEW v \in Workers, Stays(v), HeldInOrder(v), CallInOrder(v),
         held'[v] = held[v], call'[v] = call[v]
  PROVE  HeldInOrder(v)' /\ CallInOrder(v)'
<1>1. NextCall(v)' = NextCall(v)
  BY DEF NextCall, CreateExperimentCall, CreateRunCall, AppendEvidenceCall,
     RegisterArtifactCall, CloseRunCall, Headers
<1>2. HeldInOrder(v)'
  BY DEF HeldInOrder, Stays
<1>3. CallInOrder(v)'
  <2>1. ASSUME call[v] # None, call[v].reply # None
        PROVE  GoodAnswer(call[v].reply, NextCall(v), v)'
    <3>1. PICK m, reply : m = NextCall(v) /\ reply = call[v].reply
      OBVIOUS
    <3>2. GoodAnswer(reply, m, v)
      BY <2>1, <3>1 DEF CallInOrder
    <3>3. GoodAnswer(reply, m, v)'
      BY <3>2, AnswersStay
    <3>4. m = NextCall(v)' /\ reply = call[v]'.reply
      BY <1>1, <3>1
    <3> QED
      BY <3>3, <3>4
  <2> QED
    BY <1>1, <2>1 DEF CallInOrder
<1> QED
  BY <1>2, <1>3

(* The next call of a worker asks for what the invariant lets it ask.      *)
LEMMA NextCallIsRequest ==
  ASSUME NEW w \in Workers, HeldInOrder(w)
  PROVE  IsRequestOf(NextCall(w), w)
<1> USE DEF HeldInOrder, IsRequestOf, Headers
<1>1. CASE held[w].experiment = None
  <2>1. NextCall(w) = AskExperiment(w)
    BY <1>1 DEF NextCall, CreateExperimentCall, AskExperiment
  <2> QED
    BY <2>1
<1>2. CASE held[w].experiment # None /\ held[w].run = None
  <2>1. /\ held[w].experiment = ChainId(w)
    BY <1>2
  <2>2. NextCall(w) = CreateRunCall(w)
    BY <1>2, <2>1 DEF NextCall
  <2>3. NextCall(w) = AskRun(w)
    BY <2>1, <2>2 DEF CreateRunCall, AskRun
  <2> QED
    BY <1>2, <2>1, <2>3
<1>3. CASE held[w].run # None /\ held[w].evidence = None
  <2>1. /\ held[w].experiment = ChainId(w)
        /\ held[w].run = ChainId(w)
        /\ held[w].experiment # None
    BY <1>3
  <2>2. NextCall(w) = AppendEvidenceCall(w)
    BY <1>3, <2>1 DEF NextCall
  <2>3. NextCall(w) = AskEvidence(w)
    BY <2>1, <2>2 DEF AppendEvidenceCall, AskEvidence
  <2> QED
    BY <1>3, <2>1, <2>3
<1>4. CASE held[w].evidence # None /\ held[w].artifact = None
  <2>1. /\ held[w].run = ChainId(w)
        /\ held[w].evidence = ChainId(w)
        /\ held[w].experiment # None
        /\ held[w].run # None
    BY <1>4
  <2>2. NextCall(w) = RegisterArtifactCall(w)
    BY <1>4, <2>1 DEF NextCall
  <2>3. NextCall(w) = AskArtifact(w)
    BY <2>1, <2>2 DEF RegisterArtifactCall, AskArtifact
  <2> QED
    BY <1>4, <2>1, <2>3
<1>5. CASE held[w].artifact # None
  <2>1. /\ held[w].run = ChainId(w)
        /\ held[w].experiment # None
        /\ held[w].run # None
        /\ held[w].evidence # None
    BY <1>5
  <2>2. NextCall(w) = CloseRunCall(w)
    BY <1>5, <2>1 DEF NextCall
  <2>3. NextCall(w) = AskClose(w)
    BY <2>1, <2>2 DEF CloseRunCall, AskClose
  <2> QED
    BY <1>5, <2>1, <2>3
<1> QED
  BY <1>1, <1>2, <1>3, <1>4, <1>5

LEMMA UnchangedStays ==
  ASSUME UNCHANGED vars
  PROVE  \A w \in Workers : Stays(w)
BY DEF vars, Stays, ExperimentStored, RunStored, EvidenceStored,
   RunIsClosed, ArtifactStored, Exists, WithId

LEMMA LateStays ==
  ASSUME \A w \in Workers : Stays(w),
         \A m \in late : \E w \in Workers : IsRequestOf(m, w)
  PROVE  \A m \in late : \E w \in Workers : IsRequestOf(m, w)'
BY RequestsStay

LEMMA SendStep ==
  ASSUME WireInOrder, NEW w \in Workers, Send(w)
  PROVE  WireInOrder'
<1> DEFINE c == [request |-> NextCall(w), reply |-> None]
<1>1. \A v \in Workers : Stays(v)
  BY UnchangedStays DEF Send
<1>2. held' = held /\ late' = late /\ call' = [call EXCEPT ![w] = c]
  BY DEF Send
<1>3. ASSUME NEW v \in Workers, v # w
      PROVE  HeldInOrder(v)' /\ CallInOrder(v)'
  <2>1. held'[v] = held[v] /\ call'[v] = call[v]
    BY <1>2, <1>3 DEF WireInOrder
  <2> QED
    BY <1>1, <2>1, BystanderStays DEF WireInOrder
<1>4. HeldInOrder(w)'
  BY <1>1, <1>2 DEF WireInOrder, HeldInOrder, Stays
<1>5. CallInOrder(w)'
  <2>1. call'[w] = c
    BY <1>2 DEF WireInOrder
  <2>2. NextCall(w)' = NextCall(w)
    BY <1>2 DEF NextCall, CreateExperimentCall, CreateRunCall, Headers,
       AppendEvidenceCall, RegisterArtifactCall, CloseRunCall
  <2> QED
    BY <2>1, <2>2 DEF CallInOrder
<1>6. call' = [v \in Workers |-> call'[v]]
  BY <1>2 DEF WireInOrder
<1>7. \A m \in late : \E v \in Workers : IsRequestOf(m, v)'
  BY <1>1, LateStays DEF WireInOrder
<1> QED
  BY <1>2, <1>3, <1>4, <1>5, <1>6, <1>7 DEF WireInOrder

(* A call ends, for whatever reason: the others go on as they are, and a   *)
(* request that is still on its way stays a request.                       *)
LEMMA EndOfCall ==
  ASSUME WireInOrder, NEW w \in Workers, UNCHANGED vars,
         held' \in [Workers -> HeldSet], HeldInOrder(w)',
         \A v \in Workers : v # w => held'[v] = held[v],
         call' = [call EXCEPT ![w] = None],
         late' \subseteq late \cup (IF Waits(w) THEN {call[w].request} ELSE {})
  PROVE  WireInOrder'
<1>1. \A v \in Workers : Stays(v)
  BY UnchangedStays
<1>2. ASSUME NEW v \in Workers, v # w
      PROVE  HeldInOrder(v)' /\ CallInOrder(v)'
  <2>1. held'[v] = held[v] /\ call'[v] = call[v]
    BY <1>2 DEF WireInOrder
  <2> QED
    BY <1>1, <2>1, BystanderStays DEF WireInOrder
<1>3. CallInOrder(w)'
  BY DEF WireInOrder, CallInOrder
<1>4. call' = [v \in Workers |-> call'[v]]
  BY DEF WireInOrder
<1>5. \A m \in late' : \E v \in Workers : IsRequestOf(m, v)'
  <2>1. \A m \in late : \E v \in Workers : IsRequestOf(m, v)'
    BY <1>1, LateStays DEF WireInOrder
  <2>2. ASSUME Waits(w), NEW m, m = call[w].request
        PROVE  \E v \in Workers : IsRequestOf(m, v)'
    <3>1. m = NextCall(w)
      BY <2>2 DEF Waits, WireInOrder, CallInOrder
    <3>2. IsRequestOf(m, w)
      BY <3>1, NextCallIsRequest DEF WireInOrder
    <3> QED
      BY <1>1, <3>2, RequestsStay
  <2> QED
    BY <2>1, <2>2
<1> QED
  BY <1>2, <1>3, <1>4, <1>5 DEF WireInOrder

LEMMA TimeOutStep ==
  ASSUME WireInOrder, NEW w \in Workers, TimeOut(w)
  PROVE  WireInOrder'
<1>1. \A v \in Workers : Stays(v)
  BY UnchangedStays DEF TimeOut
<1>2. /\ held' = held /\ call' = [call EXCEPT ![w] = None]
      /\ late' \subseteq late
           \cup (IF Waits(w) THEN {call[w].request} ELSE {})
  BY DEF TimeOut, Abandon
<1>3. HeldInOrder(w)'
  BY <1>1, <1>2 DEF WireInOrder, HeldInOrder, Stays
<1>4. held' \in [Workers -> HeldSet] /\ \A v \in Workers : held'[v] = held[v]
  BY <1>2 DEF WireInOrder
<1> QED
  BY <1>2, <1>3, <1>4, EndOfCall DEF TimeOut

LEMMA RerunStep ==
  ASSUME WireInOrder, NEW w \in Workers, Rerun(w)
  PROVE  WireInOrder'
<1>1. /\ held' = [held EXCEPT ![w] = Nothing]
      /\ call' = [call EXCEPT ![w] = None]
      /\ late' \subseteq late
           \cup (IF Waits(w) THEN {call[w].request} ELSE {})
  BY DEF Rerun, Abandon
<1>2. Nothing \in HeldSet
  BY DEF Nothing, HeldSet, Optional
<1>3. /\ held' \in [Workers -> HeldSet]
      /\ \A v \in Workers : v # w => held'[v] = held[v]
      /\ held'[w] = Nothing
  BY <1>1, <1>2 DEF WireInOrder
<1>4. HeldInOrder(w)'
  BY <1>3 DEF HeldInOrder, Nothing
<1> QED
  BY <1>1, <1>3, <1>4, EndOfCall DEF Rerun

(* Each answer tells the worker the id of the record it asked for.         *)
LEMMA ReceiveStep ==
  ASSUME WireInOrder, NEW w \in Workers, Receive(w)
  PROVE  WireInOrder'
<1> DEFINE h == held[w]
           m == NextCall(w)
<1>1. /\ call[w].request = m
      /\ GoodAnswer(call[w].reply, m, w)
      /\ HeldInOrder(w) /\ h \in HeldSet
  BY DEF Receive, Replied, Waits, WireInOrder, CallInOrder
<1>2. UNCHANGED vars /\ call' = [call EXCEPT ![w] = None] /\ late' = late
  BY DEF Receive
<1>3. Stays(w)
  BY <1>2, UnchangedStays
<1>4. ASSUME NEW g \in HeldSet, held' = [held EXCEPT ![w] = g],
             HeldInOrder(w)'
      PROVE  WireInOrder'
  <2>1. /\ held' \in [Workers -> HeldSet]
        /\ \A v \in Workers : v # w => held'[v] = held[v]
    BY <1>4 DEF WireInOrder
  <2> QED
    BY <1>2, <1>4, <2>1, EndOfCall
<1>5. ASSUME NEW id, id \in ArtifactIds \/ id = ChainId(w),
             call[w].reply = Created(id)
      PROVE  call[w].reply.id = id /\ call[w].reply.code = "created"
  BY <1>5 DEF Created
<1>6. CASE h.experiment = None
  <2>1. m.method = "create_experiment"
    BY <1>6 DEF NextCall, CreateExperimentCall
  <2>2. call[w].reply = Created(ChainId(w)) /\ ExperimentStored(w)
    BY <1>1, <2>1 DEF GoodAnswer
  <2> DEFINE g == [h EXCEPT !.experiment = ChainId(w)]
  <2>3. held' = [held EXCEPT ![w] = g]
    BY <1>1, <1>5, <1>6, <2>1, <2>2 DEF Receive, Keep
  <2>4. g \in HeldSet /\ g.experiment = ChainId(w) /\ g.run = h.run
        /\ g.evidence = h.evidence /\ g.artifact = h.artifact
        /\ g.closed = h.closed
    BY <1>1, Signatures DEF HeldSet, Optional
  <2>5. held'[w] = g
    BY <2>3 DEF WireInOrder
  <2> HIDE DEF g
  <2>6. HeldInOrder(w)'
    BY <1>1, <1>3, <1>6, <2>2, <2>4, <2>5 DEF HeldInOrder, Stays
  <2> QED
    BY <1>4, <2>3, <2>4, <2>6
<1>7. CASE h.experiment # None /\ h.run = None
  <2>1. m.method = "create_run"
    BY <1>7 DEF NextCall, CreateRunCall
  <2>2. call[w].reply = Created(ChainId(w)) /\ RunStored(w)
    BY <1>1, <2>1 DEF GoodAnswer
  <2> DEFINE g == [h EXCEPT !.run = ChainId(w)]
  <2>3. held' = [held EXCEPT ![w] = g]
    BY <1>1, <1>5, <1>7, <2>1, <2>2 DEF Receive, Keep
  <2>4. g \in HeldSet /\ g.experiment = h.experiment /\ g.run = ChainId(w)
        /\ g.evidence = h.evidence /\ g.artifact = h.artifact
        /\ g.closed = h.closed
    BY <1>1, Signatures DEF HeldSet, Optional
  <2>5. held'[w] = g
    BY <2>3 DEF WireInOrder
  <2> HIDE DEF g
  <2>6. HeldInOrder(w)'
    BY <1>1, <1>3, <1>7, <2>2, <2>4, <2>5 DEF HeldInOrder, Stays
  <2> QED
    BY <1>4, <2>3, <2>4, <2>6
<1>8. CASE h.experiment # None /\ h.run # None /\ h.evidence = None
  <2>1. m.method = "append_evidence"
    BY <1>8 DEF NextCall, AppendEvidenceCall
  <2>2. call[w].reply = Created(ChainId(w)) /\ EvidenceStored(w)
    BY <1>1, <2>1 DEF GoodAnswer
  <2> DEFINE g == [h EXCEPT !.evidence = ChainId(w)]
  <2>3. held' = [held EXCEPT ![w] = g]
    BY <1>1, <1>5, <1>8, <2>1, <2>2 DEF Receive, Keep
  <2>4. g \in HeldSet /\ g.experiment = h.experiment /\ g.run = h.run
        /\ g.evidence = ChainId(w) /\ g.artifact = h.artifact
        /\ g.closed = h.closed
    BY <1>1, Signatures DEF HeldSet, Optional
  <2>5. held'[w] = g
    BY <2>3 DEF WireInOrder
  <2> HIDE DEF g
  <2>6. HeldInOrder(w)'
    BY <1>1, <1>3, <1>8, <2>2, <2>4, <2>5 DEF HeldInOrder, Stays
  <2> QED
    BY <1>4, <2>3, <2>4, <2>6
<1>9. CASE /\ h.experiment # None /\ h.run # None /\ h.evidence # None
           /\ h.artifact = None
  <2>1. m.method = "register_artifact"
    BY <1>9 DEF NextCall, RegisterArtifactCall
  <2>2. PICK id \in ArtifactIds :
          call[w].reply = Created(id) /\ ArtifactStored(w, id)
    BY <1>1, <2>1 DEF GoodAnswer
  <2> DEFINE g == [h EXCEPT !.artifact = id]
  <2>3. held' = [held EXCEPT ![w] = g]
    BY <1>1, <1>5, <1>9, <2>1, <2>2 DEF Receive, Keep
  <2>4. g \in HeldSet /\ g.experiment = h.experiment /\ g.run = h.run
        /\ g.evidence = h.evidence /\ g.artifact = id
        /\ g.closed = h.closed
    BY <1>1 DEF HeldSet, Optional
  <2>5. held'[w] = g
    BY <2>3 DEF WireInOrder
  <2> HIDE DEF g
  <2>6. HeldInOrder(w)'
    BY <1>1, <1>3, <1>9, <2>2, <2>4, <2>5 DEF HeldInOrder, Stays
  <2> QED
    BY <1>4, <2>3, <2>4, <2>6
<1>10. CASE /\ h.experiment # None /\ h.run # None /\ h.evidence # None
            /\ h.artifact # None
  <2>1. m.method = "close_run"
    BY <1>10 DEF NextCall, CloseRunCall
  <2>2. /\ call[w].reply.code \in {"closed", "immutability_violation"}
        /\ RunIsClosed(w)
    BY <1>1, <2>1 DEF GoodAnswer
  <2> DEFINE g == [h EXCEPT !.closed = TRUE]
  <2>3. held' = [held EXCEPT ![w] = g]
    BY <2>2 DEF Receive
  <2>4. g \in HeldSet /\ g.experiment = h.experiment /\ g.run = h.run
        /\ g.evidence = h.evidence /\ g.artifact = h.artifact
    BY <1>1 DEF HeldSet
  <2>5. held'[w] = g
    BY <2>3 DEF WireInOrder
  <2> HIDE DEF g
  <2>6. HeldInOrder(w)'
    BY <1>1, <1>3, <1>10, <2>2, <2>4, <2>5 DEF HeldInOrder, Stays
  <2> QED
    BY <1>4, <2>3, <2>4, <2>6
<1> QED
  BY <1>6, <1>7, <1>8, <1>9, <1>10

Stored == TablesTyped /\ Uniqueness /\ NoDanglingReference

(* What serving a request of v, on time or late, leaves for everybody.     *)
LEMMA ServingKeeps ==
  ASSUME \A p \in Producers : ColonFree(p), Stored, RowsOfCampaigns,
         NEW v \in Workers, NEW m, IsRequestOf(m, v),
         NEW reply, Serve(m, reply)
  PROVE  /\ ApiNext
         /\ RowsOfCampaigns'
         /\ GoodAnswer(reply, m, v)'
         /\ \A w \in Workers : Stays(w)
<1>1. /\ ApiNext
      /\ RowsOfCampaigns'
      /\ artifacts \subseteq artifacts'
      /\ GoodAnswer(reply, m, v)'
  BY ServesRequest DEF Stored
<1>2. [Next]_vars
  BY <1>1, ApiStepIsAStep DEF Stored
<1> QED
  BY <1>1, <1>2, StoredStays DEF Stored

LEMMA ServeCallStep ==
  ASSUME \A p \in Producers : ColonFree(p), Stored, CampaignInv,
         NEW w \in Workers, ServeCall(w)
  PROVE  ApiNext /\ CampaignInv'
<1> USE DEF CampaignInv
<1>1. PICK reply : /\ Serve(call[w].request, reply)
                   /\ call' = [call EXCEPT ![w].reply = reply]
  BY DEF ServeCall
<1>2. PICK m : m = NextCall(w)
  OBVIOUS
<1>3. call[w] = [request |-> m, reply |-> call[w].reply]
  BY <1>2 DEF ServeCall, Waits, WireInOrder, CallInOrder
<1>4. IsRequestOf(m, w)
  BY <1>2, NextCallIsRequest DEF WireInOrder
<1>5. call[w].request = m
  BY <1>3
<1>6. /\ ApiNext
      /\ RowsOfCampaigns'
      /\ GoodAnswer(reply, m, w)'
      /\ \A v \in Workers : Stays(v)
  BY <1>1, <1>4, <1>5, ServingKeeps
<1>7. held' = held /\ late' = late
  BY DEF ServeCall
<1>8. ASSUME NEW v \in Workers, v # w
      PROVE  HeldInOrder(v)' /\ CallInOrder(v)'
  <2>1. held'[v] = held[v] /\ call'[v] = call[v]
    BY <1>1, <1>7, <1>8 DEF WireInOrder
  <2> QED
    BY <1>6, <2>1, BystanderStays DEF WireInOrder
<1>9. HeldInOrder(w)'
  BY <1>6, <1>7 DEF WireInOrder, HeldInOrder, Stays
<1>10. CallInOrder(w)'
  <2>1. call'[w] = [call[w] EXCEPT !.reply = reply]
    BY <1>1 DEF WireInOrder
  <2>2. call'[w] = [request |-> m, reply |-> reply]
    <3> DEFINE c == call[w]
    <3>1. c = [request |-> m, reply |-> c.reply]
      BY <1>3
    <3> HIDE DEF c
    <3>2. [c EXCEPT !.reply = reply] = [request |-> m, reply |-> reply]
      BY <3>1
    <3> QED
      BY <2>1, <3>2 DEF c
  <2>3. NextCall(w)' = m
    BY <1>2, <1>7 DEF NextCall, CreateExperimentCall, CreateRunCall, Headers,
       AppendEvidenceCall, RegisterArtifactCall, CloseRunCall
  <2> QED
    BY <1>6, <2>2, <2>3 DEF CallInOrder
<1>11. call' = [v \in Workers |-> call'[v]]
  BY <1>1 DEF WireInOrder
<1>12. \A x \in late : \E v \in Workers : IsRequestOf(x, v)'
  BY <1>6, LateStays DEF WireInOrder
<1>13. WireInOrder'
  BY <1>7, <1>8, <1>9, <1>10, <1>11, <1>12 DEF WireInOrder
<1> QED
  BY <1>6, <1>13

LEMMA ServeLateStep ==
  ASSUME \A p \in Producers : ColonFree(p), Stored, CampaignInv,
         NEW m \in late, ServeLate(m)
  PROVE  ApiNext /\ CampaignInv'
<1> USE DEF CampaignInv
<1>1. PICK reply : Serve(m, reply)
  BY DEF ServeLate
<1>2. PICK w \in Workers : IsRequestOf(m, w)
  BY DEF WireInOrder
<1>3. /\ ApiNext
      /\ RowsOfCampaigns'
      /\ \A v \in Workers : Stays(v)
  BY <1>1, <1>2, ServingKeeps
<1>4. held' = held /\ call' = call /\ late' \subseteq late
  BY DEF ServeLate
<1>5. ASSUME NEW v \in Workers
      PROVE  HeldInOrder(v)' /\ CallInOrder(v)'
  BY <1>3, <1>4, BystanderStays DEF WireInOrder
<1>6. \A x \in late : \E v \in Workers : IsRequestOf(x, v)'
  BY <1>3, LateStays DEF WireInOrder
<1>7. WireInOrder'
  BY <1>4, <1>5, <1>6 DEF WireInOrder
<1> QED
  BY <1>3, <1>7

-----------------------------------------------------------------------------
(* The campaigns.                                                          *)

LEMMA CampaignStep ==
  ASSUME \A p \in Producers : ColonFree(p), Stored, CampaignInv,
         [CampaignNext]_allVars
  PROVE  [ApiNext]_vars /\ CampaignInv'
<1>1. ASSUME UNCHANGED vars, WireInOrder'
      PROVE  [ApiNext]_vars /\ CampaignInv'
  <2>1. RowsOfCampaigns'
    BY <1>1 DEF CampaignInv, RowsOfCampaigns, vars
  <2> QED
    BY <1>1, <2>1 DEF CampaignInv
<1>2. ASSUME NEW w \in Workers, Send(w)
      PROVE  [ApiNext]_vars /\ CampaignInv'
  <2>1. UNCHANGED vars
    BY <1>2 DEF Send
  <2> QED
    BY <1>1, <1>2, <2>1, SendStep DEF CampaignInv
<1>3. ASSUME NEW w \in Workers, ServeCall(w)
      PROVE  [ApiNext]_vars /\ CampaignInv'
  BY <1>3, ServeCallStep
<1>4. ASSUME NEW w \in Workers, Receive(w)
      PROVE  [ApiNext]_vars /\ CampaignInv'
  <2>1. UNCHANGED vars
    BY <1>4 DEF Receive
  <2> QED
    BY <1>1, <1>4, <2>1, ReceiveStep DEF CampaignInv
<1>5. ASSUME NEW w \in Workers, TimeOut(w)
      PROVE  [ApiNext]_vars /\ CampaignInv'
  <2>1. UNCHANGED vars
    BY <1>5 DEF TimeOut
  <2> QED
    BY <1>1, <1>5, <2>1, TimeOutStep DEF CampaignInv
<1>6. ASSUME NEW w \in Workers, Rerun(w)
      PROVE  [ApiNext]_vars /\ CampaignInv'
  <2>1. UNCHANGED vars
    BY <1>6 DEF Rerun
  <2> QED
    BY <1>1, <1>6, <2>1, RerunStep DEF CampaignInv
<1>7. ASSUME NEW m \in late, ServeLate(m)
      PROVE  [ApiNext]_vars /\ CampaignInv'
  BY <1>7, ServeLateStep
<1>8. CASE UNCHANGED allVars
  <2>1. UNCHANGED <<vars, held, call, late>>
    BY <1>8 DEF allVars, wire
  <2>2. \A w \in Workers : Stays(w)
    BY <2>1, UnchangedStays
  <2>3. \A v \in Workers : HeldInOrder(v)' /\ CallInOrder(v)'
    BY <2>1, <2>2, BystanderStays DEF CampaignInv, WireInOrder
  <2>4. \A x \in late : \E v \in Workers : IsRequestOf(x, v)'
    BY <2>2, LateStays DEF CampaignInv, WireInOrder
  <2>5. WireInOrder'
    BY <2>1, <2>3, <2>4 DEF CampaignInv, WireInOrder
  <2> QED
    BY <1>1, <2>1, <2>5
<1> QED
  BY <1>2, <1>3, <1>4, <1>5, <1>6, <1>7, <1>8 DEF CampaignNext, EndCall

LEMMA StoredStep ==
  ASSUME Stored, [ApiNext]_vars
  PROVE  Stored'
BY ApiStepIsAStep, TablesTypedStep, UniquenessStep, NoDanglingStep
DEF Stored

LEMMA CampaignStarts == CampaignInit => Stored /\ CampaignInv
<1> SUFFICES ASSUME CampaignInit
             PROVE  Stored /\ CampaignInv
  OBVIOUS
<1>1. Stored
  BY DEF CampaignInit, Init, Stored, TablesTyped, Uniqueness, IdNamesOneRow,
     KeyNamesOneRow, UniqueIds, UniqueKeys, NoDanglingReference
<1>2. RowsOfCampaigns
  BY DEF CampaignInit, Init, RowsOfCampaigns
<1>3. Nothing \in HeldSet
  BY DEF Nothing, HeldSet, Optional
<1>4. \A w \in Workers : held[w] = Nothing /\ call[w] = None
  BY DEF CampaignInit
<1>5. \A w \in Workers : HeldInOrder(w) /\ CallInOrder(w)
  BY <1>4 DEF HeldInOrder, CallInOrder, Nothing
<1>6. /\ held \in [Workers -> HeldSet]
      /\ call = [w \in Workers |-> call[w]]
      /\ late = {}
  BY <1>3 DEF CampaignInit
<1> QED
  BY <1>1, <1>2, <1>5, <1>6 DEF CampaignInv, WireInOrder

LEMMA CampaignInvariant ==
  ASSUME \A p \in Producers : ColonFree(p)
  PROVE  CampaignSpec => [](Stored /\ CampaignInv)
<1>1. Stored /\ CampaignInv /\ [CampaignNext]_allVars
        => Stored' /\ CampaignInv'
  BY CampaignStep, StoredStep
<1> QED
  BY <1>1, CampaignStarts, PTL DEF CampaignSpec

(* Campaigns are callers of the routes like any others: what is proved of  *)
(* ApiSpec, and through it of the store, holds of them.                    *)
THEOREM CampaignsUseTheRoutes ==
  ASSUME \A p \in Producers : ColonFree(p)
  PROVE  CampaignSpec => ApiSpec
<1>1. CampaignInit => Init
  BY DEF CampaignInit
<1>2. Stored /\ CampaignInv /\ [CampaignNext]_allVars => [ApiNext]_vars
  BY CampaignStep
<1> QED
  BY <1>1, <1>2, CampaignInvariant, PTL DEF CampaignSpec, ApiSpec

(* No attempt at any call is refused, however many attempts before it were *)
(* served, lost, served late or repeated after a crash; a close that finds *)
(* the run ended finds it ended as it asked.                               *)
THEOREM NothingRefused ==
  ASSUME \A p \in Producers : ColonFree(p)
  PROVE  CampaignSpec => []NothingIsRefused
<1>1. CampaignInv => NothingIsRefused
  <2> SUFFICES ASSUME CampaignInv, NEW w \in Workers, Replied(w)
               PROVE  \/ call[w].reply.code \in {"created", "closed"}
                      \/ /\ call[w].reply.code = "immutability_violation"
                         /\ call[w].request.method = "close_run"
                         /\ \E r \in WithId(runs, call[w].request.run) :
                              r.status = Closed
    BY DEF NothingIsRefused
  <2>1. /\ call[w].request = NextCall(w)
        /\ GoodAnswer(call[w].reply, NextCall(w), w)
    BY DEF Replied, Waits, CampaignInv, WireInOrder, CallInOrder
  <2>2. \A id : Created(id).code = "created"
    BY DEF Created
  <2>3. CASE /\ NextCall(w).method = "close_run"
             /\ call[w].reply.code \in {"closed", "immutability_violation"}
             /\ RunIsClosed(w)
    <3>1. IsRequestOf(NextCall(w), w)
      BY NextCallIsRequest DEF CampaignInv, WireInOrder
    <3>2. NextCall(w) = AskClose(w)
      BY <2>3, <3>1 DEF IsRequestOf, AskExperiment, AskRun, AskEvidence,
         AskArtifact
    <3>3. NextCall(w).run = ChainId(w)
      BY <3>2 DEF AskClose
    <3> QED
      BY <2>1, <2>3, <3>3 DEF RunIsClosed
  <2> QED
    BY <2>1, <2>2, <2>3 DEF GoodAnswer
<1> QED
  BY <1>1, CampaignInvariant, PTL

(* All the workers of a campaign, whenever they start over, end up with    *)
(* one experiment, one run, one piece of evidence and one artifact, linked *)
(* as each of them believes.                                               *)
THEOREM OneChain ==
  ASSUME \A p \in Producers : ColonFree(p)
  PROVE  CampaignSpec => []CampaignIsOneChain
<1>1. Stored /\ CampaignInv => CampaignIsOneChain
  <2> SUFFICES ASSUME Stored, CampaignInv, NEW w \in Workers
               PROVE  ChainIsSingle(w) /\ HeldIsStored(w)
    BY DEF CampaignIsOneChain
  <2>1. ASSUME NEW table, UniqueIds(table),
               \A r \in table : \E v \in Workers :
                 OfCampaign(r, v) /\ r.id = ChainId(v)
        PROVE  Single(table, w)
    <3> SUFFICES ASSUME NEW r1 \in OfChain(table, w),
                        NEW r2 \in OfChain(table, w)
                 PROVE  r1 = r2
      BY DEF Single
    <3> USE DEF OfChain
    <3>1. PICK v1 \in Workers : OfCampaign(r1, v1) /\ r1.id = ChainId(v1)
      BY <2>1
    <3>2. PICK v2 \in Workers : OfCampaign(r2, v2) /\ r2.id = ChainId(v2)
      BY <2>1
    <3>3. Producer[v1] = Producer[v2] /\ Key[v1] = Key[v2]
      BY <3>1, <3>2, Signatures DEF OfCampaign, SignedBy
    <3>4. r1.id = r2.id
      BY <3>1, <3>2, <3>3 DEF ChainId
    <3> QED
      BY <2>1, <3>4 DEF UniqueIds
  <2>2. Single(experiments, w) /\ Single(runs, w) /\ Single(evidence, w)
    <3>1. /\ UniqueIds(experiments) /\ UniqueIds(runs) /\ UniqueIds(evidence)
      BY DEF Stored, Uniqueness, IdNamesOneRow
    <3>2. /\ \A r \in experiments : \E v \in Workers :
               OfCampaign(r, v) /\ r.id = ChainId(v)
          /\ \A r \in runs : \E v \in Workers :
               OfCampaign(r, v) /\ r.id = ChainId(v)
          /\ \A r \in evidence : \E v \in Workers :
               OfCampaign(r, v) /\ r.id = ChainId(v)
      BY DEF CampaignInv, RowsOfCampaigns
    <3> QED
      BY <2>1, <3>1, <3>2
  <2>3. \A r1, r2 \in artifacts : r1.run = r2.run => r1 = r2
    <3> SUFFICES ASSUME NEW r1 \in artifacts, NEW r2 \in artifacts,
                        r1.run = r2.run
                 PROVE  r1 = r2
      OBVIOUS
    <3>1. PICK v1 \in Workers : OfCampaign(r1, v1) /\ r1.run = ChainId(v1)
      BY DEF CampaignInv, RowsOfCampaigns
    <3>2. PICK v2 \in Workers : OfCampaign(r2, v2) /\ r2.run = ChainId(v2)
      BY DEF CampaignInv, RowsOfCampaigns
    <3>3. Producer[v1] = Producer[v2] /\ Key[v1] = Key[v2]
      BY <3>1, <3>2, ChainIdsDiffer
    <3>4. r1.producer = r2.producer /\ r1.key = r2.key /\ r1.key # None
      BY <3>1, <3>2, <3>3, Signatures DEF OfCampaign, SignedBy
    <3> QED
      BY <3>4 DEF Stored, Uniqueness, KeyNamesOneRow, UniqueKeys
  <2>4. ChainIsSingle(w)
    BY <2>2, <2>3 DEF ChainIsSingle
  <2>5. HeldInOrder(w)
    BY DEF CampaignInv, WireInOrder
  <2>6. held[w].run # None =>
          \E r \in WithId(runs, held[w].run) :
            r.experiment = held[w].experiment
    <3> SUFFICES ASSUME held[w].run # None
                 PROVE  \E r \in WithId(runs, held[w].run) :
                          r.experiment = held[w].experiment
      OBVIOUS
    <3>1. PICK r \in runs : r.id = ChainId(w)
      BY <2>5 DEF HeldInOrder, RunStored, Exists
    <3>2. r.experiment = ChainId(w)
      BY <3>1 DEF CampaignInv, RowsOfCampaigns
    <3>3. held[w].run = ChainId(w) /\ held[w].experiment = ChainId(w)
      BY <2>5 DEF HeldInOrder
    <3> QED
      BY <3>1, <3>2, <3>3 DEF WithId
  <2>7. held[w].evidence # None =>
          \E r \in WithId(evidence, held[w].evidence) :
            r.run = held[w].run /\ r.experiment = held[w].experiment
    <3> SUFFICES ASSUME held[w].evidence # None
                 PROVE  \E r \in WithId(evidence, held[w].evidence) :
                          /\ r.run = held[w].run
                          /\ r.experiment = held[w].experiment
      OBVIOUS
    <3>1. PICK r \in evidence : r.id = ChainId(w)
      BY <2>5 DEF HeldInOrder, EvidenceStored, Exists
    <3>2. r.run = ChainId(w) /\ r.experiment = ChainId(w)
      BY <3>1 DEF CampaignInv, RowsOfCampaigns
    <3>3. /\ held[w].evidence = ChainId(w)
          /\ held[w].run = ChainId(w) /\ held[w].experiment = ChainId(w)
      BY <2>5 DEF HeldInOrder
    <3> QED
      BY <3>1, <3>2, <3>3 DEF WithId
  <2>8. held[w].artifact # None =>
          \E r \in WithId(artifacts, held[w].artifact) :
            r.run = held[w].run /\ r.evidence = held[w].evidence
    BY <2>5 DEF HeldInOrder, ArtifactStored, WithId
  <2>9. held[w].closed =>
          \E r \in WithId(runs, held[w].run) : r.status = Closed
    BY <2>5 DEF HeldInOrder, RunIsClosed
  <2> QED
    BY <2>4, <2>6, <2>7, <2>8, <2>9 DEF HeldIsStored
<1> QED
  BY <1>1, CampaignInvariant, PTL

(* A run that a campaign closed, or that was recorded as ended, is the     *)
(* same for ever, whatever late request reaches it: the property the store *)
(* has for all its callers (EndedRunsStay).                                *)
THEOREM EndedRunsOfCampaignsStay ==
  ASSUME \A p \in Producers : ColonFree(p)
  PROVE  CampaignSpec => EndedRunIsFrozen
BY CampaignsUseTheRoutes, ApiUsesTheStore, EndedRunsStay
=============================================================================
