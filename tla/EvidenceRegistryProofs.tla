----------------------- MODULE EvidenceRegistryProofs -----------------------
(***************************************************************************)
(* Proofs about EvidenceRegistry, for every set of producers, keys,        *)
(* contents, timestamps and ids.                                           *)
(***************************************************************************)
EXTENDS EvidenceRegistry, TLAPS

(* The four tables and the answers, changed one disjunct at a time: what   *)
(* every proof below splits a step into.                                   *)
LEMMA StepCases ==
  ASSUME [Next]_vars
  PROVE  \/ \E q \in ExperimentRow : CreateExperiment(q)
         \/ \E q \in RunRequest : CreateRun(q)
         \/ \E id \in RunIds, status \in Status, at \in Stamps :
              CloseRun(id, status, at)
         \/ \E q \in EvidenceRow : AppendEvidence(q)
         \/ \E q \in ArtifactRequest : RegisterArtifact(q)
         \/ \E id \in ArtifactIds, ev \in Optional(EvidenceIds),
               run \in Optional(RunIds) : AttachArtifact(id, ev, run)
         \/ UNCHANGED vars
BY DEF Next

-----------------------------------------------------------------------------
(* Type correctness.                                                       *)

LEMMA TablesTypedStep == TablesTyped /\ [Next]_vars => TablesTyped'
<1> SUFFICES ASSUME TablesTyped, [Next]_vars
             PROVE  TablesTyped'
  OBVIOUS
<1> USE DEF TablesTyped
<1>1. ASSUME NEW q \in ExperimentRow, CreateExperiment(q)
      PROVE  TablesTyped'
  BY <1>1 DEF CreateExperiment, tables, Refuse, vars
<1>2. ASSUME NEW q \in RunRequest, CreateRun(q)
      PROVE  TablesTyped'
  <2>1. RunOf(q) \in RunRow
    BY DEF RunOf, RunRow, RunRequest, Optional
  <2> QED
    BY <1>2, <2>1 DEF CreateRun, tables, Refuse, vars
<1>3. ASSUME NEW id \in RunIds, NEW status \in Status, NEW at \in Stamps,
             CloseRun(id, status, at)
      PROVE  TablesTyped'
  <2>1. ASSUME NEW r \in runs
        PROVE  [r EXCEPT !.status = status, !.ended = at] \in RunRow
    BY DEF RunRow, Optional
  <2> QED
    BY <1>3, <2>1 DEF CloseRun, WithId, Refuse, vars
<1>4. ASSUME NEW q \in EvidenceRow, AppendEvidence(q)
      PROVE  TablesTyped'
  BY <1>4 DEF AppendEvidence, tables, Refuse, vars
<1>5. ASSUME NEW q \in ArtifactRequest, RegisterArtifact(q)
      PROVE  TablesTyped'
  BY <1>5 DEF RegisterArtifact, tables, Refuse, vars
<1>6. ASSUME NEW id \in ArtifactIds, NEW ev \in Optional(EvidenceIds),
             NEW run \in Optional(RunIds), AttachArtifact(id, ev, run)
      PROVE  TablesTyped'
  <2>1. ASSUME NEW r \in artifacts
        PROVE  [r EXCEPT !.evidence = Linked(@, ev),
                         !.run = Linked(@, run)] \in ArtifactRequest
    BY DEF ArtifactRequest, Linked
  <2> QED
    BY <1>6, <2>1 DEF AttachArtifact, WithId, Refuse, vars
<1>7. ASSUME UNCHANGED vars
      PROVE  TablesTyped'
  BY <1>7 DEF vars
<1> QED
  BY <1>1, <1>2, <1>3, <1>4, <1>5, <1>6, <1>7, StepCases

LEMMA TablesTypedInvariant == Spec => []TablesTyped
<1>1. Init => TablesTyped
  BY DEF Init, TablesTyped
<1> QED
  BY <1>1, TablesTypedStep, PTL DEF Spec

-----------------------------------------------------------------------------
(* What the two ways of changing a table, inserting a row after looking    *)
(* its key and id up and rewriting a row in place, do to uniqueness and to *)
(* the references into the table.                                          *)

LEMMA InsertKeepsUnique ==
  ASSUME NEW table, NEW q, NEW row,
         UniqueIds(table), UniqueKeys(table), IsNew(table, q),
         row.id = q.id, row.key = q.key, row.producer = q.producer
  PROVE  UniqueIds(table \cup {row}) /\ UniqueKeys(table \cup {row})
<1>1. \A r \in table : r.id # row.id
  BY DEF IsNew, WithId
<1>2. ASSUME NEW r \in table, r.key # None
      PROVE  ~(r.key = row.key /\ r.producer = row.producer)
  <2> SUFFICES ASSUME r.key = row.key, r.producer = row.producer
               PROVE  FALSE
    OBVIOUS
  <2>1. r \in Keyed(table, q)
    BY <1>2 DEF Keyed
  <2> QED
    BY <2>1 DEF IsNew
<1>3. UniqueIds(table \cup {row})
  BY <1>1 DEF UniqueIds
<1>4. UniqueKeys(table \cup {row})
  BY <1>2 DEF UniqueKeys
<1> QED
  BY <1>3, <1>4

LEMMA RewriteKeepsUnique ==
  ASSUME NEW table, NEW r \in table, NEW s,
         UniqueIds(table), UniqueKeys(table),
         s.id = r.id, s.key = r.key, s.producer = r.producer
  PROVE  /\ UniqueIds((table \ {r}) \cup {s})
         /\ UniqueKeys((table \ {r}) \cup {s})
BY DEF UniqueIds, UniqueKeys

(* No call makes a row of any table disappear, so what resolved before it  *)
(* resolves after it.                                                      *)
LEMMA ReferencesSurvive ==
  ASSUME TablesTyped, [Next]_vars
  PROVE  /\ \A id : Exists(experiments, id) => Exists(experiments, id)'
         /\ \A id : Exists(runs, id) => Exists(runs, id)'
         /\ \A id : Exists(evidence, id) => Exists(evidence, id)'
<1> USE DEF Exists
<1>1. ASSUME NEW q \in ExperimentRow, CreateExperiment(q)
      PROVE  experiments \subseteq experiments' /\ UNCHANGED <<runs, evidence>>
  BY <1>1 DEF CreateExperiment, tables, Refuse, vars
<1>2. ASSUME NEW q \in RunRequest, CreateRun(q)
      PROVE  runs \subseteq runs' /\ UNCHANGED <<experiments, evidence>>
  BY <1>2 DEF CreateRun, tables, Refuse, vars
<1>3. ASSUME NEW id \in RunIds, NEW status \in Status, NEW at \in Stamps,
             CloseRun(id, status, at)
      PROVE  /\ \A x : Exists(runs, x) => Exists(runs, x)'
             /\ UNCHANGED <<experiments, evidence>>
  <2>1. ASSUME NEW r \in runs
        PROVE  [r EXCEPT !.status = status, !.ended = at].id = r.id
    BY DEF TablesTyped, RunRow
  <2> QED
    BY <1>3, <2>1 DEF CloseRun, WithId, Refuse, vars
<1>4. ASSUME NEW q \in EvidenceRow, AppendEvidence(q)
      PROVE  evidence \subseteq evidence' /\ UNCHANGED <<experiments, runs>>
  BY <1>4 DEF AppendEvidence, tables, Refuse, vars
<1>5. ASSUME NEW q \in ArtifactRequest, RegisterArtifact(q)
      PROVE  UNCHANGED <<experiments, runs, evidence>>
  BY <1>5 DEF RegisterArtifact, tables, Refuse, vars
<1>6. ASSUME NEW id \in ArtifactIds, NEW ev \in Optional(EvidenceIds),
             NEW run \in Optional(RunIds), AttachArtifact(id, ev, run)
      PROVE  UNCHANGED <<experiments, runs, evidence>>
  BY <1>6 DEF AttachArtifact, Refuse, vars
<1>7. ASSUME UNCHANGED vars
      PROVE  UNCHANGED <<experiments, runs, evidence>>
  BY <1>7 DEF vars
<1> QED
  BY <1>1, <1>2, <1>3, <1>4, <1>5, <1>6, <1>7, StepCases

-----------------------------------------------------------------------------
(* Ids and keys name at most one row.                                      *)

Uniqueness == IdNamesOneRow /\ KeyNamesOneRow

LEMMA UniquenessStep ==
  ASSUME TablesTyped, Uniqueness, [Next]_vars
  PROVE  Uniqueness'
<1> USE DEF Uniqueness, IdNamesOneRow, KeyNamesOneRow
<1>1. ASSUME NEW q \in ExperimentRow, CreateExperiment(q)
      PROVE  Uniqueness'
  <2>1. CASE IsNew(experiments, q) /\ experiments' = experiments \cup {q}
    BY <1>1, <2>1, InsertKeepsUnique
    DEF CreateExperiment, tables, Refuse, vars, UniqueIds, UniqueKeys
  <2>2. CASE UNCHANGED tables
    BY <2>2 DEF tables, UniqueIds, UniqueKeys
  <2> QED
    BY <1>1, <2>1, <2>2 DEF CreateExperiment, Refuse, vars, tables
<1>2. ASSUME NEW q \in RunRequest, CreateRun(q)
      PROVE  Uniqueness'
  <2>1. CASE IsNew(runs, q) /\ runs' = runs \cup {RunOf(q)}
             /\ UNCHANGED <<experiments, evidence, artifacts>>
    <3>1. /\ RunOf(q).id = q.id
          /\ RunOf(q).key = q.key
          /\ RunOf(q).producer = q.producer
      BY DEF RunOf
    <3>2. UniqueIds(runs') /\ UniqueKeys(runs')
      BY <2>1, <3>1, InsertKeepsUnique
    <3> QED
      BY <2>1, <3>2 DEF UniqueIds, UniqueKeys
  <2>2. CASE UNCHANGED tables
    BY <2>2 DEF tables, UniqueIds, UniqueKeys
  <2> QED
    BY <1>2, <2>1, <2>2 DEF CreateRun, Refuse, vars, tables
<1>3. ASSUME NEW id \in RunIds, NEW status \in Status, NEW at \in Stamps,
             CloseRun(id, status, at)
      PROVE  Uniqueness'
  <2>1. ASSUME NEW r \in runs,
               runs' = (runs \ {r})
                       \cup {[r EXCEPT !.status = status, !.ended = at]},
               UNCHANGED <<experiments, evidence, artifacts>>
        PROVE  Uniqueness'
    <3> DEFINE s == [r EXCEPT !.status = status, !.ended = at]
    <3>1. s.id = r.id /\ s.key = r.key /\ s.producer = r.producer
      BY DEF TablesTyped, RunRow
    <3> HIDE DEF s
    <3>2. UniqueIds((runs \ {r}) \cup {s}) /\ UniqueKeys((runs \ {r}) \cup {s})
      BY <3>1, RewriteKeepsUnique
    <3> QED
      BY <2>1, <3>2 DEF s, UniqueIds, UniqueKeys
  <2>2. CASE UNCHANGED tables
    BY <2>2 DEF tables, UniqueIds, UniqueKeys
  <2> QED
    BY <1>3, <2>1, <2>2 DEF CloseRun, WithId, Refuse, vars, tables
<1>4. ASSUME NEW q \in EvidenceRow, AppendEvidence(q)
      PROVE  Uniqueness'
  <2>1. CASE IsNew(evidence, q) /\ evidence' = evidence \cup {q}
             /\ UNCHANGED <<experiments, runs, artifacts>>
    BY <2>1, InsertKeepsUnique DEF UniqueIds, UniqueKeys
  <2>2. CASE UNCHANGED tables
    BY <2>2 DEF tables, UniqueIds, UniqueKeys
  <2> QED
    BY <1>4, <2>1, <2>2 DEF AppendEvidence, Refuse, vars, tables
<1>5. ASSUME NEW q \in ArtifactRequest, RegisterArtifact(q)
      PROVE  Uniqueness'
  <2>1. CASE IsNew(artifacts, q) /\ artifacts' = artifacts \cup {q}
             /\ UNCHANGED <<experiments, runs, evidence>>
    BY <2>1, InsertKeepsUnique DEF UniqueIds, UniqueKeys
  <2>2. CASE UNCHANGED tables
    BY <2>2 DEF tables, UniqueIds, UniqueKeys
  <2> QED
    BY <1>5, <2>1, <2>2 DEF RegisterArtifact, Refuse, vars, tables
<1>6. ASSUME NEW id \in ArtifactIds, NEW ev \in Optional(EvidenceIds),
             NEW run \in Optional(RunIds), AttachArtifact(id, ev, run)
      PROVE  Uniqueness'
  <2>1. ASSUME NEW r \in artifacts,
               artifacts' = (artifacts \ {r})
                            \cup {[r EXCEPT !.evidence = Linked(@, ev),
                                            !.run = Linked(@, run)]},
               UNCHANGED <<experiments, runs, evidence>>
        PROVE  Uniqueness'
    <3> DEFINE s == [r EXCEPT !.evidence = Linked(@, ev),
                              !.run = Linked(@, run)]
    <3>1. s.id = r.id /\ s.key = r.key /\ s.producer = r.producer
      BY DEF TablesTyped, ArtifactRequest
    <3> HIDE DEF s
    <3>2. /\ UniqueIds((artifacts \ {r}) \cup {s})
          /\ UniqueKeys((artifacts \ {r}) \cup {s})
      BY <3>1, RewriteKeepsUnique
    <3> QED
      BY <2>1, <3>2 DEF s, UniqueIds, UniqueKeys
  <2>2. CASE UNCHANGED tables
    BY <2>2 DEF tables, UniqueIds, UniqueKeys
  <2> QED
    BY <1>6, <2>1, <2>2 DEF AttachArtifact, WithId, Refuse, vars, tables
<1>7. ASSUME UNCHANGED vars
      PROVE  Uniqueness'
  BY <1>7 DEF vars, UniqueIds, UniqueKeys
<1> QED
  BY <1>1, <1>2, <1>3, <1>4, <1>5, <1>6, <1>7, StepCases

LEMMA UniquenessInvariant == Spec => []Uniqueness
<1>1. Init => Uniqueness
  BY DEF Init, Uniqueness, IdNamesOneRow, KeyNamesOneRow, UniqueIds, UniqueKeys
<1>2. TablesTyped /\ Uniqueness /\ [Next]_vars => Uniqueness'
  BY UniquenessStep
<1> QED
  BY <1>1, <1>2, TablesTypedInvariant, PTL DEF Spec

(* Ids are primary keys: the row a lookup by id finds is the only one.     *)
THEOREM IdsNameOneRow == Spec => []IdNamesOneRow
<1>1. Uniqueness => IdNamesOneRow
  BY DEF Uniqueness
<1> QED
  BY <1>1, UniquenessInvariant, PTL

(* A producer's key names at most one experiment, one run, one evidence    *)
(* record and one artifact: a keyed call can be retried without creating   *)
(* a duplicate, whatever the other producers do with the same key.         *)
THEOREM KeysNameOneRow == Spec => []KeyNamesOneRow
<1>1. Uniqueness => KeyNamesOneRow
  BY DEF Uniqueness
<1> QED
  BY <1>1, UniquenessInvariant, PTL

-----------------------------------------------------------------------------
(* No reference dangles.                                                   *)

LEMMA NoDanglingStep ==
  ASSUME TablesTyped, NoDanglingReference, [Next]_vars
  PROVE  NoDanglingReference'
<1> USE DEF NoDanglingReference
<1>1. /\ \A ref : Resolves(experiments, ref) => Resolves(experiments, ref)'
      /\ \A ref : Resolves(runs, ref) => Resolves(runs, ref)'
      /\ \A ref : Resolves(evidence, ref) => Resolves(evidence, ref)'
      /\ \A ref : Exists(experiments, ref) => Exists(experiments, ref)'
  BY ReferencesSurvive DEF Resolves
<1>2. /\ \A r \in runs : Exists(experiments, r.experiment)'
      /\ \A r \in evidence : EvidenceResolves(r)'
      /\ \A r \in artifacts : ArtifactResolves(r)'
  BY <1>1 DEF EvidenceResolves, ArtifactResolves
<1>3. ASSUME NEW q \in ExperimentRow, CreateExperiment(q)
      PROVE  UNCHANGED <<runs, evidence, artifacts>>
  BY <1>3 DEF CreateExperiment, tables, Refuse, vars
<1>4. ASSUME NEW q \in RunRequest, CreateRun(q)
      PROVE  NoDanglingReference'
  <2>1. CASE /\ RunResolves(q)
             /\ runs' = runs \cup {RunOf(q)}
             /\ UNCHANGED <<experiments, evidence, artifacts>>
    <3>1. RunOf(q).experiment = q.experiment
      BY DEF RunOf
    <3>2. Exists(experiments, RunOf(q).experiment)'
      BY <1>1, <2>1, <3>1 DEF RunResolves
    <3> QED
      BY <1>2, <2>1, <3>2
  <2>2. CASE UNCHANGED tables
    BY <1>2, <2>2 DEF tables
  <2> QED
    BY <1>4, <2>1, <2>2 DEF CreateRun, Refuse, vars, tables
<1>5. ASSUME NEW id \in RunIds, NEW status \in Status, NEW at \in Stamps,
             CloseRun(id, status, at)
      PROVE  NoDanglingReference'
  <2>1. ASSUME NEW r \in runs
        PROVE  [r EXCEPT !.status = status, !.ended = at].experiment
                 = r.experiment
    BY DEF TablesTyped, RunRow
  <2> QED
    BY <1>2, <1>5, <2>1 DEF CloseRun, WithId, Refuse, vars
<1>6. ASSUME NEW q \in EvidenceRow, AppendEvidence(q)
      PROVE  NoDanglingReference'
  <2>1. CASE EvidenceResolves(q) /\ evidence' = evidence \cup {q}
             /\ UNCHANGED <<experiments, runs, artifacts>>
    <3>1. EvidenceResolves(q)'
      BY <1>1, <2>1 DEF EvidenceResolves
    <3> QED
      BY <1>2, <2>1, <3>1
  <2>2. CASE UNCHANGED tables
    BY <1>2, <2>2 DEF tables
  <2> QED
    BY <1>6, <2>1, <2>2 DEF AppendEvidence, Refuse, vars, tables
<1>7. ASSUME NEW q \in ArtifactRequest, RegisterArtifact(q)
      PROVE  NoDanglingReference'
  <2>1. CASE ArtifactResolves(q) /\ artifacts' = artifacts \cup {q}
             /\ UNCHANGED <<experiments, runs, evidence>>
    <3>1. ArtifactResolves(q)'
      BY <1>1, <2>1 DEF ArtifactResolves
    <3> QED
      BY <1>2, <2>1, <3>1
  <2>2. CASE UNCHANGED tables
    BY <1>2, <2>2 DEF tables
  <2> QED
    BY <1>7, <2>1, <2>2 DEF RegisterArtifact, Refuse, vars, tables
<1>8. ASSUME NEW id \in ArtifactIds, NEW ev \in Optional(EvidenceIds),
             NEW run \in Optional(RunIds), AttachArtifact(id, ev, run)
      PROVE  NoDanglingReference'
  <2>1. ASSUME NEW r \in artifacts,
               Resolves(evidence, ev), Resolves(runs, run),
               artifacts' = (artifacts \ {r})
                            \cup {[r EXCEPT !.evidence = Linked(@, ev),
                                            !.run = Linked(@, run)]},
               UNCHANGED <<experiments, runs, evidence>>
        PROVE  NoDanglingReference'
    <3> DEFINE s == [r EXCEPT !.evidence = Linked(@, ev),
                              !.run = Linked(@, run)]
    <3>1. s.evidence \in {r.evidence, ev} /\ s.run \in {r.run, run}
      BY DEF TablesTyped, ArtifactRequest, Linked
    <3> HIDE DEF s
    <3>2. ArtifactResolves(s)
      BY <2>1, <3>1 DEF ArtifactResolves
    <3>3. ArtifactResolves(s)'
      BY <1>1, <3>2 DEF ArtifactResolves
    <3> QED
      BY <1>2, <2>1, <3>3 DEF s
  <2>2. CASE UNCHANGED tables
    BY <1>2, <2>2 DEF tables
  <2> QED
    BY <1>8, <2>1, <2>2 DEF AttachArtifact, WithId, Refuse, vars, tables
<1> QED
  BY <1>2, <1>3, <1>4, <1>5, <1>6, <1>7, <1>8, StepCases DEF vars

(* Every run has its experiment, every evidence record its run and         *)
(* experiment, every artifact what it was attached to: rows are never      *)
(* deleted and each write resolves its references in its own transaction.  *)
THEOREM ReferencesResolve == Spec => []NoDanglingReference
<1>1. Init => NoDanglingReference
  BY DEF Init, NoDanglingReference
<1>2. TablesTyped /\ NoDanglingReference /\ [Next]_vars => NoDanglingReference'
  BY NoDanglingStep
<1> QED
  BY <1>1, <1>2, TablesTypedInvariant, PTL DEF Spec

-----------------------------------------------------------------------------
(* Rows survive every step, and only the columns meant to change change.   *)

RunSurvives(r, s) ==
  /\ SameRunIdentity(r, s)
  /\ r.status # Open => s = r

ArtifactSurvives(r, s) ==
  /\ SameArtifactIdentity(r, s)
  /\ r.run # None => s.run = r.run
  /\ r.evidence # None => s.evidence = r.evidence

LEMMA RunsSurvive ==
  ASSUME TablesTyped, [Next]_vars
  PROVE  \A r \in runs : \E s \in runs' : RunSurvives(r, s)
<1>1. \A r \in runs : RunSurvives(r, r)
  BY DEF RunSurvives, SameRunIdentity, SameRun
<1>2. ASSUME runs \subseteq runs'
      PROVE  \A r \in runs : \E s \in runs' : RunSurvives(r, s)
  BY <1>1, <1>2
<1>3. ASSUME NEW id \in RunIds, NEW status \in Status, NEW at \in Stamps,
             CloseRun(id, status, at)
      PROVE  \A r \in runs : \E s \in runs' : RunSurvives(r, s)
  <2>1. ASSUME NEW r \in runs, r.status = Open,
               runs' = (runs \ {r})
                       \cup {[r EXCEPT !.status = status, !.ended = at]}
        PROVE  \A x \in runs : \E s \in runs' : RunSurvives(x, s)
    <3> DEFINE t == [r EXCEPT !.status = status, !.ended = at]
    <3>1. RunSurvives(r, t)
      BY <2>1 DEF TablesTyped, RunRow, RunSurvives, SameRunIdentity, SameRun
    <3> HIDE DEF t
    <3> QED
      BY <1>1, <2>1, <3>1 DEF t
  <2> QED
    BY <1>2, <1>3, <2>1 DEF CloseRun, WithId, Refuse, vars
<1>4. ASSUME NEW q \in RunRequest, CreateRun(q)
      PROVE  runs \subseteq runs'
  BY <1>4 DEF CreateRun, tables, Refuse, vars
<1>5. \/ \E q \in RunRequest : CreateRun(q)
      \/ \E id \in RunIds, status \in Status, at \in Stamps :
           CloseRun(id, status, at)
      \/ UNCHANGED runs
  BY StepCases DEF vars, tables, Refuse, CreateExperiment, AppendEvidence,
     RegisterArtifact, AttachArtifact
<1> QED
  BY <1>2, <1>3, <1>4, <1>5

LEMMA ArtifactsSurvive ==
  ASSUME TablesTyped, [Next]_vars
  PROVE  \A r \in artifacts : \E s \in artifacts' : ArtifactSurvives(r, s)
<1>1. \A r \in artifacts : ArtifactSurvives(r, r)
  BY DEF ArtifactSurvives, SameArtifactIdentity, SameArtifact
<1>2. ASSUME artifacts \subseteq artifacts'
      PROVE  \A r \in artifacts : \E s \in artifacts' : ArtifactSurvives(r, s)
  BY <1>1, <1>2
<1>3. ASSUME NEW id \in ArtifactIds, NEW ev \in Optional(EvidenceIds),
             NEW run \in Optional(RunIds), AttachArtifact(id, ev, run)
      PROVE  \A r \in artifacts : \E s \in artifacts' : ArtifactSurvives(r, s)
  <2>1. ASSUME NEW r \in artifacts,
               MayLink(r.evidence, ev), MayLink(r.run, run),
               artifacts' = (artifacts \ {r})
                            \cup {[r EXCEPT !.evidence = Linked(@, ev),
                                            !.run = Linked(@, run)]}
        PROVE  \A x \in artifacts :
                 \E s \in artifacts' : ArtifactSurvives(x, s)
    <3> DEFINE t == [r EXCEPT !.evidence = Linked(@, ev),
                              !.run = Linked(@, run)]
    <3>1. ArtifactSurvives(r, t)
      BY <2>1 DEF TablesTyped, ArtifactRequest, ArtifactSurvives,
         SameArtifactIdentity, SameArtifact, MayLink, Linked
    <3> HIDE DEF t
    <3> QED
      BY <1>1, <2>1, <3>1 DEF t
  <2> QED
    BY <1>2, <1>3, <2>1 DEF AttachArtifact, WithId, Refuse, vars
<1>4. ASSUME NEW q \in ArtifactRequest, RegisterArtifact(q)
      PROVE  artifacts \subseteq artifacts'
  BY <1>4 DEF RegisterArtifact, tables, Refuse, vars
<1>5. \/ \E q \in ArtifactRequest : RegisterArtifact(q)
      \/ \E id \in ArtifactIds, ev \in Optional(EvidenceIds),
            run \in Optional(RunIds) : AttachArtifact(id, ev, run)
      \/ UNCHANGED artifacts
  BY StepCases DEF vars, tables, Refuse, CreateExperiment, AppendEvidence,
     CreateRun, CloseRun
<1> QED
  BY <1>2, <1>3, <1>4, <1>5

LEMMA AppendOnly ==
  ASSUME [Next]_vars
  PROVE  experiments \subseteq experiments' /\ evidence \subseteq evidence'
BY StepCases DEF vars, tables, Refuse, CreateExperiment, AppendEvidence,
   CreateRun, CloseRun, RegisterArtifact, AttachArtifact

(* No call deletes or rewrites a stored row, except the end of a run and   *)
(* the attachment of an artifact.                                          *)
THEOREM NothingIsRewritten == Spec => RowsAreImmutable
<1>1. TablesTyped /\ [Next]_vars
      => [/\ experiments \subseteq experiments'
          /\ evidence \subseteq evidence'
          /\ \A r \in runs : \E s \in runs' : SameRunIdentity(r, s)
          /\ \A r \in artifacts :
               \E s \in artifacts' : SameArtifactIdentity(r, s)]_vars
  BY AppendOnly, RunsSurvive, ArtifactsSurvive
  DEF RunSurvives, ArtifactSurvives
<1> QED
  BY <1>1, TablesTypedInvariant, PTL DEF Spec, RowsAreImmutable

(* A run that is CLOSED or FAILED is the same row after every later call.  *)
THEOREM EndedRunsStay == Spec => EndedRunIsFrozen
<1>1. TablesTyped /\ [Next]_vars
      => [\A r \in runs : r.status # Open => r \in runs']_vars
  BY RunsSurvive DEF RunSurvives
<1> QED
  BY <1>1, TablesTypedInvariant, PTL DEF Spec, EndedRunIsFrozen

(* Attachments are write-once: the row that carries the artifact's id      *)
(* after a step is the one that survived, and it kept what was set.        *)
THEOREM AttachmentsStay == Spec => AttachmentIsWrittenOnce
<1>1. ASSUME TablesTyped, Uniqueness', [Next]_vars
      PROVE  \A r \in artifacts, s \in artifacts' :
               s.id = r.id => /\ r.run # None => s.run = r.run
                              /\ r.evidence # None => s.evidence = r.evidence
  <2> SUFFICES ASSUME NEW r \in artifacts, NEW s \in artifacts', s.id = r.id
               PROVE  /\ r.run # None => s.run = r.run
                      /\ r.evidence # None => s.evidence = r.evidence
    OBVIOUS
  <2>1. PICK t \in artifacts' : ArtifactSurvives(r, t)
    BY <1>1, ArtifactsSurvive
  <2>2. t = s
    BY <1>1, <2>1 DEF Uniqueness, IdNamesOneRow, UniqueIds, ArtifactSurvives,
       SameArtifactIdentity
  <2> QED
    BY <2>1, <2>2 DEF ArtifactSurvives
<1>2. TablesTyped /\ Uniqueness' /\ [Next]_vars
      => [\A r \in artifacts, s \in artifacts' :
           s.id = r.id => /\ r.run # None => s.run = r.run
                          /\ r.evidence # None => s.evidence = r.evidence]_vars
  BY <1>1
<1> QED
  BY <1>2, TablesTypedInvariant, UniquenessInvariant, PTL
     DEF Spec, AttachmentIsWrittenOnce

-----------------------------------------------------------------------------
(* Answers.  An answer names a row that is in its table when it is given,  *)
(* and agrees with the request on what the fingerprint covers.             *)

AnswersExperiment(a) ==
  \E q \in ExperimentRow, r \in experiments :
    /\ a = Ack("experiment", q, ExperimentBody(q), r.id)
    /\ SameExperiment(r, q)

AnswersRun(a) ==
  \E q \in RunRequest, r \in runs :
    /\ a = Ack("run", q, RunBody(q), r.id)
    /\ r.key = q.key /\ SameRun(r, q)

AnswersEvidence(a) ==
  \E q \in EvidenceRow, r \in evidence :
    /\ a = Ack("evidence", q, EvidenceBody(q), r.id)
    /\ SameEvidence(r, q)

AnswersArtifact(a) ==
  \E q \in ArtifactRequest, r \in artifacts :
    /\ a = Ack("artifact", q, ArtifactBody(q), r.id)
    /\ r.content = q.content

Answers(a) ==
  AnswersExperiment(a) \/ AnswersRun(a) \/ AnswersEvidence(a)
    \/ AnswersArtifact(a)

LEMMA NewAcks ==
  ASSUME TablesTyped, [Next]_vars, NEW a \in acks', a \notin acks
  PROVE  Answers(a)'
<1>1. ASSUME NEW q \in ExperimentRow, CreateExperiment(q)
      PROVE  AnswersExperiment(a)'
  <2>1. CASE /\ experiments' = experiments \cup {q}
             /\ Acknowledge("experiment", q, ExperimentBody(q), q.id)
    BY <2>1 DEF Acknowledge, AnswersExperiment, SameExperiment
  <2>2. ASSUME NEW r \in ExperimentReplay(q),
               Acknowledge("experiment", q, ExperimentBody(q), r.id),
               UNCHANGED tables
        PROVE  AnswersExperiment(a)'
    <3>1. r \in experiments /\ SameExperiment(r, q)
      BY DEF ExperimentReplay, Keyed, WithId
    <3> QED
      BY <2>2, <3>1 DEF Acknowledge, AnswersExperiment, tables
  <2> QED
    BY <1>1, <2>1, <2>2 DEF CreateExperiment, Refuse, vars
<1>2. ASSUME NEW q \in RunRequest, CreateRun(q)
      PROVE  AnswersRun(a)'
  <2>1. CASE /\ runs' = runs \cup {RunOf(q)}
             /\ Acknowledge("run", q, RunBody(q), q.id)
    <3>1. /\ RunOf(q).id = q.id /\ RunOf(q).key = q.key
          /\ SameRun(RunOf(q), q)
      BY DEF RunOf, SameRun
    <3> QED
      BY <2>1, <3>1 DEF Acknowledge, AnswersRun
  <2>2. ASSUME NEW r \in RunReplay(q),
               Acknowledge("run", q, RunBody(q), r.id),
               UNCHANGED tables
        PROVE  AnswersRun(a)'
    <3>1. r \in runs /\ r.key = q.key /\ SameRun(r, q)
      BY DEF RunReplay, Keyed
    <3> QED
      BY <2>2, <3>1 DEF Acknowledge, AnswersRun, tables
  <2> QED
    BY <1>2, <2>1, <2>2 DEF CreateRun, Refuse, vars
<1>3. ASSUME NEW q \in EvidenceRow, AppendEvidence(q)
      PROVE  AnswersEvidence(a)'
  <2>1. CASE /\ evidence' = evidence \cup {q}
             /\ Acknowledge("evidence", q, EvidenceBody(q), q.id)
    BY <2>1 DEF Acknowledge, AnswersEvidence, SameEvidence
  <2>2. ASSUME NEW r \in EvidenceReplay(q),
               Acknowledge("evidence", q, EvidenceBody(q), r.id),
               UNCHANGED tables
        PROVE  AnswersEvidence(a)'
    <3>1. r \in evidence /\ SameEvidence(r, q)
      BY DEF EvidenceReplay, Keyed, WithId
    <3> QED
      BY <2>2, <3>1 DEF Acknowledge, AnswersEvidence, tables
  <2> QED
    BY <1>3, <2>1, <2>2 DEF AppendEvidence, Refuse, vars
<1>4. ASSUME NEW q \in ArtifactRequest, RegisterArtifact(q)
      PROVE  AnswersArtifact(a)'
  <2>1. CASE /\ artifacts' = artifacts \cup {q}
             /\ Acknowledge("artifact", q, ArtifactBody(q), q.id)
    BY <2>1 DEF Acknowledge, AnswersArtifact
  <2>2. ASSUME NEW r \in ArtifactReplay(q),
               Acknowledge("artifact", q, ArtifactBody(q), r.id),
               UNCHANGED tables
        PROVE  AnswersArtifact(a)'
    <3>1. r \in artifacts /\ r.content = q.content
      BY DEF ArtifactReplay, Keyed, WithId, SameRegistration, SameArtifact
    <3> QED
      BY <2>2, <3>1 DEF Acknowledge, AnswersArtifact, tables
  <2> QED
    BY <1>4, <2>1, <2>2 DEF RegisterArtifact, Refuse, vars
<1>5. ASSUME \/ \E id \in RunIds, status \in Status, at \in Stamps :
                  CloseRun(id, status, at)
             \/ \E id \in ArtifactIds, ev \in Optional(EvidenceIds),
                   run \in Optional(RunIds) : AttachArtifact(id, ev, run)
             \/ UNCHANGED vars
      PROVE  FALSE
  BY <1>5 DEF CloseRun, AttachArtifact, Refuse, vars
<1> QED
  BY <1>1, <1>2, <1>3, <1>4, <1>5, StepCases DEF Answers

(* Tables hold rows of their columns and answers name ids of theirs.       *)
THEOREM TypeCorrect == Spec => []TypeOK
<1>1. Init => TypeOK
  BY DEF Init, TypeOK, TablesTyped
<1>2. ASSUME TypeOK, [Next]_vars
      PROVE  TypeOK'
  <2>1. TablesTyped'
    BY <1>2, TablesTypedStep DEF TypeOK
  <2>2. ASSUME NEW a, Answers(a)'
        PROVE  a \in AckSet
    <3>1. /\ \A r \in experiments' : r.id \in ExperimentIds
          /\ \A r \in runs' : r.id \in RunIds
          /\ \A r \in evidence' : r.id \in EvidenceIds
          /\ \A r \in artifacts' : r.id \in ArtifactIds
      BY <2>1 DEF TablesTyped, ExperimentRow, RunRow, EvidenceRow,
         ArtifactRequest
    <3>2. CASE AnswersExperiment(a)'
      BY <3>1, <3>2 DEF AnswersExperiment, AckSet
    <3>3. CASE AnswersRun(a)'
      BY <3>1, <3>3 DEF AnswersRun, AckSet
    <3>4. CASE AnswersEvidence(a)'
      BY <3>1, <3>4 DEF AnswersEvidence, AckSet
    <3>5. CASE AnswersArtifact(a)'
      BY <3>1, <3>5 DEF AnswersArtifact, AckSet
    <3> QED
      BY <2>2, <3>2, <3>3, <3>4, <3>5 DEF Answers
  <2>3. \A a \in acks' : a \in acks \/ Answers(a)'
    BY <1>2, NewAcks DEF TypeOK
  <2> QED
    BY <1>2, <2>1, <2>2, <2>3 DEF TypeOK
<1> QED
  BY <1>1, <1>2, PTL DEF Spec

-----------------------------------------------------------------------------
(* What was acknowledged stays stored.  Old answers name a row that        *)
(* survives the step, new ones a row of the table as it is after it.       *)

LEMMA ExperimentsAckedStep ==
  ASSUME TablesTyped, ExperimentsAcked, [Next]_vars
  PROVE  ExperimentsAcked'
<1> SUFFICES ASSUME NEW q \in ExperimentRow, NEW id \in ExperimentIds,
                    Ack("experiment", q, ExperimentBody(q), id) \in acks'
             PROVE  \E r \in experiments' :
                      /\ r.id = id /\ r.producer = q.producer
                      /\ r.content = q.content
  BY DEF ExperimentsAcked, WithId, ExperimentBody
<1> DEFINE a == Ack("experiment", q, ExperimentBody(q), id)
<1>1. CASE a \in acks
  <2>1. PICK r \in experiments : /\ r.id = id /\ r.producer = q.producer
                                 /\ r.content = q.content
    BY <1>1 DEF ExperimentsAcked, WithId, ExperimentBody
  <2> QED
    BY <2>1, AppendOnly
<1>2. CASE a \notin acks
  <2>1. AnswersExperiment(a)'
    BY <1>2, NewAcks DEF Answers, AnswersRun, AnswersEvidence,
       AnswersArtifact, Ack
  <2> QED
    BY <2>1 DEF AnswersExperiment, Ack, ExperimentBody, SameExperiment
<1> QED
  BY <1>1, <1>2

LEMMA RunsAckedStep ==
  ASSUME TablesTyped, RunsAcked, [Next]_vars
  PROVE  RunsAcked'
<1> SUFFICES ASSUME NEW q \in RunRequest, NEW id \in RunIds,
                    Ack("run", q, RunBody(q), id) \in acks'
             PROVE  \E r \in runs' :
                      /\ r.id = id /\ r.key = q.key /\ SameRun(r, q)
  BY DEF RunsAcked, WithId, RunBody, SameRun
<1> DEFINE a == Ack("run", q, RunBody(q), id)
<1>1. CASE a \in acks
  <2>1. PICK r \in runs : r.id = id /\ r.key = q.key /\ SameRun(r, q)
    BY <1>1 DEF RunsAcked, WithId, RunBody, SameRun
  <2>2. PICK s \in runs' : RunSurvives(r, s)
    BY RunsSurvive
  <2> QED
    BY <2>1, <2>2 DEF RunSurvives, SameRunIdentity, SameRun
<1>2. CASE a \notin acks
  <2>1. AnswersRun(a)'
    BY <1>2, NewAcks DEF Answers, AnswersExperiment, AnswersEvidence,
       AnswersArtifact, Ack
  <2> QED
    BY <2>1 DEF AnswersRun, Ack, RunBody, SameRun
<1> QED
  BY <1>1, <1>2

LEMMA EvidenceAckedStep ==
  ASSUME TablesTyped, EvidenceAcked, [Next]_vars
  PROVE  EvidenceAcked'
<1> SUFFICES ASSUME NEW q \in EvidenceRow, NEW id \in EvidenceIds,
                    Ack("evidence", q, EvidenceBody(q), id) \in acks'
             PROVE  \E r \in evidence' : r.id = id /\ SameEvidence(r, q)
  BY DEF EvidenceAcked, WithId, EvidenceBody, SameEvidence
<1> DEFINE a == Ack("evidence", q, EvidenceBody(q), id)
<1>1. CASE a \in acks
  <2>1. PICK r \in evidence : r.id = id /\ SameEvidence(r, q)
    BY <1>1 DEF EvidenceAcked, WithId, EvidenceBody, SameEvidence
  <2> QED
    BY <2>1, AppendOnly
<1>2. CASE a \notin acks
  <2>1. AnswersEvidence(a)'
    BY <1>2, NewAcks DEF Answers, AnswersExperiment, AnswersRun,
       AnswersArtifact, Ack
  <2> QED
    BY <2>1 DEF AnswersEvidence, Ack, EvidenceBody, SameEvidence
<1> QED
  BY <1>1, <1>2

LEMMA ArtifactsAckedStep ==
  ASSUME TablesTyped, ArtifactsAcked, [Next]_vars
  PROVE  ArtifactsAcked'
<1> SUFFICES ASSUME NEW q \in ArtifactRequest, NEW id \in ArtifactIds,
                    Ack("artifact", q, ArtifactBody(q), id) \in acks'
             PROVE  \E r \in artifacts' : r.id = id /\ r.content = q.content
  BY DEF ArtifactsAcked, WithId, ArtifactBody
<1> DEFINE a == Ack("artifact", q, ArtifactBody(q), id)
<1>1. CASE a \in acks
  <2>1. PICK r \in artifacts : r.id = id /\ r.content = q.content
    BY <1>1 DEF ArtifactsAcked, WithId, ArtifactBody
  <2>2. PICK s \in artifacts' : ArtifactSurvives(r, s)
    BY ArtifactsSurvive
  <2> QED
    BY <2>1, <2>2 DEF ArtifactSurvives, SameArtifactIdentity, SameArtifact
<1>2. CASE a \notin acks
  <2>1. AnswersArtifact(a)'
    BY <1>2, NewAcks DEF Answers, AnswersExperiment, AnswersRun,
       AnswersEvidence, Ack
  <2> QED
    BY <2>1 DEF AnswersArtifact, Ack, ArtifactBody
<1> QED
  BY <1>1, <1>2

(* What any 201 acknowledged is in the registry ever after, under the id   *)
(* it answered and with the body it was given.                             *)
THEOREM AcknowledgedIsStored == Spec => []AckedIsStored
<1>1. Init => AckedIsStored
  BY DEF Init, AckedIsStored, ExperimentsAcked, RunsAcked, EvidenceAcked,
     ArtifactsAcked
<1>2. TablesTyped /\ AckedIsStored /\ [Next]_vars => AckedIsStored'
  BY ExperimentsAckedStep, RunsAckedStep, EvidenceAckedStep,
     ArtifactsAckedStep DEF AckedIsStored
<1> QED
  BY <1>1, <1>2, TablesTypedInvariant, PTL DEF Spec

-----------------------------------------------------------------------------
(* Retries.  The row an answer names is stored under the key of the        *)
(* request, no other row is, and what it refers to still resolves.         *)

(* A retried create_run, with any id and any started_at, returns the run   *)
(* first answered, closed or not.                                          *)
THEOREM RunRetries == Spec => []RunRetryReturnsFirst
<1>1. ASSUME AckedIsStored, Uniqueness, NoDanglingReference
      PROVE  RunRetryReturnsFirst
  <2> SUFFICES ASSUME NEW q \in RunRequest, NEW id \in RunIds,
                      q.key # None, Ack("run", q, RunBody(q), id) \in acks
               PROVE  /\ RunResolves(q)
                      /\ RunReplay(q) # {}
                      /\ \A r \in RunReplay(q) : r.id = id
    BY DEF RunRetryReturnsFirst
  <2>1. PICK r \in runs : /\ r.id = id /\ r.key = q.key
                          /\ SameRun(r, q)
    BY <1>1 DEF AckedIsStored, RunsAcked, WithId, RunBody, SameRun
  <2>2. RunResolves(q)
    BY <1>1, <2>1 DEF NoDanglingReference, RunResolves, SameRun
  <2>3. r \in RunReplay(q)
    BY <2>1 DEF RunReplay, Keyed, SameRun
  <2>4. \A s \in RunReplay(q) : s = r
    BY <1>1, <2>1 DEF RunReplay, Keyed, SameRun, Uniqueness, KeyNamesOneRow,
       UniqueKeys
  <2> QED
    BY <2>1, <2>2, <2>3, <2>4
<1> QED
  BY <1>1, AcknowledgedIsStored, UniquenessInvariant, ReferencesResolve, PTL

(* A retried append_evidence, with any id and any appended_at, returns the *)
(* record first answered.                                                  *)
THEOREM EvidenceRetries == Spec => []EvidenceRetryReturnsFirst
<1>1. ASSUME AckedIsStored, Uniqueness, NoDanglingReference
      PROVE  EvidenceRetryReturnsFirst
  <2> SUFFICES ASSUME NEW q \in EvidenceRow, NEW id \in EvidenceIds,
                      Ack("evidence", q, EvidenceBody(q), id) \in acks
               PROVE  /\ EvidenceResolves(q)
                      /\ EvidenceReplay(q) # {}
                      /\ \A r \in EvidenceReplay(q) : r.id = id
    BY DEF EvidenceRetryReturnsFirst
  <2>1. PICK r \in evidence : r.id = id /\ SameEvidence(r, q)
    BY <1>1 DEF AckedIsStored, EvidenceAcked, WithId, EvidenceBody,
       SameEvidence
  <2>2. EvidenceResolves(q)
    BY <1>1, <2>1 DEF NoDanglingReference, EvidenceResolves, SameEvidence
  <2>3. q.key # None
    BY NoneIsNoValue DEF EvidenceRow
  <2>4. r \in Keyed(evidence, q)
    BY <2>1, <2>3 DEF Keyed, SameEvidence
  <2>5. \A s \in Keyed(evidence, q) : s = r
    BY <1>1, <2>4 DEF Keyed, Uniqueness, KeyNamesOneRow, UniqueKeys
  <2> QED
    BY <2>1, <2>2, <2>4, <2>5 DEF EvidenceReplay
<1> QED
  BY <1>1, AcknowledgedIsStored, UniquenessInvariant, ReferencesResolve, PTL

(* An answer of a kind is the answer to a request of that kind.            *)
LEMMA AckKinds ==
  ASSUME NEW a \in AckSet
  PROVE  /\ a[1] = "run" => \E q \in RunRequest, id \in RunIds :
                               a = Ack("run", q, RunBody(q), id)
         /\ a[1] = "evidence" => \E q \in EvidenceRow, id \in EvidenceIds :
                                    a = Ack("evidence", q, EvidenceBody(q), id)
BY DEF AckSet, Ack

(* No two 201s for one producer's key disagree on the run, or the evidence *)
(* record, it names.                                                       *)
THEOREM KeysAcknowledgeOneRecord == Spec => []KeyAcknowledgesOneRecord
<1>1. ASSUME TypeOK, AckedIsStored, Uniqueness
      PROVE  KeyAcknowledgesOneRecord
  <2> SUFFICES ASSUME NEW a1 \in acks, NEW a2 \in acks,
                      a1[1] \in {"run", "evidence"},
                      a1[1] = a2[1], a1[2] = a2[2], a1[3] = a2[3],
                      a1[3] # None
               PROVE  a1 = a2
    BY DEF KeyAcknowledgesOneRecord
  <2>1. CASE a1[1] = "run"
    <3>1. PICK q1 \in RunRequest, id1 \in RunIds :
            a1 = Ack("run", q1, RunBody(q1), id1)
      BY <1>1, <2>1, AckKinds DEF TypeOK
    <3>2. PICK q2 \in RunRequest, id2 \in RunIds :
            a2 = Ack("run", q2, RunBody(q2), id2)
      BY <1>1, <2>1, AckKinds DEF TypeOK
    <3>3. PICK r1 \in runs : /\ r1.id = id1 /\ r1.producer = q1.producer
                             /\ r1.key = q1.key /\ RunBody(r1) = RunBody(q1)
      BY <1>1, <3>1 DEF AckedIsStored, RunsAcked, WithId
    <3>4. PICK r2 \in runs : /\ r2.id = id2 /\ r2.producer = q2.producer
                             /\ r2.key = q2.key /\ RunBody(r2) = RunBody(q2)
      BY <1>1, <3>2 DEF AckedIsStored, RunsAcked, WithId
    <3>5. q1.producer = q2.producer /\ q1.key = q2.key /\ q1.key # None
      BY <3>1, <3>2 DEF Ack
    <3>6. r1 = r2
      BY <1>1, <3>3, <3>4, <3>5 DEF Uniqueness, KeyNamesOneRow, UniqueKeys
    <3> QED
      BY <3>1, <3>2, <3>3, <3>4, <3>5, <3>6 DEF Ack
  <2>2. CASE a1[1] = "evidence"
    <3>1. PICK q1 \in EvidenceRow, id1 \in EvidenceIds :
            a1 = Ack("evidence", q1, EvidenceBody(q1), id1)
      BY <1>1, <2>2, AckKinds DEF TypeOK
    <3>2. PICK q2 \in EvidenceRow, id2 \in EvidenceIds :
            a2 = Ack("evidence", q2, EvidenceBody(q2), id2)
      BY <1>1, <2>2, AckKinds DEF TypeOK
    <3>3. PICK r1 \in evidence : /\ r1.id = id1 /\ r1.producer = q1.producer
                                 /\ r1.key = q1.key
                                 /\ EvidenceBody(r1) = EvidenceBody(q1)
      BY <1>1, <3>1 DEF AckedIsStored, EvidenceAcked, WithId
    <3>4. PICK r2 \in evidence : /\ r2.id = id2 /\ r2.producer = q2.producer
                                 /\ r2.key = q2.key
                                 /\ EvidenceBody(r2) = EvidenceBody(q2)
      BY <1>1, <3>2 DEF AckedIsStored, EvidenceAcked, WithId
    <3>5. q1.producer = q2.producer /\ q1.key = q2.key /\ q1.key # None
      BY <3>1, <3>2 DEF Ack
    <3>6. r1 = r2
      BY <1>1, <3>3, <3>4, <3>5 DEF Uniqueness, KeyNamesOneRow, UniqueKeys
    <3> QED
      BY <3>1, <3>2, <3>3, <3>4, <3>5, <3>6 DEF Ack
  <2> QED
    BY <2>1, <2>2
<1> QED
  BY <1>1, TypeCorrect, AcknowledgedIsStored, UniquenessInvariant, PTL

-----------------------------------------------------------------------------
(* Refinement of the ledger.                                               *)

(* The entry a 201 names.                                                  *)
NamedEntry(kind, q, body, id) ==
  [name |-> <<kind, q.producer, q.key>>, body |-> <<body, id>>]

(* A call that turns the entries `before' of its kind into `after': it is  *)
(* refused, or it is answered with an id, and if it came with a key the    *)
(* entry the answer names is written and contradicts no other.             *)
Writes(before, after, kind, q, body) ==
  \/ after = before /\ acks' = acks
  \/ \E id :
       /\ Acknowledge(kind, q, body, id)
       /\ IF q.key = None THEN after = before
          ELSE /\ after = before \cup {NamedEntry(kind, q, body, id)}
               /\ \A f \in before : f.name = <<kind, q.producer, q.key>>
                                      => f = NamedEntry(kind, q, body, id)

(* What an answer adds to the answered entries.                            *)
LEMMA AnswerAdds ==
  ASSUME NEW kinds, NEW kind, NEW q, NEW body, NEW id,
         Acknowledge(kind, q, body, id)
  PROVE  AnsweredEntries(kinds)' =
           IF kind \in kinds /\ q.key # None
           THEN AnsweredEntries(kinds) \cup {NamedEntry(kind, q, body, id)}
           ELSE AnsweredEntries(kinds)
<1> DEFINE a == Ack(kind, q, body, id)
           Entry(b) == [name |-> <<b[1], b[2], b[3]>>, body |-> <<b[4], b[5]>>]
           Of(S) == {b \in S : b[1] \in kinds /\ b[3] # None}
<1>1. acks' = acks \cup {a}
  BY DEF Acknowledge
<1>2. /\ a[1] = kind /\ a[3] = q.key
      /\ Entry(a) = NamedEntry(kind, q, body, id)
  BY DEF Ack, NamedEntry
<1>3. /\ AnsweredEntries(kinds) = {Entry(b) : b \in Of(acks)}
      /\ AnsweredEntries(kinds)' = {Entry(b) : b \in Of(acks')}
  BY DEF AnsweredEntries
<1>4. Of(acks') = Of(acks) \cup (IF kind \in kinds /\ q.key # None
                                 THEN {a} ELSE {})
  <2> HIDE DEF a
  <2> QED
    BY <1>1, <1>2
<1> HIDE DEF a, Entry, Of
<1> QED
  BY <1>2, <1>3, <1>4

(* create_run, for runs; a closed run keeps its entry.                     *)
LEMMA RunWrites ==
  ASSUME TablesTyped, Uniqueness, NEW q \in RunRequest, CreateRun(q)
  PROVE  Writes(KeyedRuns, KeyedRuns', "run", q, RunBody(q))
<1>1. CASE UNCHANGED vars
  BY <1>1 DEF Writes, KeyedRuns, KeyedEntry, RunBody, vars
<1>2. CASE /\ IsNew(runs, q) /\ runs' = runs \cup {RunOf(q)}
           /\ Acknowledge("run", q, RunBody(q), q.id)
  <2>1. /\ RunOf(q).key = q.key
        /\ KeyedEntry("run", RunOf(q), RunBody(RunOf(q)))
             = NamedEntry("run", q, RunBody(q), q.id)
    BY DEF RunOf, KeyedEntry, NamedEntry, RunBody
  <2>2. CASE q.key = None
    <3>1. KeyedRuns' = KeyedRuns
      BY <1>2, <2>1, <2>2 DEF KeyedRuns, KeyedEntry, RunBody
    <3> QED
      BY <1>2, <2>2, <3>1 DEF Writes
  <2>3. CASE q.key # None
    <3>1. KeyedRuns' = KeyedRuns \cup {NamedEntry("run", q, RunBody(q), q.id)}
      <4>1. {s \in runs' : s.key # None}
              = {s \in runs : s.key # None} \cup {RunOf(q)}
        BY <1>2, <2>1, <2>3
      <4> QED
        BY <2>1, <4>1 DEF KeyedRuns, KeyedEntry, RunBody
    <3>2. \A f \in KeyedRuns : f.name # <<"run", q.producer, q.key>>
      BY <1>2, <2>3 DEF KeyedRuns, KeyedEntry, IsNew, Keyed
    <3> QED
      BY <1>2, <2>3, <3>1, <3>2 DEF Writes
  <2> QED
    BY <2>2, <2>3
<1>3. ASSUME NEW r \in RunReplay(q),
             Acknowledge("run", q, RunBody(q), r.id), UNCHANGED tables
      PROVE  Writes(KeyedRuns, KeyedRuns', "run", q, RunBody(q))
  <2>1. KeyedRuns' = KeyedRuns
    BY <1>3 DEF KeyedRuns, KeyedEntry, RunBody, tables
  <2>2. /\ r \in runs /\ q.key # None /\ r.key = q.key
        /\ r.producer = q.producer /\ RunBody(r) = RunBody(q)
    BY DEF RunReplay, Keyed, SameRun, RunBody
  <2>3. NamedEntry("run", q, RunBody(q), r.id) \in KeyedRuns
    BY <2>2 DEF KeyedRuns, KeyedEntry, NamedEntry
  <2>4. \A f \in KeyedRuns : f.name = <<"run", q.producer, q.key>>
          => f = NamedEntry("run", q, RunBody(q), r.id)
    <3> SUFFICES ASSUME NEW s \in runs, s.key = q.key,
                        s.producer = q.producer
                 PROVE  KeyedEntry("run", s, RunBody(s))
                          = NamedEntry("run", q, RunBody(q), r.id)
      BY DEF KeyedRuns, KeyedEntry
    <3>1. s = r
      BY <2>2 DEF Uniqueness, KeyNamesOneRow, UniqueKeys
    <3> QED
      BY <2>2, <3>1 DEF KeyedEntry, NamedEntry
  <2> QED
    BY <1>3, <2>1, <2>2, <2>3, <2>4 DEF Writes
<1> QED
  BY <1>1, <1>2, <1>3 DEF CreateRun, Refuse

LEMMA CloseKeepsEntries ==
  ASSUME TablesTyped, NEW id \in RunIds, NEW status \in Status,
         NEW at \in Stamps, CloseRun(id, status, at)
  PROVE  /\ KeyedRuns' = KeyedRuns
         /\ UNCHANGED <<experiments, evidence, artifacts, acks>>
<1>1. CASE UNCHANGED vars
  BY <1>1 DEF KeyedRuns, KeyedEntry, RunBody, vars
<1>2. ASSUME NEW r \in runs,
             runs' = (runs \ {r})
                     \cup {[r EXCEPT !.status = status, !.ended = at]}
      PROVE  KeyedRuns' = KeyedRuns
  <2> DEFINE s == [r EXCEPT !.status = status, !.ended = at]
  <2>1. /\ s.key = r.key
        /\ KeyedEntry("run", s, RunBody(s)) = KeyedEntry("run", r, RunBody(r))
    BY DEF TablesTyped, RunRow, KeyedEntry, RunBody
  <2>2. runs' = (runs \ {r}) \cup {s}
    BY <1>2
  <2> HIDE DEF s
  <2>3. ASSUME NEW e PROVE e \in KeyedRuns' <=> e \in KeyedRuns
    <3>1. e \in KeyedRuns <=>
            \E x \in runs : /\ x.key # None
                          /\ e = KeyedEntry("run", x, RunBody(x))
      BY DEF KeyedRuns
    <3>2. e \in KeyedRuns' <=>
            \E x \in runs' : /\ x.key # None
                           /\ e = KeyedEntry("run", x, RunBody(x))
      BY DEF KeyedRuns, KeyedEntry, RunBody
    <3> QED
      BY <2>1, <2>2, <3>1, <3>2
  <2> QED
    BY <2>3
<1> QED
  BY <1>1, <1>2 DEF CloseRun, WithId, Refuse

(* append_evidence, for evidence: always keyed.                            *)
LEMMA EvidenceWrites ==
  ASSUME TablesTyped, Uniqueness, NEW q \in EvidenceRow, AppendEvidence(q)
  PROVE  Writes(KeyedEvidence, KeyedEvidence', "evidence", q, EvidenceBody(q))
<1>1. q.key # None
  BY NoneIsNoValue DEF EvidenceRow
<1>2. CASE UNCHANGED vars
  BY <1>2 DEF Writes, KeyedEvidence, KeyedEntry, EvidenceBody, vars
<1>3. CASE /\ IsNew(evidence, q) /\ evidence' = evidence \cup {q}
           /\ Acknowledge("evidence", q, EvidenceBody(q), q.id)
  <2>1. KeyedEntry("evidence", q, EvidenceBody(q))
          = NamedEntry("evidence", q, EvidenceBody(q), q.id)
    BY DEF KeyedEntry, NamedEntry
  <2>2. KeyedEvidence' = KeyedEvidence
          \cup {NamedEntry("evidence", q, EvidenceBody(q), q.id)}
    BY <1>3, <2>1 DEF KeyedEvidence, KeyedEntry, EvidenceBody
  <2>3. \A f \in KeyedEvidence : f.name # <<"evidence", q.producer, q.key>>
    BY <1>1, <1>3 DEF KeyedEvidence, KeyedEntry, IsNew, Keyed
  <2> QED
    BY <1>1, <1>3, <2>2, <2>3 DEF Writes
<1>4. ASSUME NEW r \in EvidenceReplay(q), UNCHANGED tables,
             Acknowledge("evidence", q, EvidenceBody(q), r.id)
      PROVE  Writes(KeyedEvidence, KeyedEvidence', "evidence", q,
                    EvidenceBody(q))
  <2>1. KeyedEvidence' = KeyedEvidence
    BY <1>4 DEF KeyedEvidence, KeyedEntry, EvidenceBody, tables
  <2>2. /\ r \in evidence /\ r.key = q.key
        /\ r.producer = q.producer /\ EvidenceBody(r) = EvidenceBody(q)
    BY DEF EvidenceReplay, Keyed, WithId, SameEvidence, EvidenceBody
  <2>3. NamedEntry("evidence", q, EvidenceBody(q), r.id) \in KeyedEvidence
    BY <2>2 DEF KeyedEvidence, KeyedEntry, NamedEntry
  <2>4. \A f \in KeyedEvidence : f.name = <<"evidence", q.producer, q.key>>
          => f = NamedEntry("evidence", q, EvidenceBody(q), r.id)
    <3> SUFFICES ASSUME NEW s \in evidence, s.key = q.key,
                        s.producer = q.producer
                 PROVE  KeyedEntry("evidence", s, EvidenceBody(s))
                          = NamedEntry("evidence", q, EvidenceBody(q), r.id)
      BY DEF KeyedEvidence, KeyedEntry
    <3>1. s = r
      BY <1>1, <2>2 DEF Uniqueness, KeyNamesOneRow, UniqueKeys
    <3> QED
      BY <2>2, <3>1 DEF KeyedEntry, NamedEntry
  <2> QED
    BY <1>1, <1>4, <2>1, <2>3, <2>4 DEF Writes
<1> QED
  BY <1>2, <1>3, <1>4 DEF AppendEvidence, Refuse

LEMMA EntriesHaveKinds ==
  /\ \A f \in KeyedRuns : f.name[1] = "run"
  /\ \A f \in KeyedEvidence : f.name[1] = "evidence"
BY DEF KeyedRuns, KeyedEvidence, KeyedEntry

(* A call that writes one of the kinds a ledger covers takes one step of   *)
(* it, or none.                                                            *)
LEMMA RunLedgerWrites ==
  ASSUME NEW before, NEW after, NEW kind \in {"run", "evidence"}, NEW q,
         NEW body, Writes(before, after, kind, q, body), NEW others,
         KeyedRuns \cup KeyedEvidence = others \cup before,
         KeyedRuns' \cup KeyedEvidence' = others \cup after,
         \A f \in others : f.name[1] # kind
  PROVE  [RunLedger!Next]_(RunLedger!ledger)
<1> DEFINE A == AnsweredEntries({"run", "evidence"})
           E == KeyedRuns \cup KeyedEvidence
<1>1. CASE after = before /\ (acks' = acks \/ A' = A)
  <2>1. A' = A
    BY <1>1 DEF AnsweredEntries
  <2> QED
    BY <1>1, <2>1 DEF RunLedger!ledger
<1>2. ASSUME NEW id, Acknowledge(kind, q, body, id), q.key # None,
             after = before \cup {NamedEntry(kind, q, body, id)},
             \A f \in before : f.name = <<kind, q.producer, q.key>>
                                 => f = NamedEntry(kind, q, body, id)
      PROVE  [RunLedger!Next]_(RunLedger!ledger)
  <2> DEFINE e == NamedEntry(kind, q, body, id)
  <2>1. A' = A \cup {e}
    BY <1>2, AnswerAdds
  <2>2. E' = E \cup {e}
    BY <1>2
  <2>3. e.name = <<kind, q.producer, q.key>> /\ e.name[1] = kind
    BY DEF NamedEntry
  <2>4. \A f \in E : f.name = e.name => f = e
    BY <1>2, <2>3
  <2> HIDE DEF A, E, e
  <2> QED
    BY <2>1, <2>2, <2>4
    DEF RunLedger!Next, RunLedger!ledger, RunLedger!Submit, RunLedger!Agrees,
        A, E
<1>3. ASSUME NEW id, Acknowledge(kind, q, body, id), q.key = None
      PROVE  A' = A
  BY <1>3, AnswerAdds
<1> QED
  BY <1>1, <1>2, <1>3 DEF Writes

LEMMA RunLedgerStep ==
  ASSUME TablesTyped, Uniqueness, [Next]_vars
  PROVE  [RunLedger!Next]_(RunLedger!ledger)
<1>1. ASSUME NEW q \in RunRequest, CreateRun(q)
      PROVE  [RunLedger!Next]_(RunLedger!ledger)
  <2>1. KeyedEvidence' = KeyedEvidence
    BY <1>1 DEF CreateRun, Refuse, tables, vars, KeyedEvidence, KeyedEntry,
       EvidenceBody
  <2>2. Writes(KeyedRuns, KeyedRuns', "run", q, RunBody(q))
    BY <1>1, RunWrites
  <2>3. /\ KeyedRuns \cup KeyedEvidence = KeyedEvidence \cup KeyedRuns
        /\ KeyedRuns' \cup KeyedEvidence' = KeyedEvidence \cup KeyedRuns'
        /\ \A f \in KeyedEvidence : f.name[1] # "run"
    BY <2>1, EntriesHaveKinds
  <2> QED
    BY <2>2, <2>3, RunLedgerWrites
<1>2. ASSUME NEW q \in EvidenceRow, AppendEvidence(q)
      PROVE  [RunLedger!Next]_(RunLedger!ledger)
  <2>1. KeyedRuns' = KeyedRuns
    BY <1>2 DEF AppendEvidence, Refuse, tables, vars, KeyedRuns, KeyedEntry,
       RunBody
  <2>2. Writes(KeyedEvidence, KeyedEvidence', "evidence", q, EvidenceBody(q))
    BY <1>2, EvidenceWrites
  <2> QED
    BY <2>1, <2>2, EntriesHaveKinds, RunLedgerWrites
<1>3. ASSUME KeyedRuns' = KeyedRuns, KeyedEvidence' = KeyedEvidence,
             AnsweredEntries({"run", "evidence"})'
               = AnsweredEntries({"run", "evidence"})
      PROVE  [RunLedger!Next]_(RunLedger!ledger)
  BY <1>3 DEF RunLedger!ledger
<1>4. ASSUME NEW q, NEW body, NEW id, UNCHANGED <<runs, evidence>>,
             \/ Acknowledge("experiment", q, body, id)
             \/ Acknowledge("artifact", q, body, id)
             \/ UNCHANGED acks
      PROVE  [RunLedger!Next]_(RunLedger!ledger)
  <2>1. KeyedRuns' = KeyedRuns /\ KeyedEvidence' = KeyedEvidence
    BY <1>4 DEF KeyedRuns, KeyedEvidence, KeyedEntry, RunBody, EvidenceBody
  <2>2. AnsweredEntries({"run", "evidence"})'
          = AnsweredEntries({"run", "evidence"})
    BY <1>4, AnswerAdds DEF AnsweredEntries
  <2> QED
    BY <1>3, <2>1, <2>2
<1>5. ASSUME NEW q \in ExperimentRow, CreateExperiment(q)
      PROVE  [RunLedger!Next]_(RunLedger!ledger)
  BY <1>4, <1>5 DEF CreateExperiment, Refuse, tables, vars
<1>6. ASSUME NEW q \in ArtifactRequest, RegisterArtifact(q)
      PROVE  [RunLedger!Next]_(RunLedger!ledger)
  BY <1>4, <1>6 DEF RegisterArtifact, Refuse, tables, vars
<1>7. ASSUME NEW id \in RunIds, NEW status \in Status, NEW at \in Stamps,
             CloseRun(id, status, at)
      PROVE  [RunLedger!Next]_(RunLedger!ledger)
  <2>1. KeyedRuns' = KeyedRuns /\ UNCHANGED <<evidence, acks>>
    BY <1>7, CloseKeepsEntries
  <2> QED
    BY <1>3, <2>1 DEF KeyedEvidence, KeyedEntry, EvidenceBody, AnsweredEntries
<1>8. ASSUME NEW id \in ArtifactIds, NEW ev \in Optional(EvidenceIds),
             NEW run \in Optional(RunIds), AttachArtifact(id, ev, run)
      PROVE  [RunLedger!Next]_(RunLedger!ledger)
  BY <1>4, <1>8 DEF AttachArtifact, Refuse, vars
<1>9. ASSUME UNCHANGED vars
      PROVE  [RunLedger!Next]_(RunLedger!ledger)
  BY <1>4, <1>9 DEF vars
<1> QED
  BY <1>1, <1>2, <1>5, <1>6, <1>7, <1>8, <1>9, StepCases

(* create_run and append_evidence implement one write per key, for every   *)
(* caller of the store and whatever ids it submits.                        *)
THEOREM RunsImplementTheLedger == Spec => RunsImplementLedger
<1>1. Init => RunLedger!Init
  BY DEF Init, RunLedger!Init, KeyedRuns, KeyedEvidence, AnsweredEntries
<1> QED
  BY <1>1, TablesTypedInvariant, UniquenessInvariant, RunLedgerStep, PTL
  DEF Spec, RunsImplementLedger, RunLedger!Spec
=============================================================================
