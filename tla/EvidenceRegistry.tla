-------------------------- MODULE EvidenceRegistry --------------------------
(***************************************************************************)
(* The evidence chain kept by SQLiteMetadataStore                          *)
(* (src/src/cer/metadata/sqlite_store.py): experiments, the runs of an     *)
(* experiment, the evidence a run produced and the artifacts attached to   *)
(* it.                                                                     *)
(*                                                                         *)
(* Every write method of the store runs inside `with self._transaction()`, *)
(* that is between BEGIN IMMEDIATE and COMMIT or ROLLBACK, so two writers  *)
(* of any two threads are serialised and a refused call leaves no trace:   *)
(* each method is one action.  What surrounds the transaction (the backing *)
(* check, the cached connection, a crash) is the subject of the module     *)
(* DurableBacking.                                                         *)
(*                                                                         *)
(* A table is the set of its rows.  A row holds its id, the idempotency    *)
(* key it was stored under (None for a NULL column), its producer, the     *)
(* per-attempt timestamp `at' that the API layer stamps, and `content':    *)
(* all the fields a caller authors that no property tells apart.  Two      *)
(* fingerprints are equal iff the fields they cover are.                   *)
(***************************************************************************)
CONSTANTS
  Producers, Keys, Contents, Stamps,
  ExperimentIds, RunIds, EvidenceIds, ArtifactIds,
  Open,       (* RunStatus.OPEN                                            *)
  Ended,      (* the other RunStatus values, CLOSED and FAILED             *)
  None        (* a NULL column, an absent optional argument                *)

ASSUME NoneIsNoValue ==
  None \notin UNION {Producers, Keys, Stamps, ExperimentIds, RunIds,
                     EvidenceIds, ArtifactIds}
ASSUME OpenIsNotEnded == Open \notin Ended

VARIABLES
  experiments, runs, evidence, artifacts,   (* the tables                  *)
  acks    (* history: every 201 ever answered, as <<kind, key, body, id>>  *)

tables == <<experiments, runs, evidence, artifacts>>
vars   == <<experiments, runs, evidence, artifacts, acks>>

-----------------------------------------------------------------------------
(* The columns of the tables, and what a caller submits.                   *)

Optional(S) == S \cup {None}
Status == Ended \cup {Open}

ExperimentRow ==
  [id : ExperimentIds, producer : Producers, key : Optional(Keys),
   content : Contents, at : Stamps]

(* `born' is the status the run was created with, which the fingerprint    *)
(* covers; `status' and `ended' are the two columns close_run rewrites.    *)
RunRequest ==
  [id : RunIds, producer : Producers, key : Optional(Keys),
   content : Contents, at : Stamps, experiment : ExperimentIds,
   born : Status]

RunRow ==
  [id : RunIds, producer : Producers, key : Optional(Keys),
   content : Contents, at : Stamps, experiment : ExperimentIds,
   born : Status, status : Status, ended : Optional(Stamps)]

EvidenceRow ==
  [id : EvidenceIds, producer : Producers, key : Keys,
   content : Contents, at : Stamps, run : Optional(RunIds),
   experiment : Optional(ExperimentIds)]

(* The producer column is filled only beside a key.  `content' covers the  *)
(* digest, size, type and file name, and the uri, which a store derives    *)
(* from the digest.                                                        *)
ArtifactRequest ==
  {q \in [id : ArtifactIds, producer : Optional(Producers),
          key : Optional(Keys), content : Contents, at : Stamps,
          run : Optional(RunIds), evidence : Optional(EvidenceIds)] :
     q.key = None <=> q.producer = None}

-----------------------------------------------------------------------------
(* Lookups.                                                                *)

(* The rows a `WHERE producer = ? AND idempotency_key = ?' selects.        *)
Keyed(table, q) ==
  {r \in table : /\ q.key # None
                 /\ r.key = q.key
                 /\ r.producer = q.producer}

WithId(table, id) == {r \in table : r.id = id}

Exists(table, id) == \E r \in table : r.id = id

(* _require_run and its siblings, skipped when the reference is absent.    *)
Resolves(table, ref) == ref = None \/ Exists(table, ref)

(* Equality of fingerprints: what the exclude sets leave.                  *)
(* Definitions marked `Fault' are bugs the methods might have; no action   *)
(* uses them.                                                              *)
(* Fault: created_at takes part.                                           *)
SameExperimentAndTime(r, q) ==
  r.producer = q.producer /\ r.content = q.content /\ r.at = q.at

SameExperiment(r, q) ==
  /\ r.producer = q.producer
  /\ r.content = q.content

(* Fault: a known key is trusted.                                          *)
SameKey(r, q) == r.key = q.key

(* Fault: status takes part, which close_run rewrites.                     *)
SameRunAndStatus(r, q) ==
  /\ r.producer = q.producer /\ r.content = q.content
  /\ r.experiment = q.experiment /\ r.status = q.born

SameRun(r, q) ==
  /\ r.producer = q.producer
  /\ r.content = q.content
  /\ r.experiment = q.experiment
  /\ r.born = q.born

SameEvidence(r, q) ==
  /\ r.producer = q.producer
  /\ r.key = q.key
  /\ r.content = q.content
  /\ r.run = q.run
  /\ r.experiment = q.experiment

(* content_fingerprint of an artifact, compared when the id is known ...   *)
SameArtifact(r, q) ==
  /\ r.content = q.content
  /\ r.at = q.at

(* ... and idempotency_fingerprint, compared when the key is known.        *)
SameRegistration(r, q) == r.content = q.content

(* The rows a call hands back instead of inserting one: the row stored     *)
(* under its key if there is one, else the row stored under its id, and in *)
(* either case only if the fingerprints agree.                             *)
ExperimentReplay(q) ==
  IF Keyed(experiments, q) # {}
  THEN {r \in Keyed(experiments, q) : SameExperiment(r, q)}
  ELSE {r \in WithId(experiments, q.id) : SameExperiment(r, q)}

(* A run found by its id is refused, whatever it holds.                    *)
RunReplay(q) == {r \in Keyed(runs, q) : SameRun(r, q)}

(* Fault: a row found by its id is not compared.                           *)
EvidenceReplayUnchecked(q) ==
  IF Keyed(evidence, q) # {}
  THEN {r \in Keyed(evidence, q) : SameEvidence(r, q)}
  ELSE WithId(evidence, q.id)

(* Fault: the id is looked up before the key.                              *)
EvidenceReplayByIdFirst(q) ==
  IF WithId(evidence, q.id) # {}
  THEN {r \in WithId(evidence, q.id) : SameEvidence(r, q)}
  ELSE {r \in Keyed(evidence, q) : SameEvidence(r, q)}

EvidenceReplay(q) ==
  IF Keyed(evidence, q) # {}
  THEN {r \in Keyed(evidence, q) : SameEvidence(r, q)}
  ELSE {r \in WithId(evidence, q.id) : SameEvidence(r, q)}

ArtifactReplay(q) ==
  IF Keyed(artifacts, q) # {}
  THEN {r \in Keyed(artifacts, q) : SameRegistration(r, q)}
  ELSE {r \in WithId(artifacts, q.id) : SameArtifact(r, q)}

(* Fault: only the id is looked up.                                        *)
IsNewId(table, q) == WithId(table, q.id) = {}

(* Neither the key nor the id is in use: the call inserts.                 *)
IsNew(table, q) == Keyed(table, q) = {} /\ WithId(table, q.id) = {}

(* The references a call must resolve before anything else is looked at.   *)
RunResolves(q) == Exists(experiments, q.experiment)

EvidenceResolves(q) ==
  Resolves(runs, q.run) /\ Resolves(experiments, q.experiment)

ArtifactResolves(q) ==
  Resolves(runs, q.run) /\ Resolves(evidence, q.evidence)

-----------------------------------------------------------------------------
(* Answers.  A body is what the caller submitted, less the timestamp.      *)

ExperimentBody(q) == <<q.content>>
RunBody(q)        == <<q.content, q.experiment, q.born>>
EvidenceBody(q)   == <<q.content, q.run, q.experiment>>
ArtifactBody(q)   == <<q.content>>

Ack(kind, q, body, id) == <<kind, q.producer, q.key, body, id>>

Acknowledge(kind, q, body, id) == acks' = acks \cup {Ack(kind, q, body, id)}

(* NotFoundError, IdempotencyConflictError or ImmutabilityError: ROLLBACK. *)
Refuse == UNCHANGED vars

-----------------------------------------------------------------------------
(* The write methods.                                                      *)

(* Fault: INSERT OR REPLACE.                                               *)
ReplaceExperiment(q) ==
  /\ experiments' = (experiments \ WithId(experiments, q.id)) \cup {q}
  /\ Acknowledge("experiment", q, ExperimentBody(q), q.id)
  /\ UNCHANGED <<runs, evidence, artifacts>>

CreateExperiment(q) ==
  \/ /\ IsNew(experiments, q)
     /\ experiments' = experiments \cup {q}
     /\ Acknowledge("experiment", q, ExperimentBody(q), q.id)
     /\ UNCHANGED <<runs, evidence, artifacts>>
  \/ \E r \in ExperimentReplay(q) :
       /\ Acknowledge("experiment", q, ExperimentBody(q), r.id)
       /\ UNCHANGED tables
  \/ /\ ~IsNew(experiments, q)
     /\ ExperimentReplay(q) = {}
     /\ Refuse

(* Fault: two columns of the INSERT are swapped.                           *)
RunOfSwapped(q) ==
  [id |-> q.id, producer |-> q.producer, key |-> q.key,
   content |-> q.content, at |-> q.at, experiment |-> q.experiment,
   born |-> q.born, status |-> None, ended |-> q.born]

(* create_run's route passes no ended_at.                                  *)
RunOf(q) ==
  [id |-> q.id, producer |-> q.producer, key |-> q.key,
   content |-> q.content, at |-> q.at, experiment |-> q.experiment,
   born |-> q.born, status |-> q.born, ended |-> None]

(* The experiment is required before the key is looked up.                 *)
CreateRun(q) ==
  \/ /\ RunResolves(q)
     /\ IsNew(runs, q)
     /\ runs' = runs \cup {RunOf(q)}
     /\ Acknowledge("run", q, RunBody(q), q.id)
     /\ UNCHANGED <<experiments, evidence, artifacts>>
  \/ /\ RunResolves(q)
     /\ \E r \in RunReplay(q) : Acknowledge("run", q, RunBody(q), r.id)
     /\ UNCHANGED tables
  \/ /\ ~RunResolves(q) \/ (~IsNew(runs, q) /\ RunReplay(q) = {})
     /\ Refuse

(* Fault: an ended run is closed once more.                                *)
CloseAnyRun(id, status, at) ==
  \E r \in WithId(runs, id) :
    /\ runs' = (runs \ {r})
               \cup {[r EXCEPT !.status = status, !.ended = at]}
    /\ UNCHANGED <<experiments, evidence, artifacts, acks>>

(* The route accepts any RunStatus, Open included: such a close rewrites   *)
(* `ended' and leaves the run open to another close.                       *)
CloseRun(id, status, at) ==
  \/ \E r \in WithId(runs, id) :
       /\ r.status = Open
       /\ runs' = (runs \ {r})
                  \cup {[r EXCEPT !.status = status, !.ended = at]}
       /\ UNCHANGED <<experiments, evidence, artifacts, acks>>
  \/ /\ \A r \in WithId(runs, id) : r.status # Open
     /\ Refuse

AppendEvidence(q) ==
  \/ /\ EvidenceResolves(q)
     /\ IsNew(evidence, q)
     /\ evidence' = evidence \cup {q}
     /\ Acknowledge("evidence", q, EvidenceBody(q), q.id)
     /\ UNCHANGED <<experiments, runs, artifacts>>
  \/ /\ EvidenceResolves(q)
     /\ \E r \in EvidenceReplay(q) :
          Acknowledge("evidence", q, EvidenceBody(q), r.id)
     /\ UNCHANGED tables
  \/ /\ \/ ~EvidenceResolves(q)
        \/ ~IsNew(evidence, q) /\ EvidenceReplay(q) = {}
     /\ Refuse

(* Fault: the key is not stored, as before schema/002.                     *)
RegisterUnkeyed(q) ==
  /\ ArtifactResolves(q) /\ IsNew(artifacts, q)
  /\ artifacts' = artifacts \cup {[q EXCEPT !.key = None, !.producer = None]}
  /\ Acknowledge("artifact", q, ArtifactBody(q), q.id)
  /\ UNCHANGED <<experiments, runs, evidence>>

RegisterArtifact(q) ==
  \/ /\ ArtifactResolves(q)
     /\ IsNew(artifacts, q)
     /\ artifacts' = artifacts \cup {q}
     /\ Acknowledge("artifact", q, ArtifactBody(q), q.id)
     /\ UNCHANGED <<experiments, runs, evidence>>
  \/ /\ ArtifactResolves(q)
     /\ \E r \in ArtifactReplay(q) :
          Acknowledge("artifact", q, ArtifactBody(q), r.id)
     /\ UNCHANGED tables
  \/ /\ \/ ~ArtifactResolves(q)
        \/ ~IsNew(artifacts, q) /\ ArtifactReplay(q) = {}
     /\ Refuse

(* A reference may be set where it is absent or already the same.          *)
MayLink(old, new) == new = None \/ old = None \/ old = new

(* Fault: an absent argument clears the reference.                         *)
LinkedAnew(old, new) == new

Linked(old, new) == IF new = None THEN old ELSE new

(* Fault: the references are not required.                                 *)
AttachUnresolved(id, ev, run) ==
  \E r \in WithId(artifacts, id) :
    /\ MayLink(r.evidence, ev) /\ MayLink(r.run, run)
    /\ artifacts' = (artifacts \ {r})
                    \cup {[r EXCEPT !.evidence = Linked(@, ev),
                                    !.run = Linked(@, run)]}
    /\ UNCHANGED <<experiments, runs, evidence, acks>>

AttachArtifact(id, ev, run) ==
  LET ok(r) == /\ Resolves(evidence, ev)
               /\ Resolves(runs, run)
               /\ MayLink(r.evidence, ev)
               /\ MayLink(r.run, run)
  IN
  \/ \E r \in WithId(artifacts, id) :
       /\ ok(r)
       /\ artifacts' = (artifacts \ {r})
                       \cup {[r EXCEPT !.evidence = Linked(@, ev),
                                       !.run = Linked(@, run)]}
       /\ UNCHANGED <<experiments, runs, evidence, acks>>
  \/ /\ \A r \in WithId(artifacts, id) : ~ok(r)
     /\ Refuse

-----------------------------------------------------------------------------
Init ==
  /\ experiments = {}
  /\ runs = {}
  /\ evidence = {}
  /\ artifacts = {}
  /\ acks = {}

(* Any caller, any request: a caller of the store chooses the ids itself.  *)
Next ==
  \/ \E q \in ExperimentRow : CreateExperiment(q)
  \/ \E q \in RunRequest : CreateRun(q)
  \/ \E id \in RunIds, status \in Status, at \in Stamps :
       CloseRun(id, status, at)
  \/ \E q \in EvidenceRow : AppendEvidence(q)
  \/ \E q \in ArtifactRequest : RegisterArtifact(q)
  \/ \E id \in ArtifactIds, ev \in Optional(EvidenceIds),
        run \in Optional(RunIds) : AttachArtifact(id, ev, run)

Spec == Init /\ [][Next]_vars

-----------------------------------------------------------------------------
(* Properties.                                                             *)

AckSet ==
  UNION {
    {Ack("experiment", q, ExperimentBody(q), id) :
       q \in ExperimentRow, id \in ExperimentIds},
    {Ack("run", q, RunBody(q), id) : q \in RunRequest, id \in RunIds},
    {Ack("evidence", q, EvidenceBody(q), id) :
       q \in EvidenceRow, id \in EvidenceIds},
    {Ack("artifact", q, ArtifactBody(q), id) :
       q \in ArtifactRequest, id \in ArtifactIds}}

TablesTyped ==
  /\ experiments \subseteq ExperimentRow
  /\ runs \subseteq RunRow
  /\ evidence \subseteq EvidenceRow
  /\ artifacts \subseteq ArtifactRequest

(* Type invariant: the tables hold rows of their columns, the answers name *)
(* ids of theirs.                                                          *)
TypeOK == TablesTyped /\ acks \subseteq AckSet

UniqueIds(table) == \A r1, r2 \in table : r1.id = r2.id => r1 = r2

UniqueKeys(table) ==
  \A r1, r2 \in table :
    r1.key # None /\ r1.key = r2.key /\ r1.producer = r2.producer => r1 = r2

(* No two rows of a table share an id.  The methods look an id up and      *)
(* insert afterwards; nothing but that order keeps the lookup by id of     *)
(* _fetch_run or attach_artifact unambiguous.                              *)
IdNamesOneRow ==
  /\ UniqueIds(experiments)
  /\ UniqueIds(runs)
  /\ UniqueIds(evidence)
  /\ UniqueIds(artifacts)

(* At most one row of a table is stored under a producer's key, however    *)
(* often the call is retried and whatever ids the retries carry            *)
(* (ux_*_producer_idempotency_key would otherwise fail the INSERT).        *)
KeyNamesOneRow ==
  /\ UniqueKeys(experiments)
  /\ UniqueKeys(runs)
  /\ UniqueKeys(evidence)
  /\ UniqueKeys(artifacts)

(* ADR-001: a transactional reference never dangles, at creation, after an *)
(* attach, and whatever is written later.                                  *)
NoDanglingReference ==
  /\ \A r \in runs : Exists(experiments, r.experiment)
  /\ \A r \in evidence : EvidenceResolves(r)
  /\ \A r \in artifacts : ArtifactResolves(r)

ExperimentsAcked ==
  \A q \in ExperimentRow, id \in ExperimentIds :
    Ack("experiment", q, ExperimentBody(q), id) \in acks
    => \E r \in WithId(experiments, id) :
         r.producer = q.producer /\ ExperimentBody(r) = ExperimentBody(q)

RunsAcked ==
  \A q \in RunRequest, id \in RunIds :
    Ack("run", q, RunBody(q), id) \in acks
    => \E r \in WithId(runs, id) :
         /\ r.producer = q.producer /\ r.key = q.key
         /\ RunBody(r) = RunBody(q)

EvidenceAcked ==
  \A q \in EvidenceRow, id \in EvidenceIds :
    Ack("evidence", q, EvidenceBody(q), id) \in acks
    => \E r \in WithId(evidence, id) :
         /\ r.producer = q.producer /\ r.key = q.key
         /\ EvidenceBody(r) = EvidenceBody(q)

ArtifactsAcked ==
  \A q \in ArtifactRequest, id \in ArtifactIds :
    Ack("artifact", q, ArtifactBody(q), id) \in acks
    => \E r \in WithId(artifacts, id) : ArtifactBody(r) = ArtifactBody(q)

(* What a 201 acknowledged is what the registry holds under the id it      *)
(* answered, however many calls were answered since: nothing is rewritten, *)
(* lost, or swapped for the record of another key or producer.             *)
AckedIsStored ==
  ExperimentsAcked /\ RunsAcked /\ EvidenceAcked /\ ArtifactsAcked

(* A retry of an acknowledged keyed call, with whatever fresh id and fresh *)
(* timestamp, returns the record first answered: never a duplicate, never  *)
(* an error (PRODUCER-GUIDE section 5).  It takes the fingerprints to      *)
(* leave out the timestamp and the id, the references to stay resolvable   *)
(* and the key to stay recorded, closed runs included.                     *)
RunRetryReturnsFirst ==
  \A q \in RunRequest, id \in RunIds :
    q.key # None /\ Ack("run", q, RunBody(q), id) \in acks
    => /\ RunResolves(q)
       /\ RunReplay(q) # {}
       /\ \A r \in RunReplay(q) : r.id = id

EvidenceRetryReturnsFirst ==
  \A q \in EvidenceRow, id \in EvidenceIds :
    Ack("evidence", q, EvidenceBody(q), id) \in acks
    => /\ EvidenceResolves(q)
       /\ EvidenceReplay(q) # {}
       /\ \A r \in EvidenceReplay(q) : r.id = id

(* The same promise for create_experiment and register_artifact.  A key    *)
(* that arrives with the id of a stored row of equal content is answered   *)
(* from that row and not recorded, so it may later name another record.    *)
ExperimentRetryReturnsFirst ==
  \A q \in ExperimentRow, id \in ExperimentIds :
    q.key # None /\ Ack("experiment", q, ExperimentBody(q), id) \in acks
    => /\ ExperimentReplay(q) # {}
       /\ \A r \in ExperimentReplay(q) : r.id = id

-----------------------------------------------------------------------------
(* The promise of an idempotency key, as WriteOnceLedger states it.        *)

KeyedEntry(kind, r, body) ==
  [name |-> <<kind, r.producer, r.key>>, body |-> <<body, r.id>>]

KeyedRuns ==
  {KeyedEntry("run", r, RunBody(r)) : r \in {s \in runs : s.key # None}}

KeyedEvidence ==
  {KeyedEntry("evidence", r, EvidenceBody(r)) : r \in evidence}

(* What the 201s of these kinds told their callers.                        *)
AnsweredEntries(kinds) ==
  {[name |-> <<a[1], a[2], a[3]>>, body |-> <<a[4], a[5]>>] :
     a \in {b \in acks : b[1] \in kinds /\ b[3] # None}}

RunLedger == INSTANCE WriteOnceLedger WITH
  entries  <- KeyedRuns \cup KeyedEvidence,
  answered <- AnsweredEntries({"run", "evidence"})

(* Runs and evidence implement the ledger for every caller of the store,   *)
(* whatever ids it submits: each key is written once, a close of the run   *)
(* leaves what was written alone, and every 201 names the entry of its     *)
(* key.  (An experiment or artifact found by its id is answered without    *)
(* its key being written: RegistryApi has those.)                          *)
RunsImplementLedger == RunLedger!Spec

-----------------------------------------------------------------------------
(* A second body under an acknowledged key is never acknowledged: no two   *)
(* 201s for one producer and key disagree on what was recorded.            *)
KeyAcknowledgesOneRecord ==
  \A a1, a2 \in acks :
    /\ a1[1] \in {"run", "evidence"}
    /\ a1[1] = a2[1] /\ a1[2] = a2[2] /\ a1[3] = a2[3]
    /\ a1[3] # None
    => a1 = a2

-----------------------------------------------------------------------------
(* Action properties: what no call may do to a stored row.                 *)

SameRunIdentity(r, s) == /\ s.id = r.id /\ s.key = r.key /\ s.at = r.at
                         /\ SameRun(s, r)

SameArtifactIdentity(r, s) ==
  /\ s.id = r.id /\ s.producer = r.producer /\ s.key = r.key
  /\ SameArtifact(s, r)

(* Rows are never deleted and never rewritten: not evidence, not           *)
(* experiments, and of runs and artifacts only status and end, run and     *)
(* evidence.                                                               *)
RowsAreImmutable ==
  [][/\ experiments \subseteq experiments'
     /\ evidence \subseteq evidence'
     /\ \A r \in runs : \E s \in runs' : SameRunIdentity(r, s)
     /\ \A r \in artifacts :
          \E s \in artifacts' : SameArtifactIdentity(r, s)]_vars

(* A CLOSED or FAILED run never changes again, neither by a second close   *)
(* nor by a replay of the call that created it.                            *)
EndedRunIsFrozen ==
  [][\A r \in runs : r.status # Open => r \in runs']_vars

(* An attachment, once set, keeps its value: a second attach, or a replay  *)
(* of the registration with other headers, cannot move the artifact.       *)
AttachmentIsWrittenOnce ==
  [][\A r \in artifacts, s \in artifacts' :
       s.id = r.id => /\ r.run # None => s.run = r.run
                      /\ r.evidence # None => s.evidence = r.evidence]_vars
=============================================================================
