---------------------------- MODULE RegistryApi ----------------------------
(***************************************************************************)
(* The registry as HTTP callers meet it (src/src/cer/api/routes.py).  A    *)
(* caller never names the id of the record it creates: the route derives   *)
(* it from the producer and the idempotency key, or draws a fresh one when *)
(* there is no key.  That choice is what turns the store's lookup by id    *)
(* into part of the idempotency contract.                                  *)
(*                                                                         *)
(* Producers and keys are sequences of characters, ":" among them, because *)
(* the derivation concatenates them.  uuid5 is taken to be injective, and  *)
(* the ids of different kinds never meet (the kind is part of the name,    *)
(* the prefix part of the id).                                             *)
(***************************************************************************)
EXTENDS EvidenceRegistry, Sequences

CONSTANTS
  Characters,   (* what names are made of                                  *)
  RandomIds     (* what uuid4 can draw                                     *)

ASSUME NamesAreText == Producers \cup Keys \subseteq Seq(Characters)

(* Fault: the producer is left out.                                        *)
DerivedIdOfKey(producer, key) == key

Colon == ":"

(* uuid5(namespace, f"{kind}:{producer}:{key}")                            *)
DerivedId(producer, key) == producer \o <<Colon>> \o key

(* The version digit of a uuid tells the two kinds apart.                  *)
ASSUME RandomIsNotDerived ==
  \A p \in Producers, k \in Keys : DerivedId(p, k) \notin RandomIds

(* A key that Python takes for false.  A JSON body may carry an empty key, *)
(* which the routes take for none and the store takes for a key.           *)
Blank == {None, <<>>}

(* _generate_id.  uuid4 never repeats an id.                               *)
HasGeneratedId(table, q) ==
  IF q.key \notin Blank
  THEN q.id = DerivedId(q.producer, q.key)
  ELSE q.id \in RandomIds /\ ~Exists(table, q.id)

PostExperiment(q) == HasGeneratedId(experiments, q) /\ CreateExperiment(q)

PostRun(q) == HasGeneratedId(runs, q) /\ CreateRun(q)

PostEvidence(q) ==
  q.key # <<>> /\ HasGeneratedId(evidence, q) /\ AppendEvidence(q)

(* create_artifact, as far as the registry sees it.  A key already used    *)
(* overlays what this request carries on the stored record and lets        *)
(* register_artifact judge the result; otherwise ArtifactStore.put() mints *)
(* the id.  The key is a header, and an empty one is dropped.              *)
PostArtifact(q) ==
  /\ q.key # <<>>
  /\ \/ \E prior \in Keyed(artifacts, q) :
          RegisterArtifact([prior EXCEPT !.content = q.content])
     \/ /\ Keyed(artifacts, q) = {}
        /\ q.id \in RandomIds
        /\ ~Exists(artifacts, q.id)
        /\ RegisterArtifact(q)

ApiNext ==
  \/ \E q \in ExperimentRow : PostExperiment(q)
  \/ \E q \in RunRequest : PostRun(q)
  \/ \E id \in RunIds, status \in Status, at \in Stamps :
       CloseRun(id, status, at)
  \/ \E q \in EvidenceRow : PostEvidence(q)
  \/ \E q \in ArtifactRequest : PostArtifact(q)
  \/ \E id \in ArtifactIds, ev \in Optional(EvidenceIds),
        run \in Optional(RunIds) : AttachArtifact(id, ev, run)

ApiSpec == Init /\ [][ApiNext]_vars

-----------------------------------------------------------------------------
(* A key its producer has not used yet creates a record: whatever the      *)
(* other producers chose, no first use is answered with a conflict         *)
(* (routes.py 73-74: "one producer's key can never collide with, or be     *)
(* shadowed by, another's").                                               *)
FirstUseIsNeverRefused ==
  /\ \A q \in ExperimentRow :
       /\ q.key # None /\ HasGeneratedId(experiments, q)
       /\ Keyed(experiments, q) = {}
       => IsNew(experiments, q)
  /\ \A q \in RunRequest :
       /\ q.key # None /\ HasGeneratedId(runs, q)
       /\ Keyed(runs, q) = {}
       => IsNew(runs, q)
  /\ \A q \in EvidenceRow :
       /\ HasGeneratedId(evidence, q) /\ Keyed(evidence, q) = {}
       => IsNew(evidence, q)

(* A retried registration returns the artifact first registered, although  *)
(* put() would have minted another id and another timestamp, and although  *)
(* the artifact may have been attached in between.                         *)
ArtifactRetryReturnsFirst ==
  \A q \in ArtifactRequest, id \in ArtifactIds :
    q.key # None /\ Ack("artifact", q, ArtifactBody(q), id) \in acks
    => \E prior \in Keyed(artifacts, q) :
         /\ prior.id = id
         /\ ArtifactReplay([prior EXCEPT !.content = q.content]) = {prior}

KeyedExperiments ==
  {KeyedEntry("experiment", r, ExperimentBody(r)) :
     r \in {s \in experiments : s.key # None}}

KeyedArtifacts ==
  {KeyedEntry("artifact", r, ArtifactBody(r)) :
     r \in {s \in artifacts : s.key # None}}

KeyLedger == INSTANCE WriteOnceLedger WITH
  entries  <- UNION {KeyedExperiments, KeyedRuns, KeyedEvidence,
                     KeyedArtifacts},
  answered <- AnsweredEntries({"experiment", "run", "evidence", "artifact"})

(* Over HTTP, where a key decides the id or the id is freshly drawn, every *)
(* kind of record implements the ledger: what a key's first 201 named is   *)
(* written, once, and is all that any later 201 for the key names,         *)
(* attachments and closes notwithstanding.                                 *)
KeysImplementLedger == KeyLedger!Spec
=============================================================================
