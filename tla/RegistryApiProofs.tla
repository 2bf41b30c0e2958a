------------------------- MODULE RegistryApiProofs -------------------------
(***************************************************************************)
(* Proofs about RegistryApi, for every set of names, keys and ids.  The    *)
(* routes only submit requests the store accepts from any caller, so what  *)
(* EvidenceRegistryProofs shows of the store holds over HTTP as well; the  *)
(* rest is about the ids the routes derive.                                *)
(***************************************************************************)
EXTENDS RegistryApi, EvidenceRegistryProofs, Integers

-----------------------------------------------------------------------------
(* The routes use the store as one of its callers.                         *)

LEMMA ApiStepIsAStep ==
  ASSUME TablesTyped, [ApiNext]_vars
  PROVE  [Next]_vars
<1>1. ASSUME NEW q \in ArtifactRequest, PostArtifact(q)
      PROVE  \E s \in ArtifactRequest : RegisterArtifact(s)
  <2>1. ASSUME NEW prior \in Keyed(artifacts, q)
        PROVE  [prior EXCEPT !.content = q.content] \in ArtifactRequest
    BY DEF Keyed, TablesTyped, ArtifactRequest
  <2> QED
    BY <1>1, <2>1 DEF PostArtifact
<1> QED
  BY <1>1 DEF ApiNext, Next, PostExperiment, PostRun, PostEvidence

LEMMA ApiUsesTheStore == ApiSpec => Spec
<1>1. Init => TablesTyped
  BY DEF Init, TablesTyped
<1>2. TablesTyped /\ [ApiNext]_vars => [Next]_vars
  BY ApiStepIsAStep
<1> QED
  BY <1>1, <1>2, TablesTypedStep, PTL DEF ApiSpec, Spec

-----------------------------------------------------------------------------
(* The derivation of an id from a producer and a key.                      *)

(* Where the parts of a derived name stand in it.                          *)
LEMMA DerivedIdLayout ==
  ASSUME NEW S, NEW p \in Seq(S), NEW k \in Seq(S)
  PROVE  /\ Len(DerivedId(p, k)) = Len(p) + 1 + Len(k)
         /\ \A i \in 1..Len(p) : DerivedId(p, k)[i] = p[i]
         /\ DerivedId(p, k)[Len(p) + 1] = Colon
         /\ \A i \in 1..Len(k) : DerivedId(p, k)[Len(p) + 1 + i] = k[i]
<1> DEFINE T == S \cup {Colon}
           head == p \o <<Colon>>
<1>1. p \in Seq(T) /\ k \in Seq(T) /\ <<Colon>> \in Seq(T)
  OBVIOUS
<1>2. /\ head \in Seq(T)
      /\ Len(head) = Len(p) + 1
      /\ \A i \in 1..Len(p) : head[i] = p[i]
      /\ head[Len(p) + 1] = Colon
  BY <1>1
<1> HIDE DEF T, head
<1>3. DerivedId(p, k) = head \o k
  BY DEF DerivedId, head
<1>4. Len(p) \in Nat /\ Len(k) \in Nat
  OBVIOUS
<1>5. Len(head \o k) = Len(p) + 1 + Len(k)
  BY <1>1, <1>2, <1>4
<1>6. \A i \in 1..Len(p) + 1 : (head \o k)[i] = head[i]
  BY <1>1, <1>2, <1>4
<1>7. \A i \in 1..Len(k) : (head \o k)[Len(p) + 1 + i] = k[i]
  BY <1>1, <1>2, <1>4
<1> QED
  BY <1>2, <1>3, <1>4, <1>5, <1>6, <1>7

(* Under one producer, two keys never share an id, colons or no colons.    *)
LEMMA KeysOfOneProducerDiffer ==
  ASSUME NEW S, NEW p \in Seq(S), NEW k1 \in Seq(S), NEW k2 \in Seq(S),
         DerivedId(p, k1) = DerivedId(p, k2)
  PROVE  k1 = k2
<1> DEFINE id == DerivedId(p, k1)
<1>1. /\ Len(id) = Len(p) + 1 + Len(k1)
      /\ \A i \in 1..Len(k1) : id[Len(p) + 1 + i] = k1[i]
  BY DerivedIdLayout
<1>2. /\ Len(id) = Len(p) + 1 + Len(k2)
      /\ \A i \in 1..Len(k2) : id[Len(p) + 1 + i] = k2[i]
  BY DerivedIdLayout
<1> HIDE DEF id
<1>3. Len(k1) = Len(k2)
  BY <1>1, <1>2
<1>4. \A i \in 1..Len(k1) : k1[i] = k2[i]
  BY <1>1, <1>2, <1>3
<1> QED
  BY <1>3, <1>4

ColonFree(p) == \A i \in 1..Len(p) : p[i] # Colon

(* Producers without a colon share no id whatever their keys: the first    *)
(* colon of the name ends the producer.                                    *)
LEMMA ColonFreeNamesDiffer ==
  ASSUME NEW S, NEW p1 \in Seq(S), NEW k1 \in Seq(S),
         NEW p2 \in Seq(S), NEW k2 \in Seq(S),
         ColonFree(p1), ColonFree(p2),
         DerivedId(p1, k1) = DerivedId(p2, k2)
  PROVE  p1 = p2 /\ k1 = k2
<1> DEFINE id == DerivedId(p1, k1)
<1>1. /\ \A i \in 1..Len(p1) : id[i] = p1[i]
      /\ id[Len(p1) + 1] = Colon
  BY DerivedIdLayout
<1>2. id = DerivedId(p2, k2)
  OBVIOUS
<1> HIDE DEF id
<1>3. /\ \A i \in 1..Len(p2) : id[i] = p2[i]
      /\ id[Len(p2) + 1] = Colon
  BY <1>2, DerivedIdLayout
<1>4. Len(p1) = Len(p2)
  <2>1. Len(p1) \in Nat /\ Len(p2) \in Nat
    OBVIOUS
  <2>2. Len(p1) + 1 \notin 1..Len(p2)
    BY <1>1, <1>3 DEF ColonFree
  <2>3. Len(p2) + 1 \notin 1..Len(p1)
    BY <1>1, <1>3 DEF ColonFree
  <2> QED
    BY <2>1, <2>2, <2>3
<1>5. \A i \in 1..Len(p1) : p1[i] = p2[i]
  BY <1>1, <1>3, <1>4
<1>6. p1 = p2
  BY <1>4, <1>5
<1> QED
  BY <1>6, KeysOfOneProducerDiffer

-----------------------------------------------------------------------------
(* The invariant: the id of a row tells how the route chose it.            *)

HasDrawnId(r) ==
  IF r.key \notin Blank THEN r.id = DerivedId(r.producer, r.key)
                        ELSE r.id \in RandomIds

IdsAreDrawn ==
  /\ \A r \in experiments : HasDrawnId(r)
  /\ \A r \in runs : HasDrawnId(r)
  /\ \A r \in evidence : HasDrawnId(r)

LEMMA IdsAreDrawnStep ==
  ASSUME TablesTyped, IdsAreDrawn, [ApiNext]_vars
  PROVE  IdsAreDrawn'
<1> USE DEF IdsAreDrawn
<1>1. ASSUME NEW q \in ExperimentRow, PostExperiment(q)
      PROVE  IdsAreDrawn'
  <2>1. HasDrawnId(q)
    BY <1>1 DEF PostExperiment, HasGeneratedId, HasDrawnId
  <2> QED
    BY <1>1, <2>1 DEF PostExperiment, CreateExperiment, tables, Refuse, vars
<1>2. ASSUME NEW q \in RunRequest, PostRun(q)
      PROVE  IdsAreDrawn'
  <2>1. HasDrawnId(RunOf(q))
    BY <1>2 DEF PostRun, HasGeneratedId, HasDrawnId, RunOf
  <2> QED
    BY <1>2, <2>1 DEF PostRun, CreateRun, tables, Refuse, vars
<1>3. ASSUME NEW id \in RunIds, NEW status \in Status, NEW at \in Stamps,
             CloseRun(id, status, at)
      PROVE  IdsAreDrawn'
  <2>1. ASSUME NEW r \in runs
        PROVE  HasDrawnId([r EXCEPT !.status = status, !.ended = at])
    BY DEF HasDrawnId, TablesTyped, RunRow
  <2> QED
    BY <1>3, <2>1 DEF CloseRun, WithId, Refuse, vars
<1>4. ASSUME NEW q \in EvidenceRow, PostEvidence(q)
      PROVE  IdsAreDrawn'
  <2>1. HasDrawnId(q)
    BY <1>4 DEF PostEvidence, HasGeneratedId, HasDrawnId
  <2> QED
    BY <1>4, <2>1 DEF PostEvidence, AppendEvidence, tables, Refuse, vars
<1>5. ASSUME NEW q \in ArtifactRequest, PostArtifact(q)
      PROVE  IdsAreDrawn'
  BY <1>5 DEF PostArtifact, RegisterArtifact, tables, Refuse, vars
<1>6. ASSUME NEW id \in ArtifactIds, NEW ev \in Optional(EvidenceIds),
             NEW run \in Optional(RunIds), AttachArtifact(id, ev, run)
      PROVE  IdsAreDrawn'
  BY <1>6 DEF AttachArtifact, Refuse, vars
<1>7. ASSUME UNCHANGED vars
      PROVE  IdsAreDrawn'
  BY <1>7 DEF vars
<1> QED
  BY <1>1, <1>2, <1>3, <1>4, <1>5, <1>6, <1>7 DEF ApiNext

LEMMA IdsAreDrawnInvariant == ApiSpec => []IdsAreDrawn
<1>1. Init => IdsAreDrawn
  BY DEF Init, IdsAreDrawn
<1>2. TablesTyped /\ IdsAreDrawn /\ [ApiNext]_vars => IdsAreDrawn'
  BY IdsAreDrawnStep
<1> QED
  BY <1>1, <1>2, ApiUsesTheStore, TablesTypedInvariant, PTL DEF ApiSpec

(* A row found under the id of a keyed request was stored with a key, and  *)
(* its id was derived from it.                                             *)
LEMMA FoundRowIsKeyed ==
  ASSUME NEW p \in Producers, NEW k \in Keys, NEW r, HasDrawnId(r),
         r.id = DerivedId(p, k)
  PROVE  r.key # None /\ DerivedId(r.producer, r.key) = DerivedId(p, k)
BY RandomIsNotDerived DEF HasDrawnId, Blank

-----------------------------------------------------------------------------
(* First uses.                                                             *)

LEMMA FirstUseIsNew ==
  ASSUME \A p \in Producers : ColonFree(p),
         NEW table, \A r \in table : HasDrawnId(r),
         \A r \in table : r.producer \in Producers /\ r.key \in Optional(Keys),
         NEW q, q.producer \in Producers, q.key \in Keys,
         HasGeneratedId(table, q), Keyed(table, q) = {}
  PROVE  IsNew(table, q)
<1> SUFFICES ASSUME NEW r \in table, r.id = q.id
             PROVE  FALSE
  BY DEF IsNew, WithId
<1>1. q.key # None
  BY NoneIsNoValue
<1>2. q.id = DerivedId(q.producer, q.key)
  <2>1. q.key # <<>>
    BY DEF HasGeneratedId, Blank, Exists
  <2> QED
    BY <1>1, <2>1 DEF HasGeneratedId, Blank
<1>3. r.key # None /\ DerivedId(r.producer, r.key) = q.id
  BY <1>2, FoundRowIsKeyed
<1>4. r.producer \in Producers /\ r.key \in Keys
  BY <1>3 DEF Optional
<1>5. /\ r.producer \in Seq(Characters) /\ r.key \in Seq(Characters)
      /\ q.producer \in Seq(Characters) /\ q.key \in Seq(Characters)
  BY <1>4, NamesAreText
<1>6. r.producer = q.producer /\ r.key = q.key
  BY <1>2, <1>3, <1>4, <1>5, ColonFreeNamesDiffer
<1>7. r \in Keyed(table, q)
  BY <1>1, <1>6 DEF Keyed
<1> QED
  BY <1>7

(* While no producer's name holds a colon, a key its producer has not used *)
(* yet always creates its record (the run id_collision shows that the      *)
(* hypothesis is needed).                                                  *)
THEOREM FirstUse ==
  ASSUME \A p \in Producers : ColonFree(p)
  PROVE  ApiSpec => []FirstUseIsNeverRefused
<1>1. TablesTyped /\ IdsAreDrawn => FirstUseIsNeverRefused
  <2> SUFFICES ASSUME TablesTyped, IdsAreDrawn
               PROVE  FirstUseIsNeverRefused
    OBVIOUS
  <2>1. ASSUME NEW q \in ExperimentRow, q.key # None,
               HasGeneratedId(experiments, q), Keyed(experiments, q) = {}
        PROVE  IsNew(experiments, q)
    <3>1. /\ q.producer \in Producers /\ q.key \in Keys
          /\ \A r \in experiments : /\ r.producer \in Producers
                                    /\ r.key \in Optional(Keys)
      BY <2>1 DEF TablesTyped, ExperimentRow, Optional
    <3> QED
      BY <2>1, <3>1, FirstUseIsNew DEF IdsAreDrawn
  <2>2. ASSUME NEW q \in RunRequest, q.key # None,
               HasGeneratedId(runs, q), Keyed(runs, q) = {}
        PROVE  IsNew(runs, q)
    <3>1. /\ q.producer \in Producers /\ q.key \in Keys
          /\ \A r \in runs : /\ r.producer \in Producers
                             /\ r.key \in Optional(Keys)
      BY <2>2 DEF TablesTyped, RunRequest, RunRow, Optional
    <3> QED
      BY <2>2, <3>1, FirstUseIsNew DEF IdsAreDrawn
  <2>3. ASSUME NEW q \in EvidenceRow,
               HasGeneratedId(evidence, q), Keyed(evidence, q) = {}
        PROVE  IsNew(evidence, q)
    <3>1. /\ q.producer \in Producers /\ q.key \in Keys
          /\ \A r \in evidence : /\ r.producer \in Producers
                                 /\ r.key \in Optional(Keys)
      BY DEF TablesTyped, EvidenceRow, Optional
    <3> QED
      BY <2>3, <3>1, FirstUseIsNew DEF IdsAreDrawn
  <2> QED
    BY <2>1, <2>2, <2>3 DEF FirstUseIsNeverRefused
<1> QED
  BY <1>1, IdsAreDrawnInvariant, ApiUsesTheStore, TablesTypedInvariant, PTL
-----------------------------------------------------------------------------
(* The two kinds whose keys only the routes keep honest.                   *)

(* Over HTTP a keyed experiment is replayed from the row of its key only.  *)
LEMMA ExperimentsReplayByKey ==
  ASSUME TablesTyped, IdsAreDrawn, NEW q \in ExperimentRow, q.key # None,
         HasGeneratedId(experiments, q), NEW r \in ExperimentReplay(q)
  PROVE  r \in Keyed(experiments, q) /\ SameExperiment(r, q)
<1>1. CASE Keyed(experiments, q) # {}
  BY <1>1 DEF ExperimentReplay
<1>2. CASE Keyed(experiments, q) = {}
  <2>1. r \in experiments /\ r.id = q.id /\ r.producer = q.producer
    BY <1>2 DEF ExperimentReplay, WithId, SameExperiment
  <2>2. q.id = DerivedId(q.producer, q.key)
    BY <2>1 DEF HasGeneratedId, Exists
  <2>3. q.producer \in Producers /\ q.key \in Keys
    BY DEF ExperimentRow, Optional
  <2>4. /\ r.key # None
        /\ DerivedId(q.producer, r.key) = DerivedId(q.producer, q.key)
    BY <2>1, <2>2, <2>3, FoundRowIsKeyed DEF IdsAreDrawn
  <2>5. r.key \in Keys
    BY <2>1, <2>4 DEF TablesTyped, ExperimentRow, Optional
  <2>6. /\ q.producer \in Seq(Characters)
        /\ r.key \in Seq(Characters) /\ q.key \in Seq(Characters)
    BY <2>3, <2>5, NamesAreText
  <2>7. r.key = q.key
    BY <2>4, <2>6, KeysOfOneProducerDiffer
  <2>8. r \in Keyed(experiments, q)
    BY <2>1, <2>7 DEF Keyed
  <2> QED
    BY <1>2, <2>8
<1> QED
  BY <1>1, <1>2

LEMMA ExperimentWrites ==
  ASSUME TablesTyped, Uniqueness, IdsAreDrawn, NEW q \in ExperimentRow,
         PostExperiment(q)
  PROVE  Writes(KeyedExperiments, KeyedExperiments', "experiment", q,
                ExperimentBody(q))
<1> USE DEF PostExperiment
<1>1. CASE UNCHANGED vars
  BY <1>1 DEF Writes, KeyedExperiments, KeyedEntry, ExperimentBody, vars
<1>2. CASE /\ IsNew(experiments, q) /\ experiments' = experiments \cup {q}
           /\ Acknowledge("experiment", q, ExperimentBody(q), q.id)
  <2>1. KeyedEntry("experiment", q, ExperimentBody(q))
          = NamedEntry("experiment", q, ExperimentBody(q), q.id)
    BY DEF KeyedEntry, NamedEntry
  <2>2. CASE q.key = None
    <3>1. KeyedExperiments' = KeyedExperiments
      BY <1>2, <2>2 DEF KeyedExperiments, KeyedEntry, ExperimentBody
    <3> QED
      BY <1>2, <2>2, <3>1 DEF Writes
  <2>3. CASE q.key # None
    <3>1. KeyedExperiments' = KeyedExperiments
            \cup {NamedEntry("experiment", q, ExperimentBody(q), q.id)}
      <4>1. {s \in experiments' : s.key # None}
              = {s \in experiments : s.key # None} \cup {q}
        BY <1>2, <2>3
      <4> QED
        BY <2>1, <4>1 DEF KeyedExperiments, KeyedEntry, ExperimentBody
    <3>2. \A f \in KeyedExperiments :
            f.name # <<"experiment", q.producer, q.key>>
      BY <1>2, <2>3 DEF KeyedExperiments, KeyedEntry, IsNew, Keyed
    <3> QED
      BY <1>2, <2>3, <3>1, <3>2 DEF Writes
  <2> QED
    BY <2>2, <2>3
<1>3. ASSUME NEW r \in ExperimentReplay(q), UNCHANGED tables,
             Acknowledge("experiment", q, ExperimentBody(q), r.id)
      PROVE  Writes(KeyedExperiments, KeyedExperiments', "experiment", q,
                    ExperimentBody(q))
  <2>1. KeyedExperiments' = KeyedExperiments
    BY <1>3 DEF KeyedExperiments, KeyedEntry, ExperimentBody, tables
  <2>2. CASE q.key = None
    BY <1>3, <2>1, <2>2 DEF Writes
  <2>3. CASE q.key # None
    <3>1. r \in Keyed(experiments, q) /\ SameExperiment(r, q)
      BY <2>3, ExperimentsReplayByKey
    <3>2. /\ r \in experiments /\ r.key = q.key /\ r.producer = q.producer
          /\ ExperimentBody(r) = ExperimentBody(q)
      BY <3>1 DEF Keyed, SameExperiment, ExperimentBody
    <3>3. NamedEntry("experiment", q, ExperimentBody(q), r.id)
            \in KeyedExperiments
      BY <2>3, <3>2 DEF KeyedExperiments, KeyedEntry, NamedEntry
    <3>4. \A f \in KeyedExperiments :
            f.name = <<"experiment", q.producer, q.key>>
            => f = NamedEntry("experiment", q, ExperimentBody(q), r.id)
      <4> SUFFICES ASSUME NEW s \in experiments, s.key = q.key,
                          s.producer = q.producer
                   PROVE  KeyedEntry("experiment", s, ExperimentBody(s))
                            = NamedEntry("experiment", q, ExperimentBody(q),
                                         r.id)
        BY DEF KeyedExperiments, KeyedEntry
      <4>1. s = r
        BY <2>3, <3>2 DEF Uniqueness, KeyNamesOneRow, UniqueKeys
      <4> QED
        BY <3>2, <4>1 DEF KeyedEntry, NamedEntry
    <3> QED
      BY <1>3, <2>1, <2>3, <3>3, <3>4 DEF Writes
  <2> QED
    BY <2>2, <2>3
<1> QED
  BY <1>1, <1>2, <1>3 DEF CreateExperiment, Refuse

(* register_artifact with a request that is keyed and whose key is known,  *)
(* or whose id is free.                                                    *)
LEMMA RegistrationWrites ==
  ASSUME TablesTyped, Uniqueness, NEW q, RegisterArtifact(q),
         Keyed(artifacts, q) # {} \/ IsNew(artifacts, q)
  PROVE  Writes(KeyedArtifacts, KeyedArtifacts', "artifact", q,
                ArtifactBody(q))
<1>1. CASE UNCHANGED vars
  BY <1>1 DEF Writes, KeyedArtifacts, KeyedEntry, ArtifactBody, vars
<1>2. CASE /\ IsNew(artifacts, q) /\ artifacts' = artifacts \cup {q}
           /\ Acknowledge("artifact", q, ArtifactBody(q), q.id)
  <2>1. KeyedEntry("artifact", q, ArtifactBody(q))
          = NamedEntry("artifact", q, ArtifactBody(q), q.id)
    BY DEF KeyedEntry, NamedEntry
  <2>2. CASE q.key = None
    <3>1. KeyedArtifacts' = KeyedArtifacts
      BY <1>2, <2>2 DEF KeyedArtifacts, KeyedEntry, ArtifactBody
    <3> QED
      BY <1>2, <2>2, <3>1 DEF Writes
  <2>3. CASE q.key # None
    <3>1. KeyedArtifacts' = KeyedArtifacts
            \cup {NamedEntry("artifact", q, ArtifactBody(q), q.id)}
      <4>1. {s \in artifacts' : s.key # None}
              = {s \in artifacts : s.key # None} \cup {q}
        BY <1>2, <2>3
      <4> QED
        BY <2>1, <4>1 DEF KeyedArtifacts, KeyedEntry, ArtifactBody
    <3>2. \A f \in KeyedArtifacts :
            f.name # <<"artifact", q.producer, q.key>>
      BY <1>2, <2>3 DEF KeyedArtifacts, KeyedEntry, IsNew, Keyed
    <3> QED
      BY <1>2, <2>3, <3>1, <3>2 DEF Writes
  <2> QED
    BY <2>2, <2>3
<1>3. ASSUME NEW r \in ArtifactReplay(q), UNCHANGED tables,
             Acknowledge("artifact", q, ArtifactBody(q), r.id)
      PROVE  Writes(KeyedArtifacts, KeyedArtifacts', "artifact", q,
                    ArtifactBody(q))
  <2>1. KeyedArtifacts' = KeyedArtifacts
    BY <1>3 DEF KeyedArtifacts, KeyedEntry, ArtifactBody, tables
  <2>2. Keyed(artifacts, q) # {}
    BY <1>3 DEF IsNew, ArtifactReplay
  <2>3. /\ r \in artifacts /\ r.key = q.key /\ r.producer = q.producer
        /\ q.key # None /\ ArtifactBody(r) = ArtifactBody(q)
    BY <2>2 DEF ArtifactReplay, Keyed, SameRegistration, ArtifactBody
  <2>4. NamedEntry("artifact", q, ArtifactBody(q), r.id) \in KeyedArtifacts
    BY <2>3 DEF KeyedArtifacts, KeyedEntry, NamedEntry
  <2>5. \A f \in KeyedArtifacts : f.name = <<"artifact", q.producer, q.key>>
          => f = NamedEntry("artifact", q, ArtifactBody(q), r.id)
    <3> SUFFICES ASSUME NEW s \in artifacts, s.key = q.key,
                        s.producer = q.producer
                 PROVE  KeyedEntry("artifact", s, ArtifactBody(s))
                          = NamedEntry("artifact", q, ArtifactBody(q), r.id)
      BY DEF KeyedArtifacts, KeyedEntry
    <3>1. s = r
      BY <2>3 DEF Uniqueness, KeyNamesOneRow, UniqueKeys
    <3> QED
      BY <2>3, <3>1 DEF KeyedEntry, NamedEntry
  <2> QED
    BY <1>3, <2>1, <2>3, <2>4, <2>5 DEF Writes
<1> QED
  BY <1>1, <1>2, <1>3 DEF RegisterArtifact, Refuse

(* create_artifact: the overlay keeps the key, put() draws a free id.      *)
LEMMA ArtifactWrites ==
  ASSUME TablesTyped, Uniqueness, NEW q \in ArtifactRequest, PostArtifact(q)
  PROVE  \E s : Writes(KeyedArtifacts, KeyedArtifacts', "artifact", s,
                       ArtifactBody(s))
<1>1. ASSUME NEW prior \in Keyed(artifacts, q),
             RegisterArtifact([prior EXCEPT !.content = q.content])
      PROVE  \E s : Writes(KeyedArtifacts, KeyedArtifacts', "artifact", s,
                           ArtifactBody(s))
  <2> DEFINE s == [prior EXCEPT !.content = q.content]
  <2>1. prior \in artifacts /\ prior.key # None
    BY DEF Keyed
  <2>2. s.key = prior.key /\ s.producer = prior.producer
    BY <2>1 DEF TablesTyped, ArtifactRequest
  <2>3. prior \in Keyed(artifacts, s)
    BY <2>1, <2>2 DEF Keyed
  <2>4. RegisterArtifact(s)
    BY <1>1
  <2> HIDE DEF s
  <2> QED
    BY <2>3, <2>4, RegistrationWrites
<1>2. CASE /\ Keyed(artifacts, q) = {} /\ ~Exists(artifacts, q.id)
           /\ RegisterArtifact(q)
  <2>1. IsNew(artifacts, q)
    BY <1>2 DEF IsNew, WithId, Exists
  <2> QED
    BY <1>2, <2>1, RegistrationWrites
<1> QED
  BY <1>1, <1>2 DEF PostArtifact

LEMMA AttachKeepsEntries ==
  ASSUME TablesTyped, NEW id \in ArtifactIds, NEW ev \in Optional(EvidenceIds),
         NEW run \in Optional(RunIds), AttachArtifact(id, ev, run)
  PROVE  /\ KeyedArtifacts' = KeyedArtifacts
         /\ UNCHANGED <<experiments, runs, evidence, acks>>
<1>1. CASE UNCHANGED vars
  BY <1>1 DEF KeyedArtifacts, KeyedEntry, ArtifactBody, vars
<1>2. ASSUME NEW r \in artifacts,
             artifacts' = (artifacts \ {r})
                          \cup {[r EXCEPT !.evidence = Linked(@, ev),
                                          !.run = Linked(@, run)]}
      PROVE  KeyedArtifacts' = KeyedArtifacts
  <2> DEFINE s == [r EXCEPT !.evidence = Linked(@, ev),
                            !.run = Linked(@, run)]
  <2>1. /\ s.key = r.key
        /\ KeyedEntry("artifact", s, ArtifactBody(s))
             = KeyedEntry("artifact", r, ArtifactBody(r))
    BY DEF TablesTyped, ArtifactRequest, KeyedEntry, ArtifactBody
  <2>2. artifacts' = (artifacts \ {r}) \cup {s}
    BY <1>2
  <2> HIDE DEF s
  <2>3. ASSUME NEW e PROVE e \in KeyedArtifacts' <=> e \in KeyedArtifacts
    <3>1. e \in KeyedArtifacts <=>
            \E x \in artifacts : /\ x.key # None
                               /\ e = KeyedEntry("artifact", x,
                                                 ArtifactBody(x))
      BY DEF KeyedArtifacts
    <3>2. e \in KeyedArtifacts' <=>
            \E x \in artifacts' : /\ x.key # None
                                /\ e = KeyedEntry("artifact", x,
                                                  ArtifactBody(x))
      BY DEF KeyedArtifacts, KeyedEntry, ArtifactBody
    <3> QED
      BY <2>1, <2>2, <3>1, <3>2
  <2> QED
    BY <2>3
<1> QED
  BY <1>1, <1>2 DEF AttachArtifact, WithId, Refuse, vars
-----------------------------------------------------------------------------
(* Refinement of the ledger, for the four kinds.                           *)

AllKinds == {"experiment", "run", "evidence", "artifact"}

KeyedEntries ==
  UNION {KeyedExperiments, KeyedRuns, KeyedEvidence, KeyedArtifacts}

LEMMA KindsOfEntries ==
  /\ \A f \in KeyedExperiments : f.name[1] = "experiment"
  /\ \A f \in KeyedArtifacts : f.name[1] = "artifact"
BY DEF KeyedExperiments, KeyedArtifacts, KeyedEntry

(* A call that writes one kind and leaves the others takes one step of the *)
(* ledger, or none.                                                        *)
LEMMA KeyLedgerWrites ==
  ASSUME NEW before, NEW after, NEW kind \in AllKinds, NEW q, NEW body,
         Writes(before, after, kind, q, body), NEW others,
         KeyedEntries = others \cup before,
         KeyedEntries' = others \cup after,
         \A f \in others : f.name[1] # kind
  PROVE  [KeyLedger!Next]_(KeyLedger!ledger)
<1> DEFINE A == AnsweredEntries(AllKinds)
           E == KeyedEntries
<1>1. CASE after = before /\ (acks' = acks \/ A' = A)
  <2>1. A' = A
    BY <1>1 DEF AnsweredEntries
  <2> QED
    BY <1>1, <2>1 DEF KeyLedger!ledger, KeyedEntries, AllKinds
<1>2. ASSUME NEW id, Acknowledge(kind, q, body, id), q.key # None,
             after = before \cup {NamedEntry(kind, q, body, id)},
             \A f \in before : f.name = <<kind, q.producer, q.key>>
                                 => f = NamedEntry(kind, q, body, id)
      PROVE  [KeyLedger!Next]_(KeyLedger!ledger)
  <2> DEFINE e == NamedEntry(kind, q, body, id)
  <2>1. A' = A \cup {e}
    BY <1>2, AnswerAdds
  <2>2. E' = E \cup {e}
    BY <1>2
  <2>3. e.name = <<kind, q.producer, q.key>> /\ e.name[1] = kind
    BY DEF NamedEntry
  <2>4. \A f \in E : f.name = e.name => f = e
    BY <1>2, <2>3
  <2>5. e \in A'
    BY <2>1
  <2> HIDE DEF e
  <2>6. CASE e \in E /\ e \in A
    BY <2>1, <2>2, <2>6 DEF KeyLedger!ledger, KeyedEntries, AllKinds
  <2>7. CASE e \notin E \/ e \notin A
    BY <2>1, <2>2, <2>4, <2>7
    DEF KeyLedger!Next, KeyLedger!Submit, KeyLedger!Agrees, KeyedEntries,
        AllKinds
  <2> QED
    BY <2>6, <2>7
<1>3. ASSUME NEW id, Acknowledge(kind, q, body, id), q.key = None
      PROVE  A' = A
  BY <1>3, AnswerAdds
<1> QED
  BY <1>1, <1>2, <1>3 DEF Writes

(* Which tables a call leaves alone.                                       *)
LEMMA OtherKindsStay ==
  /\ UNCHANGED experiments => UNCHANGED KeyedExperiments
  /\ UNCHANGED runs => UNCHANGED KeyedRuns
  /\ UNCHANGED evidence => UNCHANGED KeyedEvidence
  /\ UNCHANGED artifacts => UNCHANGED KeyedArtifacts
BY DEF KeyedExperiments, KeyedRuns, KeyedEvidence, KeyedArtifacts,
   KeyedEntry, ExperimentBody, RunBody, EvidenceBody, ArtifactBody

LEMMA KeyLedgerStep ==
  ASSUME TablesTyped, Uniqueness, IdsAreDrawn, [ApiNext]_vars
  PROVE  [KeyLedger!Next]_(KeyLedger!ledger)
<1> USE DEF KeyedEntries
<1>1. ASSUME NEW q \in ExperimentRow, PostExperiment(q)
      PROVE  [KeyLedger!Next]_(KeyLedger!ledger)
  <2> DEFINE others == UNION {KeyedRuns, KeyedEvidence, KeyedArtifacts}
  <2>1. UNCHANGED <<runs, evidence, artifacts>>
    BY <1>1 DEF PostExperiment, CreateExperiment, Refuse, tables, vars
  <2>2. Writes(KeyedExperiments, KeyedExperiments', "experiment", q,
               ExperimentBody(q))
    BY <1>1, ExperimentWrites
  <2>3. /\ KeyedEntries = others \cup KeyedExperiments
        /\ KeyedEntries' = others \cup KeyedExperiments'
    BY <2>1, OtherKindsStay
  <2>4. \A f \in others : f.name[1] # "experiment"
    BY EntriesHaveKinds, KindsOfEntries
  <2> QED
    BY <2>2, <2>3, <2>4, KeyLedgerWrites DEF AllKinds
<1>2. ASSUME NEW q \in RunRequest, PostRun(q)
      PROVE  [KeyLedger!Next]_(KeyLedger!ledger)
  <2> DEFINE others == UNION {KeyedExperiments, KeyedEvidence, KeyedArtifacts}
  <2>1. CreateRun(q) /\ UNCHANGED <<experiments, evidence, artifacts>>
    BY <1>2 DEF PostRun, CreateRun, Refuse, tables, vars
  <2>2. Writes(KeyedRuns, KeyedRuns', "run", q, RunBody(q))
    BY <2>1, RunWrites
  <2>3. /\ KeyedEntries = others \cup KeyedRuns
        /\ KeyedEntries' = others \cup KeyedRuns'
    BY <2>1, OtherKindsStay
  <2>4. \A f \in others : f.name[1] # "run"
    BY EntriesHaveKinds, KindsOfEntries
  <2> QED
    BY <2>2, <2>3, <2>4, KeyLedgerWrites DEF AllKinds
<1>3. ASSUME NEW q \in EvidenceRow, PostEvidence(q)
      PROVE  [KeyLedger!Next]_(KeyLedger!ledger)
  <2> DEFINE others == UNION {KeyedExperiments, KeyedRuns, KeyedArtifacts}
  <2>1. AppendEvidence(q) /\ UNCHANGED <<experiments, runs, artifacts>>
    BY <1>3 DEF PostEvidence, AppendEvidence, Refuse, tables, vars
  <2>2. Writes(KeyedEvidence, KeyedEvidence', "evidence", q, EvidenceBody(q))
    BY <2>1, EvidenceWrites
  <2>3. /\ KeyedEntries = others \cup KeyedEvidence
        /\ KeyedEntries' = others \cup KeyedEvidence'
    BY <2>1, OtherKindsStay
  <2>4. \A f \in others : f.name[1] # "evidence"
    BY EntriesHaveKinds, KindsOfEntries
  <2> QED
    BY <2>2, <2>3, <2>4, KeyLedgerWrites DEF AllKinds
<1>4. ASSUME NEW q \in ArtifactRequest, PostArtifact(q)
      PROVE  [KeyLedger!Next]_(KeyLedger!ledger)
  <2> DEFINE others == UNION {KeyedExperiments, KeyedRuns, KeyedEvidence}
  <2>1. UNCHANGED <<experiments, runs, evidence>>
    BY <1>4 DEF PostArtifact, RegisterArtifact, Refuse, tables, vars
  <2>2. PICK s : Writes(KeyedArtifacts, KeyedArtifacts', "artifact", s,
                        ArtifactBody(s))
    BY <1>4, ArtifactWrites
  <2>3. /\ KeyedEntries = others \cup KeyedArtifacts
        /\ KeyedEntries' = others \cup KeyedArtifacts'
    BY <2>1, OtherKindsStay
  <2>4. \A f \in others : f.name[1] # "artifact"
    BY EntriesHaveKinds, KindsOfEntries
  <2> QED
    BY <2>2, <2>3, <2>4, KeyLedgerWrites DEF AllKinds
<1>5. ASSUME KeyedEntries' = KeyedEntries, UNCHANGED acks
      PROVE  [KeyLedger!Next]_(KeyLedger!ledger)
  BY <1>5 DEF KeyLedger!ledger, AnsweredEntries
<1>6. ASSUME NEW id \in RunIds, NEW status \in Status, NEW at \in Stamps,
             CloseRun(id, status, at)
      PROVE  [KeyLedger!Next]_(KeyLedger!ledger)
  BY <1>5, <1>6, CloseKeepsEntries, OtherKindsStay
<1>7. ASSUME NEW id \in ArtifactIds, NEW ev \in Optional(EvidenceIds),
             NEW run \in Optional(RunIds), AttachArtifact(id, ev, run)
      PROVE  [KeyLedger!Next]_(KeyLedger!ledger)
  BY <1>5, <1>7, AttachKeepsEntries, OtherKindsStay
<1>8. ASSUME UNCHANGED vars
      PROVE  [KeyLedger!Next]_(KeyLedger!ledger)
  BY <1>5, <1>8, OtherKindsStay DEF vars
<1> QED
  BY <1>1, <1>2, <1>3, <1>4, <1>6, <1>7, <1>8 DEF ApiNext

(* Over HTTP every kind of record is written once per key, and every 201   *)
(* for the key names what is written: for all names, colons included.      *)
THEOREM KeysImplementTheLedger == ApiSpec => KeysImplementLedger
<1>1. Init => KeyLedger!Init
  BY DEF Init, KeyLedger!Init, KeyedExperiments, KeyedRuns, KeyedEvidence,
     KeyedArtifacts, AnsweredEntries
<1> QED
  BY <1>1, ApiUsesTheStore, TablesTypedInvariant, UniquenessInvariant,
     IdsAreDrawnInvariant, KeyLedgerStep, PTL
  DEF ApiSpec, KeysImplementLedger, KeyLedger!Spec
-----------------------------------------------------------------------------
(* Retries, from the ledger: what was answered is written.                 *)

AnswersAreEntries == AnsweredEntries(AllKinds) \subseteq KeyedEntries

LEMMA AnswersAreEntriesStep ==
  ASSUME AnswersAreEntries, [KeyLedger!Next]_(KeyLedger!ledger)
  PROVE  AnswersAreEntries'
<1> DEFINE A == AnsweredEntries(AllKinds)
<1>1. CASE UNCHANGED KeyLedger!ledger
  BY <1>1 DEF KeyLedger!ledger, AnswersAreEntries, KeyedEntries, AllKinds
<1>2. ASSUME NEW e, KeyLedger!Submit(e)
      PROVE  AnswersAreEntries'
  <2>1. KeyedEntries' = KeyedEntries \cup {e} /\ A' \in {A, A \cup {e}}
    BY <1>2 DEF KeyLedger!Submit, KeyedEntries, AllKinds
  <2> HIDE DEF A
  <2>2. A \subseteq KeyedEntries
    BY DEF AnswersAreEntries, A
  <2>3. A' \subseteq KeyedEntries'
    BY <2>1, <2>2
  <2> QED
    BY <2>3 DEF AnswersAreEntries, A
<1> QED
  BY <1>1, <1>2 DEF KeyLedger!Next

LEMMA AnswersAreEntriesInvariant == ApiSpec => []AnswersAreEntries
<1>1. Init => AnswersAreEntries
  BY DEF Init, AnswersAreEntries, AnsweredEntries
<1>2. TablesTyped /\ Uniqueness /\ IdsAreDrawn /\ AnswersAreEntries
        /\ [ApiNext]_vars => AnswersAreEntries'
  BY KeyLedgerStep, AnswersAreEntriesStep
<1> QED
  BY <1>1, <1>2, ApiUsesTheStore, TablesTypedInvariant, UniquenessInvariant,
     IdsAreDrawnInvariant, PTL DEF ApiSpec

LEMMA AckIsAnEntry ==
  ASSUME AnswersAreEntries, NEW kind \in AllKinds, NEW q, q.key # None,
         NEW body, NEW id, Ack(kind, q, body, id) \in acks
  PROVE  NamedEntry(kind, q, body, id) \in KeyedEntries
<1> DEFINE a == Ack(kind, q, body, id)
<1>1. a[1] = kind /\ a[3] = q.key
  BY DEF Ack
<1>2. [name |-> <<a[1], a[2], a[3]>>, body |-> <<a[4], a[5]>>]
        = NamedEntry(kind, q, body, id)
  BY DEF Ack, NamedEntry
<1>3. a \in acks
  OBVIOUS
<1> HIDE DEF a
<1> QED
  BY <1>1, <1>2, <1>3 DEF AnswersAreEntries, AnsweredEntries

(* A retry of a keyed create_experiment is answered with the record first  *)
(* answered, since the route gives it the id it had.                       *)
THEOREM ExperimentRetries == ApiSpec => []ExperimentRetryReturnsFirst
<1>1. Uniqueness /\ AnswersAreEntries => ExperimentRetryReturnsFirst
  <2> SUFFICES ASSUME Uniqueness, AnswersAreEntries, NEW q \in ExperimentRow,
                      NEW id \in ExperimentIds, q.key # None,
                      Ack("experiment", q, ExperimentBody(q), id) \in acks
               PROVE  /\ ExperimentReplay(q) # {}
                      /\ \A r \in ExperimentReplay(q) : r.id = id
    BY DEF ExperimentRetryReturnsFirst
  <2> DEFINE e == NamedEntry("experiment", q, ExperimentBody(q), id)
  <2>1. e \in KeyedEntries
    BY AckIsAnEntry DEF AllKinds
  <2>2. e.name[1] = "experiment"
    BY DEF NamedEntry
  <2>3. e \in KeyedExperiments
    <3> HIDE DEF e
    <3> QED
      BY <2>1, <2>2, EntriesHaveKinds, KindsOfEntries DEF KeyedEntries
  <2>4. PICK r \in experiments :
          r.key # None /\ e = KeyedEntry("experiment", r, ExperimentBody(r))
    BY <2>3 DEF KeyedExperiments
  <2>5. /\ r.producer = q.producer /\ r.key = q.key /\ r.id = id
        /\ r.content = q.content
    BY <2>4 DEF KeyedEntry, NamedEntry, ExperimentBody
  <2>6. r \in Keyed(experiments, q) /\ SameExperiment(r, q)
    BY <2>4, <2>5 DEF Keyed, SameExperiment
  <2>7. r \in ExperimentReplay(q)
    BY <2>6 DEF ExperimentReplay
  <2>8. \A s \in ExperimentReplay(q) : s = r
    BY <2>5, <2>6 DEF ExperimentReplay, Keyed, Uniqueness, KeyNamesOneRow,
       UniqueKeys
  <2> QED
    BY <2>5, <2>7, <2>8
<1> QED
  BY <1>1, ApiUsesTheStore, UniquenessInvariant, AnswersAreEntriesInvariant,
     PTL

(* A retry of a keyed registration is answered with the artifact first     *)
(* registered, although put() draws no id for it any more.                 *)
THEOREM ArtifactRetries == ApiSpec => []ArtifactRetryReturnsFirst
<1>1. TablesTyped /\ Uniqueness /\ AnswersAreEntries
        => ArtifactRetryReturnsFirst
  <2> SUFFICES ASSUME TablesTyped, Uniqueness, AnswersAreEntries,
                      NEW q \in ArtifactRequest,
                      NEW id \in ArtifactIds, q.key # None,
                      Ack("artifact", q, ArtifactBody(q), id) \in acks
               PROVE  \E prior \in Keyed(artifacts, q) :
                        /\ prior.id = id
                        /\ ArtifactReplay([prior EXCEPT !.content = q.content])
                             = {prior}
    BY DEF ArtifactRetryReturnsFirst
  <2> DEFINE e == NamedEntry("artifact", q, ArtifactBody(q), id)
  <2>1. e \in KeyedEntries
    BY AckIsAnEntry DEF AllKinds
  <2>2. e.name[1] = "artifact"
    BY DEF NamedEntry
  <2>3. e \in KeyedArtifacts
    <3> HIDE DEF e
    <3> QED
      BY <2>1, <2>2, EntriesHaveKinds, KindsOfEntries DEF KeyedEntries
  <2>4. PICK r \in artifacts :
          r.key # None /\ e = KeyedEntry("artifact", r, ArtifactBody(r))
    BY <2>3 DEF KeyedArtifacts
  <2>5. /\ r.producer = q.producer /\ r.key = q.key /\ r.id = id
        /\ r.content = q.content
    BY <2>4 DEF KeyedEntry, NamedEntry, ArtifactBody
  <2>6. r \in Keyed(artifacts, q)
    BY <2>4, <2>5 DEF Keyed
  <2> DEFINE s == [r EXCEPT !.content = q.content]
  <2>7. /\ s.key = r.key /\ s.producer = r.producer
        /\ s.content = r.content
    BY <2>5 DEF TablesTyped, ArtifactRequest
  <2> HIDE DEF s
  <2>8. Keyed(artifacts, s) = {r}
    BY <2>4, <2>7 DEF Keyed, Uniqueness, KeyNamesOneRow, UniqueKeys
  <2>9. ArtifactReplay(s) = {r}
    BY <2>7, <2>8 DEF ArtifactReplay, SameRegistration
  <2> QED
    BY <2>5, <2>6, <2>9 DEF s
<1> QED
  BY <1>1, ApiUsesTheStore, TablesTypedInvariant, UniquenessInvariant,
     AnswersAreEntriesInvariant, PTL

(* A retry of a keyed create_run, with the id the route derives or any     *)
(* other, is answered with the run first created, ended or not.            *)
THEOREM RunRetriesOverHttp == ApiSpec => []RunRetryReturnsFirst
BY ApiUsesTheStore, RunRetries
=============================================================================
