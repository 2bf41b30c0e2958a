-------------------------- MODULE ArtifactService --------------------------
(***************************************************************************)
(* Artifacts from upload to record: POST /v1/artifacts                     *)
(* (src/src/cer/api/routes.py), FilesystemArtifactStore                    *)
(* (src/src/cer/artifacts/fs_store.py) on its volume, the artifact records *)
(* of the metadata store on theirs, and the decision the entrypoint takes  *)
(* at startup (src/src/cer/api/main.py), while the artifact volume         *)
(* disappears and returns, a stored file is damaged or deleted, a write    *)
(* fails and the process is killed and started again.                      *)
(*                                                                         *)
(* create_artifact is an `async def' that awaits only the request body, so *)
(* the event loop runs one upload at a time; downloads, readiness and the  *)
(* environment interleave with its steps.  The steps are the accesses to   *)
(* the two volumes.  A content stands for the bytes, their digest, the     *)
(* blob's path and what the headers say of them.                           *)
(***************************************************************************)
EXTENDS Naturals

CONSTANTS
  Keys,             (* pairs of a producer and an idempotency key          *)
  Contents, Ids, None,
  MetadataMayFail,  (* may a query of the metadata store fail?             *)
  MaxMishaps, MaxCrashes

ASSUME NoneIsNoKey == None \notin Keys
ASSUME MayFailIsBoolean == MetadataMayFail \in BOOLEAN

Optional(S) == S \cup {None}

(* `honest': the declared digest, if any, is that of the bytes.  `linked': *)
(* the run and evidence the headers name, if any, exist.                   *)
Uploads == [key : Optional(Keys), content : Contents, honest : BOOLEAN,
            linked : BOOLEAN]
Records == [id : Ids, key : Optional(Keys), content : Contents]
Sidecars == [id : Ids, content : Contents]
Volumes == [layout : BOOLEAN, blobs : SUBSET Contents,
            damaged : SUBSET Contents, sidecars : SUBSET Sidecars]

ASSUME NoneIsNoVolume == None \notin Volumes

VARIABLES
  root,      (* what the artifact root shows: the layout (directories and  *)
             (* marker), the blobs, those of them that hold other bytes    *)
             (* than were written, the sidecars                            *)
  away,      (* the volume that disappeared from the root, or None         *)
  records,   (* the artifacts table of the metadata store                  *)
  phase,     (* the process: down, starting, initialising, up              *)
  known,     (* _initialised: was the layout ever observed or vouched for? *)
  pc, upload, minted,   (* the running create_artifact, and the record     *)
                        (* that put() built for it                         *)
  used,      (* every artifact_id ever minted                              *)
  acks,      (* history: the answers 201, [content, honest, id]            *)
  blind,     (* history: has a start neither seen the store nor been able  *)
             (* to query the metadata?                                     *)
  harmed,    (* history: the artifacts whose file was damaged or deleted   *)
             (* after it was stored for them                               *)
  parted,    (* history: the artifacts whose volume disappeared after      *)
             (* their blob was written and before their sidecar was        *)
  mishaps, crashes

job     == <<pc, upload, minted, used>>
faults  == <<harmed, parted, mishaps, crashes>>
vars    == <<root, away, records, phase, known, pc, upload, minted, used,
             acks, blind, harmed, parted, mishaps, crashes>>

-----------------------------------------------------------------------------
(* FilesystemArtifactStore.                                                *)

EmptyVolume ==
  [layout |-> FALSE, blobs |-> {}, damaged |-> {}, sidecars |-> {}]

(* _backing_present: root, blobs/, index/ and store.json.                  *)
BackingPresent == root.layout

(* _require_live_backing refuses a store that was there and is gone.       *)
Vanished == known /\ ~BackingPresent

(* initialise(): idempotent, never touches blobs and sidecars.             *)
Initialise ==
  /\ root' = [root EXCEPT !.layout = TRUE]
  /\ known' = TRUE

(* stat().                                                                 *)
Stat(id) ==
  IF \E s \in root.sidecars : s.id = id THEN "found"
  ELSE IF Vanished THEN "unavailable" ELSE "not_registered"

Served(content) == [status |-> "served", content |-> content]
Failed(status)  == [status |-> status, content |-> None]

(* Fault: the bytes are not checked against the digest on the way out.     *)
DownloadUnverified(id) ==
  IF Stat(id) # "found" THEN Failed(Stat(id))
  ELSE LET c == (CHOOSE s \in root.sidecars : s.id = id).content IN
       IF c \notin root.blobs THEN Failed("unavailable")
       ELSE Served(IF c \in root.damaged THEN None ELSE c)

(* GET /download: stat() twice, then get() reads the blob and compares its *)
(* digest.  Sidecars do not change, so the read of the blob decides.       *)
Download(id) ==
  IF Stat(id) # "found" THEN Failed(Stat(id))
  ELSE LET c == (CHOOSE s \in root.sidecars : s.id = id).content IN
       IF c \notin root.blobs THEN Failed("unavailable")
       ELSE IF c \in root.damaged THEN Failed("checksum_mismatch")
       ELSE Served(c)

Keyed(key) == {r \in records : key # None /\ r.key = key}

-----------------------------------------------------------------------------
(* create_artifact.                                                        *)

Finish == pc' = "idle" /\ upload' = None /\ minted' = None

Refused ==
  /\ Finish
  /\ UNCHANGED <<root, away, records, phase, known, used, acks, blind, faults>>

Acknowledge(id) ==
  /\ acks' = acks \cup {[content |-> upload.content, honest |-> upload.honest,
                        id |-> id]}
  /\ Finish
  /\ UNCHANGED <<root, away, records, phase, known, used, blind, faults>>

Receive(u) ==
  /\ phase = "up" /\ pc = "idle" /\ used # Ids
  /\ upload' = u
  /\ pc' = "find"
  /\ UNCHANGED <<root, away, records, phase, known, minted, used, acks, blind,
                 faults>>

(* Fault: the declared digest is left to put().                            *)
AnswerUnchecked ==
  /\ pc = "find"
  /\ \E prior \in Keyed(upload.key) :
       IF prior.content = upload.content
       THEN Acknowledge(prior.id)
       ELSE Refused

(* A key that is in use is answered from the metadata store alone: the     *)
(* stored record, if bytes and headers are those it was stored for, else   *)
(* 409.  A declared digest is checked here because put() is not reached.   *)
AnswerFromRecord ==
  /\ pc = "find"
  /\ \E prior \in Keyed(upload.key) :
       IF upload.honest /\ prior.content = upload.content
       THEN Acknowledge(prior.id)
       ELSE Refused

(* Fault: the key is left to register_artifact.                            *)
FindNotAtAll ==
  /\ pc = "find"
  /\ pc' = "check"
  /\ UNCHANGED <<root, away, records, phase, known, upload, minted, used,
                 acks, blind, faults>>

FindNothing ==
  /\ pc = "find"
  /\ Keyed(upload.key) = {}
  /\ pc' = "check"
  /\ UNCHANGED <<root, away, records, phase, known, upload, minted, used,
                 acks, blind, faults>>

(* put(): validate, then look at the backing ...                           *)
CheckStore ==
  /\ pc = "check"
  /\ IF ~upload.honest \/ Vanished
     THEN Refused
     ELSE /\ known' = (known \/ BackingPresent)
          /\ pc' = IF BackingPresent THEN "blob" ELSE "initialise"
          /\ UNCHANGED <<root, away, records, phase, upload, minted, used,
                         acks, blind, faults>>

(* ... create it if this process has no reason to think it was ever there, *)
InitialiseLazily ==
  /\ pc = "initialise"
  /\ Initialise
  /\ pc' = "blob"
  /\ UNCHANGED <<away, records, phase, upload, minted, used, acks, blind,
                 faults>>

(* The bytes are there: the record is built, under a fresh id.             *)
BuildRecord ==
  /\ root' = [root EXCEPT !.blobs = @ \cup {upload.content}]
  /\ \E id \in Ids \ used :
       /\ minted' = [id |-> id, key |-> upload.key,
                     content |-> upload.content]
       /\ used' = used \cup {id}
  /\ pc' = "sidecar"
  /\ UNCHANGED <<away, records, phase, known, upload, acks, blind, faults>>

(* Fault: a file that is there is taken for the bytes.                     *)
StoreBlobUnread ==
  /\ pc = "blob"
  /\ BuildRecord

(* ... write the bytes unless they are there, making directories as        *)
(* needed; other bytes at that path are left alone and the upload refused, *)
StoreBlob ==
  /\ pc = "blob"
  /\ IF upload.content \in root.damaged THEN Refused ELSE BuildRecord

(* or fail half way: an OSError anywhere is a 503, and what earlier steps  *)
(* wrote stays ...                                                         *)
WriteFails ==
  /\ pc \in {"initialise", "blob", "sidecar"}
  /\ Refused

(* Fault: the sidecar is written under an id of its own.                   *)
WriteSidecarElsewhere ==
  /\ pc = "sidecar"
  /\ \E id \in Ids \ used :
       root' = [root EXCEPT !.sidecars =
                  @ \cup {[id |-> id, content |-> upload.content]}]
  /\ pc' = "register"
  /\ UNCHANGED <<away, records, phase, known, upload, minted, used, acks,
                 blind, faults>>

(* ... and the sidecar.  The backing is not looked at again: the path may  *)
(* lead elsewhere by now, and its directories are made too.                *)
WriteSidecar ==
  /\ pc = "sidecar"
  /\ root' = [root EXCEPT !.sidecars =
                @ \cup {[id |-> minted.id, content |-> minted.content]}]
  /\ pc' = "register"
  /\ UNCHANGED <<away, records, phase, known, upload, minted, used, acks,
                 blind, faults>>

(* register_artifact: the references resolve or the call is refused.  It   *)
(* looks the key up once more and finds what FindNothing found, since no   *)
(* other upload can have run in between.                                   *)
Register ==
  /\ pc = "register"
  /\ upload.linked
  /\ records' = records \cup {minted}
  /\ pc' = "answer"
  /\ UNCHANGED <<root, away, phase, known, upload, minted, used, acks, blind,
                 faults>>

RefuseToRegister ==
  /\ pc = "register"
  /\ ~upload.linked
  /\ Refused

Answer == pc = "answer" /\ Acknowledge(minted.id)

(* find_artifact_by_idempotency_key or register_artifact raises: 503.      *)
MetadataFails ==
  /\ MetadataMayFail
  /\ (pc = "find" /\ upload.key # None) \/ pc = "register"
  /\ Refused

(* GET /ready: a health() that sees the layout remembers that it did.      *)
Ready ==
  /\ phase = "up"
  /\ known' = (known \/ BackingPresent)
  /\ UNCHANGED <<root, away, records, phase, job, acks, blind, faults>>

-----------------------------------------------------------------------------
(* Startup: _build_stores and _initialise_artifact_store_if_safe.          *)

Construct ==
  /\ phase = "down"
  /\ phase' = "starting"
  /\ known' = BackingPresent
  /\ UNCHANGED <<root, away, records, job, acks, blind, faults>>

(* health() passes: nothing to do.                                         *)
FindInitialised ==
  /\ phase = "starting" /\ BackingPresent
  /\ phase' = "up"
  /\ known' = TRUE
  /\ UNCHANGED <<root, away, records, job, acks, blind, faults>>

(* It fails, because there is no layout or because the root cannot be      *)
(* written, and no artifact was ever registered: a first deployment.       *)
FindNoRecords ==
  /\ phase = "starting"
  /\ records = {}
  /\ phase' = "initialising"
  /\ known' = (known \/ BackingPresent)
  /\ UNCHANGED <<root, away, records, job, acks, blind, faults>>

InitialiseFirst ==
  /\ phase = "initialising"
  /\ Initialise
  /\ phase' = "up"
  /\ UNCHANGED <<away, records, job, acks, blind, faults>>

(* Artifacts were registered: mark_previously_initialised.                 *)
FindLostVolume ==
  /\ phase = "starting"
  /\ records # {}
  /\ phase' = "up"
  /\ known' = TRUE
  /\ UNCHANGED <<root, away, records, job, acks, blind, faults>>

(* The query failed: neither initialised nor marked.                       *)
FindUndetermined ==
  /\ phase = "starting"
  /\ MetadataMayFail
  /\ phase' = "up"
  /\ known' = (known \/ BackingPresent)
  /\ blind' = (blind \/ ~known')
  /\ UNCHANGED <<root, away, records, job, acks, faults>>

Startup ==
  \/ Construct \/ FindInitialised \/ FindNoRecords \/ InitialiseFirst
  \/ FindLostVolume \/ FindUndetermined

-----------------------------------------------------------------------------
(* The environment.                                                        *)

(* The volume is unmounted or moved away; the root shows an empty          *)
(* directory, or none.                                                     *)
VolumeDisappears ==
  /\ mishaps < MaxMishaps /\ away = None
  /\ away' = root
  /\ root' = EmptyVolume
  /\ parted' = parted \cup IF pc = "sidecar" THEN {minted.id} ELSE {}
  /\ mishaps' = mishaps + 1
  /\ UNCHANGED <<records, phase, known, job, acks, blind, harmed, crashes>>

(* It comes back, unless something was written in its place meanwhile.     *)
VolumeReturns ==
  /\ away # None /\ root = EmptyVolume
  /\ root' = away
  /\ away' = None
  /\ UNCHANGED <<records, phase, known, job, acks, blind, faults>>

(* The artifacts that lose by it if the file of a content is harmed: those *)
(* with a sidecar, and the one whose sidecar is about to be written.       *)
Affected(c) ==
  {s.id : s \in {t \in root.sidecars : t.content = c}}
  \cup IF pc = "sidecar" /\ minted.content = c THEN {minted.id} ELSE {}

(* Bits rot, or the file is restored from somewhere wrong.                 *)
BlobIsDamaged(c) ==
  /\ mishaps < MaxMishaps
  /\ c \in root.blobs \ root.damaged
  /\ root' = [root EXCEPT !.damaged = @ \cup {c}]
  /\ harmed' = harmed \cup Affected(c)
  /\ mishaps' = mishaps + 1
  /\ UNCHANGED <<away, records, phase, known, job, acks, blind, parted,
                 crashes>>

BlobIsDeleted(c) ==
  /\ mishaps < MaxMishaps
  /\ c \in root.blobs
  /\ root' = [root EXCEPT !.blobs = @ \ {c}, !.damaged = @ \ {c}]
  /\ harmed' = harmed \cup Affected(c)
  /\ mishaps' = mishaps + 1
  /\ UNCHANGED <<away, records, phase, known, job, acks, blind, parted,
                 crashes>>

Crash ==
  /\ phase # "down" /\ crashes < MaxCrashes
  /\ phase' = "down"
  /\ Finish
  /\ crashes' = crashes + 1
  /\ UNCHANGED <<root, away, records, known, used, acks, blind, harmed,
                 parted, mishaps>>

Init ==
  /\ root = EmptyVolume /\ away = None
  /\ records = {}
  /\ phase = "down" /\ known = FALSE
  /\ pc = "idle" /\ upload = None /\ minted = None /\ used = {}
  /\ acks = {} /\ blind = FALSE /\ harmed = {} /\ parted = {}
  /\ mishaps = 0 /\ crashes = 0

CreateArtifact ==
  \/ AnswerFromRecord \/ FindNothing \/ CheckStore \/ InitialiseLazily
  \/ StoreBlob \/ WriteFails \/ WriteSidecar \/ Register
  \/ RefuseToRegister \/ Answer \/ MetadataFails

Next ==
  \/ \E u \in Uploads : Receive(u)
  \/ CreateArtifact \/ Ready \/ Startup
  \/ VolumeDisappears \/ VolumeReturns \/ Crash
  \/ \E c \in Contents : BlobIsDamaged(c) \/ BlobIsDeleted(c)

Spec == Init /\ [][Next]_vars

-----------------------------------------------------------------------------
(* Properties.                                                             *)

Everything == IF away = None THEN {root} ELSE {root, away}

(* Type invariant: an id is on disk only if it was minted, and a blob      *)
(* precedes each sidecar that refers to it.                                *)
TypeOK ==
  /\ root \in Volumes /\ away \in Volumes \cup {None}
  /\ records \subseteq Records
  /\ known \in BOOLEAN
  /\ \A v \in Everything : \A s \in v.sidecars : s.id \in used

(* The volume v alone can serve a record: its sidecar and its very bytes.  *)
SidecarOn(r, v) == [id |-> r.id, content |-> r.content] \in v.sidecars
BytesOn(r, v)   == r.content \in v.blobs \ v.damaged

(* PID: registered artifacts remain retrievable after restart.  Whatever   *)
(* step the process was killed or failed at, one volume holds both the     *)
(* sidecar of a record of the registry and the very bytes it was           *)
(* registered for: an upload of bytes whose file is already damaged is     *)
(* never taken for stored, one of bytes whose file is gone stores them     *)
(* again, and a substitute for a lost volume serves what it acknowledged.  *)
(* Two exceptions, by name: of harmed artifacts the sidecar is all that is *)
(* promised, and those whose volume disappeared between the two writes of  *)
(* their upload, the race that fs_store.py 136-139 concedes, may have      *)
(* their sidecar and their bytes on two volumes.                           *)
RecordedIsStored ==
  \A r \in records :
    \E v, w \in Everything :
      /\ SidecarOn(r, v)
      /\ r.id \in harmed \/ BytesOn(r, w)
      /\ r.id \notin parted => v = w

(* Whatever became of the volume, the download of a registered artifact is *)
(* the bytes it was registered for or an error: never other bytes, and, by *)
(* a process that could query the metadata store when it started, never    *)
(* 404 `not registered': while the volume is away the answer is 503, after *)
(* a restart too.                                                          *)
DownloadIsFaithful ==
  phase = "up" =>
    \A r \in records :
      /\ Download(r.id).status = "served" => Download(r.id).content = r.content
      /\ ~blind => Download(r.id).status # "not_registered"

(* A process that could not tell a first deployment from a lost volume     *)
(* does not create an artifact store from nothing: while a volume that     *)
(* holds registered artifacts is away, no empty store appears in its place *)
(* (main.py 86-89: `"I don't know" must not' license it).                  *)
LostVolumeIsNotRemade ==
  \A r \in records :
    away # None /\ [id |-> r.id, content |-> r.content] \in away.sidecars
    => ~root.layout

(* A 201 never answers an upload whose declared digest is not that of its  *)
(* bytes, neither a first upload nor a replay that never reaches put(),    *)
(* and the id it names is that of a record of these bytes.                 *)
AcknowledgedAsDeclared ==
  \A a \in acks :
    /\ a.honest
    /\ \E r \in records : r.id = a.id /\ r.content = a.content

(* Once a key has a record, no resubmission under it, faithful or not,     *)
(* mints an id or writes a sidecar that the registry would never issue     *)
(* (routes.py 559-566).                                                    *)
ResubmissionMintsNothing ==
  [][pc # "idle" /\ Keyed(upload.key) # {} => used' = used]_vars
=============================================================================
