----------------------- MODULE ArtifactServiceProofs -----------------------
(***************************************************************************)
(* Proofs about ArtifactService, for every set of keys, contents and ids,  *)
(* and for any number of mishaps and crashes.                              *)
(***************************************************************************)
EXTENDS ArtifactService, TLAPS

Labels == {"idle", "find", "check", "initialise", "blob", "sidecar",
           "register", "answer"}

(* The upload has its record, and its sidecar.                             *)
Built  == pc \in {"sidecar", "register", "answer"}
Minted == pc \in {"register", "answer"}

SidecarOf(r) == [id |-> r.id, content |-> r.content]

-----------------------------------------------------------------------------
(* The inductive invariant.                                                *)

(* What the running upload holds at each of its steps.                     *)
JobTyped ==
  /\ pc \in Labels
  /\ phase \in {"down", "starting", "initialising", "up"}
  /\ pc # "idle" => phase = "up" /\ upload \in Uploads
  /\ pc \notin {"idle", "find", "check"} => upload.honest
  /\ Built => /\ minted \in Records /\ minted.id \in used
              /\ minted.key = upload.key /\ minted.content = upload.content
  /\ pc = "answer" => minted \in records

(* Sidecars and records carry minted ids, and an id has one sidecar, and   *)
(* none before it is written.                                              *)
IdsMinted ==
  /\ used \subseteq Ids
  /\ \A r \in records : r.id \in used
  /\ \A v, w \in Everything : \A s \in v.sidecars, t \in w.sidecars :
       s.id = t.id => s = t
  /\ pc = "sidecar" =>
       \A v \in Everything : \A s \in v.sidecars : s.id # minted.id

Typed == TypeOK /\ JobTyped /\ IdsMinted

(* The bytes of c are in a file that nothing can harm without this being   *)
(* remembered: on the volume at the root, where a sidecar names it, or on  *)
(* the one that is away.                                                   *)
Safe(c, volume) == c \in volume.blobs \ volume.damaged

SafeAway(c) == away # None /\ Safe(c, away)

(* An artifact is on its volume, sidecar and bytes; or its sidecar is      *)
(* there and its file was harmed; or its volume disappeared within its     *)
(* upload, after its bytes and before its sidecar was written.             *)
Kept(s) ==
  /\ \E v \in Everything : s \in v.sidecars
  /\ \/ s.id \in harmed
     \/ s \in root.sidecars /\ Safe(s.content, root)
     \/ SafeAway(s.content) /\ (s \in away.sidecars \/ s.id \in parted)

(* The bytes of an artifact whose sidecar is yet to be written.            *)
HalfKept ==
  \/ minted.id \in harmed
  \/ Safe(minted.content, root)
  \/ SafeAway(minted.content) /\ minted.id \in parted

(* This holds of every record, of the upload that is about to be recorded, *)
(* and, but for the sidecar, of the one whose sidecar is about to be       *)
(* written.                                                                *)
Stored ==
  /\ \A r \in records : Kept(SidecarOf(r))
  /\ Minted => Kept(SidecarOf(minted))
  /\ pc = "sidecar" => HalfKept

(* A process that could query the metadata store when it started has seen  *)
(* the store or been told of it, so that no layout appears where records   *)
(* should be: a layout at the root means that their sidecars are there.    *)
Vouched ==
  ~blind =>
    /\ phase = "up" => known
    /\ pc # "initialise"
    /\ phase = "initialising" => records = {}
    /\ root.layout => /\ \A r \in records : SidecarOf(r) \in root.sidecars
                      /\ Minted => SidecarOf(minted) \in root.sidecars
-----------------------------------------------------------------------------
(* Steps.  Most of them leave the volumes, the records and the minted ids  *)
(* alone; those that do not are named.                                     *)

Quiet ==
  UNCHANGED <<root, away, records, used, harmed, parted>>

LEMMA StepCases ==
  ASSUME [Next]_vars
  PROVE  \/ \E u \in Uploads : Receive(u)
         \/ AnswerFromRecord \/ FindNothing \/ CheckStore \/ InitialiseLazily
         \/ StoreBlob \/ WriteFails \/ WriteSidecar \/ Register
         \/ RefuseToRegister \/ Answer \/ MetadataFails
         \/ Ready
         \/ Construct \/ FindInitialised \/ FindNoRecords \/ InitialiseFirst
         \/ FindLostVolume \/ FindUndetermined
         \/ VolumeDisappears \/ VolumeReturns \/ Crash
         \/ \E c \in Contents : BlobIsDamaged(c) \/ BlobIsDeleted(c)
         \/ UNCHANGED vars
BY DEF Next, CreateArtifact, Startup

(* An upload that ends, answered or refused, leaves no trace but its       *)
(* answer; so does a crash.                                                *)
LEMMA EndOfUpload ==
  ASSUME \/ AnswerFromRecord \/ WriteFails \/ RefuseToRegister \/ Answer
         \/ MetadataFails \/ Crash
  PROVE  Quiet /\ pc' = "idle"
         /\ UNCHANGED <<known, blind>>
         /\ phase' \in {phase, "down"}
BY DEF AnswerFromRecord, WriteFails, RefuseToRegister, Answer, MetadataFails,
   Crash, Refused, Acknowledge, Finish, Quiet, faults

LEMMA Start ==
  ASSUME \/ Construct \/ FindInitialised \/ FindNoRecords \/ FindLostVolume
         \/ FindUndetermined \/ Ready
  PROVE  Quiet /\ UNCHANGED <<pc, upload, minted, acks>>
BY DEF Construct, FindInitialised, FindNoRecords, FindLostVolume,
   FindUndetermined, Ready, Quiet, job, faults

(* What the writes make of the volume at the root.                         *)
LEMMA RootUpdates ==
  ASSUME root \in Volumes
  PROVE  /\ LET v == [root EXCEPT !.layout = TRUE] IN
              /\ v \in Volumes /\ v.layout
              /\ v.blobs = root.blobs /\ v.damaged = root.damaged
              /\ v.sidecars = root.sidecars
         /\ \A c \in Contents :
              LET v == [root EXCEPT !.blobs = @ \cup {c}] IN
              /\ v \in Volumes /\ v.layout = root.layout
              /\ v.blobs = root.blobs \cup {c} /\ v.damaged = root.damaged
              /\ v.sidecars = root.sidecars
         /\ \A s \in Sidecars :
              LET v == [root EXCEPT !.sidecars = @ \cup {s}] IN
              /\ v \in Volumes /\ v.layout = root.layout
              /\ v.blobs = root.blobs /\ v.damaged = root.damaged
              /\ v.sidecars = root.sidecars \cup {s}
         /\ \A c \in Contents :
              LET v == [root EXCEPT !.damaged = @ \cup {c}] IN
              /\ v \in Volumes /\ v.layout = root.layout
              /\ v.blobs = root.blobs /\ v.damaged = root.damaged \cup {c}
              /\ v.sidecars = root.sidecars
         /\ \A c \in Contents :
              LET v == [root EXCEPT !.blobs = @ \ {c}, !.damaged = @ \ {c}] IN
              /\ v \in Volumes /\ v.layout = root.layout
              /\ v.blobs = root.blobs \ {c} /\ v.damaged = root.damaged \ {c}
              /\ v.sidecars = root.sidecars
BY DEF Volumes

(* A record is built once the bytes are at the root, under a fresh id.     *)
LEMMA RecordBuilt ==
  ASSUME Typed, StoreBlob, upload.content \notin root.damaged
  PROVE  /\ root' \in Volumes /\ root'.layout = root.layout
         /\ root'.blobs = root.blobs \cup {upload.content}
         /\ root'.damaged = root.damaged /\ root'.sidecars = root.sidecars
         /\ pc = "blob" /\ pc' = "sidecar"
         /\ minted' \in Records /\ minted'.id \in Ids \ used
         /\ minted'.key = upload.key /\ minted'.content = upload.content
         /\ used' = used \cup {minted'.id}
         /\ UNCHANGED <<away, records, phase, known, upload, acks, blind,
                        harmed, parted>>
<1>1. /\ root' = [root EXCEPT !.blobs = @ \cup {upload.content}]
      /\ pc = "blob" /\ pc' = "sidecar"
      /\ UNCHANGED <<away, records, phase, known, upload, acks, blind, harmed,
                     parted>>
  BY DEF StoreBlob, BuildRecord, faults
<1>2. upload \in Uploads
  BY <1>1 DEF Typed, JobTyped
<1>3. PICK id \in Ids \ used :
        /\ minted' = [id |-> id, key |-> upload.key,
                      content |-> upload.content]
        /\ used' = used \cup {id}
  BY DEF StoreBlob, BuildRecord
<1>4. minted' \in Records
  BY <1>2, <1>3 DEF Records, Uploads
<1>5. upload.content \in Contents
  BY <1>2 DEF Uploads
<1>6. /\ root' \in Volumes /\ root'.layout = root.layout
      /\ root'.blobs = root.blobs \cup {upload.content}
      /\ root'.damaged = root.damaged /\ root'.sidecars = root.sidecars
  BY <1>1, <1>5, RootUpdates DEF Typed, TypeOK
<1> QED
  BY <1>1, <1>3, <1>4, <1>6

LEMMA EmptyVolumeFacts ==
  /\ EmptyVolume \in Volumes /\ ~EmptyVolume.layout
  /\ EmptyVolume.blobs = {} /\ EmptyVolume.damaged = {}
  /\ EmptyVolume.sidecars = {}
BY DEF EmptyVolume, Volumes

-----------------------------------------------------------------------------
(* Type correctness.                                                       *)

LEMMA QuietTyped ==
  ASSUME Typed, Quiet, known' \in BOOLEAN, JobTyped',
         pc' = "sidecar" => pc = "sidecar" /\ UNCHANGED minted
  PROVE  Typed'
BY DEF Typed, Quiet, TypeOK, IdsMinted, Everything

LEMMA TypedStep == Typed /\ [Next]_vars => Typed'
<1> SUFFICES ASSUME Typed, [Next]_vars
             PROVE  Typed'
  OBVIOUS
<1> USE DEF Labels
<1>1. ASSUME NEW u \in Uploads, Receive(u)
      PROVE  Typed'
  <2>1. JobTyped'
    BY <1>1 DEF Receive, Typed, JobTyped, Built
  <2> QED
    BY <1>1, <2>1, QuietTyped DEF Receive, Quiet, faults, Typed, TypeOK
<1>2. CASE \/ AnswerFromRecord \/ WriteFails \/ RefuseToRegister \/ Answer
           \/ MetadataFails \/ Crash
  <2>1. JobTyped'
    BY <1>2, EndOfUpload DEF Typed, JobTyped, Built
  <2> QED
    BY <1>2, <2>1, EndOfUpload, QuietTyped DEF Typed, TypeOK
<1>3. CASE FindNothing
  <2>1. JobTyped'
    BY <1>3 DEF FindNothing, Typed, JobTyped, Built
  <2> QED
    BY <1>3, <2>1, QuietTyped DEF FindNothing, Quiet, faults, Typed, TypeOK
<1>4. CASE CheckStore
  <2>1. JobTyped'
    BY <1>4 DEF CheckStore, Refused, Finish, Typed, JobTyped, Built
  <2>2. Quiet /\ known' \in BOOLEAN /\ pc' # "sidecar"
    BY <1>4 DEF CheckStore, Refused, Finish, Quiet, faults, Typed, TypeOK,
       BackingPresent, Volumes
  <2> QED
    BY <2>1, <2>2, QuietTyped
<1>5. CASE InitialiseLazily
  <2>1. JobTyped'
    BY <1>5 DEF InitialiseLazily, Typed, JobTyped, Built
  <2>2. /\ root' \in Volumes /\ root'.sidecars = root.sidecars
        /\ UNCHANGED <<away, records, used>> /\ known' /\ pc' = "blob"
    BY <1>5, RootUpdates DEF InitialiseLazily, Initialise, Typed, TypeOK
  <2> QED
    BY <2>1, <2>2 DEF Typed, TypeOK, IdsMinted, Everything
<1>6. CASE StoreBlob
  <2>1. CASE upload.content \in root.damaged
    <3>1. JobTyped'
      BY <1>6, <2>1 DEF StoreBlob, Refused, Finish, Typed, JobTyped, Built
    <3> QED
      BY <1>6, <2>1, <3>1, QuietTyped
         DEF StoreBlob, Refused, Finish, Quiet, faults, Typed, TypeOK
  <2>2. CASE upload.content \notin root.damaged
    <3>1. JobTyped'
      BY <1>6, <2>2, RecordBuilt DEF Typed, JobTyped, Built
    <3>2. /\ root' \in Volumes /\ root'.sidecars = root.sidecars
          /\ UNCHANGED <<away, records, known>>
          /\ used' = used \cup {minted'.id} /\ minted'.id \in Ids \ used
      BY <1>6, <2>2, RecordBuilt DEF Typed, TypeOK
    <3> QED
      BY <3>1, <3>2 DEF Typed, TypeOK, IdsMinted, Everything
  <2> QED
    BY <2>1, <2>2
<1>7. CASE WriteSidecar
  <2> DEFINE s == [id |-> minted.id, content |-> minted.content]
  <2>1. root' = [root EXCEPT !.sidecars = @ \cup {s}]
    BY <1>7 DEF WriteSidecar
  <2>2. /\ s \in Sidecars /\ s.id = minted.id /\ s.id \in used
        /\ \A v \in Everything : \A t \in v.sidecars : t.id # s.id
    BY <1>7 DEF WriteSidecar, Sidecars, Records, Typed, JobTyped, Built,
       IdsMinted
  <2>3. JobTyped'
    BY <1>7 DEF WriteSidecar, Typed, JobTyped, Built
  <2> HIDE DEF s
  <2>4. /\ root' \in Volumes /\ root'.sidecars = root.sidecars \cup {s}
        /\ UNCHANGED <<away, records, known, used>> /\ pc' = "register"
    BY <1>7, <2>1, <2>2, RootUpdates DEF WriteSidecar, Typed, TypeOK
  <2>5. \A v \in Everything' : \A t \in v.sidecars :
          t = s \/ \E w \in Everything : t \in w.sidecars
    BY <2>4 DEF Everything
  <2>6. TypeOK' /\ IdsMinted'
    BY <2>2, <2>4, <2>5 DEF Typed, TypeOK, IdsMinted
  <2> QED
    BY <2>3, <2>6 DEF Typed
<1>8. CASE Register
  <2>1. JobTyped'
    BY <1>8 DEF Register, Typed, JobTyped, Built
  <2>2. /\ records' = records \cup {minted}
        /\ minted \in Records /\ minted.id \in used
        /\ UNCHANGED <<root, away, used, known>> /\ pc' = "answer"
    BY <1>8 DEF Register, Typed, JobTyped, Built
  <2> QED
    BY <2>1, <2>2 DEF Typed, TypeOK, IdsMinted, Everything
<1>9. CASE \/ Construct \/ FindInitialised \/ FindNoRecords \/ FindLostVolume
           \/ FindUndetermined \/ Ready
  <2>1. /\ phase # "up" \/ phase' = "up"
        /\ phase' \in {"starting", "initialising", "up", phase}
        /\ known' \in BOOLEAN
    BY <1>9 DEF Construct, FindInitialised, FindNoRecords, FindLostVolume,
       FindUndetermined, Ready, Typed, TypeOK, BackingPresent, Volumes
  <2>2. JobTyped'
    BY <1>9, <2>1, Start DEF Typed, JobTyped, Built, Quiet
  <2> QED
    BY <1>9, <2>1, <2>2, Start, QuietTyped
<1>10. CASE InitialiseFirst
  <2>1. JobTyped'
    BY <1>10 DEF InitialiseFirst, job, Typed, JobTyped, Built
  <2>2. /\ root' \in Volumes /\ root'.sidecars = root.sidecars
        /\ UNCHANGED <<away, records, used>> /\ known' /\ pc' = "idle"
    BY <1>10, RootUpdates
       DEF InitialiseFirst, Initialise, job, Typed, TypeOK, JobTyped
  <2> QED
    BY <2>1, <2>2 DEF Typed, TypeOK, IdsMinted, Everything
<1>11. CASE VolumeDisappears \/ VolumeReturns
  <2>1. JobTyped'
    BY <1>11 DEF VolumeDisappears, VolumeReturns, job, Typed, JobTyped, Built
  <2>2. /\ root' \in Volumes /\ away' \in Volumes \cup {None}
        /\ \A v \in Everything' : v.sidecars # {} => v \in Everything
    BY <1>11, EmptyVolumeFacts DEF VolumeDisappears, VolumeReturns, Everything,
       Typed, TypeOK
  <2>3. UNCHANGED <<records, used, known, pc, minted>>
    BY <1>11 DEF VolumeDisappears, VolumeReturns, job
  <2> QED
    BY <2>1, <2>2, <2>3 DEF Typed, TypeOK, IdsMinted
<1>12. ASSUME NEW c \in Contents, BlobIsDamaged(c) \/ BlobIsDeleted(c)
       PROVE  Typed'
  <2>1. JobTyped'
    BY <1>12 DEF BlobIsDamaged, BlobIsDeleted, job, Typed, JobTyped, Built
  <2>2. /\ root' \in Volumes /\ root'.sidecars = root.sidecars
        /\ UNCHANGED <<away, records, used, known, pc, minted>>
    BY <1>12, RootUpdates DEF BlobIsDamaged, BlobIsDeleted, job, Typed, TypeOK
  <2> QED
    BY <2>1, <2>2 DEF Typed, TypeOK, IdsMinted, Everything
<1>13. CASE UNCHANGED vars
  BY <1>13 DEF vars, Typed, TypeOK, JobTyped, Built, IdsMinted, Everything
<1> QED
  BY <1>1, <1>2, <1>3, <1>4, <1>5, <1>6, <1>7, <1>8, <1>9, <1>10, <1>11,
     <1>12, <1>13, StepCases

LEMMA TypedInvariant == Spec => []Typed
<1>1. Init => Typed
  BY EmptyVolumeFacts
     DEF Init, Typed, TypeOK, JobTyped, Built, IdsMinted, Everything, Labels
<1> QED
  BY <1>1, TypedStep, PTL DEF Spec

(* An id is on a volume only if it was minted, whatever became of the      *)
(* upload it was minted for.                                               *)
THEOREM TypeCorrect == Spec => []TypeOK
<1>1. Typed => TypeOK
  BY DEF Typed
<1> QED
  BY <1>1, TypedInvariant, PTL

-----------------------------------------------------------------------------
(* A recorded artifact is kept.                                            *)

(* Writing to the volume at the root harms nothing.                        *)
LEMMA KeptGrows ==
  ASSUME UNCHANGED <<away, harmed, parted>>,
         root.sidecars \subseteq root'.sidecars,
         root.blobs \ root.damaged \subseteq root'.blobs \ root'.damaged
  PROVE  /\ \A s : Kept(s) => Kept(s)'
         /\ HalfKept /\ UNCHANGED minted => HalfKept'
BY DEF HalfKept, Kept, Safe, SafeAway, Everything

(* Neither does a volume that goes away whole and returns whole.           *)
LEMMA KeptMoves ==
  ASSUME Typed, VolumeDisappears \/ VolumeReturns
  PROVE  /\ \A s : Kept(s) => Kept(s)'
         /\ pc = "sidecar" /\ HalfKept => HalfKept'
<1>1. /\ root # None /\ UNCHANGED <<harmed, minted>>
      /\ parted \subseteq parted'
  BY NoneIsNoVolume
     DEF Typed, TypeOK, VolumeDisappears, VolumeReturns, job, faults
<1>2. CASE VolumeDisappears
  BY <1>1, <1>2
     DEF VolumeDisappears, Kept, HalfKept, Safe, SafeAway, Everything
<1>3. CASE VolumeReturns
  BY <1>1, <1>3, EmptyVolumeFacts
     DEF VolumeReturns, Kept, HalfKept, Safe, SafeAway, Everything
<1> QED
  BY <1>2, <1>3

(* Harm to a file is remembered of every artifact that loses by it.        *)
LEMMA KeptOrHarmed ==
  ASSUME Typed, NEW c \in Contents, BlobIsDamaged(c) \/ BlobIsDeleted(c)
  PROVE  /\ \A s : Kept(s) => Kept(s)'
         /\ pc = "sidecar" /\ HalfKept => HalfKept'
<1>1. /\ root'.sidecars = root.sidecars
      /\ \A d : d # c /\ Safe(d, root) => Safe(d, root)'
      /\ UNCHANGED <<away, minted, parted>>
      /\ harmed' = harmed \cup Affected(c)
  <2>1. CASE BlobIsDamaged(c)
    BY <2>1, RootUpdates DEF BlobIsDamaged, job, Typed, TypeOK, Safe
  <2>2. CASE BlobIsDeleted(c)
    BY <2>2, RootUpdates DEF BlobIsDeleted, job, Typed, TypeOK, Safe
  <2> QED
    BY <2>1, <2>2
<1>2. \A s \in root.sidecars : s.content = c => s.id \in Affected(c)
  BY DEF Affected
<1>3. pc = "sidecar" /\ minted.content = c => minted.id \in Affected(c)
  BY DEF Affected
<1>4. \A d : SafeAway(d) => SafeAway(d)'
  BY <1>1 DEF SafeAway, Safe
<1>5. ASSUME NEW s, Kept(s)
      PROVE  Kept(s)'
  <2>1. \E v \in Everything' : s \in v.sidecars
    BY <1>1, <1>5 DEF Kept, Everything
  <2>2. \/ s.id \in harmed'
        \/ s \in root'.sidecars /\ Safe(s.content, root)'
        \/ SafeAway(s.content)' /\ (s \in away'.sidecars \/ s.id \in parted')
    BY <1>1, <1>2, <1>4, <1>5 DEF Kept
  <2> QED
    BY <2>1, <2>2 DEF Kept
<1>6. pc = "sidecar" /\ HalfKept => HalfKept'
  BY <1>1, <1>3, <1>4 DEF HalfKept
<1> QED
  BY <1>5, <1>6

LEMMA StoredStep ==
  ASSUME Typed, Stored, [Next]_vars
  PROVE  Stored'
<1> USE DEF Stored
<1>1. ASSUME Quiet, Minted' => Minted /\ UNCHANGED minted, pc' # "sidecar"
      PROVE  Stored'
  BY <1>1 DEF Quiet, Kept, Safe, SafeAway, Everything
<1>2. ASSUME NEW u \in Uploads, Receive(u)
      PROVE  Stored'
  BY <1>1, <1>2 DEF Receive, Quiet, faults, Minted
<1>3. CASE \/ AnswerFromRecord \/ WriteFails \/ RefuseToRegister \/ Answer
           \/ MetadataFails \/ Crash
  BY <1>1, <1>3, EndOfUpload DEF Minted
<1>4. CASE FindNothing \/ CheckStore
  BY <1>1, <1>4 DEF FindNothing, CheckStore, Refused, Finish, Quiet, faults,
     Minted
<1>5. CASE InitialiseLazily
  <2>1. \A s : Kept(s) => Kept(s)'
    BY <1>5, RootUpdates, KeptGrows
       DEF InitialiseLazily, Initialise, faults, Typed, TypeOK
  <2> QED
    BY <1>5, <2>1 DEF InitialiseLazily, faults, Minted
<1>6. CASE StoreBlob
  <2>1. CASE upload.content \in root.damaged
    BY <1>1, <1>6, <2>1 DEF StoreBlob, Refused, Finish, Quiet, faults, Minted
  <2>2. CASE upload.content \notin root.damaged
    <3>1. /\ UNCHANGED <<away, records, harmed, parted>> /\ pc' = "sidecar"
          /\ minted'.content = upload.content
          /\ root'.sidecars = root.sidecars /\ root'.damaged = root.damaged
          /\ root'.blobs = root.blobs \cup {upload.content}
      BY <1>6, <2>2, RecordBuilt DEF Typed, TypeOK
    <3>2. \A s : Kept(s) => Kept(s)'
      BY <3>1, KeptGrows
    <3>3. HalfKept'
      BY <2>2, <3>1 DEF HalfKept, Safe
    <3> QED
      BY <3>1, <3>2, <3>3 DEF Minted
  <2> QED
    BY <2>1, <2>2
<1>7. CASE WriteSidecar
  <2>1. PICK s : s = SidecarOf(minted)
    OBVIOUS
  <2>2. /\ pc = "sidecar" /\ pc' = "register"
        /\ UNCHANGED <<away, records, harmed, parted, minted>>
    BY <1>7 DEF WriteSidecar, faults
  <2>3. /\ s \in Sidecars /\ s.id = minted.id /\ s.content = minted.content
    BY <2>1, <2>2 DEF Sidecars, SidecarOf, Typed, JobTyped, Built, Records
  <2>4. /\ root'.sidecars = root.sidecars \cup {s}
        /\ root'.blobs = root.blobs /\ root'.damaged = root.damaged
    <3>1. root' = [root EXCEPT !.sidecars = @ \cup {s}]
      BY <1>7, <2>1 DEF WriteSidecar, SidecarOf
    <3> QED
      BY <2>3, <3>1, RootUpdates DEF Typed, TypeOK
  <2>5. \A x : Kept(x) => Kept(x)'
    BY <2>2, <2>4, KeptGrows
  <2>6. Kept(s)'
    BY <2>2, <2>3, <2>4 DEF HalfKept, Kept, Safe, SafeAway, Everything
  <2> QED
    BY <2>1, <2>2, <2>5, <2>6 DEF SidecarOf
<1>8. CASE Register
  <2>1. /\ records' = records \cup {minted} /\ Minted
        /\ UNCHANGED <<root, away, harmed, parted, minted>>
        /\ pc' = "answer"
    BY <1>8 DEF Register, faults, Minted
  <2>2. \A s : Kept(s) => Kept(s)'
    BY <2>1 DEF Kept, Safe, SafeAway, Everything
  <2> QED
    BY <2>1, <2>2 DEF SidecarOf
<1>9. CASE \/ Construct \/ FindInitialised \/ FindNoRecords \/ FindLostVolume
           \/ FindUndetermined \/ Ready
  BY <1>9, Start
     DEF Quiet, Minted, Kept, HalfKept, Safe, SafeAway, Everything, SidecarOf
<1>10. CASE InitialiseFirst
  <2>1. \A s : Kept(s) => Kept(s)'
    BY <1>10, RootUpdates, KeptGrows
       DEF InitialiseFirst, Initialise, faults, Typed, TypeOK
  <2>2. pc # "sidecar" /\ ~Minted
    BY <1>10 DEF InitialiseFirst, Typed, JobTyped, Minted
  <2> QED
    BY <1>10, <2>1, <2>2 DEF InitialiseFirst, job, Minted, SidecarOf
<1>11. CASE VolumeDisappears \/ VolumeReturns
  <2>1. UNCHANGED <<records, pc, minted>>
    BY <1>11 DEF VolumeDisappears, VolumeReturns, job
  <2> QED
    BY <1>11, <2>1, KeptMoves DEF Minted, SidecarOf
<1>12. ASSUME NEW c \in Contents, BlobIsDamaged(c) \/ BlobIsDeleted(c)
       PROVE  Stored'
  <2>1. UNCHANGED <<records, pc, minted>>
    BY <1>12 DEF BlobIsDamaged, BlobIsDeleted, job
  <2> QED
    BY <1>12, <2>1, KeptOrHarmed DEF Minted, SidecarOf
<1>13. CASE UNCHANGED vars
  BY <1>13
     DEF vars, Minted, Kept, HalfKept, Safe, SafeAway, Everything, SidecarOf
<1> QED
  BY <1>2, <1>3, <1>4, <1>5, <1>6, <1>7, <1>8, <1>9, <1>10, <1>11, <1>12,
     <1>13, StepCases

LEMMA StoredInvariant == Spec => []Stored
<1>1. Init => Stored
  BY DEF Init, Stored, Minted
<1> QED
  BY <1>1, StoredStep, TypedInvariant, PTL DEF Spec

(* What is registered can be retrieved: at whatever step uploads were      *)
(* killed or failed, one volume, at the root or away, has the sidecar of a *)
(* record and its bytes, unless these were harmed later; only of those     *)
(* whose volume disappeared within their upload it may take two.           *)
THEOREM RecordsAreStored == Spec => []RecordedIsStored
<1>1. ASSUME Stored, NEW r \in records
      PROVE  \E v, w \in Everything :
               /\ SidecarOn(r, v)
               /\ r.id \in harmed \/ BytesOn(r, w)
               /\ r.id \notin parted => v = w
  <2>1. /\ SidecarOf(r).id = r.id /\ SidecarOf(r).content = r.content
        /\ Kept(SidecarOf(r))
    BY <1>1 DEF Stored, SidecarOf
  <2>2. \A v : SidecarOf(r) \in v.sidecars <=> SidecarOn(r, v)
    BY DEF SidecarOn, SidecarOf
  <2>3. \A v : Safe(r.content, v) <=> BytesOn(r, v)
    BY DEF Safe, BytesOn
  <2> QED
    BY <2>1, <2>2, <2>3 DEF Kept, SafeAway, Everything
<1>2. Stored => RecordedIsStored
  BY <1>1 DEF RecordedIsStored
<1> QED
  BY <1>2, StoredInvariant, PTL

-----------------------------------------------------------------------------
(* Downloads are faithful.                                                 *)

LEMMA VouchedStep ==
  ASSUME Typed, Stored, Vouched, [Next]_vars
  PROVE  Vouched'
<1> SUFFICES ASSUME ~blind'
             PROVE  /\ phase' = "up" => known'
                    /\ pc' # "initialise"
                    /\ phase' = "initialising" => records' = {}
                    /\ root'.layout
                       => /\ \A r \in records' :
                               SidecarOf(r) \in root'.sidecars
                          /\ Minted' => SidecarOf(minted') \in root'.sidecars
  BY DEF Vouched, SidecarOf
<1>1. ~blind
  BY StepCases DEF Receive, AnswerFromRecord, FindNothing, CheckStore,
     InitialiseLazily, StoreBlob, BuildRecord, WriteFails, WriteSidecar,
     Register, RefuseToRegister, Answer, MetadataFails, Ready, Construct,
     FindInitialised, FindNoRecords, InitialiseFirst, FindLostVolume,
     FindUndetermined, VolumeDisappears, VolumeReturns, Crash, BlobIsDamaged,
     BlobIsDeleted, Refused, Acknowledge, vars
<1>2. /\ phase = "up" => known
      /\ pc # "initialise"
      /\ phase = "initialising" => records = {}
      /\ root.layout => /\ \A r \in records : SidecarOf(r) \in root.sidecars
                        /\ Minted => SidecarOf(minted) \in root.sidecars
  BY <1>1 DEF Vouched
<1>3. ASSUME NEW u \in Uploads, Receive(u)
      PROVE  Vouched'
  BY <1>2, <1>3 DEF Receive, Vouched, Minted, SidecarOf
<1>4. CASE \/ AnswerFromRecord \/ WriteFails \/ RefuseToRegister \/ Answer
           \/ MetadataFails \/ Crash
  BY <1>2, <1>4, EndOfUpload DEF Quiet, Minted
<1>5. CASE FindNothing \/ CheckStore
  <2>1. UNCHANGED <<root, records, phase>> /\ ~Minted' /\ (known => known')
    BY <1>5 DEF FindNothing, CheckStore, Refused, Finish, Minted
  <2>2. pc' # "initialise"
    BY <1>2, <1>5 DEF FindNothing, CheckStore, Refused, Finish, Typed,
       JobTyped, Vanished
  <2> QED
    BY <1>2, <2>1, <2>2
<1>6. CASE InitialiseLazily
  BY <1>2, <1>6 DEF InitialiseLazily
<1>7. CASE StoreBlob
  <2>1. CASE upload.content \in root.damaged
    BY <1>2, <1>7, <2>1 DEF StoreBlob, Refused, Finish, Minted
  <2>2. CASE upload.content \notin root.damaged
    <3>1. /\ UNCHANGED <<records, phase, known>> /\ pc' = "sidecar"
          /\ root'.layout = root.layout /\ root'.sidecars = root.sidecars
      BY <1>7, <2>2, RecordBuilt DEF Typed, TypeOK
    <3> QED
      BY <1>2, <3>1 DEF Minted
  <2> QED
    BY <2>1, <2>2
<1>8. CASE WriteSidecar
  <2>1. PICK s : s = SidecarOf(minted)
    OBVIOUS
  <2>2. s \in Sidecars
    BY <1>8, <2>1 DEF WriteSidecar, Sidecars, SidecarOf, Typed, JobTyped,
       Built, Records
  <2>3. root' = [root EXCEPT !.sidecars = @ \cup {s}]
    BY <1>8, <2>1 DEF WriteSidecar, SidecarOf
  <2>4. /\ root'.layout = root.layout
        /\ root'.sidecars = root.sidecars \cup {s}
    BY <2>2, <2>3, RootUpdates DEF Typed, TypeOK
  <2>5. UNCHANGED <<records, phase, known, minted>> /\ pc' = "register"
    BY <1>8 DEF WriteSidecar
  <2> QED
    BY <1>2, <2>1, <2>4, <2>5
<1>9. CASE Register
  <2>1. /\ records' = records \cup {minted} /\ Minted
        /\ UNCHANGED <<root, phase, known, minted>> /\ pc' = "answer"
    BY <1>9 DEF Register, Minted
  <2>2. phase' # "initialising"
    BY <1>9 DEF Register, Typed, JobTyped
  <2> QED
    BY <1>2, <2>1, <2>2
<1>10. CASE \/ Construct \/ FindInitialised \/ FindNoRecords \/ FindLostVolume
            \/ Ready
  <2>1. /\ phase' = "up" => known'
        /\ phase' = "initialising" => records = {}
    BY <1>2, <1>10 DEF Construct, FindInitialised, FindNoRecords,
       FindLostVolume, Ready
  <2> QED
    BY <1>2, <1>10, <2>1, Start DEF Quiet, Minted
<1>11. CASE FindUndetermined
  <2>1. known' /\ phase' = "up"
    BY <1>11 DEF FindUndetermined
  <2> QED
    BY <1>2, <1>11, <2>1, Start DEF Quiet, Minted
<1>12. CASE InitialiseFirst
  <2>1. records = {} /\ ~Minted /\ pc = "idle"
    BY <1>2, <1>12 DEF InitialiseFirst, Typed, JobTyped, Minted
  <2> QED
    BY <1>12, <2>1 DEF InitialiseFirst, Initialise, job, Minted
<1>13. CASE VolumeDisappears
  BY <1>2, <1>13, EmptyVolumeFacts DEF VolumeDisappears, job
<1>14. CASE VolumeReturns
  <2>1. \A s : Kept(s) => s \in root'.sidecars
    BY <1>14, EmptyVolumeFacts DEF VolumeReturns, Kept, Everything
  <2>2. UNCHANGED <<records, phase, known, pc, minted>>
    BY <1>14 DEF VolumeReturns, job
  <2> QED
    BY <1>2, <2>1, <2>2 DEF Stored, Minted
<1>15. ASSUME NEW c \in Contents, BlobIsDamaged(c) \/ BlobIsDeleted(c)
       PROVE  /\ root'.layout = root.layout /\ root'.sidecars = root.sidecars
              /\ UNCHANGED <<records, phase, known, pc, minted>>
  <2>1. root'.layout = root.layout /\ root'.sidecars = root.sidecars
    BY <1>15, RootUpdates DEF BlobIsDamaged, BlobIsDeleted, Typed, TypeOK
  <2> QED
    BY <1>15, <2>1 DEF BlobIsDamaged, BlobIsDeleted, job
<1>16. CASE \/ \E c \in Contents : BlobIsDamaged(c) \/ BlobIsDeleted(c)
            \/ UNCHANGED vars
  <2>1. /\ root'.layout = root.layout /\ root'.sidecars = root.sidecars
        /\ UNCHANGED <<records, phase, known, pc, minted>>
    BY <1>15, <1>16 DEF vars
  <2> QED
    BY <1>2, <2>1 DEF Minted
<1>17. CASE \E u \in Uploads : Receive(u)
  BY <1>3, <1>17 DEF Vouched, SidecarOf
<1> QED
  BY <1>4, <1>5, <1>6, <1>7, <1>8, <1>9, <1>10, <1>11, <1>12, <1>13, <1>14,
     <1>16, <1>17, StepCases

LEMMA VouchedInvariant == Spec => []Vouched
<1>1. Init => Vouched
  BY EmptyVolumeFacts DEF Init, Vouched, Minted
<1> QED
  BY <1>1, VouchedStep, TypedInvariant, StoredInvariant, PTL DEF Spec

(* A registered artifact is downloaded as the bytes it was registered for  *)
(* or answered with an error, and while its volume is away with 503, not   *)
(* 404, unless a start could not ask whether anything was registered.      *)
THEOREM DownloadsAreFaithful == Spec => []DownloadIsFaithful
<1>1. ASSUME Typed, Stored, Vouched
      PROVE  DownloadIsFaithful
  <2> SUFFICES ASSUME phase = "up", NEW r \in records
               PROVE  /\ Download(r.id).status = "served"
                         => Download(r.id).content = r.content
                      /\ ~blind => Download(r.id).status # "not_registered"
    BY DEF DownloadIsFaithful
  <2>1. r \in Records
    BY <1>1 DEF Typed, TypeOK
  <2>2. /\ SidecarOf(r).id = r.id /\ SidecarOf(r).content = r.content
        /\ Kept(SidecarOf(r))
    BY <1>1 DEF SidecarOf, Stored
  <2>3. CASE \E s \in root.sidecars : s.id = r.id
    <3> DEFINE s == CHOOSE t \in root.sidecars : t.id = r.id
    <3>1. s \in root.sidecars /\ s.id = r.id
      BY <2>3
    <3>2. s.content = r.content
      BY <1>1, <2>2, <3>1 DEF Typed, IdsMinted, Kept, Everything
    <3>3. Stat(r.id) = "found"
      BY <2>3 DEF Stat
    <3>4. Download(r.id) \in {Failed("unavailable"),
                              Failed("checksum_mismatch"), Served(r.content)}
      BY <3>2, <3>3 DEF Download
    <3> QED
      BY <3>4 DEF Failed, Served
  <2>4. CASE ~\E s \in root.sidecars : s.id = r.id
    <3>1. Stat(r.id) # "found" /\ Download(r.id) = Failed(Stat(r.id))
      BY <2>4 DEF Stat, Download
    <3>2. Download(r.id).status = Stat(r.id) /\ Stat(r.id) # "served"
      BY <2>4, <3>1 DEF Failed, Stat
    <3>3. ASSUME ~blind
          PROVE  Stat(r.id) = "unavailable"
      <4>1. known /\ ~root.layout
        BY <1>1, <2>2, <2>4, <3>3 DEF Vouched
      <4> QED
        BY <2>4, <4>1 DEF Stat, Vanished, BackingPresent
    <3> QED
      BY <3>2, <3>3
  <2> QED
    BY <2>3, <2>4
<1> QED
  BY <1>1, TypedInvariant, StoredInvariant, VouchedInvariant, PTL

-----------------------------------------------------------------------------
(* Keys and answers.                                                       *)

(* Only Register writes a record, only StoreBlob mints an id, and the      *)
(* upload does not change under way.                                       *)
LEMMA WhoWrites ==
  ASSUME [Next]_vars
  PROVE  /\ records' = records \/ Register
         /\ used' = used \/ StoreBlob
         /\ upload' = upload \/ pc' \in {"find", "idle"}
         /\ \/ pc' \in {pc, "idle", "find", "answer"}
            \/ FindNothing \/ CheckStore \/ InitialiseLazily \/ StoreBlob
            \/ WriteSidecar
<1>1. CASE \/ AnswerFromRecord \/ WriteFails \/ RefuseToRegister \/ Answer
           \/ MetadataFails \/ Crash
  BY <1>1, EndOfUpload DEF Quiet
<1>2. CASE \/ Construct \/ FindInitialised \/ FindNoRecords \/ FindLostVolume
           \/ FindUndetermined \/ Ready
  BY <1>2, Start DEF Quiet
<1>3. CASE \/ VolumeDisappears \/ VolumeReturns \/ InitialiseFirst
           \/ \E c \in Contents : BlobIsDamaged(c) \/ BlobIsDeleted(c)
           \/ UNCHANGED vars
  BY <1>3 DEF VolumeDisappears, VolumeReturns, InitialiseFirst, BlobIsDamaged,
     BlobIsDeleted, job, vars
<1>4. CASE \/ \E u \in Uploads : Receive(u)
           \/ FindNothing \/ CheckStore \/ InitialiseLazily \/ StoreBlob
  BY <1>4 DEF Receive, FindNothing, CheckStore, InitialiseLazily, StoreBlob,
     BuildRecord, Refused, Finish
<1>5. CASE WriteSidecar \/ Register
  BY <1>5 DEF WriteSidecar, Register
<1> QED
  BY <1>1, <1>2, <1>3, <1>4, <1>5, StepCases

(* What the lookup of the key read still holds when the id is minted and   *)
(* the record written, since uploads run one at a time.                    *)
KeyStaysFree ==
  pc \in {"check", "initialise", "blob", "sidecar", "register"}
    => Keyed(upload.key) = {}

LEMMA KeyStaysFreeStep ==
  ASSUME KeyStaysFree, [Next]_vars
  PROVE  KeyStaysFree'
<1> SUFFICES ASSUME pc' \in {"check", "initialise", "blob", "sidecar",
                             "register"}
             PROVE  Keyed(upload.key)' = {}
  BY DEF KeyStaysFree
<1>1. UNCHANGED <<records, upload>>
  BY WhoWrites DEF Register
<1>2. Keyed(upload.key) = {}
  BY WhoWrites DEF KeyStaysFree, FindNothing, CheckStore, InitialiseLazily,
     StoreBlob, WriteSidecar
<1> QED
  BY <1>1, <1>2 DEF Keyed

LEMMA KeyStaysFreeInvariant == Spec => []KeyStaysFree
<1>1. Init => KeyStaysFree
  BY DEF Init, KeyStaysFree
<1> QED
  BY <1>1, KeyStaysFreeStep, PTL DEF Spec

(* A resubmission under a key that has a record mints no id.               *)
THEOREM ResubmissionsMintNothing == Spec => ResubmissionMintsNothing
<1>1. KeyStaysFree /\ [Next]_vars
      => [pc # "idle" /\ Keyed(upload.key) # {} => used' = used]_vars
  BY WhoWrites DEF StoreBlob, KeyStaysFree
<1> QED
  BY <1>1, KeyStaysFreeInvariant, PTL DEF Spec, ResubmissionMintsNothing

LEMMA AcknowledgedStep ==
  ASSUME Typed, AcknowledgedAsDeclared, [Next]_vars
  PROVE  AcknowledgedAsDeclared'
<1>1. records \subseteq records'
  BY WhoWrites DEF Register
<1>2. ASSUME NEW id, Acknowledge(id), upload.honest,
             \E r \in records : r.id = id /\ r.content = upload.content
      PROVE  AcknowledgedAsDeclared'
  <2> DEFINE a == [content |-> upload.content, honest |-> upload.honest,
                   id |-> id]
  <2>1. a.honest /\ a.id = id /\ a.content = upload.content
    BY <1>2
  <2>2. acks' = acks \cup {a}
    BY <1>2 DEF Acknowledge
  <2> HIDE DEF a
  <2>3. \A b \in acks' : /\ b.honest
                         /\ \E r \in records : /\ r.id = b.id
                                               /\ r.content = b.content
    BY <1>2, <2>1, <2>2 DEF AcknowledgedAsDeclared
  <2> QED
    BY <1>1, <2>3 DEF AcknowledgedAsDeclared
<1>3. ASSUME UNCHANGED acks
      PROVE  AcknowledgedAsDeclared'
  BY <1>1, <1>3 DEF AcknowledgedAsDeclared
<1>4. CASE AnswerFromRecord
  BY <1>2, <1>3, <1>4 DEF AnswerFromRecord, Keyed, Refused
<1>5. CASE Answer
  <2>1. /\ upload.honest /\ minted \in records
        /\ minted.content = upload.content
    BY <1>5 DEF Answer, Typed, JobTyped, Built
  <2> QED
    BY <1>2, <1>5, <2>1 DEF Answer
<1>6. UNCHANGED acks \/ AnswerFromRecord \/ Answer
  BY StepCases DEF Receive, FindNothing, CheckStore, InitialiseLazily,
     StoreBlob, BuildRecord, WriteFails, WriteSidecar, Register,
     RefuseToRegister, MetadataFails, Ready, Construct, FindInitialised,
     FindNoRecords, InitialiseFirst, FindLostVolume, FindUndetermined,
     VolumeDisappears, VolumeReturns, Crash, BlobIsDamaged, BlobIsDeleted,
     Refused, Finish, vars
<1> QED
  BY <1>3, <1>4, <1>5, <1>6

(* A 201 answers bytes that are what they were declared to be, with the id *)
(* of a record of these very bytes.                                        *)
THEOREM AnswersAreAsDeclared == Spec => []AcknowledgedAsDeclared
<1>1. Init => AcknowledgedAsDeclared
  BY DEF Init, AcknowledgedAsDeclared
<1> QED
  BY <1>1, AcknowledgedStep, TypedInvariant, PTL DEF Spec
=============================================================================
