----------------------------- MODULE Migrations -----------------------------
(***************************************************************************)
(* apply_migrations (src/src/cer/metadata/migrations.py) on the scripts of *)
(* src/src/cer/metadata/schema, run by every process that constructs a     *)
(* SQLiteMetadataStore: processes that start at the same time on one       *)
(* database file, processes killed in the middle, and releases that are    *)
(* deployed one after the other.                                           *)
(*                                                                         *)
(* executescript() runs in autocommit, so every statement of a script is a *)
(* step of its own, and so is the row that records the script as applied.  *)
(* Of the scripts the model keeps the statements of each form: CREATE and  *)
(* DROP, which may be repeated, and ALTER TABLE ADD COLUMN, which may not. *)
(***************************************************************************)
EXTENDS Naturals, Sequences

CONSTANTS
  Processes,
  Builds,       (* releases: [upto, edited], see Checksum                  *)
  MaxCrashes

Versions == 1 .. 4

ASSUME BuildsAreReleases ==
  Builds \subseteq [upto : Versions, edited : {0} \cup Versions]
ASSUME MaxCrashesIsNatural == MaxCrashes \in Nat

VARIABLES
  objects,    (* tables, columns and indexes in the database file          *)
  recorded,   (* schema_migrations: pairs of a version and a checksum      *)
  build,      (* the release that is deployed                              *)
  pc,         (* where each process is                                     *)
  applied,    (* the rows of schema_migrations a process read              *)
  version,    (* the migration a process is at ...                         *)
  statement,  (* ... and how many statements of it it executed             *)
  raced,      (* history: have two processes migrated at the same time?    *)
  crashes

vars == <<objects, recorded, build, pc, applied, version, statement, raced,
          crashes>>

-----------------------------------------------------------------------------
(* The scripts.                                                            *)

Create(object) == [op |-> "create", object |-> object]
Drop(object)   == [op |-> "drop", object |-> object]
Add(object)    == [op |-> "add", object |-> object]

(* Fault: 002 and 003 leave their indexes to a later release.              *)
ScriptUnscoped ==
  << << Create("tables"), Create("global_key_index") >>,
     << Create("producer_key_index") >>,
     << Add("experiment_key"), Add("promotion_key"),
        Create("optional_key_index") >>,
     << Add("artifact_key"), Create("artifact_key_index") >> >>

(* 001 makes an idempotency key unique across producers, 002 within one;   *)
(* 003 and 004 give the other tables their key columns and indexes.        *)
Script ==
  << << Create("tables"), Create("global_key_index") >>,
     << Drop("global_key_index"), Create("producer_key_index") >>,
     << Add("experiment_key"), Add("promotion_key"),
        Create("optional_key_index") >>,
     << Add("artifact_key"), Create("artifact_key_index") >> >>

(* The bytes of the file of a version; an edited file has others.          *)
Checksum(v) == IF build.edited = v THEN "edited" ELSE "original"

(* What a version leaves in the schema for good.                           *)
Effect(v) ==
  {Script[v][i].object : i \in 1 .. Len(Script[v])} \ {"global_key_index"}

Required == UNION {Effect(v) : v \in 1 .. build.upto}

-----------------------------------------------------------------------------
Running == {p \in Processes : pc[p] = "migrating"}

(* CREATE TABLE IF NOT EXISTS schema_migrations, then one SELECT that all  *)
(* later decisions of this process rest on.                                *)
Start(p) ==
  /\ pc[p] \in {"down", "failed", "refused"}
  /\ pc' = [pc EXCEPT ![p] = "migrating"]
  /\ applied' = [applied EXCEPT ![p] = recorded]
  /\ version' = [version EXCEPT ![p] = 1]
  /\ statement' = [statement EXCEPT ![p] = 0]
  /\ raced' = (raced \/ Running # {})
  /\ UNCHANGED <<objects, recorded, build, crashes>>

(* Fault: the loop runs one version too far.                               *)
PendingTooFar(p) == version[p] <= build.upto + 1

Pending(p) == version[p] <= build.upto

KnownApplied(p) == \E row \in applied[p] : row[1] = version[p]

(* Fault: the recorded checksum is not compared.                           *)
SkipUnchecked(p) ==
  /\ pc[p] = "migrating" /\ Pending(p) /\ KnownApplied(p)
  /\ version' = [version EXCEPT ![p] = @ + 1]
  /\ UNCHANGED <<objects, recorded, build, pc, applied, statement, raced,
                 crashes>>

(* An applied migration is skipped if its file is still the recorded one.  *)
Skip(p) ==
  /\ pc[p] = "migrating" /\ Pending(p) /\ KnownApplied(p)
  /\ IF <<version[p], Checksum(version[p])>> \in applied[p]
     THEN version' = [version EXCEPT ![p] = @ + 1] /\ UNCHANGED pc
     ELSE pc' = [pc EXCEPT ![p] = "refused"] /\ UNCHANGED version
  /\ UNCHANGED <<objects, recorded, build, applied, statement, raced, crashes>>

Fails(s)  == s.op = "add" /\ s.object \in objects

Result(s) == IF s.op = "drop" THEN objects \ {s.object}
                              ELSE objects \cup {s.object}

(* One statement; a duplicate column ends the construction of the store.   *)
Execute(p) ==
  /\ pc[p] = "migrating" /\ Pending(p) /\ ~KnownApplied(p)
  /\ statement[p] < Len(Script[version[p]])
  /\ LET s == Script[version[p]][statement[p] + 1] IN
       IF Fails(s)
       THEN /\ pc' = [pc EXCEPT ![p] = "failed"]
            /\ UNCHANGED <<objects, statement>>
       ELSE /\ objects' = Result(s)
            /\ statement' = [statement EXCEPT ![p] = @ + 1]
            /\ UNCHANGED pc
  /\ UNCHANGED <<recorded, build, applied, version, raced, crashes>>

(* Fault: a version is recorded before its script has run to the end.      *)
RecordEarly(p) ==
  /\ pc[p] = "migrating" /\ Pending(p) /\ ~KnownApplied(p)
  /\ recorded' = IF \E row \in recorded : row[1] = version[p] THEN recorded
                 ELSE recorded \cup {<<version[p], Checksum(version[p])>>}
  /\ version' = [version EXCEPT ![p] = @ + 1]
  /\ statement' = [statement EXCEPT ![p] = 0]
  /\ UNCHANGED <<objects, build, pc, applied, raced, crashes>>

(* Fault: the tracking row is not committed.                               *)
RecordNothing(p) ==
  /\ pc[p] = "migrating" /\ Pending(p) /\ ~KnownApplied(p)
  /\ statement[p] = Len(Script[version[p]])
  /\ version' = [version EXCEPT ![p] = @ + 1]
  /\ statement' = [statement EXCEPT ![p] = 0]
  /\ UNCHANGED <<objects, recorded, build, pc, applied, raced, crashes>>

(* INSERT OR IGNORE: the first row of a version stays.                     *)
Record(p) ==
  /\ pc[p] = "migrating" /\ Pending(p) /\ ~KnownApplied(p)
  /\ statement[p] = Len(Script[version[p]])
  /\ recorded' = IF \E row \in recorded : row[1] = version[p] THEN recorded
                 ELSE recorded \cup {<<version[p], Checksum(version[p])>>}
  /\ version' = [version EXCEPT ![p] = @ + 1]
  /\ statement' = [statement EXCEPT ![p] = 0]
  /\ UNCHANGED <<objects, build, pc, applied, raced, crashes>>

Finish(p) ==
  /\ pc[p] = "migrating" /\ ~Pending(p)
  /\ pc' = [pc EXCEPT ![p] = "ready"]
  /\ UNCHANGED <<objects, recorded, build, applied, version, statement, raced,
                 crashes>>

-----------------------------------------------------------------------------
(* The process is killed, or a statement fails for a reason of its own     *)
(* (a full disk, a lock held too long).                                    *)
Crash(p) ==
  /\ pc[p] = "migrating" /\ crashes < MaxCrashes
  /\ pc' = [pc EXCEPT ![p] = "down"]
  /\ crashes' = crashes + 1
  /\ UNCHANGED <<objects, recorded, build, applied, version, statement, raced>>

(* A stopped process.                                                      *)
Stop(p) ==
  /\ pc[p] = "ready"
  /\ pc' = [pc EXCEPT ![p] = "down"]
  /\ UNCHANGED <<objects, recorded, build, applied, version, statement, raced,
                 crashes>>

(* Another release, newer or older, while nothing runs.                    *)
Deploy(b) ==
  /\ \A p \in Processes : pc[p] \notin {"migrating", "ready"}
  /\ build' = b
  /\ UNCHANGED <<objects, recorded, pc, applied, version, statement, raced,
                 crashes>>

Init ==
  /\ objects = {} /\ recorded = {}
  /\ build \in Builds
  /\ pc = [p \in Processes |-> "down"]
  /\ applied = [p \in Processes |-> {}]
  /\ version = [p \in Processes |-> 1]
  /\ statement = [p \in Processes |-> 0]
  /\ raced = FALSE /\ crashes = 0

Migrate(p) == Skip(p) \/ Execute(p) \/ Record(p) \/ Finish(p)

Next ==
  \/ \E p \in Processes : Start(p) \/ Migrate(p) \/ Crash(p) \/ Stop(p)
  \/ \E b \in Builds : Deploy(b)

(* A started process runs on, and the container is restarted when it is    *)
(* down.  Nothing is assumed of crashes, stops and deployments.            *)
Fairness == \A p \in Processes : WF_vars(Migrate(p)) /\ WF_vars(Start(p))

Spec == Init /\ [][Next]_vars /\ Fairness

-----------------------------------------------------------------------------
(* Properties.                                                             *)

(* Type invariant: one recorded row a version, and the position of a       *)
(* process is inside the release it runs.                                  *)
TypeOK ==
  /\ recorded \subseteq Versions \X {"original", "edited"}
  /\ \A r1, r2 \in recorded : r1[1] = r2[1] => r1 = r2
  /\ objects \subseteq (UNION {Effect(v) : v \in Versions})
                       \cup {"global_key_index"}
  /\ \A p \in Processes :
       /\ applied[p] \subseteq recorded
       /\ version[p] \in 1 .. 5
       /\ pc[p] = "migrating" => version[p] <= build.upto + 1

(* A version is recorded only after everything it adds is in the schema,   *)
(* whoever executed it: two racing processes and a crash between two       *)
(* statements included.  The next start skips a recorded version for good. *)
RecordedIsApplied == \A row \in recorded : Effect(row[1]) \subseteq objects

(* A store that was constructed finds every table, column and index its    *)
(* release needs, and no index that makes a key unique across producers,   *)
(* unless another process migrates beside it.                              *)
ReadyIsMigrated ==
  \A p \in Processes : pc[p] = "ready" =>
    /\ Required \subseteq objects
    /\ build.upto > 1 /\ ~raced => "global_key_index" \notin objects

(* A store never serves on migrations other than the recorded ones: an     *)
(* edited file is refused before anything of a later version is applied.   *)
Unedited ==
  \A row \in recorded : row[1] <= build.upto => row[2] = Checksum(row[1])

ReadyIsUnedited == \A p \in Processes : pc[p] = "ready" => Unedited

(* If a statement of 003 or 004 fails, two processes were racing           *)
(* (schema/003: `only two processes racing to apply this exact version to  *)
(* the same not-yet-migrated database could hit it').                      *)
OnlyRacersFail == \A p \in Processes : pc[p] = "failed" => raced

(* Without a crash, every process of a release whose files are the         *)
(* recorded ones is up in the end, the loser of a race by being started    *)
(* again: no interleaving of racers leaves a schema nobody can finish.     *)
EveryProcessComesUp ==
  \A p \in Processes :
    /\ [](crashes = 0) /\ <>[]Unedited
    /\ <>[][UNCHANGED build /\ \A q \in Processes : ~Stop(q)]_vars
    => <>[](pc[p] = "ready")
=============================================================================
