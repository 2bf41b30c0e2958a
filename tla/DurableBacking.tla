--------------------------- MODULE DurableBacking ---------------------------
(***************************************************************************)
(* What surrounds a write method of SQLiteMetadataStore                    *)
(* (src/src/cer/metadata/sqlite_store.py): the threads of the server, the  *)
(* connection each of them caches, the check of the durable backing,       *)
(* BEGIN IMMEDIATE and its busy timeout, COMMIT and the answer, while the  *)
(* database file or its directory disappears, the directory comes back,    *)
(* and the process is killed and started again.                            *)
(*                                                                         *)
(* A file is an inode number.  A connection is bound to the inode its path *)
(* named when it was opened and goes on reading and writing it after the   *)
(* path names nothing, or another file.  sqlite3.connect() on a missing    *)
(* path creates an empty file as long as the directory is there.           *)
(*                                                                         *)
(* The body of a write method is reduced to one table whose rows pair an   *)
(* idempotency key with what was submitted: EvidenceRegistry has the rest. *)
(***************************************************************************)
EXTENDS Naturals, FiniteSets

CONSTANTS
  Threads,      (* workers that run the synchronous route handlers         *)
  Keys, Bodies,
  Mishaps,      (* what may disappear: "file", "directory"                 *)
  MaxMishaps, MaxCrashes,
  None

ASSUME MishapKinds == Mishaps \subseteq {"file", "directory"}
ASSUME BoundsAreNaturals == MaxMishaps \in Nat /\ MaxCrashes \in Nat
ASSUME NoneIsNoThread == None \notin Threads

Gone   == 0                     (* the path names no file                  *)
Inodes == 1 .. (MaxMishaps + 1) (* a mishap makes room for one new file    *)
Rows   == [key : Keys, body : Bodies]

ASSUME SomethingToWrite == Rows # {}

VARIABLES
  path,      (* the inode the configured path names, or Gone               *)
  volume,    (* the inode inside a directory that is missing, or Gone      *)
  directory, (* is the parent directory there?                             *)
  made,      (* how many inodes were created                               *)
  schema,    (* the inodes that hold the migrated schema                   *)
  rows,      (* the committed rows of each inode                           *)
  lock,      (* the writer of each inode, or None                          *)
  up,        (* is the process running?                                    *)
  conn,      (* each thread's cached connection, or Gone                   *)
  probe,     (* the fresh connection of a health check, or Gone            *)
  pc, req,   (* where a thread is, and the row it was asked to write       *)
  pending,   (* what a thread's open transaction inserted                  *)
  seen,      (* history: what the check saw, <<inode, holds the schema>>   *)
  acks,      (* history: the answers 201, [row, seen]                      *)
  mishaps, crashes

disk   == <<path, volume, directory, made, schema>>
faults == <<mishaps, crashes>>
vars   == <<path, volume, directory, made, schema, rows, lock, up, conn,
            probe, pc, req, pending, seen, acks, mishaps, crashes>>

-----------------------------------------------------------------------------
(* Connections.                                                            *)

(* The inode that _open_connection binds, if it succeeds, and the file it  *)
(* creates on the way when the path names none.                            *)
CanOpen   == path # Gone \/ directory
Opened    == IF path # Gone THEN path ELSE made + 1
OpenFile  ==
  /\ path' = Opened
  /\ made' = IF path # Gone THEN made ELSE made + 1
  /\ UNCHANGED <<volume, directory, schema>>

(* _conn: the cached connection if this thread has one, else a new one.    *)
UseConnection(t) ==
  \/ /\ conn[t] # Gone
     /\ UNCHANGED <<disk, conn>>
  \/ /\ conn[t] = Gone
     /\ CanOpen
     /\ OpenFile
     /\ conn' = [conn EXCEPT ![t] = Opened]

CannotConnect(t) == conn[t] = Gone /\ ~CanOpen

Goto(t, label) == pc' = [pc EXCEPT ![t] = label]

-----------------------------------------------------------------------------
(* A write: _transaction and the method inside it.                         *)

Submit(t, r) ==
  /\ up /\ pc[t] = "idle"
  /\ req' = [req EXCEPT ![t] = r]
  /\ Goto(t, "check")
  /\ UNCHANGED <<disk, rows, lock, up, conn, probe, pending, seen, acks,
                 faults>>

(* Fault: the backing is not checked on the write path.                    *)
CheckNothing(t) ==
  /\ pc[t] = "check"
  /\ seen' = [seen EXCEPT ![t] = <<path, path \in schema>>]
  /\ Goto(t, "connect")
  /\ UNCHANGED <<disk, rows, lock, up, conn, probe, req, pending, acks,
                 faults>>

(* _require_durable_backing: the path exists, whatever it names.           *)
CheckBacking(t) ==
  /\ pc[t] = "check"
  /\ seen' = [seen EXCEPT ![t] = <<path, path \in schema>>]
  /\ Goto(t, IF path = Gone THEN "idle" ELSE "connect")
  /\ UNCHANGED <<disk, rows, lock, up, conn, probe, req, pending, acks,
                 faults>>

Connect(t) ==
  /\ pc[t] = "connect"
  /\ \/ UseConnection(t) /\ Goto(t, "begin")
     \/ CannotConnect(t) /\ Goto(t, "idle") /\ UNCHANGED <<disk, conn>>
  /\ UNCHANGED <<rows, lock, up, probe, req, pending, seen, acks, faults>>

(* Fault: a plain BEGIN, which leaves the lock to the first INSERT.        *)
BeginDeferred(t) ==
  /\ pc[t] = "begin"
  /\ lock' = [lock EXCEPT ![conn[t]] = t]
  /\ Goto(t, "body")
  /\ UNCHANGED <<disk, rows, up, conn, probe, req, pending, seen, acks,
                 faults>>

(* BEGIN IMMEDIATE takes the write lock of the file ...                    *)
Begin(t) ==
  /\ pc[t] = "begin"
  /\ lock[conn[t]] = None
  /\ lock' = [lock EXCEPT ![conn[t]] = t]
  /\ Goto(t, "body")
  /\ UNCHANGED <<disk, rows, up, conn, probe, req, pending, seen, acks,
                 faults>>

(* ... or gives up when it stays taken for busy_timeout_ms: 503.           *)
BusyTimeout(t) ==
  /\ pc[t] = "begin"
  /\ lock[conn[t]] # None
  /\ Goto(t, "idle")
  /\ UNCHANGED <<disk, rows, lock, up, conn, probe, req, pending, seen, acks,
                 faults>>

Keyed(t) == {r \in rows[conn[t]] : r.key = req[t].key}

(* Fault: an error leaves the transaction open.                            *)
ForgetRollback(t) == UNCHANGED lock /\ Goto(t, "idle")

Rollback(t) ==
  /\ lock' = [lock EXCEPT ![conn[t]] = None]
  /\ Goto(t, "idle")

(* The method: look the key up, insert if it is new, hand the stored row   *)
(* back if the body is the same, refuse otherwise.  Without the schema the *)
(* first SELECT fails.                                                     *)
Execute(t) ==
  /\ pc[t] = "body"
  /\ \/ /\ conn[t] \in schema
        /\ Keyed(t) \subseteq {req[t]}
        /\ pending' = [pending EXCEPT ![t] = {req[t]} \ Keyed(t)]
        /\ Goto(t, "commit")
        /\ UNCHANGED lock
     \/ /\ conn[t] \notin schema \/ ~(Keyed(t) \subseteq {req[t]})
        /\ Rollback(t)
        /\ UNCHANGED pending
  /\ UNCHANGED <<disk, rows, up, conn, probe, req, seen, acks, faults>>

(* A statement of the method fails, or the COMMIT does: ROLLBACK, 503.     *)
WriteFails(t) ==
  /\ pc[t] \in {"body", "commit"}
  /\ Rollback(t)
  /\ pending' = [pending EXCEPT ![t] = {}]
  /\ UNCHANGED <<disk, rows, up, conn, probe, req, seen, acks, faults>>

(* COMMIT is durable and releases the lock.                                *)
Commit(t) ==
  /\ pc[t] = "commit"
  /\ rows' = [rows EXCEPT ![conn[t]] = @ \cup pending[t]]
  /\ lock' = [lock EXCEPT ![conn[t]] = None]
  /\ pending' = [pending EXCEPT ![t] = {}]
  /\ Goto(t, "answer")
  /\ UNCHANGED <<disk, up, conn, probe, req, seen, acks, faults>>

(* 201 Created.                                                            *)
Answer(t) ==
  /\ pc[t] = "answer"
  /\ acks' = acks \cup {[row |-> req[t], seen |-> seen[t]]}
  /\ Goto(t, "idle")
  /\ UNCHANGED <<disk, rows, lock, up, conn, probe, req, pending, seen,
                 faults>>

-----------------------------------------------------------------------------
(* Reads do not check the backing, they only need a connection; one that   *)
(* finds neither file nor schema answers an error, but has connected.      *)
Read(t) ==
  /\ up /\ pc[t] = "idle"
  /\ UseConnection(t)
  /\ UNCHANGED <<rows, lock, up, probe, pc, req, pending, seen, acks, faults>>

(* health(): the path exists, ...                                          *)
HealthCheck(t) ==
  /\ up /\ pc[t] = "idle"
  /\ path # Gone
  /\ Goto(t, "open")
  /\ UNCHANGED <<disk, rows, lock, up, conn, probe, req, pending, seen, acks,
                 faults>>

(* ... a connection of its own opens, ...                                  *)
HealthOpen(t) ==
  /\ pc[t] = "open"
  /\ \/ /\ CanOpen
        /\ OpenFile
        /\ probe' = [probe EXCEPT ![t] = Opened]
        /\ Goto(t, "probe")
     \/ /\ ~CanOpen
        /\ Goto(t, "idle")
        /\ UNCHANGED <<disk, probe>>
  /\ UNCHANGED <<rows, lock, up, conn, req, pending, seen, acks, faults>>

(* Fault: an empty file passes for a store.                                *)
HealthyIfWritable(inode) == lock[inode] = None

(* ... finds the schema, and could begin a transaction.                    *)
Healthy(inode) == inode \in schema /\ lock[inode] = None

CloseProbe(t) == probe' = [probe EXCEPT ![t] = Gone] /\ Goto(t, "idle")

HealthProbe(t) ==
  /\ pc[t] = "probe"
  /\ \/ Healthy(probe[t]) /\ Goto(t, "ready") /\ UNCHANGED probe
     \/ ~Healthy(probe[t]) /\ CloseProbe(t)
  /\ UNCHANGED <<disk, rows, lock, up, conn, req, pending, seen, acks, faults>>

(* /ready answers 200.                                                     *)
HealthAnswer(t) ==
  /\ pc[t] = "ready"
  /\ CloseProbe(t)
  /\ UNCHANGED <<disk, rows, lock, up, conn, req, pending, seen, acks, faults>>

-----------------------------------------------------------------------------
(* The environment.                                                        *)

FileDisappears ==
  /\ "file" \in Mishaps /\ mishaps < MaxMishaps
  /\ path # Gone
  /\ path' = Gone
  /\ mishaps' = mishaps + 1
  /\ UNCHANGED <<volume, directory, made, schema, rows, lock, up, conn,
                 probe, pc, req, pending, seen, acks, crashes>>

(* An unmounted volume or a data directory moved away, with what is in it. *)
DirectoryDisappears ==
  /\ "directory" \in Mishaps /\ mishaps < MaxMishaps
  /\ directory
  /\ directory' = FALSE
  /\ path' = Gone
  /\ volume' = path
  /\ mishaps' = mishaps + 1
  /\ UNCHANGED <<made, schema, rows, lock, up, conn, probe, pc, req, pending,
                 seen, acks, crashes>>

DirectoryReturns ==
  /\ ~directory
  /\ directory' = TRUE
  /\ path' = volume
  /\ volume' = Gone
  /\ UNCHANGED <<made, schema, rows, lock, up, conn, probe, pc, req, pending,
                 seen, acks, faults>>

(* The kernel closes every descriptor: an open transaction is rolled back, *)
(* a committed one stays.                                                  *)
Crash ==
  /\ up /\ crashes < MaxCrashes
  /\ up' = FALSE
  /\ crashes' = crashes + 1
  /\ pc' = [t \in Threads |-> "idle"]
  /\ conn' = [t \in Threads |-> Gone]
  /\ probe' = [t \in Threads |-> Gone]
  /\ pending' = [t \in Threads |-> {}]
  /\ lock' = [i \in Inodes |-> None]
  /\ UNCHANGED <<disk, rows, req, seen, acks, mishaps>>

(* __init__: create the directory, open a bootstrap connection, migrate.   *)
Restart ==
  /\ ~up
  /\ up' = TRUE
  /\ directory' = TRUE
  /\ path' = Opened
  /\ made' = IF path # Gone THEN made ELSE made + 1
  /\ schema' = schema \cup {Opened}
  /\ volume' = Gone
  /\ UNCHANGED <<rows, lock, conn, probe, pc, req, pending, seen, acks,
                 faults>>

-----------------------------------------------------------------------------
(* A store that was constructed on a fresh directory.                      *)
Init ==
  /\ path = 1 /\ made = 1 /\ schema = {1}
  /\ volume = Gone /\ directory = TRUE
  /\ rows = [i \in Inodes |-> {}]
  /\ lock = [i \in Inodes |-> None]
  /\ up = TRUE
  /\ conn = [t \in Threads |-> Gone]
  /\ probe = [t \in Threads |-> Gone]
  /\ pc = [t \in Threads |-> "idle"]
  /\ req \in [Threads -> {CHOOSE r \in Rows : TRUE}]
  /\ pending = [t \in Threads |-> {}]
  /\ seen = [t \in Threads |-> <<Gone, FALSE>>]
  /\ acks = {}
  /\ mishaps = 0 /\ crashes = 0

Serve(t) ==
  \/ CheckBacking(t) \/ Connect(t) \/ Execute(t) \/ Commit(t) \/ Answer(t)
  \/ HealthOpen(t) \/ HealthProbe(t) \/ HealthAnswer(t)

Next ==
  \/ \E t \in Threads :
       \/ \E r \in Rows : Submit(t, r)
       \/ Serve(t) \/ Begin(t) \/ BusyTimeout(t) \/ WriteFails(t)
       \/ Read(t) \/ HealthCheck(t)
  \/ FileDisappears \/ DirectoryDisappears \/ DirectoryReturns
  \/ Crash \/ Restart

(* A started handler runs on, and one that waits for a lock that is        *)
(* released again and again gets it; callers retry; a supervisor restarts  *)
(* the process.  Nothing is assumed of mishaps, crashes, busy timeouts,    *)
(* failed statements, reads and health checks.                             *)
Fairness ==
  /\ \A t \in Threads : WF_vars(Serve(t)) /\ SF_vars(Begin(t))
  /\ \A r \in Rows : SF_vars(\E t \in Threads : Submit(t, r))
  /\ WF_vars(Restart)

Spec == Init /\ [][Next]_vars /\ Fairness

-----------------------------------------------------------------------------
(* Properties.                                                             *)

Labels == {"idle", "check", "connect", "begin", "body", "commit", "answer",
           "open", "probe", "ready"}

(* Type invariant: inodes are inodes, and a lock is held exactly by the    *)
(* thread that is inside a transaction on that inode.                      *)
TypeOK ==
  /\ path \in 0 .. made /\ volume \in 0 .. made /\ made \in Inodes
  /\ schema \subseteq 1 .. made
  /\ rows \in [Inodes -> SUBSET Rows]
  /\ conn \in [Threads -> 0 .. made] /\ probe \in [Threads -> 0 .. made]
  /\ pc \in [Threads -> Labels] /\ req \in [Threads -> Rows]
  /\ pending \in [Threads -> SUBSET Rows]
  /\ \A i \in Inodes, t \in Threads :
       lock[i] = t <=> conn[t] = i /\ pc[t] \in {"body", "commit"}

(* A row acknowledged by a write whose check saw the file is in that file  *)
(* whenever the path names it again: after a crash, after the directory    *)
(* came back, for every thread (sqlite_store.py 317-320: without the check *)
(* the store `would acknowledge 201 Created for evidence it has already    *)
(* lost').                                                                 *)
AcknowledgedIsOnDisk ==
  \A a \in acks : /\ a.seen[1] # Gone
                  /\ a.seen[1] = path => a.row \in rows[path]

(* The same, of the writes whose check saw a migrated store: what holds    *)
(* even when a read re-created the file.                                   *)
AcknowledgedInStoreIsOnDisk ==
  \A a \in acks : /\ a.seen[1] # Gone
                  /\ a.seen[2] /\ a.seen[1] = path => a.row \in rows[path]

(* A name of the ledger is a key in a file.                                *)
Entry(i, r)   == [name |-> <<i, r.key>>, body |-> r.body]
EntriesOnDisk == UNION {{Entry(i, r) : r \in rows[i]} : i \in Inodes}
AckedEntries  == {Entry(a.seen[1], a.row) : a \in {b \in acks : b.seen[2]}}

StoreLedger == INSTANCE WriteOnceLedger WITH
  entries <- EntriesOnDisk, answered <- AckedEntries

(* Lock, cached connections, lookup, COMMIT and answer implement one       *)
(* atomic submission, on every file there ever is: two threads never both  *)
(* find a key new, and a 201 whose check saw a migrated store at a file    *)
(* is backed by a row committed to that file and no other, mishaps,        *)
(* crashes and the retries after them included.                            *)
StoresImplementLedger == StoreLedger!Spec

(* Readiness and the write path agree: while /ready answers that the file  *)
(* at the path is a usable store, every connection any thread has cached,  *)
(* and will write to, is to that file.                                     *)
ReadyMeansWritesLand ==
  \A t, u \in Threads :
    pc[t] = "ready" /\ probe[t] = path => conn[u] \in {Gone, path}

(* If from some point on the process stays up, the path stays a migrated   *)
(* store, no wait for the lock lasts busy_timeout_ms and no statement      *)
(* fails, then every key that is retried is acknowledged: no transaction,  *)
(* refused and failed ones included, keeps the write lock, and a commit    *)
(* whose answer was lost in a crash is answered to the retry.              *)
EveryKeyIsAcknowledged ==
  /\ <>[](up /\ path \in schema)
  /\ <>[][\A t \in Threads : ~BusyTimeout(t) /\ ~WriteFails(t)]_vars
  => <>(\A k \in Keys : \E a \in acks : a.row.key = k)
=============================================================================
