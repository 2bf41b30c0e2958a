------------------------ MODULE DurableBackingProofs ------------------------
(***************************************************************************)
(* Proofs about DurableBacking, for any number of threads, keys and        *)
(* bodies, and any number of mishaps and crashes.                          *)
(***************************************************************************)
EXTENDS DurableBacking, TLAPS

Connected == {"begin", "body", "commit"}
InTransaction == {"body", "commit"}
Writing == {"connect", "begin", "body", "commit", "answer"}

-----------------------------------------------------------------------------
(* The inductive invariant.                                                *)

(* The path and a directory that is away name the newest file or none;     *)
(* each file but the first was made in place of one that disappeared.      *)
Newest ==
  /\ path \in {Gone, made} /\ volume \in {Gone, made}
  /\ IF directory THEN volume = Gone ELSE path = Gone
  /\ made \in Nat \ {0} /\ mishaps \in 0 .. MaxMishaps
  /\ made <= mishaps + (IF path = Gone THEN 0 ELSE 1)

Typed ==
  /\ TypeOK /\ Newest
  /\ directory \in BOOLEAN
  /\ lock \in [Inodes -> Threads \cup {None}]
  /\ seen \in [Threads -> (0 .. made) \X BOOLEAN]
  /\ \A t \in Threads : pc[t] \in Connected => conn[t] # Gone

(* The migrated file that this process found or made when it started.      *)
Current(i) == i \in schema /\ \A j \in schema : j <= i

(* Of the migrated files a process and its threads know this one only, and *)
(* while it is the newest of all, no thread is connected to another.       *)
OneStore ==
  /\ ~up => \A t \in Threads : conn[t] = Gone /\ pc[t] = "idle"
  /\ \A t \in Threads : conn[t] \in schema => Current(conn[t])
  /\ \A t \in Threads : pc[t] \in Writing =>
       seen[t][1] # Gone /\ (seen[t][2] => Current(seen[t][1]))
  /\ made \in schema => \A t \in Threads : conn[t] \in {Gone, made}
  /\ \A t \in Threads : pc[t] = "ready" => probe[t] \in schema

(* What a transaction read is still so when it commits, and what it        *)
(* committed is in the file its check saw.                                 *)
Serialised ==
  /\ \A i \in Inodes : \A r, s \in rows[i] : r.key = s.key => r = s
  /\ \A t \in Threads : pc[t] = "commit" =>
       /\ conn[t] \in schema
       /\ Keyed(t) \subseteq {req[t]}
       /\ pending[t] = {req[t]} \ Keyed(t)
  /\ \A t \in Threads : pc[t] = "answer" /\ seen[t][2] =>
       req[t] \in rows[seen[t][1]]
  /\ \A a \in acks :
       /\ a.row \in Rows /\ a.seen[1] \in Inodes
       /\ a.seen[2] => a.row \in rows[a.seen[1]]

-----------------------------------------------------------------------------
(* Steps.                                                                  *)

LEMMA StepCases ==
  ASSUME [Next]_vars
  PROVE  \/ \E t \in Threads : \/ \E r \in Rows : Submit(t, r)
                               \/ CheckBacking(t) \/ Connect(t) \/ Begin(t)
                               \/ BusyTimeout(t) \/ Execute(t) \/ Commit(t)
                               \/ Answer(t) \/ Read(t) \/ HealthCheck(t)
                               \/ HealthOpen(t) \/ HealthProbe(t)
                               \/ HealthAnswer(t) \/ WriteFails(t)
         \/ FileDisappears \/ DirectoryDisappears \/ DirectoryReturns
         \/ Crash \/ Restart
         \/ UNCHANGED vars
BY DEF Next, Serve

(* The inodes there are.                                                   *)
LEMMA InodeRange ==
  ASSUME Typed
  PROVE  /\ 1 .. made \subseteq Inodes
         /\ \A t \in Threads : conn[t] # Gone => conn[t] \in Inodes
         /\ \A t \in Threads : probe[t] # Gone => probe[t] \in Inodes
BY BoundsAreNaturals DEF Typed, TypeOK, Inodes, Gone

(* What opening a connection, the one step that may create a file, does.   *)
LEMMA OpenedIsNewest ==
  ASSUME Typed, CanOpen, OpenFile, UNCHANGED mishaps
  PROVE  /\ Opened = path' /\ path' = made' /\ made' \in Inodes
         /\ made <= made' /\ (made' \in schema => made' = made)
         /\ Newest' /\ schema' = schema
<1>1. CASE path # Gone
  BY <1>1 DEF OpenFile, Opened, Typed, Newest, TypeOK, Gone
<1>2. CASE path = Gone
  <2>1. directory /\ made + 1 \in Inodes
    BY <1>2, BoundsAreNaturals DEF CanOpen, Typed, Newest, Inodes, Gone
  <2> QED
    BY <1>2, <2>1 DEF OpenFile, Opened, Typed, Newest, TypeOK, Gone
<1> QED
  BY <1>1, <1>2

(* Steps that touch no file, with no thread entering or leaving a          *)
(* transaction.                                                            *)
LEMMA LocksKept ==
  ASSUME Typed, NEW t \in Threads, NEW label \in Labels,
         UNCHANGED <<disk, rows, lock, conn, pending, mishaps>>,
         Goto(t, label),
         pc[t] \notin InTransaction, label \notin InTransaction,
         label \in Connected => conn[t] # Gone,
         probe' \in [Threads -> 0 .. made], req' \in [Threads -> Rows],
         seen' \in [Threads -> (0 .. made) \X BOOLEAN]
  PROVE  Typed'
<1>1. \A u \in Threads : pc'[u] = pc[u] \/ (u = t /\ pc'[u] = label)
  BY DEF Goto, Typed, TypeOK
<1>2. pc' \in [Threads -> Labels]
  BY DEF Goto, Typed, TypeOK
<1>3. UNCHANGED <<path, volume, directory, made, schema>>
  BY DEF disk
<1>4. Newest'
  BY <1>3 DEF Typed, Newest
<1>5. TypeOK'
  BY <1>1, <1>2, <1>3 DEF Typed, TypeOK, InTransaction, Goto
<1> QED
  BY <1>1, <1>3, <1>4, <1>5 DEF Typed

(* A thread that begins a transaction takes the lock of its file.          *)
LEMMA LockTaken ==
  ASSUME Typed, NEW t \in Threads, Begin(t)
  PROVE  Typed'
<1>1. /\ pc[t] = "begin" /\ conn[t] \in Inodes /\ lock[conn[t]] = None
      /\ UNCHANGED <<path, volume, directory, made, schema, rows, conn, probe,
                     req, pending, seen, mishaps>>
  BY InodeRange DEF Begin, Typed, Connected, disk, faults
<1>2. /\ lock'[conn[t]] = t
      /\ \A i \in Inodes : i # conn[t] => lock'[i] = lock[i]
      /\ pc'[t] = "body" /\ \A u \in Threads \ {t} : pc'[u] = pc[u]
      /\ pc' \in [Threads -> Labels]
      /\ lock' \in [Inodes -> Threads \cup {None}]
  BY <1>1 DEF Begin, Goto, Typed, TypeOK, Labels
<1>3. Newest'
  BY <1>1 DEF Typed, Newest
<1>4. \A i \in Inodes, u \in Threads :
        lock'[i] = u <=> conn[u] = i /\ pc'[u] \in {"body", "commit"}
  BY <1>1, <1>2, NoneIsNoThread DEF Typed, TypeOK
<1> QED
  BY <1>1, <1>2, <1>3, <1>4 DEF Typed, TypeOK, Connected

(* A thread that ends its transaction gives the lock back.                 *)
LEMMA LockReleased ==
  ASSUME Typed, NEW t \in Threads, pc[t] \in InTransaction,
         NEW label \in Labels \ Connected, Goto(t, label),
         lock' = [lock EXCEPT ![conn[t]] = None],
         UNCHANGED <<disk, conn, probe, req, seen, mishaps>>,
         rows' \in [Inodes -> SUBSET Rows],
         pending' \in [Threads -> SUBSET Rows]
  PROVE  Typed'
<1>1. conn[t] \in Inodes /\ lock[conn[t]] = t
  BY InodeRange DEF Typed, TypeOK, InTransaction, Connected
<1>2. /\ lock'[conn[t]] = None
      /\ \A i \in Inodes : i # conn[t] => lock'[i] = lock[i]
      /\ pc'[t] = label /\ \A u \in Threads \ {t} : pc'[u] = pc[u]
      /\ pc' \in [Threads -> Labels]
      /\ lock' \in [Inodes -> Threads \cup {None}]
  BY <1>1 DEF Goto, Typed, TypeOK
<1>3. UNCHANGED <<path, volume, directory, made, schema>>
  BY DEF disk
<1>4. Newest'
  BY <1>3 DEF Typed, Newest
<1>5. \A i \in Inodes, u \in Threads :
        lock'[i] = u <=> conn[u] = i /\ pc'[u] \in {"body", "commit"}
  BY <1>1, <1>2, NoneIsNoThread DEF Typed, TypeOK, Connected
<1> QED
  BY <1>2, <1>3, <1>4, <1>5 DEF Typed, TypeOK, Connected

(* A thread that opens a connection is in no transaction, and the others   *)
(* keep theirs.                                                            *)
LEMMA ConnectionOpened ==
  ASSUME Typed, NEW t \in Threads, UseConnection(t),
         pc[t] \in {"connect", "idle"},
         pc'[t] \in {"begin", "idle"}, pc' \in [Threads -> Labels],
         \A u \in Threads \ {t} : pc'[u] = pc[u],
         UNCHANGED <<rows, lock, probe, req, pending, seen, mishaps>>
  PROVE  Typed'
<1>1. CASE conn[t] # Gone
  <2>1. UNCHANGED <<path, volume, directory, made, schema, conn>>
    BY <1>1 DEF UseConnection, disk
  <2>2. Newest'
    BY <2>1 DEF Typed, Newest
  <2>3. \A i \in Inodes, u \in Threads :
          lock'[i] = u <=> conn'[u] = i /\ pc'[u] \in {"body", "commit"}
    BY <2>1 DEF Typed, TypeOK
  <2> QED
    BY <1>1, <2>1, <2>2, <2>3 DEF Typed, TypeOK
<1>2. CASE conn[t] = Gone
  <2>1. /\ CanOpen /\ OpenFile /\ conn' = [conn EXCEPT ![t] = Opened]
        /\ UNCHANGED <<volume, directory, schema>>
    BY <1>2 DEF UseConnection, OpenFile
  <2>2. /\ Opened = path' /\ path' = made' /\ made' \in Inodes
        /\ made <= made' /\ made \in Inodes /\ Newest'
    BY <2>1, OpenedIsNewest DEF Typed, TypeOK
  <2>3. /\ 0 .. made \subseteq 0 .. made' /\ 1 .. made \subseteq 1 .. made'
        /\ made' \in 0 .. made' /\ made' # Gone
    BY <2>2 DEF Inodes, Gone
  <2>4. /\ conn'[t] = made' /\ \A u \in Threads \ {t} : conn'[u] = conn[u]
        /\ conn' \in [Threads -> 0 .. made']
    BY <2>1, <2>2, <2>3 DEF Typed, TypeOK
  <2>5. \A i \in Inodes, u \in Threads :
          lock'[i] = u <=> conn'[u] = i /\ pc'[u] \in {"body", "commit"}
    BY <2>4 DEF Typed, TypeOK
  <2>6. /\ probe' \in [Threads -> 0 .. made']
        /\ seen' \in [Threads -> (0 .. made') \X BOOLEAN]
    BY <2>3 DEF Typed, TypeOK
  <2>7. \A u \in Threads : pc'[u] \in Connected => conn'[u] # Gone
    BY <2>3, <2>4 DEF Typed
  <2>8. /\ path' \in 0 .. made' /\ volume' \in 0 .. made'
        /\ schema' \subseteq 1 .. made'
    BY <2>1, <2>2, <2>3 DEF Typed, TypeOK
  <2>9. TypeOK'
    BY <2>2, <2>4, <2>5, <2>6, <2>8 DEF Typed, TypeOK
  <2> QED
    BY <2>1, <2>2, <2>6, <2>7, <2>9 DEF Typed
<1> QED
  BY <1>1, <1>2

(* The health check opens a connection of its own.                         *)
LEMMA ProbeOpened ==
  ASSUME Typed, NEW t \in Threads, HealthOpen(t)
  PROVE  Typed'
<1>1. /\ pc[t] = "open" /\ UNCHANGED <<rows, lock, conn, req, pending, seen,
                                       mishaps, volume, directory, schema>>
  BY DEF HealthOpen, OpenFile, disk, faults
<1>2. CASE CanOpen
  <2>1. OpenFile /\ probe' = [probe EXCEPT ![t] = Opened] /\ Goto(t, "probe")
    BY <1>2 DEF HealthOpen
  <2>2. /\ Opened = path' /\ path' = made' /\ made' \in Inodes
        /\ made <= made' /\ made \in Inodes /\ Newest'
    BY <1>1, <1>2, <2>1, OpenedIsNewest DEF Typed, TypeOK
  <2>3. /\ 0 .. made \subseteq 0 .. made' /\ 1 .. made \subseteq 1 .. made'
        /\ made' \in 0 .. made'
    BY <2>2 DEF Inodes
  <2>4. /\ probe' \in [Threads -> 0 .. made']
        /\ conn' \in [Threads -> 0 .. made']
        /\ seen' \in [Threads -> (0 .. made') \X BOOLEAN]
    BY <1>1, <2>1, <2>2, <2>3 DEF Typed, TypeOK
  <2>5. /\ path' \in 0 .. made' /\ volume' \in 0 .. made'
        /\ schema' \subseteq 1 .. made'
    BY <1>1, <2>2, <2>3 DEF Typed, TypeOK
  <2>6. /\ pc' \in [Threads -> Labels] /\ pc'[t] = "probe"
        /\ \A u \in Threads \ {t} : pc'[u] = pc[u]
    BY <2>1 DEF Goto, Typed, TypeOK, Labels
  <2>7. TypeOK'
    BY <1>1, <2>2, <2>4, <2>5, <2>6 DEF Typed, TypeOK
  <2> QED
    BY <1>1, <2>2, <2>4, <2>6, <2>7 DEF Typed, Connected
<1>3. CASE ~CanOpen
  BY <1>1, <1>3, LocksKept DEF HealthOpen, OpenFile, Labels, InTransaction,
     Connected, Typed, TypeOK
<1> QED
  BY <1>2, <1>3

(* Files and directories come and go.                                      *)
LEMMA MishapTyped ==
  ASSUME Typed, FileDisappears \/ DirectoryDisappears \/ DirectoryReturns
  PROVE  Typed'
<1>1. UNCHANGED <<made, schema, rows, lock, up, conn, probe, pc, req, pending,
                  seen>>
  BY DEF FileDisappears, DirectoryDisappears, DirectoryReturns
<1>2. /\ path' \in {path, volume, Gone} /\ volume' \in {path, volume, Gone}
      /\ directory' \in BOOLEAN
  <2>1. CASE FileDisappears
    BY <2>1 DEF FileDisappears, Typed
  <2>2. CASE DirectoryDisappears
    BY <2>2 DEF DirectoryDisappears, Typed
  <2>3. CASE DirectoryReturns
    BY <2>3 DEF DirectoryReturns, Typed
  <2> QED
    BY <2>1, <2>2, <2>3
<1>3. Newest'
  <2>1. CASE FileDisappears
    BY <2>1, BoundsAreNaturals DEF FileDisappears, Typed, Newest, Gone
  <2>2. CASE DirectoryDisappears
    BY <2>2, BoundsAreNaturals DEF DirectoryDisappears, Typed, Newest, Gone
  <2>3. CASE DirectoryReturns
    BY <2>3 DEF DirectoryReturns, faults, Typed, Newest, Gone
  <2> QED
    BY <2>1, <2>2, <2>3
<1>4. TypeOK'
  <2>1. Gone \in 0 .. made
    BY DEF Typed, Newest, Gone
  <2> QED
    BY <1>1, <1>2, <2>1 DEF Typed, TypeOK
<1> QED
  BY <1>1, <1>2, <1>3, <1>4 DEF Typed

(* A crash empties every hand; a start leaves them empty.                  *)
LEMMA CrashTyped ==
  ASSUME Typed, Crash
  PROVE  Typed'
<1>1. UNCHANGED <<path, volume, directory, made, schema, rows, req, seen,
                  mishaps>>
  BY DEF Crash, disk
<1>2. Newest' /\ Gone \in 0 .. made
  BY <1>1 DEF Typed, Newest, Gone
<1>3. /\ pc' = [t \in Threads |-> "idle"]
      /\ conn' = [t \in Threads |-> Gone]
      /\ probe' = [t \in Threads |-> Gone]
      /\ pending' = [t \in Threads |-> {}]
      /\ lock' = [i \in Inodes |-> None]
  BY DEF Crash
<1>4. \A i \in Inodes, u \in Threads :
        lock'[i] = u <=> conn'[u] = i /\ pc'[u] \in {"body", "commit"}
  BY <1>3, NoneIsNoThread
<1> QED
  BY <1>1, <1>2, <1>3, <1>4 DEF Typed, TypeOK, Labels, Connected

LEMMA RestartTyped ==
  ASSUME Typed, Restart
  PROVE  Typed'
<1>1. /\ UNCHANGED <<rows, lock, conn, probe, pc, req, pending, seen, mishaps>>
      /\ path' = Opened /\ directory' /\ volume' = Gone
      /\ schema' = schema \cup {Opened}
      /\ made' = IF path # Gone THEN made ELSE made + 1
  BY DEF Restart, faults
<1>2. /\ path' = made' /\ made' \in Inodes /\ made <= made' /\ made \in Inodes
      /\ made' <= mishaps + 1
  BY <1>1, BoundsAreNaturals DEF Typed, TypeOK, Newest, Opened, Inodes, Gone
<1>3. Newest'
  BY <1>1, <1>2 DEF Typed, Newest, Inodes, Gone
<1>4. /\ 0 .. made \subseteq 0 .. made' /\ 1 .. made \subseteq 1 .. made'
      /\ made' \in 1 .. made' /\ Gone \in 0 .. made' /\ made' \in 0 .. made'
  BY <1>2 DEF Inodes, Gone
<1>5. schema \subseteq 1 .. made /\ Opened = made'
  BY <1>1, <1>2 DEF Typed, TypeOK
<1>6. /\ probe' \in [Threads -> 0 .. made']
      /\ conn' \in [Threads -> 0 .. made']
      /\ seen' \in [Threads -> (0 .. made') \X BOOLEAN]
  BY <1>1, <1>4 DEF Typed, TypeOK
<1>7. schema' \subseteq 1 .. made'
  BY <1>1, <1>4, <1>5
<1>8. TypeOK'
  BY <1>1, <1>2, <1>4, <1>6, <1>7 DEF Typed, TypeOK
<1> QED
  BY <1>1, <1>3, <1>6, <1>8 DEF Typed

LEMMA TypedStep == Typed /\ [Next]_vars => Typed'
<1> SUFFICES ASSUME Typed, [Next]_vars
             PROVE  Typed'
  OBVIOUS
<1> USE DEF InTransaction, Connected, Labels
<1>1. /\ probe \in [Threads -> 0 .. made] /\ req \in [Threads -> Rows]
      /\ seen \in [Threads -> (0 .. made) \X BOOLEAN] /\ path \in 0 .. made
      /\ Gone \in 0 .. made
  BY DEF Typed, TypeOK, Newest, Gone
<1>2. ASSUME NEW t \in Threads, NEW r \in Rows, Submit(t, r)
      PROVE  Typed'
  BY <1>1, <1>2, LocksKept DEF Submit, faults
<1>3. ASSUME NEW t \in Threads, CheckBacking(t)
      PROVE  Typed'
  <2>1. seen' \in [Threads -> (0 .. made) \X BOOLEAN]
    <3>1. \A i \in 0 .. made : \A b \in BOOLEAN :
            <<i, b>> \in (0 .. made) \X BOOLEAN
      OBVIOUS
    <3>2. (path \in schema) \in BOOLEAN
      OBVIOUS
    <3>3. <<path, path \in schema>> \in (0 .. made) \X BOOLEAN
      BY <1>1, <3>1, <3>2, Zenon
    <3> QED
      BY <1>1, <1>3, <3>3 DEF CheckBacking
  <2>2. CASE path = Gone
    BY <1>1, <1>3, <2>1, <2>2, LocksKept DEF CheckBacking, faults
  <2>3. CASE path # Gone
    BY <1>1, <1>3, <2>1, <2>3, LocksKept DEF CheckBacking, faults
  <2> QED
    BY <2>2, <2>3
<1>4. ASSUME NEW t \in Threads, Connect(t)
      PROVE  Typed'
  <2>1. CASE UseConnection(t) /\ Goto(t, "begin")
    <3>1. /\ pc'[t] = "begin" /\ pc' \in [Threads -> Labels]
          /\ \A u \in Threads \ {t} : pc'[u] = pc[u]
      BY <2>1 DEF Goto, Typed, TypeOK
    <3> QED
      BY <1>4, <2>1, <3>1, ConnectionOpened DEF Connect, faults
  <2>2. CASE ~(UseConnection(t) /\ Goto(t, "begin"))
    BY <1>1, <1>4, <2>2, LocksKept DEF Connect, faults
  <2> QED
    BY <2>1, <2>2
<1>5. ASSUME NEW t \in Threads, Begin(t)
      PROVE  Typed'
  BY <1>5, LockTaken
<1>6. ASSUME NEW t \in Threads, BusyTimeout(t)
      PROVE  Typed'
  BY <1>1, <1>6, LocksKept DEF BusyTimeout, faults
<1>7. ASSUME NEW t \in Threads, Execute(t)
      PROVE  Typed'
  <2>1. /\ pc[t] = "body"
        /\ UNCHANGED <<path, volume, directory, made, schema, rows, conn,
                       probe, req, seen, mishaps>>
    BY <1>7 DEF Execute, disk, faults
  <2>2. CASE Goto(t, "commit") /\ UNCHANGED lock
               /\ pending' = [pending EXCEPT ![t] = {req[t]} \ Keyed(t)]
    <3>1. /\ pc'[t] = "commit" /\ pc' \in [Threads -> Labels]
          /\ \A u \in Threads \ {t} : pc'[u] = pc[u]
      BY <2>2 DEF Goto, Typed, TypeOK
    <3>2. pending' \in [Threads -> SUBSET Rows]
      BY <1>1, <2>2 DEF Typed, TypeOK
    <3>3. Newest'
      BY <2>1 DEF Typed, Newest
    <3>4. \A i \in Inodes, u \in Threads :
            lock'[i] = u <=> conn'[u] = i /\ pc'[u] \in {"body", "commit"}
      BY <2>1, <2>2, <3>1 DEF Typed, TypeOK
    <3> QED
      BY <2>1, <2>2, <3>1, <3>2, <3>3, <3>4 DEF Typed, TypeOK
  <2>3. CASE Rollback(t) /\ UNCHANGED pending
    BY <2>1, <2>3, LockReleased DEF Rollback, disk, Typed, TypeOK
  <2> QED
    BY <1>7, <2>2, <2>3 DEF Execute
<1>8. ASSUME NEW t \in Threads, Commit(t)
      PROVE  Typed'
  <2>1. /\ rows' \in [Inodes -> SUBSET Rows]
        /\ pending' \in [Threads -> SUBSET Rows]
    BY <1>8 DEF Commit, Typed, TypeOK
  <2> QED
    BY <1>8, <2>1, LockReleased DEF Commit, faults
<1>9. ASSUME NEW t \in Threads, Answer(t)
      PROVE  Typed'
  BY <1>1, <1>9, LocksKept DEF Answer, faults
<1>10. ASSUME NEW t \in Threads, Read(t)
       PROVE  Typed'
  BY <1>10, ConnectionOpened DEF Read, faults, Typed, TypeOK
<1>11. ASSUME NEW t \in Threads, HealthCheck(t)
       PROVE  Typed'
  BY <1>1, <1>11, LocksKept DEF HealthCheck, faults
<1>12. ASSUME NEW t \in Threads, HealthOpen(t)
       PROVE  Typed'
  BY <1>12, ProbeOpened
<1>13. ASSUME NEW t \in Threads, HealthProbe(t)
       PROVE  Typed'
  <2>1. probe' \in [Threads -> 0 .. made]
    BY <1>1, <1>13 DEF HealthProbe, CloseProbe
  <2> QED
    BY <1>1, <1>13, <2>1, LocksKept DEF HealthProbe, CloseProbe, faults
<1>14. ASSUME NEW t \in Threads, HealthAnswer(t)
       PROVE  Typed'
  <2>1. probe' \in [Threads -> 0 .. made]
    BY <1>1, <1>14 DEF HealthAnswer, CloseProbe
  <2> QED
    BY <1>1, <1>14, <2>1, LocksKept DEF HealthAnswer, CloseProbe, faults
<1>15. ASSUME UNCHANGED vars
       PROVE  Typed'
  BY <1>15 DEF vars, Typed, TypeOK, Newest
<1>16. ASSUME NEW t \in Threads, WriteFails(t)
       PROVE  Typed'
  <2>1. pending' \in [Threads -> SUBSET Rows]
    BY <1>16 DEF WriteFails, Typed, TypeOK
  <2> QED
    BY <1>16, <2>1, LockReleased DEF WriteFails, Rollback, disk, faults,
       Typed, TypeOK
<1> QED
  BY <1>2, <1>3, <1>4, <1>5, <1>6, <1>7, <1>8, <1>9, <1>10, <1>11, <1>12,
     <1>13, <1>14, <1>15, <1>16, MishapTyped, CrashTyped, RestartTyped,
     StepCases

LEMMA TypedInvariant == Spec => []Typed
<1>1. Init => Typed
  <2> SUFFICES ASSUME Init
               PROVE  Typed
    OBVIOUS
  <2>1. /\ 1 \in Inodes /\ (CHOOSE r \in Rows : TRUE) \in Rows
    BY BoundsAreNaturals, SomethingToWrite DEF Inodes
  <2>2. Newest
    BY BoundsAreNaturals DEF Init, Newest, Gone
  <2>3. /\ req \in [Threads -> Rows]
        /\ seen \in [Threads -> (0 .. made) \X BOOLEAN]
    <3>1. /\ req \in [Threads -> {CHOOSE r \in Rows : TRUE}] /\ made = 1
          /\ seen = [t \in Threads |-> <<Gone, FALSE>>]
      BY DEF Init
    <3>2. req \in [Threads -> Rows]
      <4> DEFINE first == CHOOSE r \in Rows : TRUE
      <4>1. first \in Rows /\ req \in [Threads -> {first}]
        BY <2>1, <3>1
      <4> HIDE DEF first
      <4> QED
        BY <4>1
    <3>3. <<Gone, FALSE>> \in (0 .. made) \X BOOLEAN
      <4>1. Gone \in 0 .. made
        BY <3>1 DEF Gone
      <4> QED
        BY <4>1
    <3> QED
      BY <3>1, <3>2, <3>3
  <2> QED
    BY <2>1, <2>2, <2>3, NoneIsNoThread
    DEF Init, Typed, TypeOK, Labels, Connected, Gone
<1> QED
  BY <1>1, TypedStep, PTL DEF Spec

(* Every variable keeps its type, and a write lock is held exactly by the  *)
(* thread inside a transaction on that file: _transaction                  *)
(* (sqlite_store.py 339-368) gives it back on every way out.               *)
THEOREM TypeCorrect == Spec => []TypeOK
BY TypedInvariant, PTL DEF Typed

-----------------------------------------------------------------------------
(* One store.                                                              *)

LEMMA NewestIsCurrent ==
  ASSUME Typed, made \in schema
  PROVE  Current(made)
BY DEF Typed, TypeOK, Inodes, Current

(* What a step of one thread may do to its own variables.                  *)
LEMMA ThreadKeepsOneStore ==
  ASSUME Typed, OneStore, NEW t \in Threads, up, UNCHANGED <<up, schema>>,
         made' \in schema => made' = made,
         \A u \in Threads \ {t} :
           /\ conn'[u] = conn[u] /\ pc'[u] = pc[u] /\ probe'[u] = probe[u]
           /\ seen'[u] = seen[u],
         conn'[t] \in {conn[t], made'},
         pc'[t] \in Writing => \/ pc[t] \in Writing /\ seen'[t] = seen[t]
                               \/ /\ seen'[t][1] # Gone
                                  /\ seen'[t][2] => seen'[t][1] = made
                                                    /\ made \in schema,
         pc'[t] = "ready" => probe'[t] \in schema
  PROVE  OneStore'
<1>1. schema' = schema /\ (made \in schema => Current(made))
  BY NewestIsCurrent
<1>2. \A u \in Threads : conn'[u] \in schema => Current(conn'[u])
  BY <1>1 DEF OneStore
<1>3. \A u \in Threads : pc'[u] \in Writing =>
        seen'[u][1] # Gone /\ (seen'[u][2] => Current(seen'[u][1]))
  BY <1>1 DEF OneStore
<1>4. made' \in schema' => \A u \in Threads : conn'[u] \in {Gone, made'}
  BY DEF OneStore
<1>5. \A u \in Threads : pc'[u] = "ready" => probe'[u] \in schema'
  BY DEF OneStore
<1> QED
  BY <1>1, <1>2, <1>3, <1>4, <1>5 DEF OneStore, Current

LEMMA ConnectionIsNewest ==
  ASSUME Typed, NEW t \in Threads, UseConnection(t), UNCHANGED mishaps
  PROVE  /\ schema' = schema /\ (made' \in schema => made' = made)
         /\ conn'[t] \in {conn[t], made'}
         /\ \A u \in Threads \ {t} : conn'[u] = conn[u]
<1>1. CASE conn[t] # Gone
  BY <1>1 DEF UseConnection, disk
<1>2. CASE conn[t] = Gone
  BY <1>2, OpenedIsNewest DEF UseConnection, Typed, TypeOK
<1> QED
  BY <1>1, <1>2

LEMMA OneStoreStep == Typed /\ OneStore /\ [Next]_vars => OneStore'
<1> SUFFICES ASSUME Typed, OneStore, [Next]_vars
             PROVE  OneStore'
  OBVIOUS
<1>1. \A t \in Threads, label \in Labels :
        Goto(t, label) => /\ pc'[t] = label
                          /\ \A u \in Threads \ {t} : pc'[u] = pc[u]
  BY DEF Goto, Typed, TypeOK
<1>2. \A t \in Threads : pc[t] # "idle" => up
  BY DEF OneStore
<1> USE DEF Labels, Writing, disk, faults
<1>3. ASSUME NEW t \in Threads, NEW r \in Rows, Submit(t, r)
      PROVE  OneStore'
  BY <1>1, <1>3, ThreadKeepsOneStore DEF Submit
<1>4. ASSUME NEW t \in Threads, CheckBacking(t)
      PROVE  OneStore'
  <2>1. /\ seen'[t] = <<path, path \in schema>>
        /\ \A u \in Threads \ {t} : seen'[u] = seen[u]
    BY <1>4 DEF CheckBacking, Typed
  <2>2. path # Gone => path = made
    BY DEF Typed, Newest
  <2>3. /\ pc'[t] = (IF path = Gone THEN "idle" ELSE "connect")
        /\ \A u \in Threads \ {t} : pc'[u] = pc[u]
    BY <1>1, <1>4 DEF CheckBacking
  <2> QED
    <3>1. seen'[t][1] = path /\ (seen'[t][2] => path \in schema)
      <4>1. CASE path \in schema
        <5>1. (path \in schema) = TRUE
          BY <4>1
        <5>2. seen'[t] = <<path, TRUE>>
          BY <2>1, <5>1, Zenon
        <5> QED
          BY <4>1, <5>2
      <4>2. CASE path \notin schema
        <5>1. (path \in schema) = FALSE
          BY <4>2
        <5>2. seen'[t] = <<path, FALSE>>
          BY <2>1, <5>1, Zenon
        <5> QED
          BY <5>2
      <4> QED
        BY <4>1, <4>2
    <3>2. /\ up /\ UNCHANGED <<up, schema, made>> /\ conn' = conn
          /\ probe' = probe
      BY <1>2, <1>4 DEF CheckBacking
    <3> QED
      BY <2>1, <2>2, <2>3, <3>1, <3>2, ThreadKeepsOneStore
<1>5. ASSUME NEW t \in Threads, Connect(t)
      PROVE  OneStore'
  BY <1>1, <1>2, <1>5, ConnectionIsNewest, ThreadKeepsOneStore DEF Connect
<1>6. ASSUME NEW t \in Threads, Begin(t)
      PROVE  OneStore'
  BY <1>1, <1>2, <1>6, ThreadKeepsOneStore DEF Begin
<1>7. ASSUME NEW t \in Threads, BusyTimeout(t)
      PROVE  OneStore'
  BY <1>1, <1>2, <1>7, ThreadKeepsOneStore DEF BusyTimeout
<1>8. ASSUME NEW t \in Threads, Execute(t)
      PROVE  OneStore'
  BY <1>1, <1>2, <1>8, ThreadKeepsOneStore DEF Execute, Rollback
<1>9. ASSUME NEW t \in Threads, Commit(t)
      PROVE  OneStore'
  BY <1>1, <1>2, <1>9, ThreadKeepsOneStore DEF Commit
<1>10. ASSUME NEW t \in Threads, Answer(t)
       PROVE  OneStore'
  BY <1>1, <1>2, <1>10, ThreadKeepsOneStore DEF Answer
<1>11. ASSUME NEW t \in Threads, Read(t)
       PROVE  OneStore'
  BY <1>11, ConnectionIsNewest, ThreadKeepsOneStore DEF Read
<1>12. ASSUME NEW t \in Threads, HealthCheck(t)
       PROVE  OneStore'
  BY <1>1, <1>12, ThreadKeepsOneStore DEF HealthCheck
<1>13. ASSUME NEW t \in Threads, HealthOpen(t)
       PROVE  OneStore'
  <2>1. /\ \A u \in Threads \ {t} : probe'[u] = probe[u]
        /\ schema' = schema /\ (made' \in schema => made' = made)
    BY <1>13, OpenedIsNewest DEF HealthOpen, Typed, TypeOK
  <2> QED
    BY <1>1, <1>2, <1>13, <2>1, ThreadKeepsOneStore DEF HealthOpen
<1>14. ASSUME NEW t \in Threads, HealthProbe(t)
       PROVE  OneStore'
  <2>1. /\ \A u \in Threads \ {t} : probe'[u] = probe[u]
        /\ pc'[t] = "ready" => probe'[t] \in schema
    BY <1>1, <1>14 DEF HealthProbe, CloseProbe, Healthy, Typed, TypeOK
  <2> QED
    BY <1>1, <1>2, <1>14, <2>1, ThreadKeepsOneStore
    DEF HealthProbe, CloseProbe
<1>15. ASSUME NEW t \in Threads, HealthAnswer(t)
       PROVE  OneStore'
  <2>1. \A u \in Threads \ {t} : probe'[u] = probe[u]
    BY <1>15 DEF HealthAnswer, CloseProbe, Typed, TypeOK
  <2> QED
    BY <1>1, <1>2, <1>15, <2>1, ThreadKeepsOneStore
    DEF HealthAnswer, CloseProbe
<1>16. ASSUME Crash
       PROVE  OneStore'
  BY <1>16 DEF Crash, OneStore, Typed, TypeOK, Gone
<1>17. ASSUME Restart
       PROVE  OneStore'
  <2>1. \A t \in Threads : conn'[t] = Gone /\ pc'[t] = "idle"
    BY <1>17 DEF Restart, OneStore
  <2>2. Gone \notin schema'
    BY <1>17, RestartTyped DEF Typed, TypeOK, Gone
  <2> QED
    BY <1>17, <2>1, <2>2 DEF OneStore
<1>18. ASSUME FileDisappears \/ DirectoryDisappears \/ DirectoryReturns
              \/ UNCHANGED vars
       PROVE  OneStore'
  <2>1. UNCHANGED <<up, made, schema, conn, pc, seen, probe>>
    BY <1>18 DEF FileDisappears, DirectoryDisappears, DirectoryReturns, vars
  <2> QED
    BY <2>1 DEF OneStore, Current
<1>19. ASSUME NEW t \in Threads, WriteFails(t)
       PROVE  OneStore'
  BY <1>1, <1>2, <1>19, ThreadKeepsOneStore DEF WriteFails, Rollback
<1> QED
  BY <1>3, <1>4, <1>5, <1>6, <1>7, <1>8, <1>9, <1>10, <1>11, <1>12, <1>13,
     <1>14, <1>15, <1>16, <1>17, <1>18, <1>19, StepCases

-----------------------------------------------------------------------------
(* Transactions are serial.                                                *)

(* Steps that neither write nor answer.                                    *)
LEMMA NothingWritten ==
  ASSUME Serialised, UNCHANGED <<rows, acks>>, schema \subseteq schema',
         \A u \in Threads : pc'[u] = "commit" =>
           pc[u] = "commit" /\ conn'[u] = conn[u] /\ req'[u] = req[u]
           /\ pending'[u] = pending[u],
         \A u \in Threads : pc'[u] = "answer" =>
           pc[u] = "answer" /\ req'[u] = req[u] /\ seen'[u] = seen[u]
  PROVE  Serialised'
BY DEF Serialised, Keyed

(* A commit adds the row that was asked for, if no other has its key.      *)
LEMMA CommitWrites ==
  ASSUME Typed, Serialised, NEW t \in Threads, Commit(t)
  PROVE  /\ conn[t] \in Inodes /\ conn[t] \in schema /\ req[t] \in Rows
         /\ rows'[conn[t]] = rows[conn[t]] \cup {req[t]}
         /\ \A i \in Inodes : i # conn[t] => rows'[i] = rows[i]
         /\ \A r \in rows[conn[t]] : r.key = req[t].key => r = req[t]
<1>1. /\ conn[t] \in Inodes /\ conn[t] \in schema
      /\ Keyed(t) \subseteq {req[t]} /\ pending[t] = {req[t]} \ Keyed(t)
      /\ req[t] \in Rows
  BY InodeRange DEF Commit, Serialised, Typed, TypeOK, Connected
<1> QED
  BY <1>1 DEF Commit, Keyed, Typed, TypeOK

LEMMA SerialisedStep ==
  Typed /\ OneStore /\ Serialised /\ [Next]_vars => Serialised'
<1> SUFFICES ASSUME Typed, OneStore, Serialised, [Next]_vars
             PROVE  Serialised'
  OBVIOUS
<1>1. \A t \in Threads, label \in Labels :
        Goto(t, label) => /\ pc'[t] = label
                          /\ \A u \in Threads \ {t} : pc'[u] = pc[u]
  BY DEF Goto, Typed, TypeOK
<1> USE DEF Labels, disk, faults
<1>2. ASSUME NEW t \in Threads,
             \/ \E r \in Rows : Submit(t, r)
             \/ CheckBacking(t) \/ Begin(t) \/ BusyTimeout(t)
             \/ HealthCheck(t) \/ HealthAnswer(t)
      PROVE  Serialised'
  <2>1. /\ pc'[t] \notin {"commit", "answer"}
        /\ \A u \in Threads \ {t} : /\ pc'[u] = pc[u] /\ req'[u] = req[u]
                                    /\ seen'[u] = seen[u]
        /\ UNCHANGED <<rows, acks, schema, conn, pending>>
    <3>1. CASE \E r \in Rows : Submit(t, r)
      BY <1>1, <3>1 DEF Submit, Typed, TypeOK
    <3>2. CASE CheckBacking(t)
      <4>1. \A u \in Threads \ {t} : seen'[u] = seen[u]
        BY <3>2 DEF CheckBacking, Typed
      <4>2. pc'[t] = (IF path = Gone THEN "idle" ELSE "connect")
            /\ \A u \in Threads \ {t} : pc'[u] = pc[u]
        BY <1>1, <3>2 DEF CheckBacking
      <4> QED
        BY <3>2, <4>1, <4>2 DEF CheckBacking
    <3>3. CASE Begin(t) \/ BusyTimeout(t) \/ HealthCheck(t) \/ HealthAnswer(t)
      BY <1>1, <3>3 DEF Begin, BusyTimeout, HealthCheck, HealthAnswer,
         CloseProbe
    <3> QED
      BY <1>2, <3>1, <3>2, <3>3
  <2> QED
    BY <2>1, NothingWritten
<1>3. ASSUME NEW t \in Threads, Connect(t) \/ Read(t)
      PROVE  Serialised'
  <2>1. /\ UNCHANGED <<rows, acks, schema, req, pending, seen>>
        /\ \A u \in Threads \ {t} : conn'[u] = conn[u]
    <3>1. CASE UseConnection(t)
      BY <1>3, <3>1, ConnectionIsNewest DEF Connect, Read
    <3>2. CASE ~UseConnection(t)
      BY <1>3, <3>2 DEF Connect, Read
    <3> QED
      BY <3>1, <3>2
  <2>2. /\ pc'[t] \notin {"commit", "answer"}
        /\ \A u \in Threads \ {t} : pc'[u] = pc[u]
    BY <1>1, <1>3 DEF Connect, Read
  <2> QED
    BY <2>1, <2>2, NothingWritten
<1>4. ASSUME NEW t \in Threads, HealthOpen(t) \/ HealthProbe(t)
      PROVE  Serialised'
  BY <1>1, <1>4, NothingWritten
  DEF HealthOpen, HealthProbe, CloseProbe, OpenFile
<1>5. ASSUME NEW t \in Threads, Execute(t)
      PROVE  Serialised'
  <2>1. UNCHANGED <<rows, acks, schema, conn, req, seen>>
    BY <1>5 DEF Execute
  <2>2. CASE Rollback(t) /\ UNCHANGED pending
    BY <1>1, <2>1, <2>2, NothingWritten DEF Rollback
  <2>3. CASE /\ conn[t] \in schema /\ Keyed(t) \subseteq {req[t]}
             /\ pending' = [pending EXCEPT ![t] = {req[t]} \ Keyed(t)]
             /\ Goto(t, "commit")
    <3>1. /\ pc'[t] = "commit" /\ \A u \in Threads \ {t} : pc'[u] = pc[u]
          /\ pending'[t] = {req[t]} \ Keyed(t)
          /\ \A u \in Threads \ {t} : pending'[u] = pending[u]
      BY <1>1, <2>3 DEF Typed, TypeOK
    <3>2. \A u \in Threads : Keyed(u)' = Keyed(u)
      BY <2>1 DEF Keyed
    <3>3. \A u \in Threads : pc'[u] = "commit" =>
            /\ conn'[u] \in schema'
            /\ Keyed(u)' \subseteq {req'[u]}
            /\ pending'[u] = {req'[u]} \ Keyed(u)'
      BY <2>1, <2>3, <3>1, <3>2 DEF Serialised
    <3>4. \A u \in Threads : pc'[u] = "answer" /\ seen'[u][2] =>
            req'[u] \in rows'[seen'[u][1]]
      BY <2>1, <3>1 DEF Serialised
    <3> QED
      BY <2>1, <3>3, <3>4 DEF Serialised
  <2> QED
    BY <1>5, <2>2, <2>3 DEF Execute
<1>6. ASSUME NEW t \in Threads, Commit(t)
      PROVE  Serialised'
  <2>1. /\ pc[t] = "commit" /\ pc'[t] = "answer"
        /\ \A u \in Threads \ {t} : pc'[u] = pc[u]
        /\ UNCHANGED <<acks, schema, conn, req, seen>>
        /\ \A u \in Threads \ {t} : pending'[u] = pending[u]
    BY <1>1, <1>6 DEF Commit, Typed, TypeOK
  <2>2. conn[t] \in Inodes /\ conn[t] \in schema /\ req[t] \in Rows
    BY <1>6, CommitWrites
  <2>3. /\ rows'[conn[t]] = rows[conn[t]] \cup {req[t]}
        /\ \A i \in Inodes : i # conn[t] => rows'[i] = rows[i]
        /\ \A r \in rows[conn[t]] : r.key = req[t].key => r = req[t]
    BY <1>6, CommitWrites
  <2>4. \A i \in Inodes : \A r, s \in rows'[i] : r.key = s.key => r = s
    BY <2>3 DEF Serialised
  <2>5. \A u \in Threads : pc'[u] = "commit" =>
          /\ conn'[u] \in schema'
          /\ Keyed(u)' \subseteq {req'[u]}
          /\ pending'[u] = {req'[u]} \ Keyed(u)'
    <3> SUFFICES ASSUME NEW u \in Threads, pc'[u] = "commit"
                 PROVE  /\ conn'[u] \in schema'
                        /\ Keyed(u)' \subseteq {req'[u]}
                        /\ pending'[u] = {req'[u]} \ Keyed(u)'
      OBVIOUS
    <3>1. u # t /\ pc[u] = "commit"
      BY <2>1
    <3>2. conn[u] \in Inodes /\ lock[conn[u]] = u /\ lock[conn[t]] = t
      BY <2>1, <2>2, <3>1, InodeRange DEF Typed, TypeOK, Connected
    <3>3. Keyed(u)' = Keyed(u)
      BY <2>1, <2>3, <3>1, <3>2 DEF Keyed
    <3> QED
      BY <2>1, <3>1, <3>3 DEF Serialised
  <2>6. \A i \in Inodes : rows[i] \subseteq rows'[i]
    BY <2>3
  <2>7. ASSUME NEW u \in Threads, pc'[u] = "answer", seen'[u][2]
        PROVE  req'[u] \in rows'[seen'[u][1]]
    <3>1. CASE u = t
      <4>1. Current(seen[t][1]) /\ Current(conn[t])
        BY <2>1, <2>2, <2>7, <3>1 DEF OneStore, Writing
      <4>2. seen[t][1] = conn[t]
        BY <4>1, InodeRange DEF Current, Typed, TypeOK, Inodes
      <4> QED
        BY <2>1, <2>3, <3>1, <4>2
    <3>2. CASE u # t
      <4>1. pc[u] = "answer" /\ seen[u][2]
        BY <2>1, <2>7, <3>2
      <4>2. seen[u][1] \in Inodes
        BY <4>1, InodeRange DEF OneStore, Writing, Current, Typed, TypeOK
      <4> QED
        BY <2>1, <2>6, <4>1, <4>2 DEF Serialised
    <3> QED
      BY <3>1, <3>2
  <2>8. \A a \in acks' :
          /\ a.row \in Rows /\ a.seen[1] \in Inodes
          /\ a.seen[2] => a.row \in rows'[a.seen[1]]
    BY <2>1, <2>6 DEF Serialised
  <2> QED
    BY <2>4, <2>5, <2>7, <2>8 DEF Serialised
<1>7. ASSUME NEW t \in Threads, Answer(t)
      PROVE  Serialised'
  <2>1. /\ pc[t] = "answer" /\ pc'[t] = "idle"
        /\ \A u \in Threads \ {t} : pc'[u] = pc[u]
        /\ acks' = acks \cup {[row |-> req[t], seen |-> seen[t]]}
        /\ UNCHANGED <<rows, schema, conn, req, seen, pending>>
    BY <1>1, <1>7 DEF Answer
  <2>2. req[t] \in Rows /\ seen[t][1] \in Inodes
    BY <2>1, InodeRange DEF OneStore, Writing, Typed, TypeOK, Gone
  <2>3. \A a \in acks' :
          /\ a.row \in Rows /\ a.seen[1] \in Inodes
          /\ a.seen[2] => a.row \in rows[a.seen[1]]
    BY <2>1, <2>2 DEF Serialised
  <2> QED
    BY <2>1, <2>3 DEF Serialised, Keyed
<1>8. ASSUME Crash \/ Restart
      PROVE  Serialised'
  BY <1>8, NothingWritten DEF Crash, Restart
<1>9. ASSUME FileDisappears \/ DirectoryDisappears \/ DirectoryReturns
             \/ UNCHANGED vars
      PROVE  Serialised'
  <2>1. UNCHANGED <<rows, acks, schema, conn, pc, seen, req, pending>>
    BY <1>9 DEF FileDisappears, DirectoryDisappears, DirectoryReturns, vars
  <2> QED
    BY <2>1, NothingWritten
<1>10. ASSUME NEW t \in Threads, WriteFails(t)
       PROVE  Serialised'
  <2>1. \A u \in Threads \ {t} : pending'[u] = pending[u]
    BY <1>10 DEF WriteFails, Typed, TypeOK
  <2> QED
    BY <1>1, <1>10, <2>1, NothingWritten DEF WriteFails, Rollback
<1> QED
  BY <1>2, <1>3, <1>4, <1>5, <1>6, <1>7, <1>8, <1>9, <1>10, StepCases

LEMMA Invariant == Spec => [](Typed /\ OneStore /\ Serialised)
<1>1. Init => OneStore /\ Serialised
  <2> SUFFICES ASSUME Init
               PROVE  OneStore /\ Serialised
    OBVIOUS
  <2>1. OneStore
    BY DEF Init, OneStore, Gone, Writing
  <2>2. Serialised
    BY DEF Init, Serialised
  <2> QED
    BY <2>1, <2>2
<1> QED
  BY <1>1, TypedInvariant, OneStoreStep, SerialisedStep, PTL DEF Spec

-----------------------------------------------------------------------------
(* What follows for acknowledgements and readiness.                        *)

(* A row acknowledged by a write whose check saw a migrated store is in    *)
(* that file whenever the path names it: COMMIT and its answer do not part *)
(* company over crashes, remounts and other threads' connections           *)
(* (sqlite_store.py 317-368).                                              *)
THEOREM AcknowledgedStays == Spec => []AcknowledgedInStoreIsOnDisk
<1>1. Typed /\ Serialised => AcknowledgedInStoreIsOnDisk
  BY DEF Serialised, AcknowledgedInStoreIsOnDisk, Inodes, Gone
<1> QED
  BY <1>1, Invariant, PTL

(* While /ready answers that the file at the path is a usable store        *)
(* (sqlite_store.py 218-290), no thread has another one cached.            *)
THEOREM ReadinessCoversWrites == Spec => []ReadyMeansWritesLand
<1>1. Typed /\ OneStore => ReadyMeansWritesLand
  <2> SUFFICES ASSUME Typed, OneStore, NEW t \in Threads, NEW u \in Threads,
                      pc[t] = "ready", probe[t] = path
               PROVE  conn[u] \in {Gone, path}
    BY DEF ReadyMeansWritesLand
  <2>1. path \in schema /\ path = made
    BY DEF OneStore, Typed, TypeOK, Newest, Gone
  <2> QED
    BY <2>1 DEF OneStore
<1> QED
  BY <1>1, Invariant, PTL

-----------------------------------------------------------------------------
(* Refinement of the ledger.                                               *)

LEMMA OnDisk ==
  \A e : e \in EntriesOnDisk <=>
           \E i \in Inodes : \E r \in rows[i] : e = Entry(i, r)
BY DEF EntriesOnDisk

(* One entry written, answered or both, or nothing at all.                 *)
LEMMA LedgerSubmits ==
  ASSUME NEW e, \A f \in EntriesOnDisk : f.name = e.name => f = e,
         EntriesOnDisk' = EntriesOnDisk \cup {e},
         AckedEntries' \in {AckedEntries, AckedEntries \cup {e}}
  PROVE  [StoreLedger!Next]_(StoreLedger!ledger)
BY DEF StoreLedger!Next, StoreLedger!ledger, StoreLedger!Submit,
   StoreLedger!Agrees

LEMMA LedgerStep ==
  ASSUME Typed, OneStore, Serialised, [Next]_vars
  PROVE  [StoreLedger!Next]_(StoreLedger!ledger)
<1>1. ASSUME UNCHANGED <<rows, acks>>
      PROVE  [StoreLedger!Next]_(StoreLedger!ledger)
  BY <1>1 DEF StoreLedger!ledger, EntriesOnDisk, AckedEntries, Entry
<1>2. ASSUME NEW t \in Threads, Commit(t)
      PROVE  [StoreLedger!Next]_(StoreLedger!ledger)
  <2>1. \A f \in EntriesOnDisk : f.name = Entry(conn[t], req[t]).name =>
          f = Entry(conn[t], req[t])
    BY <1>2, CommitWrites, OnDisk DEF Entry
  <2>2. EntriesOnDisk' = EntriesOnDisk \cup {Entry(conn[t], req[t])}
    BY <1>2, CommitWrites DEF EntriesOnDisk, Entry
  <2>3. AckedEntries' = AckedEntries
    BY <1>2 DEF Commit, AckedEntries, Entry
  <2> QED
    BY <2>1, <2>2, <2>3, LedgerSubmits
<1>3. ASSUME NEW t \in Threads, Answer(t)
      PROVE  [StoreLedger!Next]_(StoreLedger!ledger)
  <2>1. /\ pc[t] = "answer" /\ UNCHANGED rows
        /\ acks' = acks \cup {[row |-> req[t], seen |-> seen[t]]}
    BY <1>3 DEF Answer
  <2>2. EntriesOnDisk' = EntriesOnDisk
    BY <2>1 DEF EntriesOnDisk, Entry
  <2>3. CASE seen[t][2]
    <3>1. req[t] \in rows[seen[t][1]] /\ seen[t][1] \in Inodes
      BY <2>1, <2>3, InodeRange
      DEF Serialised, OneStore, Writing, Current, Typed, TypeOK
    <3>2. Entry(seen[t][1], req[t]) \in EntriesOnDisk
      BY <3>1, OnDisk
    <3>3. \A f \in EntriesOnDisk : f.name = Entry(seen[t][1], req[t]).name =>
            f = Entry(seen[t][1], req[t])
      BY <3>1, OnDisk DEF Entry, Serialised
    <3>4. AckedEntries' = AckedEntries \cup {Entry(seen[t][1], req[t])}
      <4> DEFINE a == [row |-> req[t], seen |-> seen[t]]
      <4>1. a.seen[2] /\ Entry(a.seen[1], a.row) = Entry(seen[t][1], req[t])
        BY <2>3
      <4>2. acks' = acks \cup {a}
        BY <2>1
      <4> HIDE DEF a
      <4>3. {b \in acks' : b.seen[2]} = {b \in acks : b.seen[2]} \cup {a}
        BY <4>1, <4>2
      <4>4. AckedEntries' = AckedEntries \cup {Entry(a.seen[1], a.row)}
        BY <4>3 DEF AckedEntries, Entry
      <4> QED
        BY <4>1, <4>4
    <3> QED
      BY <2>2, <3>2, <3>3, <3>4, LedgerSubmits
  <2>4. CASE ~seen[t][2]
    <3>1. AckedEntries' = AckedEntries
      BY <2>1, <2>4 DEF AckedEntries, Entry
    <3> QED
      BY <2>2, <3>1 DEF StoreLedger!ledger
  <2> QED
    BY <2>3, <2>4
<1>4. \/ UNCHANGED <<rows, acks>>
      \/ \E t \in Threads : Commit(t) \/ Answer(t)
  BY StepCases
  DEF Submit, CheckBacking, Connect, Begin, BusyTimeout, Execute,
      WriteFails, Read, HealthCheck, HealthOpen, HealthProbe, HealthAnswer,
      FileDisappears, DirectoryDisappears, DirectoryReturns, Crash,
      Restart, vars
<1> QED
  BY <1>1, <1>2, <1>3, <1>4

(* Connections, the write lock, lookup, COMMIT and answer implement one    *)
(* atomic submission, whatever number of threads, mishaps and crashes:     *)
(* sqlite_store.py 311-369 around every write method.                      *)
THEOREM StoresImplementTheLedger == Spec => StoresImplementLedger
<1>1. Init => StoreLedger!Init
  BY DEF Init, StoreLedger!Init, EntriesOnDisk, AckedEntries
<1> QED
  BY <1>1, Invariant, LedgerStep, PTL
  DEF Spec, StoresImplementLedger, StoreLedger!Spec
=============================================================================
