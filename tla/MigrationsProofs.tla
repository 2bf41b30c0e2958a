-------------------------- MODULE MigrationsProofs --------------------------
(***************************************************************************)
(* Proofs about Migrations, for any number of processes racing on one      *)
(* database file, any sequence of releases and any number of crashes.      *)
(***************************************************************************)
EXTENDS Migrations, TLAPS

Global == "global_key_index"

IsRecorded(v) == \E row \in recorded : row[1] = v

-----------------------------------------------------------------------------
(* What the scripts are made of.                                           *)

(* Every script has statements, and only the global index is ever dropped, *)
(* by 002, and created, by 001.                                            *)
LEMMA ScriptFacts ==
  ASSUME NEW v \in Versions
  PROVE  /\ Len(Script[v]) \in Nat \ {0}
         /\ \A i \in 1 .. Len(Script[v]) :
              /\ Script[v][i].op = "drop" => Script[v][i].object = Global
              /\ Script[v][i].object = Global /\ v # 1
                 => Script[v][i].op = "drop"
<1> DEFINE Statements == {Script[v][i] : i \in 1 .. Len(Script[v])}
<1> SUFFICES /\ Len(Script[v]) \in Nat \ {0}
             /\ \A s \in Statements :
                  /\ s.op = "drop" => s.object = Global
                  /\ s.object = Global /\ v # 1 => s.op = "drop"
  OBVIOUS
<1>1. CASE v = 1
  <2>1. /\ Len(Script[1]) = 2
        /\ Script[1][1] = Create("tables")
        /\ Script[1][2] = Create(Global)
    BY DEF Script, Global
  <2>2. Statements = {Create("tables"), Create(Global)}
    BY <1>1, <2>1
  <2> QED
    BY <1>1, <2>1, <2>2 DEF Create
<1>2. CASE v = 2
  <2>1. /\ Len(Script[2]) = 2
        /\ Script[2][1] = Drop(Global)
        /\ Script[2][2] = Create("producer_key_index")
    BY DEF Script, Global
  <2>2. Statements = {Drop(Global), Create("producer_key_index")}
    BY <1>2, <2>1
  <2> QED
    BY <1>2, <2>1, <2>2 DEF Create, Drop, Global
<1>3. CASE v = 3
  <2>1. /\ Len(Script[3]) = 3
        /\ Script[3][1] = Add("experiment_key")
        /\ Script[3][2] = Add("promotion_key")
        /\ Script[3][3] = Create("optional_key_index")
    BY DEF Script
  <2>2. Statements = {Add("experiment_key"), Add("promotion_key"),
                      Create("optional_key_index")}
    BY <1>3, <2>1
  <2> QED
    BY <1>3, <2>1, <2>2 DEF Create, Add, Global
<1>4. CASE v = 4
  <2>1. /\ Len(Script[4]) = 2
        /\ Script[4][1] = Add("artifact_key")
        /\ Script[4][2] = Create("artifact_key_index")
    BY DEF Script
  <2>2. Statements = {Add("artifact_key"), Create("artifact_key_index")}
    BY <1>4, <2>1
  <2> QED
    BY <1>4, <2>1, <2>2 DEF Create, Add, Global
<1> QED
  BY <1>1, <1>2, <1>3, <1>4 DEF Versions

(* The second script drops the global index first.                         *)
LEMMA SecondScript ==
  /\ Script[2][1].op = "drop" /\ Script[2][1].object = Global
  /\ Len(Script[2]) = 2
BY DEF Script, Create, Drop, Global

(* Nothing a version leaves for good is the global index.                  *)
LEMMA EffectFacts ==
  ASSUME NEW v \in Versions
  PROVE  /\ Global \notin Effect(v)
         /\ \A i \in 1 .. Len(Script[v]) :
              Script[v][i].object \in Effect(v) \cup {Global}
         /\ \A o \in Effect(v) :
              \E i \in 1 .. Len(Script[v]) : Script[v][i].object = o
BY DEF Effect, Global

-----------------------------------------------------------------------------
(* The inductive invariant.                                                *)

Labels == {"down", "migrating", "failed", "refused", "ready"}

Rows == Versions \X {"original", "edited"}

Typed ==
  /\ TypeOK
  /\ build \in Builds
  /\ pc \in [Processes -> Labels]
  /\ applied \in [Processes -> SUBSET Rows]
  /\ version \in [Processes -> 1 .. 5]
  /\ statement \in [Processes -> Nat]

(* Versions are recorded in order, and a process is past, or has finished  *)
(* with, recorded versions only.                                           *)
Ordered ==
  /\ \A v \in Versions : IsRecorded(v) => \A w \in 1 .. v : IsRecorded(w)
  /\ \A p \in Processes :
       /\ pc[p] = "migrating" => \A v \in 1 .. (version[p] - 1) : IsRecorded(v)
       /\ pc[p] = "ready" => \A v \in 1 .. build.upto : IsRecorded(v)

(* The statements of the current script that a process has executed are in *)
(* the schema, whatever the others did since.                              *)
Executed(p) ==
  pc[p] = "migrating" /\ statement[p] # 0 =>
    /\ Pending(p) /\ ~KnownApplied(p)
    /\ statement[p] <= Len(Script[version[p]])
    /\ \A i \in 1 .. statement[p] :
         Script[version[p]][i].object \in objects \cup {Global}

Applied == RecordedIsApplied /\ \A p \in Processes : Executed(p)

(* As long as no two processes raced, the running one knows every row it   *)
(* did not record itself, so that no version is executed after it was      *)
(* recorded, and 002 removes the global index for good.                    *)
Unraced ==
  ~raced =>
    /\ \A p, q \in Running : p = q
    /\ \A p \in Running : \A row \in recorded :
         row \in applied[p] \/ row[1] < version[p]
    /\ IsRecorded(2) => Global \notin objects
    /\ \A p \in Running :
         version[p] = 2 /\ statement[p] # 0 => Global \notin objects

(* The rows a process has compared are those of its release, and so are    *)
(* the rows that appeared since it started.                                *)
Examined ==
  \A p \in Running : \A row \in recorded :
    row[1] < version[p] \/ row \notin applied[p] => row[2] = Checksum(row[1])

LEMMA StepCases ==
  ASSUME [Next]_vars
  PROVE  \/ \E p \in Processes : \/ Start(p) \/ Skip(p) \/ Execute(p)
                                 \/ Record(p) \/ Finish(p)
                                 \/ Crash(p) \/ Stop(p)
         \/ \E b \in Builds : Deploy(b)
         \/ UNCHANGED vars
BY DEF Next, Migrate

LEMMA ReleasesAreVersions ==
  ASSUME Typed
  PROVE  build.upto \in Versions
BY BuildsAreReleases DEF Typed

(* What a process at a pending version works on.                           *)
LEMMA PendingIsVersion ==
  ASSUME Typed, NEW p \in Processes, Pending(p)
  PROVE  version[p] \in Versions
BY ReleasesAreVersions DEF Typed, Pending, Versions

-----------------------------------------------------------------------------
(* Type correctness.                                                       *)

LEMMA TypedStep == Typed /\ [Next]_vars => Typed'
<1> SUFFICES ASSUME Typed, [Next]_vars
             PROVE  Typed'
  OBVIOUS
<1> USE ReleasesAreVersions DEF Typed, TypeOK
<1>1. ASSUME NEW p \in Processes, Start(p)
      PROVE  Typed'
  BY <1>1 DEF Start, Labels, Rows, Versions
<1>2. ASSUME NEW p \in Processes, Skip(p)
      PROVE  Typed'
  BY <1>2 DEF Skip, Pending, Labels, Versions
<1>3. ASSUME NEW p \in Processes, Execute(p)
      PROVE  Typed'
  <2>1. version[p] \in Versions
    BY <1>3, PendingIsVersion DEF Execute
  <2> DEFINE s == Script[version[p]][statement[p] + 1]
  <2>2. s.object \in Effect(version[p]) \cup {Global}
    BY <1>3, <2>1, EffectFacts, ScriptFacts DEF Execute
  <2>3. Result(s) \subseteq (UNION {Effect(v) : v \in Versions}) \cup {Global}
    BY <2>1, <2>2 DEF Result, Global
  <2>4. CASE Fails(s)
    BY <1>3, <2>4 DEF Execute, Labels
  <2>5. CASE ~Fails(s)
    <3>1. objects' = Result(s) /\ statement' = [statement EXCEPT ![p] = @ + 1]
      BY <1>3, <2>5 DEF Execute
    <3>2. UNCHANGED <<recorded, build, pc, applied, version>>
      BY <1>3, <2>5 DEF Execute
    <3> HIDE DEF s
    <3> QED
      BY <2>3, <3>1, <3>2 DEF Global
  <2> QED
    BY <2>4, <2>5
<1>4. ASSUME NEW p \in Processes, Record(p)
      PROVE  Typed'
  <2>1. version[p] \in Versions
    BY <1>4, PendingIsVersion DEF Record
  <2>2. /\ recorded \subseteq recorded'
        /\ recorded' \subseteq Versions \X {"original", "edited"}
        /\ \A r1, r2 \in recorded' : r1[1] = r2[1] => r1 = r2
    BY <1>4, <2>1 DEF Record, Checksum
  <2> QED
    BY <1>4, <2>1, <2>2 DEF Record, Pending, Labels, Versions
<1>5. ASSUME NEW p \in Processes, Finish(p) \/ Crash(p) \/ Stop(p)
      PROVE  Typed'
  BY <1>5 DEF Finish, Crash, Stop, Labels
<1>6. ASSUME NEW b \in Builds, Deploy(b)
      PROVE  Typed'
  BY <1>6 DEF Deploy
<1>7. ASSUME UNCHANGED vars
      PROVE  Typed'
  BY <1>7 DEF vars, Effect
<1> QED
  BY <1>1, <1>2, <1>3, <1>4, <1>5, <1>6, <1>7, StepCases

LEMMA TypedInvariant == Spec => []Typed
<1>1. Init => Typed
  BY DEF Init, Typed, TypeOK, Labels
<1> QED
  BY <1>1, TypedStep, PTL DEF Spec

(* One row is recorded a version, and no process leaves the versions of    *)
(* its release.                                                            *)
THEOREM TypeCorrect == Spec => []TypeOK
<1>1. Typed => TypeOK
  BY DEF Typed
<1> QED
  BY <1>1, TypedInvariant, PTL

-----------------------------------------------------------------------------
(* Recorded versions.                                                      *)

(* A row stays recorded.                                                   *)
LEMMA RecordedGrows ==
  ASSUME [Next]_vars
  PROVE  recorded \subseteq recorded'
BY StepCases DEF Start, Skip, Execute, Record, Finish, Crash, Stop, Deploy,
   vars

(* A version is recorded by its own Record, and stays recorded.            *)
LEMMA RecordRecords ==
  ASSUME NEW p \in Processes, Record(p)
  PROVE  /\ \A v : IsRecorded(v)' <=> IsRecorded(v) \/ v = version[p]
         /\ \A row \in recorded' :
              row \in recorded \/ row = <<version[p], Checksum(version[p])>>
<1> DEFINE new == <<version[p], Checksum(version[p])>>
<1>1. new[1] = version[p]
  OBVIOUS
<1> HIDE DEF new
<1>2. recorded' = IF IsRecorded(version[p]) THEN recorded
                  ELSE recorded \cup {new}
  BY DEF Record, IsRecorded, new
<1> QED
  BY <1>1, <1>2 DEF IsRecorded, new

LEMMA OrderedStep ==
  ASSUME Typed, Ordered, [Next]_vars
  PROVE  Ordered'
<1> USE DEF Ordered
<1>1. ASSUME NEW p \in Processes, Start(p)
      PROVE  Ordered'
  BY <1>1 DEF Start, Typed, IsRecorded
<1>2. ASSUME NEW p \in Processes, Skip(p)
      PROVE  Ordered'
  <2>1. UNCHANGED <<recorded, build>>
    BY <1>2 DEF Skip
  <2>2. IsRecorded(version[p])
    BY <1>2 DEF Skip, KnownApplied, IsRecorded, Typed, TypeOK
  <2>3. /\ pc[p] = "migrating" /\ pc'[p] # "ready"
        /\ version'[p] \in {version[p], version[p] + 1}
        /\ \A q \in Processes \ {p} : /\ pc'[q] = pc[q]
                                      /\ version'[q] = version[q]
    BY <1>2 DEF Skip, Typed
  <2>4. \A v \in 1 .. (version'[p] - 1) : IsRecorded(v)
    BY <2>2, <2>3 DEF Typed
  <2> QED
    BY <2>1, <2>3, <2>4 DEF IsRecorded
<1>3. ASSUME NEW p \in Processes, Execute(p)
      PROVE  Ordered'
  BY <1>3 DEF Execute, Typed, IsRecorded
<1>4. ASSUME NEW p \in Processes, Record(p)
      PROVE  Ordered'
  <2>1. \A v : IsRecorded(v)' <=> IsRecorded(v) \/ v = version[p]
    BY <1>4, RecordRecords
  <2>2. /\ pc[p] = "migrating" /\ UNCHANGED <<pc, build>>
        /\ version'[p] = version[p] + 1
        /\ \A q \in Processes \ {p} : version'[q] = version[q]
    BY <1>4 DEF Record, Typed
  <2>3. \A v \in 1 .. version[p] : IsRecorded(v)'
    BY <2>1, <2>2 DEF Typed
  <2>4. \A v \in 1 .. (version'[p] - 1) : IsRecorded(v)'
    BY <2>2, <2>3 DEF Typed
  <2> QED
    BY <2>1, <2>2, <2>3, <2>4
<1>5. ASSUME NEW p \in Processes, Finish(p)
      PROVE  Ordered'
  <2>1. 1 .. build.upto \subseteq 1 .. (version[p] - 1)
    BY <1>5, ReleasesAreVersions DEF Finish, Pending, Typed, Versions
  <2>2. /\ UNCHANGED <<recorded, build, version>>
        /\ pc[p] = "migrating" /\ pc'[p] = "ready"
        /\ \A q \in Processes \ {p} : pc'[q] = pc[q]
    BY <1>5 DEF Finish, Typed
  <2> QED
    BY <2>1, <2>2 DEF IsRecorded
<1>6. ASSUME NEW p \in Processes, Crash(p) \/ Stop(p)
      PROVE  Ordered'
  BY <1>6 DEF Crash, Stop, Typed, IsRecorded
<1>7. ASSUME NEW b \in Builds, Deploy(b)
      PROVE  Ordered'
  BY <1>7 DEF Deploy, IsRecorded
<1>8. ASSUME UNCHANGED vars
      PROVE  Ordered'
  BY <1>8 DEF vars, IsRecorded
<1> QED
  BY <1>1, <1>2, <1>3, <1>4, <1>5, <1>6, <1>7, <1>8, StepCases

LEMMA OrderedInvariant == Spec => []Ordered
<1>1. Init => Ordered
  BY DEF Init, Ordered, IsRecorded
<1> QED
  BY <1>1, OrderedStep, TypedInvariant, PTL DEF Spec

-----------------------------------------------------------------------------
(* What is recorded is in the schema.                                      *)

(* A process that executes a statement makes its object present, except    *)
(* the global index, and takes no other object away.                       *)
LEMMA ExecuteBuilds ==
  ASSUME Typed, NEW p \in Processes, Execute(p)
  PROVE  /\ objects \ {Global} \subseteq objects'
         /\ version[p] \in Versions
         /\ pc'[p] = "migrating"
            => /\ statement'[p] = statement[p] + 1
               /\ statement[p] + 1 \in 1 .. Len(Script[version[p]])
               /\ Script[version[p]][statement[p] + 1].object
                    \in objects' \cup {Global}
         /\ UNCHANGED <<recorded, build, applied, version, raced>>
         /\ \A q \in Processes \ {p} : /\ pc'[q] = pc[q]
                                       /\ statement'[q] = statement[q]
<1>1. version[p] \in Versions /\ ~(pc[p] # "migrating")
  BY PendingIsVersion DEF Execute
<1> DEFINE i == statement[p] + 1
           s == Script[version[p]][i]
<1>2. i \in 1 .. Len(Script[version[p]])
  BY <1>1, ScriptFacts DEF Execute, Typed
<1>3. s.op = "drop" => s.object = Global
  BY <1>1, <1>2, ScriptFacts
<1>4. UNCHANGED <<recorded, build, applied, version, raced>>
  BY DEF Execute
<1>5. CASE Fails(s)
  <2>1. pc' = [pc EXCEPT ![p] = "failed"] /\ UNCHANGED <<objects, statement>>
    BY <1>5 DEF Execute
  <2> HIDE DEF s
  <2> QED
    BY <1>1, <1>4, <2>1 DEF Typed
<1>6. CASE ~Fails(s)
  <2>1. /\ objects' = Result(s) /\ UNCHANGED pc
        /\ statement' = [statement EXCEPT ![p] = @ + 1]
    BY <1>6 DEF Execute
  <2>2. /\ objects \ {Global} \subseteq objects'
        /\ s.object \in objects' \cup {Global}
    <3> HIDE DEF s
    <3> QED
      BY <1>3, <2>1 DEF Result
  <2> QED
    BY <1>1, <1>2, <1>4, <2>1, <2>2 DEF Typed
<1> QED
  BY <1>5, <1>6

LEMMA AppliedStep ==
  ASSUME Typed, Applied, [Next]_vars
  PROVE  Applied'
<1>1. ASSUME NEW p \in Processes, Start(p)
      PROVE  Applied'
  BY <1>1 DEF Start, Typed, Applied, Executed, RecordedIsApplied, Pending,
     KnownApplied
<1>2. ASSUME NEW p \in Processes, Skip(p)
      PROVE  Applied'
  <2>1. statement[p] = 0
    BY <1>2 DEF Skip, Applied, Executed
  <2>2. /\ UNCHANGED <<objects, recorded, build, applied, statement>>
        /\ \A q \in Processes \ {p} : /\ pc'[q] = pc[q]
                                      /\ version'[q] = version[q]
    BY <1>2 DEF Skip, Typed
  <2> QED
    BY <2>1, <2>2 DEF Applied, Executed, RecordedIsApplied, Pending,
       KnownApplied
<1>3. ASSUME NEW p \in Processes, Execute(p)
      PROVE  Applied'
  <2>1. RecordedIsApplied'
    BY <1>3, ExecuteBuilds, EffectFacts
       DEF Applied, RecordedIsApplied, Typed, TypeOK
  <2>2. ASSUME NEW q \in Processes \ {p}
        PROVE  Executed(q)'
    <3>1. /\ pc'[q] = pc[q] /\ statement'[q] = statement[q]
          /\ UNCHANGED <<build, applied, version>>
          /\ objects \cup {Global} \subseteq objects' \cup {Global}
      BY <1>3, ExecuteBuilds
    <3> QED
      BY <3>1 DEF Applied, Executed, Pending, KnownApplied
  <2>3. Executed(p)'
    <3> SUFFICES ASSUME pc'[p] = "migrating"
                 PROVE  Executed(p)'
      BY DEF Executed
    <3>1. /\ statement'[p] = statement[p] + 1
          /\ statement[p] + 1 \in 1 .. Len(Script[version[p]])
          /\ Script[version[p]][statement[p] + 1].object
               \in objects' \cup {Global}
          /\ UNCHANGED <<build, applied, version>>
          /\ objects \cup {Global} \subseteq objects' \cup {Global}
      BY <1>3, ExecuteBuilds
    <3>2. \A i \in 1 .. statement[p] :
            Script[version[p]][i].object \in objects' \cup {Global}
      BY <1>3, <3>1 DEF Execute, Applied, Executed, Typed
    <3>3. /\ statement[p] \in Nat /\ Len(Script[version[p]]) \in Nat
          /\ Pending(p)' /\ ~KnownApplied(p)'
      BY <1>3, <3>1, ExecuteBuilds, ScriptFacts
         DEF Execute, Typed, Pending, KnownApplied
    <3>4. \A i \in 1 .. statement'[p] : i \in 1 .. statement[p]
                                        \/ i = statement[p] + 1
      BY <3>1, <3>3
    <3> QED
      BY <3>1, <3>2, <3>3, <3>4 DEF Executed
  <2> QED
    BY <2>1, <2>2, <2>3 DEF Applied
<1>4. ASSUME NEW p \in Processes, Record(p)
      PROVE  Applied'
  <2>1. version[p] \in Versions
    BY <1>4, PendingIsVersion DEF Record
  <2>2. \A o \in Effect(version[p]) : o \in objects
    <3>1. /\ statement[p] = Len(Script[version[p]]) /\ statement[p] # 0
          /\ pc[p] = "migrating"
      BY <1>4, <2>1, ScriptFacts DEF Record
    <3> QED
      BY <2>1, <3>1, EffectFacts DEF Applied, Executed
  <2>3. RecordedIsApplied'
    <3> SUFFICES ASSUME NEW row \in recorded'
                 PROVE  Effect(row[1]) \subseteq objects'
      BY DEF RecordedIsApplied
    <3>1. objects' = objects
      BY <1>4 DEF Record
    <3>2. CASE row \in recorded
      BY <3>1, <3>2 DEF Applied, RecordedIsApplied
    <3>3. CASE row = <<version[p], Checksum(version[p])>>
      BY <2>2, <3>1, <3>3
    <3> QED
      BY <1>4, <3>2, <3>3, RecordRecords
  <2>4. /\ UNCHANGED <<objects, build, pc, applied>>
        /\ statement'[p] = 0
        /\ \A q \in Processes \ {p} : /\ version'[q] = version[q]
                                      /\ statement'[q] = statement[q]
    BY <1>4 DEF Record, Typed
  <2> QED
    BY <2>3, <2>4 DEF Applied, Executed, Pending, KnownApplied
<1>5. ASSUME NEW p \in Processes, Finish(p) \/ Crash(p) \/ Stop(p)
      PROVE  Applied'
  <2>1. /\ UNCHANGED <<objects, recorded, build, applied, version, statement>>
        /\ \A q \in Processes : pc'[q] = "migrating" => pc[q] = "migrating"
    BY <1>5 DEF Finish, Crash, Stop, Typed
  <2> QED
    BY <2>1 DEF Applied, Executed, RecordedIsApplied, Pending, KnownApplied
<1>6. ASSUME NEW b \in Builds, Deploy(b)
      PROVE  Applied'
  BY <1>6 DEF Deploy, Applied, Executed, RecordedIsApplied
<1>7. ASSUME UNCHANGED vars
      PROVE  Applied'
  BY <1>7 DEF vars, Applied, Executed, RecordedIsApplied, Pending, KnownApplied
<1> QED
  BY <1>1, <1>2, <1>3, <1>4, <1>5, <1>6, <1>7, StepCases

LEMMA AppliedInvariant == Spec => []Applied
<1>1. Init => Applied
  BY DEF Init, Applied, Executed, RecordedIsApplied
<1> QED
  BY <1>1, AppliedStep, TypedInvariant, PTL DEF Spec

(* A version is recorded only when everything it adds is in the schema,    *)
(* for any number of racing processes, wherever each of them is killed.    *)
THEOREM RecordedVersionsAreApplied == Spec => []RecordedIsApplied
<1>1. Applied => RecordedIsApplied
  BY DEF Applied
<1> QED
  BY <1>1, AppliedInvariant, PTL

-----------------------------------------------------------------------------
(* No store serves on an edited migration.                                 *)

Compared == Examined /\ ReadyIsUnedited

LEMMA ComparedStep ==
  ASSUME Typed, Compared, [Next]_vars
  PROVE  Compared'
<1> USE DEF Compared, Examined, ReadyIsUnedited, Unedited, Running
<1>1. ASSUME NEW p \in Processes, Start(p)
      PROVE  Compared'
  <2>1. /\ UNCHANGED <<recorded, build>>
        /\ pc'[p] = "migrating" /\ applied'[p] = recorded /\ version'[p] = 1
        /\ \A q \in Processes \ {p} :
             /\ pc'[q] = pc[q] /\ applied'[q] = applied[q]
             /\ version'[q] = version[q]
    BY <1>1 DEF Start, Typed
  <2>2. \A row \in recorded : ~(row[1] < 1)
    BY DEF Typed, TypeOK, Versions
  <2> QED
    BY <2>1, <2>2 DEF Checksum
<1>2. ASSUME NEW p \in Processes, Skip(p)
      PROVE  Compared'
  <2>1. /\ UNCHANGED <<recorded, build, applied>>
        /\ \A q \in Processes \ {p} : /\ pc'[q] = pc[q]
                                      /\ version'[q] = version[q]
        /\ pc[p] = "migrating" /\ pc'[p] # "ready"
    BY <1>2 DEF Skip, Typed
  <2>2. CASE <<version[p], Checksum(version[p])>> \in applied[p]
    <3>1. version'[p] = version[p] + 1
      BY <1>2, <2>2 DEF Skip, Typed
    <3>2. ASSUME NEW row \in recorded, row[1] = version[p]
          PROVE  row[2] = Checksum(row[1])
      BY <2>2, <3>2 DEF Typed, TypeOK
    <3>3. \A row \in recorded : row[1] < version'[p]
            => row[1] < version[p] \/ row[1] = version[p]
      BY <3>1 DEF Typed, TypeOK, Versions
    <3> QED
      BY <2>1, <3>2, <3>3 DEF Checksum
  <2>3. CASE <<version[p], Checksum(version[p])>> \notin applied[p]
    <3>1. pc'[p] # "migrating"
      BY <1>2, <2>3 DEF Skip, Typed
    <3> QED
      BY <2>1, <3>1 DEF Checksum
  <2> QED
    BY <2>2, <2>3
<1>3. ASSUME NEW p \in Processes, Execute(p)
      PROVE  Compared'
  <2>1. /\ UNCHANGED <<recorded, build, applied, version>>
        /\ \A q \in Processes \ {p} : pc'[q] = pc[q]
        /\ pc[p] = "migrating" /\ pc'[p] # "ready"
    BY <1>3 DEF Execute, Typed
  <2> QED
    BY <2>1 DEF Checksum
<1>4. ASSUME NEW p \in Processes, Record(p)
      PROVE  Compared'
  <2>1. \A row \in recorded' :
          row \in recorded \/ row[2] = Checksum(row[1])
    BY <1>4, RecordRecords
  <2>2. /\ UNCHANGED <<build, pc, applied>>
        /\ pc[p] = "migrating" /\ version'[p] = version[p] + 1
        /\ \A q \in Processes \ {p} : version'[q] = version[q]
        /\ \A row \in applied[p] : row[1] # version[p]
    BY <1>4 DEF Record, Typed, KnownApplied
  <2>3. \A row \in recorded : row[1] < version'[p]
          => row[1] < version[p] \/ row \notin applied[p]
    BY <2>2 DEF Typed, TypeOK, Versions
  <2> QED
    BY <2>1, <2>2, <2>3 DEF Checksum
<1>5. ASSUME NEW p \in Processes, Finish(p)
      PROVE  Compared'
  <2>1. /\ UNCHANGED <<recorded, build, applied, version>>
        /\ pc[p] = "migrating" /\ pc'[p] = "ready"
        /\ \A q \in Processes \ {p} : pc'[q] = pc[q]
    BY <1>5 DEF Finish, Typed
  <2>2. \A row \in recorded : row[1] <= build.upto => row[1] < version[p]
    BY <1>5, ReleasesAreVersions DEF Finish, Pending, Typed, TypeOK, Versions
  <2> QED
    BY <2>1, <2>2 DEF Checksum
<1>6. ASSUME NEW p \in Processes, Crash(p) \/ Stop(p)
      PROVE  Compared'
  <2>1. /\ UNCHANGED <<recorded, build, applied, version>>
        /\ pc'[p] = "down"
        /\ \A q \in Processes \ {p} : pc'[q] = pc[q]
    BY <1>6 DEF Crash, Stop, Typed
  <2> QED
    BY <2>1 DEF Checksum
<1>7. ASSUME NEW b \in Builds, Deploy(b)
      PROVE  Compared'
  BY <1>7 DEF Deploy
<1>8. ASSUME UNCHANGED vars
      PROVE  Compared'
  BY <1>8 DEF vars, Checksum
<1> QED
  BY <1>1, <1>2, <1>3, <1>4, <1>5, <1>6, <1>7, <1>8, StepCases

(* A store that came up, comes up again or serves beside others runs the   *)
(* very scripts the database records, up to the version of its release.    *)
THEOREM ReadyRunsTheRecorded == Spec => []ReadyIsUnedited
<1>1. Init => Compared
  BY DEF Init, Compared, Examined, ReadyIsUnedited, Running
<1>2. Compared => ReadyIsUnedited
  BY DEF Compared
<1> QED
  BY <1>1, <1>2, ComparedStep, TypedInvariant, PTL DEF Spec

-----------------------------------------------------------------------------
(* A store that came up is migrated.                                       *)

(* 001 alone brings the global index back; 002 begins by dropping it.      *)
LEMMA ExecuteDrops ==
  ASSUME Typed, NEW p \in Processes, Execute(p), version[p] # 1
  PROVE  /\ Global \in objects' => Global \in objects
         /\ version[p] = 2 /\ statement[p] = 0 /\ pc'[p] = "migrating"
            => Global \notin objects'
<1>1. version[p] \in Versions
  BY PendingIsVersion DEF Execute
<1> DEFINE i == statement[p] + 1
           s == Script[version[p]][i]
<1>2. i \in 1 .. Len(Script[version[p]])
  BY <1>1, ScriptFacts DEF Execute, Typed
<1>3. s.object = Global => s.op = "drop"
  BY <1>1, <1>2, ScriptFacts
<1>4. version[p] = 2 /\ statement[p] = 0 => s.op = "drop" /\ s.object = Global
  BY SecondScript
<1>5. \/ pc'[p] # "migrating" /\ UNCHANGED objects
      \/ objects' = Result(s)
  BY DEF Execute, Typed
<1> HIDE DEF s
<1> QED
  BY <1>3, <1>4, <1>5 DEF Result

LEMMA UnracedStep ==
  ASSUME Typed, Ordered, Applied, Unraced, [Next]_vars
  PROVE  Unraced'
<1> SUFFICES ASSUME ~raced'
             PROVE  /\ \A p, q \in Running' : p = q
                    /\ \A p \in Running' : \A row \in recorded' :
                         row \in applied'[p] \/ row[1] < version'[p]
                    /\ IsRecorded(2)' => Global \notin objects'
                    /\ \A p \in Running' :
                         version'[p] = 2 /\ statement'[p] # 0
                         => Global \notin objects'
  BY DEF Unraced
<1>1. ~raced
  BY StepCases DEF Start, Skip, Execute, Record, Finish, Crash, Stop, Deploy,
     vars
<1>2. /\ \A p, q \in Running : p = q
      /\ \A p \in Running : \A row \in recorded :
           row \in applied[p] \/ row[1] < version[p]
      /\ IsRecorded(2) => Global \notin objects
      /\ \A p \in Running :
           version[p] = 2 /\ statement[p] # 0 => Global \notin objects
  BY <1>1 DEF Unraced
<1>3. CASE \E p \in Processes : Start(p)
  <2>1. PICK p \in Processes : Start(p)
    BY <1>3
  <2>2. Running = {} /\ Running' \subseteq {p}
    BY <2>1 DEF Start, Running, Typed
  <2>3. applied'[p] = recorded' /\ statement'[p] = 0
        /\ UNCHANGED <<recorded, objects>>
    BY <2>1 DEF Start, Typed
  <2> QED
    BY <1>2, <2>2, <2>3 DEF IsRecorded
<1>4. CASE \E p \in Processes : Skip(p)
  <2>1. PICK p \in Processes : Skip(p)
    BY <1>4
  <2>2. /\ p \in Running /\ Running' \subseteq Running
        /\ UNCHANGED <<recorded, objects, applied, statement>>
        /\ version'[p] \in {version[p], version[p] + 1}
    BY <2>1 DEF Skip, Running, Typed
  <2>3. statement[p] = 0
    BY <2>1 DEF Skip, Applied, Executed
  <2>4. \A row \in recorded : row[1] < version[p] => row[1] < version'[p]
    BY <2>2 DEF Typed, TypeOK, Versions
  <2> QED
    BY <1>2, <2>2, <2>3, <2>4 DEF IsRecorded
<1>5. CASE \E p \in Processes : Execute(p)
  <2>1. PICK p \in Processes : Execute(p)
    BY <1>5
  <2>2. p \in Running /\ Running' \subseteq Running
    BY <2>1 DEF Execute, Running, Typed
  <2>3. UNCHANGED <<recorded, build, applied, version>>
    BY <2>1, ExecuteBuilds
  <2>4. IsRecorded(2) => version[p] # 1
    <3>1. IsRecorded(2) => IsRecorded(1)
      BY DEF Ordered, Versions
    <3>2. IsRecorded(1) /\ version[p] = 1 => KnownApplied(p)
      BY <1>2, <2>2 DEF IsRecorded, KnownApplied
    <3> QED
      BY <2>1, <3>1, <3>2 DEF Execute
  <2>5. IsRecorded(2) => Global \notin objects'
    BY <1>2, <2>1, <2>4, ExecuteDrops
  <2>6. version[p] = 2 /\ p \in Running' => Global \notin objects'
    BY <1>2, <2>1, <2>2, ExecuteDrops DEF Running
  <2> QED
    BY <1>2, <2>2, <2>3, <2>5, <2>6 DEF IsRecorded
<1>6. CASE \E p \in Processes : Record(p)
  <2>1. PICK p \in Processes : Record(p)
    BY <1>6
  <2>2. /\ p \in Running /\ Running' = Running
        /\ UNCHANGED <<objects, applied>>
        /\ version'[p] = version[p] + 1 /\ statement'[p] = 0
    BY <2>1 DEF Record, Running, Typed
  <2>3. version[p] = 2 => statement[p] # 0
    BY <2>1, SecondScript DEF Record
  <2>4. \A row \in recorded' : row \in applied[p] \/ row[1] < version'[p]
    BY <1>2, <2>1, <2>2, RecordRecords DEF Typed, TypeOK, Versions
  <2>5. IsRecorded(2)' => Global \notin objects
    BY <1>2, <2>1, <2>2, <2>3, RecordRecords
  <2> QED
    BY <1>2, <2>2, <2>4, <2>5
<1>7. CASE \E p \in Processes : Finish(p) \/ Crash(p) \/ Stop(p)
  <2>1. /\ Running' \subseteq Running
        /\ UNCHANGED <<objects, recorded, applied, version, statement>>
    BY <1>7 DEF Finish, Crash, Stop, Running, Typed
  <2> QED
    BY <1>2, <2>1 DEF IsRecorded
<1>8. CASE (\E b \in Builds : Deploy(b)) \/ UNCHANGED vars
  <2>1. /\ Running' = Running
        /\ UNCHANGED <<objects, recorded, applied, version, statement>>
    BY <1>8 DEF Deploy, vars, Running
  <2> QED
    BY <1>2, <2>1 DEF IsRecorded
<1> QED
  BY <1>3, <1>4, <1>5, <1>6, <1>7, <1>8, StepCases

(* A store that was constructed finds everything its release needs and,    *)
(* unless processes raced, no index that makes a key unique across         *)
(* producers.                                                              *)
THEOREM ReadyStoresAreMigrated == Spec => []ReadyIsMigrated
<1>1. Init => Unraced
  BY DEF Init, Unraced, Running, IsRecorded
<1>2. Typed /\ Ordered /\ Applied /\ Unraced /\ [Next]_vars => Unraced'
  BY UnracedStep
<1>3. ASSUME Typed, Ordered, Applied, Unraced
      PROVE  ReadyIsMigrated
  <2> SUFFICES ASSUME NEW p \in Processes, pc[p] = "ready"
               PROVE  /\ Required \subseteq objects
                      /\ build.upto > 1 /\ ~raced => Global \notin objects
    BY DEF ReadyIsMigrated, Global
  <2>1. \A v \in 1 .. build.upto : IsRecorded(v)
    BY <1>3 DEF Ordered
  <2>2. \A v \in 1 .. build.upto : Effect(v) \subseteq objects
    BY <1>3, <2>1 DEF IsRecorded, Applied, RecordedIsApplied
  <2>3. build.upto > 1 => IsRecorded(2)
    BY <1>3, <2>1, ReleasesAreVersions DEF Versions
  <2> QED
    BY <1>3, <2>2, <2>3 DEF Required, Unraced
<1> QED
  BY <1>1, <1>2, <1>3, TypedInvariant, OrderedInvariant, AppliedInvariant,
     PTL DEF Spec
=============================================================================
