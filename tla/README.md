# A TLA+ model of CER, the canonical evidence registry

CER is an HTTP service (FastAPI, one uvicorn process) in which research
producers register strategies, experiments, runs, empirical evidence,
artifacts, promotions and strategy health. It keeps two kinds of state on two
volumes: a SQLite database and a hash-addressed directory of artifacts. What it
promises is small and strict: a record is immutable; a retry under an
idempotency key returns the record first made; a `201` is durable; a lost volume
is reported and not papered over. These modules state those promises, check
them on small instances, and prove nearly all of them for every size of the
system.

## The system

| Part | State | Operations | How it meets the others |
|---|---|---|---|
| `metadata/sqlite_store.py`, write methods | seven tables | `register_strategy`, `register_strategy_version`, `create_experiment`, `create_run`, `close_run`, `append_evidence`, `register_artifact`, `attach_artifact`, `record_promotion`, `record_health` | called by the routes, each inside one transaction |
| the same file, transactions and connections | one cached connection a thread, the write lock of the file | `_require_durable_backing`, `_conn`, `_transaction`, `health` | wraps every method; threads share the file |
| `metadata/migrations.py`, `metadata/schema/` | schema, `schema_migrations` | `apply_migrations` | run by every construction of a store |
| `artifacts/fs_store.py` | marker, blobs, sidecars, `_initialised` | `initialise`, `mark_previously_initialised`, `put`, `get`, `stat`, `health` | called by the upload, the download, readiness and the entrypoint |
| `api/routes.py` | none | one handler a route; ids derived from producer and key | synchronous handlers run on a thread pool, `create_artifact` on the event loop |
| `api/main.py` | none | `_initialise_artifact_store_if_safe` | reads the metadata store to judge the artifact volume |
| `client.py` | none | one call a method, a timeout, no retry | sends one request to a route and turns its answer into a record or an exception; retries are its caller's |
| `contract/` | none | validation of one value at a time | |
| `runtime/`, `api/errors.py`, `api/app.py` | none | configuration, clock, logging, status codes | |

What is hard in it: retries that carry fresh ids and fresh server timestamps;
two lookups (by key, by id) whose order decides the answer; requests and
answers that are lost, late or doubled between a producer and the service; threads that write,
read and probe a file that may vanish under them; a migration that is not atomic
and may be run by two processes or killed in the middle; an upload that touches
two volumes and may fail or be killed at each access; files that rot; a start that must tell a first
deployment from a lost volume. `PROJECT.json` lists these hazards at their lines.

## Modules

| Module | Models | Instance for TLC |
|---|---|---|
| `WriteOnceLedger` | abstract: what an idempotency key promises | refined by three modules below |
| `EvidenceRegistry` | experiments, runs, evidence, artifacts; one action a write method | `MCEvidenceRegistry` |
| `RegistryApi` | extends it with the ids the routes derive and the replay of an upload | `MCRegistryApi` |
| `ProducerClient` | extends that with producers, `CERClient`, the network and the answers of the routes | `MCProducerClient` |
| `StrategyHistory` | strategies, versions, promotions, health records, a client that pages | `MCStrategyHistory` |
| `DurableBacking` | threads, connections, the write lock, the file and its directory, crashes | itself |
| `Migrations` | `apply_migrations`, statement by statement | `MCMigrations` |
| `ArtifactService` | upload, artifact store, startup, on two volumes | `MCArtifactService` |

Each of these but the ledger has its theorems in a module of its name ending in
`Proofs`, which extends it; `RegistryApiProofs` also extends
`EvidenceRegistryProofs`, and `ProducerClientProofs` that one, as the modules
themselves do.

Definitions marked `Fault` are bugs the code might have. No action uses them;
they exist to show that each property fails when the code is wrong in that way.

**WriteOnceLedger.** A name is written at most once, and an answer about a name
is what is written there (`contract/stores.py`, "Idempotency"). Three modules
implement it under their own mapping, each checked as a property:

| Property | Name | Body | Written |
|---|---|---|---|
| `EvidenceRegistry!RunsImplementLedger` | kind, producer, key | authored fields and id | rows of runs and evidence; callers choose ids freely |
| `RegistryApi!KeysImplementLedger` | the same | the same | rows of all four kinds; ids from `_generate_id` |
| `DurableBacking!StoresImplementLedger` | inode, key | body | committed rows of each file, while threads, files and crashes interleave |

A close, an attachment, a replay, a refusal, a lost file, a crash are stuttering
steps of the ledger. `EvidenceRegistry` leaves experiments and artifacts out of
its mapping: the store answers those by id without recording the key they came
with, which only a caller that invents ids can notice.

**EvidenceRegistry.** A table is the set of its rows and a row a record of its
columns, with everything a caller authors and no property tells apart folded
into `content`. A method is one action because it runs between `BEGIN IMMEDIATE`
and `COMMIT`; `DurableBacking` shows what that rests on. The guards keep the
order of the code: references, then the key, then the id, then the insert. The
exclude sets of the fingerprints are `SameExperiment`, `SameRun`,
`SameEvidence`, `SameArtifact` and `SameRegistration`; `at` is the timestamp that
the route stamps. `acks` is a history of every `201`. Callers choose ids freely
here, which is what the store has to withstand.

**RegistryApi** restricts the ids to those of `_generate_id`. Producers and keys
are sequences of characters because the derivation joins them with a colon.
`Blank` keys are those Python takes for false: an empty string in a JSON body
gets a drawn id like a request without a key, while the store, which asks for
`is not None`, looks it up and stores it as a key. The evidence route refuses
it and the header of an upload drops it.
`uuid5` is taken to be injective and `uuid4` never to repeat (`RandomIsNotDerived`);
`Characters` is the alphabet of the names.

**ProducerClient.** A worker runs a campaign, `create_experiment`, `create_run`,
`append_evidence`, `register_artifact`, `close_run`, each call built from the ids
the earlier ones returned (`NextCall`, from `held`). `Send` and `Receive` are the
two halves of `_request`; in between a request is served (`ServeCall`) at any
moment, by the same route actions as in `RegistryApi`, and `Answer` is what the
route then says. A call may end without a verdict at any point (`TimeOut`: the
timeout of httpx, a transport error or a 503): the answer is lost, the request
is lost, or the request stays on its way and is served later, any number of
times (`late`, `ServeLate`). What a caller does about that is policy outside
`src/src`, taken from sections 5 and 10 of the producer guide: same key, same
body, again. `Rerun` is the process dying and its script starting over with no
memory. Two workers with one producer and key are a job delivered twice. A
producer may have any number of campaigns, each under a key of its own.

**StrategyHistory** has the two histories as one function from the kind of
record, since their methods are alike; `AuthoredStamps` are the timestamps a
caller supplies itself. `Page` is `ORDER BY ... DESC, id DESC LIMIT ? OFFSET ?`.
Timestamps and ids are numbers there, and the derived id lies between the random
ones, so rows are inserted on both sides of the reader. Ids are assumed not to
collide; `RegistryApi` is where that is examined.

**DurableBacking.** A file is an inode. A connection keeps the inode it opened,
`sqlite3.connect()` on a missing path creates an empty file, and the path may
come to name another inode or none. Its steps are those between which another
thread, or a crash, can act: check, connect, begin, body, commit, answer. The
body of a method is one table keyed by an idempotency key. A statement of the
method, or its `COMMIT`, may fail at any time (`WriteFails`).

**Migrations.** `executescript()` commits statement by statement, so statements
are steps. Each script keeps its statements of each form: repeatable `CREATE`
and `DROP`, and `ALTER TABLE ADD COLUMN`, which fails when repeated.

**ArtifactService.** Steps are the accesses to the two volumes. Only one upload
runs at a time, because `create_artifact` is an `async def` that awaits nothing
after the request body and the service runs one process; a crash, a failed
write, a lost volume, a damaged or deleted blob, readiness and downloads come
between its steps. That uploads do not interleave is thus part of the model's
shape, read off the code, and no property claims to check it. `damaged` are the
blobs that hold other bytes than were written. Two histories name what is not
promised: `harmed`, the artifacts whose blob was damaged or deleted after it was
stored for them, and `parted`, those whose volume disappeared between the blob
and the sidecar of their own upload, so that the sidecar was written under the
bare mount point. `RecordedIsStored` says that of every other record one volume
holds both sidecar and bytes. Oversized bodies, malformed headers and
the content-type rule are refusals before the first step and are left out.

## Runs

The properties relate at most two rows or two answers of one table and one row
of another, so a counterexample needs two of whatever it tells apart: bodies,
timestamps, ids, producers. The two registry runs have two bodies, timestamps and
producers, and two ids in the tables whose retries they are about, which is more
than TLC gets through unless the number of different `201`s is bounded: `FewSpec` and `FewApiSpec` are `Spec` and `ApiSpec` up to
`MaxAnswers` = 3 of them, of any kinds, or 4 if they are a whole chain.

| Run | Bounds | Shows |
|---|---|---|
| `registry_chain` | 2 producers, 1 key or none, 2 bodies, 2 times, 1 experiment id, 2 run ids, 2 evidence ids, 1 artifact id, an ended status; 3 answers, or a chain whose evidence alone has a key | references resolve and stay resolved, an attachment is written once, an acknowledged body is the stored one, a key names one row, a retried run or evidence with another id and another time is the first one, after a close too, runs and evidence implement the ledger |
| `registry_api` | 2 producers, 1 key without a colon, the empty one or none, 2 bodies, 2 times, derived ids and 2 drawn ones for experiments, 1 derived id for runs and for evidence, 2 drawn ids for artifacts, an ended status; 3 answers, or a chain of one producer under its key | a first use is never refused, a retried experiment or artifact is the first one, all four kinds together implement the ledger over HTTP |
| `producers` | 2 workers, 1 producer, 1 key, 2 times, `MaxLate` 1, `MaxCrashes` 1 | no attempt is refused, both workers end with one chain, an ended run is frozen, every campaign completes |
| `id_collision` | the names `a`, `a:b` and the keys `c`, `b:c` | a finding, below |
| `history` | 1 producer, 1 key, 2 bodies, 2 server times, 1 strategy and version, pages of 1 | one intent recorded once, paging misses nothing, nothing is rewritten |
| `time_ignored` | 2 authored times | a finding |
| `backing` | 2 threads, 1 key, 2 bodies, `MaxMishaps` 1, `MaxCrashes` 1 | acknowledged rows are on disk, readiness and writes agree, every file implements the ledger, retried keys are acknowledged |
| `backing_lost` | 2 threads, one lost file, no crash | a finding |
| `migrations` | 2 processes, 3 releases, `MaxCrashes` 1 | a recorded version is complete, an edited one refused, racers come up |
| `migrations_wedged` | 1 process, `MaxCrashes` 1 | a finding |
| `artifacts` | 1 key, 2 contents, 3 ids, `MaxMishaps` 2, `MaxCrashes` 2 | one volume keeps sidecar and bytes of a record, a download is the right bytes or an error and never 404, a resubmission mints nothing |
| `volume_remade` | the same, fewer mishaps | a finding |

Deadlock is checked in every run but `producers`, where every campaign ends.
Symmetry is used where a set's members are
only compared for equality and no liveness property is checked.

Only what was answered for the first time counts towards the bound of the
registry runs: replays, refused calls, closes and attaches add no answer and may
come in any number and order. A time that entered a comparison, an id looked up
before a key, or a status that a close rewrites shows after one answer and a
retry with the other time, the other id or after the close; a dangling reference
or a moved attachment after the answers of the chain. What three answers leave
out, such as two complete chains side by side, the theorems below have, for
every value of the constants.

In `producers` every call is stamped with either time,
so each attempt of a campaign differs from the last one in the way a real one
does. `MaxLate` counts kinds of request; of a kind there may be any number of
copies, and a worker that gives up makes another at every call. One re-run
suffices because it can happen at every point of either worker's campaign, and
because a worker with no memory starts in the state of the first.

In `backing` a single lost file and a single crash suffice: one mishap already
yields two inodes, and each property speaks of one acknowledged row.
`AcknowledgedInStoreIsOnDisk` is what is true of the code: a write whose check
saw a migrated store at the path is there whenever the path names that file
again. `ReadyIsMigrated` speaks of the key index only where no two processes
raced, since a slow racer re-runs 001 after a fast one ran 002.

**Fairness.** `DurableBacking` assumes that a handler that has started goes on
(`WF` of its steps), that a thread waiting for the write lock gets it if it is
free again and again (`SF` of `Begin`: SQLite polls it for `busy_timeout_ms`),
that producers retry (`SF` of `Submit`) and that a supervisor restarts the
process (`WF` of `Restart`; `docker-compose.yml` says `restart`). Its liveness
property is conditional on a process and a file that stay, on waits that end
in time and on statements that succeed. `Migrations` assumes that a started process goes on and a container
that is down is started again. `ProducerClient` assumes that a worker makes its next call
(`WF` of `Send`), that a call ends, if only by its timeout of 10 s (`WF` of
`EndCall`), and that a call repeated for ever is not lost every time, on its way
to the server or back (`SF` of `ServeCall` and `Receive`): without that no retry
policy gets through. Nothing is assumed of late requests, crashes, mishaps,
reads or health checks. The other modules state safety only and no fairness.

## Findings

1. **`backing_lost`**: `_require_durable_backing` asks whether the path exists,
   not whether it is the file the connection has open. Once any read on another
   thread has re-created the deleted file, the check passes and a cached
   connection acknowledges rows that are on no disk, for the rest of the life
   of the process, while `/ready` reports the store unusable.
2. **`volume_remade`**: a start that cannot query the metadata store leaves the
   artifact store unmarked, and the next upload initialises an empty store in
   the place of a lost volume.
3. **`id_collision`**: the id of a keyed record hashes producer and key joined
   by a colon, which both may contain; the first use of a key may be answered 409.
4. **`migrations_wedged`**: a single process killed inside 003 or 004 leaves a
   database on which every later start fails; the comments say it takes a race.
5. **`time_ignored`**: the producer guide says an authored `observed_at_utc` is
   compared; for health records, like `at_utc` of promotions, it is not.
Two more disagreements came up that no run is kept for. `put()` looks at the
artifact volume once (fs_store.py 489-493) and then writes the blob and the
sidecar, making directories as it goes. A volume that disappears in between
keeps the blob, the sidecar lands under the bare mount point, and the upload is
answered 201 although neither place can serve it. The docstring of the class
(136-139) concedes that race; `docs/KNOWN-LIMITATIONS.md` 20-22 says without
exception that a 201 is durable. `RecordedIsStored` names the exception
(`parted`) and nothing wider: dropped from the property, TLC finds the trace
StoreBlob, VolumeDisappears, WriteSidecar, Register. And the producer guide says
of `artifact_store_error` (517) that nothing was written, while a failure at the
sidecar (`WriteFails` at `sidecar`) leaves the blob; it is addressed by its
content, and the retry the guide recommends finds it.

## Proofs

The theorems hold for all sets of producers, keys, contents, timestamps and ids,
for any number of threads, processes, workers, late requests, mishaps and
crashes, and for any page size. They rest on the named assumptions of the
modules and on nothing else:

| Module | Assumed of the constants |
|---|---|
| `EvidenceRegistry` | NULL is no id, key or name (`NoneIsNoValue`), and an open run is not ended (`OpenIsNotEnded`) |
| `RegistryApi` | names and keys are sequences of characters (`NamesAreText`); a drawn id is never a derived one (`RandomIsNotDerived`) |
| `ProducerClient` | workers sign with their producer and a key that is not empty (`WorkersSign`); derived ids are ids of experiments, runs and evidence and drawn ones of artifacts (`RoutesNameIds`); closed is an ended status (`ClosedIsFinal`); there is something to record (`SomethingToRecord`) |
| `StrategyHistory` | timestamps and ids are numbers, derived ids injective and never drawn, pages have rows, NULL is no key, authored timestamps are timestamps |
| `DurableBacking` | NULL is no thread, the mishaps are the two modelled, bounds are naturals, there is something to write (`SomethingToWrite`) |
| `Migrations` | builds are releases with at most one edited script, the bound is a natural |
| `ArtifactService` | NULL is neither a key nor a volume, `MetadataMayFail` is a Boolean |

`FirstUse` and the theorems of `ProducerClientProofs` have one hypothesis more,
`\A p \in Producers : ColonFree(p)`: no producer's name holds a colon. Without it a
first use, and so the first call of a campaign, can be refused (finding 3).

| Module | Theorem | Property |
|---|---|---|
| `EvidenceRegistryProofs` | `TypeCorrect` | `TypeOK` |
| | `IdsNameOneRow`, `KeysNameOneRow` | `IdNamesOneRow` (not in a run), `KeyNamesOneRow` |
| | `ReferencesResolve` | `NoDanglingReference` |
| | `NothingIsRewritten`, `EndedRunsStay`, `AttachmentsStay` | `RowsAreImmutable`, `EndedRunIsFrozen`, `AttachmentIsWrittenOnce` |
| | `AcknowledgedIsStored` | `AckedIsStored` |
| | `RunRetries`, `EvidenceRetries` | `RunRetryReturnsFirst`, `EvidenceRetryReturnsFirst` |
| | `KeysAcknowledgeOneRecord` | `KeyAcknowledgesOneRecord` (not in a run: the ledger implies it) |
| | `RunsImplementTheLedger` | `RunsImplementLedger` |
| `RegistryApiProofs` | `FirstUse` | `FirstUseIsNeverRefused` |
| | `KeysImplementTheLedger` | `KeysImplementLedger` |
| | `ExperimentRetries`, `RunRetriesOverHttp`, `ArtifactRetries` | `ExperimentRetryReturnsFirst`, `RunRetryReturnsFirst`, `ArtifactRetryReturnsFirst` |
| `ProducerClientProofs` | `CampaignsUseTheRoutes` | `CampaignSpec` implements `ApiSpec` |
| | `NothingRefused`, `OneChain`, `EndedRunsOfCampaignsStay` | `NothingIsRefused`, `CampaignIsOneChain`, `EndedRunIsFrozen` |
| `StrategyHistoryProofs` | `TypeCorrect`, `VersionsAreOfStrategies`, `RegistrationsAreIdempotent` | `TypeOK`, `VersionsHaveStrategies`, `RegistrationIsIdempotent` |
| | `IntentsAreRecordedOnce`, `RetriesReturnTheFirst` | `IntentIsRecordedOnce`, `RetryReturnsFirst` |
| | `HistoriesAreAppendOnly`, `PagesMissNothing` | `HistoryIsAppendOnly`, `PagingMissesNothing` |
| `DurableBackingProofs` | `TypeCorrect`, `AcknowledgedStays`, `ReadinessCoversWrites` | `TypeOK`, `AcknowledgedInStoreIsOnDisk`, `ReadyMeansWritesLand` |
| | `StoresImplementTheLedger` | `StoresImplementLedger` |
| `MigrationsProofs` | `TypeCorrect`, `RecordedVersionsAreApplied` | `TypeOK`, `RecordedIsApplied` |
| | `ReadyRunsTheRecorded`, `ReadyStoresAreMigrated` | `ReadyIsUnedited`, `ReadyIsMigrated` |
| `ArtifactServiceProofs` | `TypeCorrect`, `RecordsAreStored`, `DownloadsAreFaithful` | `TypeOK`, `RecordedIsStored`, `DownloadIsFaithful` |
| | `ResubmissionsMintNothing`, `AnswersAreAsDeclared` | `ResubmissionMintsNothing`, `AcknowledgedAsDeclared` |

**EvidenceRegistry.** `TablesTyped` is inductive. `Uniqueness` (ids and keys
together) is inductive beside it: a table changes by inserting a row after both
lookups failed (`InsertKeepsUnique`) or by rewriting one row without changing its
id, key or producer (`RewriteKeepsUnique`). No id ever leaves a table, so resolved
references stay resolved (`ReferencesSurvive`). `RunsSurvive` and
`ArtifactsSurvive` say what a step may change of a row; they give the three
action properties and carry old answers forward, while `NewAcks` says that the
answer a step adds names a row of its table with the acknowledged body. Together
they make `AckedIsStored` inductive. None of the retry properties is inductive
by itself: a state with an answer and no row satisfies nothing of them. They
follow from `AckedIsStored` (the row is there, under its key), uniqueness (it is
the only one the lookup can find) and `NoDanglingReference` (its references
still resolve, so the call is not refused before the lookup). For the ledger,
each action is shown to write the one entry its key did not have, to answer one
that is written, or to leave both sides as they are.

**RegistryApi.** The routes only submit requests that the store accepts from any
caller, so `ApiSpec => Spec` and everything above holds over HTTP
(`ApiUsesTheStore`). What is new is about derived ids. `IdsAreDrawn` says of every
row that its id is the one derived from its producer and key, or a drawn one if
it has no key or an empty one. For the ledger it is enough that two keys of *one* producer give
two ids, which holds for all names because the common prefix cancels
(`KeysOfOneProducerDiffer`); that is why the refinement needs no hypothesis on
colons. `FirstUse` needs two keys of *different* producers to give two ids, which
holds when the first colon of the joined text ends the producer
(`ColonFreeNamesDiffer`). The retries follow from `AnswersAreEntries`: what was
answered under a key is what is stored under it.

**ProducerClient.** `CampaignInv` says that every row of the registry belongs to
a campaign and carries its derived id and links, that a worker holds and waits
for ids in the order of its calls, each of them stored, and that every request
on its way without a caller is one some worker made when what it refers to was
stored. The last part is what lets a request be served at any later time. One
lemma a route (`ServesExperiment` ... `ServesClose`) says what it answers to such a
request; `StoredStays` says that no step unstores what a worker relies on.

**StrategyHistory.** `IdsAreAssigned` ties the id of a keyed row to its key; with
the uniqueness of ids, two rows under one key are one row. Paging is by
`MissingIsAhead`: every row that the reader has yet to get stands at or beyond
its offset. Insertions only push rows towards the end. That a page that is not
full is the last one needs the ranks of a history to be a numbering without
gaps, which is proved by counting, not by induction over the history.

**DurableBacking.** The inductive invariant has three parts. `Typed` holds the
write lock to the threads inside a transaction on that file. `OneStore` says that
of the migrated files a process and its threads know only the one found or made
at the start; while it is the newest file no connection is to another one.
`Serialised` says that what a transaction read is still so when it commits, and
that what it committed is in the file its check saw. `AcknowledgedInStoreIsOnDisk`
and `ReadyMeansWritesLand` alone are not inductive: the first fails from a state
in which the connection of a running write is to another file than its check
saw. The ledger follows from the three, since a commit adds one entry or none.

**Migrations.** `Applied` strengthens `RecordedIsApplied` with what a process has
executed of a pending script: those objects are in the schema whatever other
processes did since, except for the global key index, which 002 may drop
behind the back of a process in 001. `Ordered` says that versions are recorded without gaps. For
`ReadyIsMigrated`, `Unraced` says that without a race the one running process
knows every row it did not record, so 001 is not executed again after 002.
`Examined` says that the rows a process has passed are those of its release.

**ArtifactService.** `Stored` extends `RecordedIsStored` to the upload that is
about to be registered and to the one about to write its sidecar, which is what
the order blob, sidecar, row in the code is for. `Vouched` is the invariant of
the start: a process that could query the metadata store has seen the artifact
store or been told of it, so that no empty layout appears where records should
be. `Stored` says of each sidecar and of the upload that is about to write one
where the bytes are: on the same volume, gone because they were `harmed`, or on
the volume that left (`parted`). That `register_artifact` finds no row under the
key that `find_artifact_by_idempotency_key` found free (`KeyStaysFree`) is a
lemma about the shape of the model, used because uploads are serial, and not a
result.

**Only model-checked.** The three liveness properties, `EveryKeyIsAcknowledged`,
`EveryProcessComesUp` and `CampaignsComplete`: fairness and `ENABLED` are beyond the
prover. Everything else that a passing run checks is a theorem. The findings
are counterexamples, which TLC finds and no proof could.

## Not modelled

Validation of single values (`contract/`), provenance completeness among it, the
version gates, the assembly of the application, status codes, request ids,
logging and configuration: pure functions of one value or plain input and
output; a request they refuse never reaches the state modelled here. Queries
other than paging: they change nothing. The methods of `CERClient` outside the
campaign: each sends one request and keeps nothing; what the registry does with
it is in `StrategyHistory` and `RegistryApi`. Damaged sidecars: `stat` answers
503 as for any failed read. The text form of timestamps: `isoformat` of UTC
times leaves zero microseconds out, and `+` sorts before `.`, so the order of
pages is that of the times. A metadata volume that is lost while the service is
stopped: `docs/KNOWN-LIMITATIONS.md` accepts it, and the properties of
`DurableBacking` speak of the file the path names. A volume mounted over a store
that was created in its absence.

Two behaviours the models show and no property forbids. A keyed resubmission of
an artifact whose blob was lost is acknowledged from the metadata store and does
not store the bytes again. A close with the status `OPEN` rewrites `ended_at` and
leaves the run open; no document says what such a close means.

## Plan

Done: the inventory, the eight models with their runs, the refinements of
`WriteOnceLedger`, and the theorems of every safety property of a passing run,
all refinements among them. What is left:

1. Weaken hypotheses: `ColonFree` for the producers of two campaigns that meet
   could become "their derived ids differ", which colons do not always break.
2. The findings under hypotheses: what rules each of them out, as theorems
   (`AcknowledgedIsOnDisk` while no file disappears, `OnlyRacersFail` without a
   crash, `LostVolumeIsNotRemade` without a blind start).
3. The variants that the liveness properties go down along, as safety theorems.
