# GraphRAG service: a TLA+ verification project

This directory models the control of the GraphRAG service under
`src/src/graphrag_service/`: a job queue in PostgreSQL, worker processes that
take jobs from it, and the jobs that turn an Obsidian vault into documents and
chunks, vectors in Qdrant, extracted knowledge, and a graph in Neo4j; and the
query that reads all of them.  The models are checked by TLC on small instances.
The safety properties that the passing runs check are proved by TLAPS as well, for
every value of the constants and, where a property needs them, under conditions that
the theorem names.

`PROJECT.json` maps each definition to the lines it models (`map`), and lists
the runs, the mutants that show each property can fail, the hazards and the
theorems.

## 1. The system

PostgreSQL is the only store of record ("control plane", ADR 0003).  Qdrant and
Neo4j hold projections of it that can be rebuilt.  The HTTP API writes a vault
or a job row and returns; all the work is done by worker processes.

| component | state it keeps | operations that change it | what makes it hard |
|---|---|---|---|
| Job queue (`job_queue.py`) | table `jobs`: status, priority, attempts, lease owner and expiry, next attempt, cancel mark, checkpoint (written at the end of an attempt, shown to clients, read by no worker and not in the model) | enqueue, claim, heartbeat, succeed, fail, request_cancel, recover_expired_leases | claims and reports of several workers, leases that run out under a live handler, priorities and retries |
| Workers (`workers/runner.py`) | the job at hand, the heartbeat task, the stop event, all in memory | start, recover, claim, run the handler, report, stop | crashes anywhere; a heartbeat task that dies unseen; two handlers of one job |
| Vault scanning and ingest (`scanner.py`, `ingest.py`, `ingest_store.py`) | `vault_file_states`, `documents`, `document_versions` and the rows derived from a version | begin, walk, apply_scan, store_document, mark failed, finish, fail | files edited underneath; renames guessed from content; several transactions for one scan; two scanners |
| Vector projection (`projection.py`, `projection_store.py`) | `projection_outbox`, `projection_status`, the Qdrant collection and alias | drop, ensure, enqueue, claim batch, upsert and delete points, mark, activate | two stores without a common transaction; lost answers; chunks that change in between |
| Graph projection (`graph_projection.py`, `graph_store.py`) | `neo4j_projection_runs`, their outbox rows, the graph | snapshot, prepare, mark running, replace, mark succeeded or failed | a snapshot read in several queries; rebuilds that cross; runs looked up by hash |
| Knowledge extraction (`extraction.py`, `extraction_store.py`) | extraction runs, chunk states, candidates, evidence | prepare, record success / invalid / provider failure, finalize | retries of one run, two workers on one run, chunks deleted underneath |
| Entity resolution (`resolution.py`, `resolution_store.py`) | entities, identifiers, decisions, assertions | resolve a candidate, materialize assertions | identity decided by what was resolved before; two workers meeting one identifier |
| Schema and source retention (`migrations/versions/`, `ingest_store.py`) | the 17 tables that hold what was made of a text | ON DELETE CASCADE and the two deletes of the code: of a version's rows by a scan, of an answer's rows by its repetition | what goes along with a row, four tables away |
| Retrieval (`retrieval.py`, `phase5_retrieval.py`, `query_planner.py`, `graph_retrieval.py`) | none but a query log | plan, one call per channel, gate, contexts | each call reads in a session of its own while scans go on; Qdrant and Neo4j lag behind |
| Operator console (`operator_store.py`) | none | `pending_refresh` compares times of scans and runs | two clocks |
| Markdown parser and chunker | none | pure functions of the text | - |
| Vault reader, model providers, readiness, HTTP API, configuration, logging | none of their own | I/O | their failures are choices of the modules that call them |

How they interact:

```
 API --enqueue/cancel--> jobs <--claim/heartbeat/report-- workers
                                                            | run a handler
        files --walk, read--> scan --> documents, chunks    |
                                          |                 |
                     outbox + status <----+---> extraction --> resolution
                          |                                        |
                       Qdrant                              graph snapshot --> Neo4j
                          |                                        |
                          +-----------> a query <------------------+
                                  (rows of PostgreSQL decide)
```

Every arrow into PostgreSQL is a transaction of its own.  No handler holds a
transaction over a call to another service; that is where nearly all of the
interleavings come from.  Handlers of one job may overlap, because a lease may
run out while its handler goes on; handlers of different jobs overlap freely,
and nothing keeps two jobs on the same vault apart.

## 2. Modules

`JobQueue` is used by `WorkerPool` (EXTENDS), which refines `JobLifecycle`
(INSTANCE).  The modules of handlers stand beside it: each has its own
workers and assumes of the queue only what `WorkerPool` shows, namely that a
job may be tried again, may die at any point, and may run twice at a time.
`Resolution` composes extraction, resolution and scans (EXTENDS `Extraction`).
`SourceRetention` has all tables but of each writer only what it inserts and
deletes; `Retrieval` has the reader, and of the writers only that documents change.

### JobQueue, WorkerPool, JobLifecycle

`jobs` is the table.  Each operation of `SqlAlchemyJobQueue` is one transaction
and one action, named after the method.  `claim` is the moment its
`SELECT ... FOR UPDATE SKIP LOCKED` locks the row.  A lease is the number of
clock ticks left; `Tick` passes for all leases at once, and `next_attempt_at`
is NULL, ahead or reached.  `WorkerPool` adds the processes: `Start` and
`Recover` are the beginning of `run()`, `ClaimNext` and the `Handler...` and
`Report...` actions are `run_once()`, `Heartbeat` is one turn of the heartbeat
task, `HeartbeatError` its death by a database error (which comes out when the
task is awaited, and ends the process), `SignalStop`/`Stop` the signals.
`JobLifecycle` is the abstract specification: what a client of the queue may
rely on, without workers, leases or a clock.

### VaultIngest

A scan is `Begin`, `Visit` for each path, `Walked`, `Apply` (the transaction of
`apply_scan`), `Read`/`StoreDocument`/`MarkDocumentFailed` for each document,
`Finish`.  `Edit` is the owner of the vault, who writes, removes and moves files
between any two steps.  A content stands for bytes and hash; a document version
for the text its rows were derived from, which is how the model tells the hash a
version is stored under from the text it was made of.  `Apply` follows the code
in not seeing its own changes where the sessions do not autoflush (`Pending`).
What may happen in a behaviour (`setting`: scans at a time, what the owner does,
how many scans, failures and crashes) is one of `Setting`, chosen at the start, so
that one run covers several worlds whose product would be too large.

### VectorProjection

`run()` step by step: `Begin`, `DropCollection`, `EnsureCollection`, then
`enqueue_current_chunks`, `ClaimBatch`, `UpsertPoints` and `DeletePoints`,
`MarkUpserted`, `MarkDeleted`, `MarkFailed`, `CountOutstanding`, `Activate`.  The
outbox is keyed by idempotency key, as in the code, so an operation that exists is
not inserted again.  A call to Qdrant may fail before or after it took effect.

`enqueue_current_chunks` is one transaction, but PostgreSQL's default is READ COMMITTED
and nothing in the code asks for more, so each of its statements sees what has
been committed by then.  The two queries of current chunks are actions of their own
(`ReadCurrent`; `ReadAllCurrent` in a run of one vault, a run over all of them being the
`vault_id` None).  The inserts, the query of status rows and the commit are one action,
`Enqueue`: what they write is not seen before the commit, two transactions that insert
one key wait for each other, and two that lock keys in different orders are ended
by the database, which is a `Crash`.  `ClaimBatch` is the locking query and what is read of
the chunks of its rows.  Outbox leases and retry delays run out (`Time`) when somebody is
about to claim, since nobody else looks at them.

### GraphProjection

`rebuild_vault`: one `ReadPart` for each query of `build_snapshot` (the session
has no common view for its queries), `Prepare` and `Insert`, `MarkRunning`,
`Replace`, `MarkSucceeded` or `MarkFailed`.  Canonical rows are split into as many
parts as the run says; the hash of a snapshot is the snapshot.  `been` is the set
of contents each part has had, by which `PartsReturn = FALSE` keeps it from
having one twice.

### Retrieval

One query (`retrieve`), one action per call to a store, in the order of the code:
`KeywordSearch`, `VectorSearch` and `HydrateHits`, `EntitySeeds` and `GroundSeeds`,
`Expand` and `ConfirmPaths`, `ClaimCandidates`, then `Gate` (consensus, ranking,
limit) in memory, then the contexts, each looked up and read in two queries.
`Change` is a scan that stores, deletes or fails a document, between any two of
them.  Qdrant and Neo4j may name any chunk and any path they were ever given.
Scores, matching and the order of the fused ranking are choices, so that the
properties hold whatever the ranking; an assertion or a claim is named by the chunk
its evidence is in.  `seen` and `steady` are history variables: what was current at some
moment of the query, and what was at every moment of it.  A service that answers with an error is a warning
(`SemanticFails`, `ExpandFails`); one that cannot be reached raises (`Raise`),
since neither client turns a failed connection into the error `retrieve` expects.

### SourceRetention

A row is its table, what it was made of (`from`: a document's text, and the
extraction run) and the entities it refers to.  `Keys` are the foreign keys
of the migrations, by groups; each names its target by the row's origin or by
one of its entities.  `Cascade` is what PostgreSQL deletes along with given rows:
five rounds of referring rows, the longest chain of keys there is (section, chunk,
evidence, candidate, entity, assertion).  `StoreDocument`,
`DeleteDocumentSource` and `RecordSuccess` delete; `PrepareRun`, `Resolve` and
`MaterializeAssertions` insert, and are refused where a key would refer to
nothing.  One section, block, link and chunk stand for all of a version, and one
candidate of each kind for all of a chunk in a run: which of several goes is not
the question, since all of them have the same origin.

### Extraction, Resolution

`Extraction` is `run_pilot`: `Select`, `Prepare`, `Load` (`pending_chunks`), then
for each chunk one of `RecordSuccess`, `RecordSchemaInvalid` and
`RecordProviderFailure`, and `Finalize`; `EditChunk` is what scans do to chunks.
An answer of the model is what `_validate_candidates` tells apart: entities that
are sound or not, the strong identifiers they show, and relationships.
`Resolution` adds `resolve_run`: `BeginResolve`, for each candidate in the order
of the query `LookUp` and `Write`, the two halves of the transaction of
`resolve_candidate`, then `ReadDecisions` and `InsertAssertions`, those of
`materialize_assertions`.  The database's ON DELETE CASCADE is `Cascade`, which
is part of every step that deletes candidates.

## 3. Runs

Symmetry is used in safety runs only.  `CHECK_DEADLOCK FALSE` is given where the
bounds stop the system (all runs, scans and edits used up); `WorkerPool` never
stops and is checked for deadlock.

| run | what it shows | bounds |
|---|---|---|
| WorkerPool_safety | Attempts fence each other, the owner in the row is the last claimer, unexpired leases are respected, success is reported only for the last attempt, the queue implements `JobLifecycle`. | 2 workers, 1 job, 3 attempts, leases of 2 ticks, 2 crashes.  Two workers and three attempts are enough for a late report of an earlier attempt, of the same or of another worker, to meet each later state; jobs do not influence each other except in the order of claims, which the next run has. |
| WorkerPool_live | Every job ends, if processes are restarted again and again. | 1 worker, 2 jobs of any two priorities, 2 attempts, 1 crash. |
| VaultIngest_scans | An undisturbed scan leaves exactly the vault's documents, whatever earlier ones missed; documents move with their files; no text of earlier versions stays, and no two files share a document, also with two scanners. | 2 paths, 2 edits, 4 documents, three settings.  In turn: one scan at a time of any type, 3 scans, 3 contents, edits that do not show in the mtime, 1 document that fails.  At once: two incremental scans by 2 workers, 2 contents, paths used again, contents that return, 1 crash; and the same with 1 content and files that cannot be read.  Three scans: one that meets trouble, one that leaves something behind, one to repair it.  Two paths make a rename, a swap and ambiguous pairs of two files.  The vault is new or indexed at the start, so that two scans suffice for a deletion and a new file at its path. |
| VaultIngest_crash (violation) | A scan that dies after `apply_scan` loses a modification. | 1 path, 3 scans, 1 crash. |
| VaultIngest_recreate (violation) | A file created where one was deleted cannot be stored. | 1 path, 3 scans. |
| VectorProjection_runs | A complete run leaves exactly the current chunks in Qdrant; status rows can be believed; orphans are remembered; no delete of a current chunk is enqueued. | 2 chunks, 3 runs of one worker over one vault, all vaults or as a rebuild, 1 edit, 1 crash, failed calls and lost answers at any call, 2 attempts.  Three runs for a row to fail twice and be found by a third. |
| VectorProjection_concurrent (violation) | Two workers that enqueue at once can enqueue the delete of a current chunk. | 2 workers, 2 runs, 1 edit. |
| VectorProjection_returns (violation) | Content that returns is not indexed again. | 1 worker, 3 runs, 2 edits. |
| GraphProjection_rebuilds | A rebuild that nothing overtook leaves the current graph; no graph without a started run. | 2 workers, snapshots of 2 parts with 3 contents each, 3 rebuilds, 3 changes, 1 failed or unanswered call.  Two parts tear; the third change is needed for a torn snapshot to become the current state later. |
| Resolution_runs | A retry of an extraction job misses nothing and asks nothing twice; candidates that show one identifier end in one entity, or are deferred; entities, identifiers and assertions always have their source; resolving a run, again if need be, makes it whole. | 1 extraction run of 2 chunks, 1 worker on it and 2 attempts, 2 workers that resolve it, 2 resolutions, 2 changes of chunks by scans, so that a chunk is in error and then current again.  Answers: one device by both of two identifiers, or two devices by one each, which is what conflicts, merges and deferrals need; one entity and its relationship are unsound. |
| SourceRetention_rows | Of a superseded or deleted text no row stays in any table of what is derived from it; candidates are resolved as a whole or not at all; a step takes nothing away but what it set out to take and what is about entities created from that. | 2 documents, 2 texts, 2 runs, 3 scans, 2 answers.  Two documents and two runs for an entity to be shared by either; three scans to store both and end one. |
| Retrieval_queries | Every chunk of an answer was current while the query ran; context is of the version of something found; an answer without a warning or a mark of truncation leaves out no hit, path or claim that was named and, of the sources of the entities that the query names, none that was current all along. | 2 documents, one of them with two versions, a heading and a subsection (5 chunks); limit 2, 1 claim, 2 paths of at most 2 assertions, 1 row of context; 3 chunks named by all channels together, 2 changes.  Two changes take a document away between two calls and bring it back. |

Which properties hold depends on what is allowed to happen; where a property is
checked with restrictions, these are constants of the run and part of what it
says:

* `CompleteScanIndexesAll` speaks of scans during which nobody edited the vault
  and every document could be read and parsed.  It, `ActiveHasState` and
  `MoveKeepsDocument` speak of settings with one scan at a time (`OneAtATime`).
  The first two do not hold with files that cannot be hashed, or paths that are used
  again: a document in error whose file the walk does not find, but `read_text` does, is
  deleted and revived by one scan (section 5).  `ActiveHasState` therefore says
  `Steady`.  The first does not hold with crashes either (`VaultIngest_crash`).
* `CompleteRunIndexesAll` is not claimed between the drop of a rebuild and its
  enqueue (history variable `dropped`), nor when contents return.
* All properties of the projection but `TypeOK` are of one worker at a time.  Two that
  enqueue at once may enqueue the delete of a current chunk
  (`VectorProjection_concurrent`), which breaks `CompleteRunIndexesAll` too: the run that
  claims upsert and delete of the chunk in one batch puts the point, deletes it and switches
  the alias without it.  And a late mark of one may hide an orphan of the other.
* `CompleteRebuildIsCurrent` excludes rebuilds that crossed (`crossed`): then the
  older graph may be the one that stays.  A part's content that returns to what it
  was is excluded (`PartsReturn = FALSE`), see section 5.
* `SameIdentifierSameEntity` excludes identifiers whose row was deleted with a
  candidate that its entity outlived (history variable `lost`): a later candidate
  with such an identifier creates a second entity.
* `FinishedRunMissesNothing` and `ResolvedRunIsWhole` speak of runs under which no
  chunk or candidate came or went while the worker had its list (`touched`,
  `disturbed`).

### Fairness

Safety runs assume none.  `FairSpec` assumes of a worker process that its event
loop runs its tasks (WF of the steps of `run()`; SF of `ClaimNext`, because
another worker's claim may disable it again and again), that handlers end
(each call they make has a timeout), that the clock goes on and retry times are
reached, that a process that is down is started again, and that a stop signal
does not hit every start before the worker has recovered leases (SF of
`Recover` without a pending stop).  Nothing makes a client act, a process crash
or an operator stop one.  `RollingRestarts` adds that processes are stopped
again and again.  It is an assumption about operation, not about the code, and it is
needed: leases are recovered only when a process starts (`runner.py:109`).  Under
`FairSpec` alone TLC refutes `EveryJobEnds` with two workers: one dies and is
restarted before its lease has run out, so that its own recovery finds nothing,
and both then poll beside a job that stays `running`.

## 4. Proofs

`JobQueue_proofs` has the lemmas about the queue's operations (what each makes
of a row, and that it leaves the other rows alone).  `WorkerPool_proofs` proves,
for every set of workers and every `MaxJobs`, `MaxAttempts`, `LeaseTicks`,
`Priority` and `MaxCrashes` that satisfy `QueueAssumption` and `PoolAssumption`:

* `PoolInvariance`: `Spec => []PoolInv`, and from it `PoolTypeCorrect`,
  `RowsStayConsistent`, `AttemptsAreFenced`, `OwnersAreLast`;
* `LeasesAreKept` and `SuccessesAreEarned`, the action properties;
* `PoolImplementsLifecycle`: `Spec => LifecycleSpec`, the refinement.

None of the safety invariants is inductive alone.  That two handlers of one job
have different attempts is kept by a claim only because the new attempt number
is above every one in use, so the invariant must bound the attempts that
handlers hold by the row's `attempt_count` (`HandlersConsistent`), also for
workers that have lost their lease.  That a success is of the last attempt
needs that whoever passes the owner test of `succeed` holds the last attempt
(`OwnerHoldsLastAttempt`), which needs that owners are reset when a job is
requeued (`RowsConsistent`).  The refinement needs that rows not yet enqueued
are fresh (`AbsentIsFresh`), so that `attempt_count` starts at zero.  `PoolInv`
is the conjunction of the three named invariants with these two and the type
invariant.

`GraphProjection_proofs` proves `GraphHasItsRun` (`GraphIsAudited`) and, under
`~PartsReturn`, `RebuildIsCurrent` (`CompleteRebuildIsCurrent`), for every number
of workers, parts, contents, attempts and changes.  The graph that a rebuild
leaves is current only if what it read part by part was one state of the
database, although parts change while it reads.  `ReadsAgree` says that a part
that has not changed since it was read is as it was read, and `KnownHasBeen` that
everything held anywhere has been; as contents do not return, a torn snapshot can
never equal the canonical rows later (`ChangeIsNew`).  `DoneIsThere` and
`WrittenIsCurrent` follow the snapshot through run and graph.  `RebuildsAreTyped`
(`TypeOK`) is a counting argument: that attempts and generations are bounded by the
number of rebuilds is not inductive, because each rebuild adds to them some steps after it
began.  `RebuildsCounted` therefore leaves room for the workers on their way: attempts
and the workers that have not tried their run yet together are at most the rebuilds begun.

`Retrieval_proofs` proves `QueryTypes`, `AnswersAreOfTheirTime` (`AnswerWasCurrent`)
and `ContextIsTheirs` (`ContextBelongsToFound`) for all documents, chunks and
limits, from `RetrievalAssumption`.  The invariant `QueryInv` says of every
variable that holds confirmed chunks that they have been seen (`ConfirmedIsSeen`;
hits and raw paths are not among them) and of everything after the gate that it
goes back to what was found (`ContextIsOfFound`).  `SilenceIsTrue`
(`SilenceMeansComplete`) follows what the channels named through the query: as long as
nothing has warned or truncated, all hits and paths are confirmed (`AllConfirmed`), and after
the gate all of it is found and ranked (`AllShown`).  The sources of the entity seeds
are not confirmed but silently dropped when they have gone stale (section 5); of them it is
proved, by `SeedsKept`, that those that were current all along are among what was found.  The step that needs the limit is the
gate's: a ranking that is shorter than the limit, or as long as what passed, has taken
all that passed (`RankedIsAll`).

`SourceRetention_proofs` proves `NothingOutlivesItsSource` (`NoTextOutlivesItsSource`)
and `CascadesTakeTheirOwn` (`OnlyItsOwnGoes`) for all documents, texts and runs.
The work is in the schema: `KeysLeadDown` gives every table a rank such that a key
leads to a lower one, from which five rounds of `Cascade` are shown to be all of
them (`CascadeIsClosed`).  That a row goes with its text then needs that each
row of a version has a key to the row it was made of (`KeysLeadToChunks`), and
that a row is only ever inserted for a text that is current (`ChunkIsCurrent`),
because the database refuses a key that refers to nothing.  From the same invariant come
`RowsAreTyped` (`TypeOK`: keys refer to rows, one row of a candidate in each table) and
`DecisionsStayWhole` (`DecisionsAreWhole`).  The latter needs to know what a cascade takes
and not only that it is closed: each row it reaches is reached over a key from a row that
it takes (`CascadeHasReasons`), a delete begins with parsed rows or with all that was
extracted from a chunk (`Begins`), and an alias, a mention and a decision have keys
to the same candidate and the same entity (`LinkedIn`, `OnceIn`), so that whatever takes
one takes the others.

`VaultIngest_proofs` proves `IngestTypes` (`TypeOK`), `StatesKeepTheirDocuments`
(`StatesOwnDocuments`) and `NoTextIsHistorical` (`NoHistoricalText`) for every
setting, any number of scans at a time, and wherever they die.  The difficulty is a scan
that comes late: its `store_document` and its deletions concern documents as they
were when it classified.  `IngestInv` adds that documents are registered one after
the other (`RegisteredInOrder`), so that the ones a scan registers, numbered after
the last by the order of their paths, are nobody's (`Ranks`), and that a path
without a file has an empty state and scans schedule registered documents only
(`StatesAreClean`).

The other three properties are of scans that follow each other, and their invariant
(`SequenceInv`) has a layer for each condition:

* `OneAtATime`: the states a scan has loaded are those of the store until it applies
  its changes, and only a scan that has applied has something to parse (`ScansAlone`).
  The states after `Apply` are then what the walk has found (`StatesAreFound`), from
  which `MovesKeepDocuments` (`MoveKeepsDocument`) follows.
* ... and `Steady`: what was known of a file still tells, unless an edit left size and
  mtime alone (`RowsTell`); what a scan did not find is not there (`MissingIsGone`); and what
  it parses has a state or no file any more (`SourcesLive`), as a path that had a file
  gets none again.  Hence `ActiveAreOwned` (`ActiveHasState`), also where scans die.
* ... and no crashes: a path with a state is indexed, scheduled, or will be taken up by the
  next scan (`Settled`), and what a scan that nothing disturbed has found and stored is
  the vault (`Follows`).  Hence `CompleteScansIndexAll` (`CompleteScanIndexesAll`).

The conditions are of the setting, so the theorems speak of every behaviour in which
they hold.  Without them the properties fail: `VaultIngest_crash` is what the last
layer excludes, and the revival of a document in error (section 5) the one before.
Edits at any moment, silent ones, contents that return, documents that fail, `measure`
and `full_rehash` scans and scans that raise are all in.

`VectorProjection_proofs` proves `ProjectionTypes` (`TypeOK`) for any number of workers and
the other properties for one (`OneWorker`) and content that does not return, as in the
run.  The invariant `IndexInv` follows a chunk: what a run has read was enqueued
(`SeenIsRegistered`), and what was enqueued is a point or waits as an operation that is
outstanding and not yet sent (`EnqueuedIsThere`); as a run activates only when nothing
is outstanding, nothing is missing then: `CompleteRunsIndexAll` (`CompleteRunIndexesAll`).
That needs that operations on live chunks are never deletes (`OperationsAreKnown`, whence
`DeletesAreOfTheGone`), and that a rebuild's token makes all its keys new
(`TokensAreNew`).  A transaction that reads the current chunks in one statement and the
status rows in a later one keeps to this only because a chunk stored in between is new
to outbox and status rows (`ReadsAgree`), and that is where one worker is needed.  For
`StatusCanBeBelieved` (`StatusIsTrue`), `CompleteRunsLeaveNoOrphan` and
`OrphansAreRemembered`, `TruthInv` adds that rows in hand are `processing` and agree with where the run is (`HandsAgree`),
that a status row that says current has no delete yet, so that the next
delete key is new (`StatusAgrees`), and that nothing a run has not seen is
current (`UnseenIsNotCurrent`).

`Resolution_proofs` proves all properties of `Resolution` and `Extraction`, with three
invariants one on top of the other.  `IdentityInv`, of any number of workers on
both sides, says that the identifiers of a resolved candidate are recorded with its
entity or were lost: `OneIdentifierOneEntity` (`SameIdentifierSameEntity`).  `GroundedInv`
says what a resolver has in memory is still so unless the chunk it is of is
gone, from which `KnowledgeHasSources` and `AssertionsHaveSources` follow; `WholeInv`
adds that a resolver nobody disturbed has left nothing out: `ResolvingMakesWhole`.
These two rest on `OneExtractor`, that one worker at a time extracts (it is
what the lease of a job is for; section 5 has what happens otherwise):
`ExtractionInv` then gives `RunsMissNothing` and `AnswersStay`, so that candidates go
with their chunk only.  Any number may resolve.

Only model-checked: the liveness property `EveryJobEnds` (liveness under fairness and
ENABLED are out of the prover's reach).  That jobs of high priority keep coming and
starve the others for ever is possible in the code and outside the model, whose jobs
are finitely many.
`ChangesAreStorable` is violated by the code and has no theorem.

## 5. Disagreements between code and documents

Four have a run of their own, listed under `findings`.  Others were met while
modelling; no run is spent on them:

* `docs/api/rest-api-v0.md:134-135` says a rebuild makes the graph anew from the
  current state.  A snapshot whose run has succeeded once is skipped
  (`graph_store.py:375`): rows that go from A to B and back to A leave B in Neo4j.
  TLC shows it when `GraphProjection` is given `PartsReturn = TRUE`.
* `docs/architecture/overview.md:161` promises processing that can be resumed after an
  interruption; without another start of a worker it is not (see Fairness).
* `docs/api/rest-api-v0.md:170` calls cancellation cooperative.  No worker or
  handler calls `cancellation_requested` (`job_queue.py:231`), and `claim` does
  not look at the mark: a running job that is cancelled runs to its end and is retried.
* An outbox row that is `processing` with its attempts used up is neither claimed
  again nor failed (`projection_store.py:269`); `outstanding_counts` makes every
  later run raise.
* A rebuild that dies between dropping the collection and enqueueing
  (`projection.py:60-63`) leaves status rows that say current over an empty
  collection; only another rebuild repairs it.
* With two workers, `mark_failed` may reopen a row that succeeded
  (`projection_store.py:418-453`), and a late `mark_succeeded` may hide an orphan.
* A renamed document keeps its chunks and keys, so the path in its Qdrant payload
  stays the old one (`projection_store.py:336`).
* `docs/architecture/data-model.md:12` says that no text of a deleted source is kept.  A
  file that cannot be read is counted as deleted (`scanner.py:49-68`), and so is one that is
  away while the walk passes.  If its document was in error, the scan that marks it
  deleted schedules it all the same (`ingest_store.py:243-270`, no autoflush) and may store it:
  it is then active without a file state, and when the file goes, no later scan misses
  it.  TLC shows it for `CompleteScanIndexesAll` on one path, when `Plain` has one
  failure and `full_rehash` scans with `"unreadable"`, or with `"recreate"` and `"return"`.
* A document deleted by a scan while it was in error is scheduled by the same
  scan, and ends in error again (`session.py:23`, `ingest_store.py:243-270`).
* A late `store_document` of another scan revives a deleted document
  (`ingest_store.py:412-414`).
* A file edited between the walk and `read_text` is stored under the hash of its
  old content (`ingest.py:77-86`).
* An older rebuild of the graph may overwrite a newer one, and later rebuilds are
  skipped (`graph_projection.py:38-49`, `graph_store.py:370-376`); snapshots may
  mix two states of the database (`graph_store.py:54-181`); two runs may have one
  generation, against `docs/architecture/overview.md:271`.
* `finalize` (`extraction_store.py:478-547`) reports `succeeded` for a run some of
  whose chunks are still pending because their document is in error.
* With two workers on one extraction run, `record_provider_failure`
  (`extraction_store.py:337`) overwrites the success of the other, and a late
  `record_success` replaces candidates that have been resolved.
* `docs/architecture/data-model.md:312` and `docs/adr/0005-no-historical-source-text-retention.md:21` say
  that with a source go only the assertions that rest on it alone.  An entity goes with
  the candidate it was created from (`resolution_models.py:59-64`), and takes
  decisions, mentions and assertions of other sources along; `OnlyItsOwnGoes`
  therefore allows for what is about such an entity.
* `docs/architecture/overview.md:192` says the current version of a document changes
  only after a complete new projection; `store_document` (`ingest_store.py:405-414`)
  changes it at once, and retrieval shows nothing of a document from Qdrant until
  the projection has run.
* `docs/architecture/overview.md:262` has the outbox record in the transaction of the
  business change; a scan writes none, a projection run enqueues
  what it finds changed (`projection_store.py`).
* A retry of a document in error stores the version it had: `_delete_derived`
  (`ingest_store.py:285-286`) deletes its chunks before they are inserted again, and the
  cascade all knowledge extracted from them.
* Frontmatter and title stay for superseded and deleted documents
  (`ingest_store.py:304`, `413`), beside the metadata that ADR 0005 allows.
* `docs/api/rest-api-v0.md:39` lets a provider's failure be a degraded state while
  keyword retrieval works; a Qdrant or Neo4j that cannot be reached makes
  the query raise (`Raise` of `Retrieval`).
* A source chunk of an entity the query names that goes stale between `entity_seeds` and
  `hydrate_current` is dropped without a warning (`graph_retrieval.py:64`), though a
  stale hit of Qdrant and a stale path of Neo4j are warned of (`phase5_retrieval.py:351-367`,
  `graph_retrieval.py:138-145`).  `SilenceMeansComplete` says of these chunks only that
  those that were current all along are not left out.
* Limits inside the queries cut without a mark: rows of `entity_seeds` and entities after
  their ranking (`graphrag_retrieval_store.py:103`, `:162`), rows of `claim_candidates`
  before theirs (`:263`), and the limits of keyword search and of Qdrant.  In the model, a
  channel names what its call returns; what a limit in the query kept from being named is
  beyond `SilenceMeansComplete`.
* `pending_refresh` (`operator_store.py:129-229`) compares the application's clock
  with the database's.

## 6. Not modelled, and what is left

Not modelled, because they keep no state and their properties are not of
interleavings or failures: the Markdown grammar and the division of sections into
chunks (pure functions of the text), the SQL and the ranking of read-only
queries, vectors, payloads, prompts, HTTP serialisation, configuration, logging,
file-system path validation, the operator console, and changing from one embedding
profile to another.

Of the plan, most important first:

1. `JobQueue`, `WorkerPool`, `JobLifecycle` and their proofs (done).
2. `VectorProjection`, `VaultIngest`, `GraphProjection` (done, with proofs).
3. `Extraction` and `Resolution` over the same chunks (done, with proofs; left: two
   workers on one extraction run).
4. `SourceRetention`: everything the schema takes with a text (done, with proofs).
5. `Retrieval` against concurrent scans and stale projections (done, with proofs;
   left: its pure rankings against reference definitions).
6. Proofs of the properties of scans that follow each other, of silence, of whole
   decisions and of the remaining type invariants (done).
7. Left: two scans at a time under a weaker form of `ActiveHasState` (a document revived
   by a late `store_document` has no file state); the conditions under which
   `CompleteScanIndexesAll` survives a crash (a `full_rehash` scan does not repair what was
   lost either, as it compares hashes with the states that were stored).
