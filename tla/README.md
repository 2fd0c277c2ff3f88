# A verified model of ai_rag

This directory holds TLA+ models of the corporate RAG service of this
repository, the TLC runs that check them on small instances, and theorems that
the TLAPS proof system checks for every value of the constants.
`PROJECT.json` lists components, runs, mutants, the map from definitions to
source lines, hazards, findings and theorems.

Below, `RAG` stands for `src/services/corporate-rag-service` and `TG` for
`src/services/telegram-bot-service`.

## 1. Inventory of the system

| Component | State it keeps | Operations | What is hard | What makes it correct |
|---|---|---|---|---|
| Ingest job queue and worker (`RAG/app/workers/ingest_worker.py`) | `ingest_jobs.job_status` | `create_job`, claim with `FOR UPDATE SKIP LOCKED`, run, final commit | several workers, crashes, no lease on a claimed job, every exception ends in a commit | one worker per job, a reported result is final, every accepted job ends while workers live |
| Incremental synchronisation (`ingest_sources_sync`) | `source_sync_state` | list, `should_fetch`, `fetch_item`, `mark_failure`, tombstones, `mark_success` | sources change between list and fetch; capped listings; failures | nothing is skipped that is not searchable; a live item is not declared deleted |
| Versioned ingestion (`ingest_source_items`) | `sources`, `source_versions`, `documents`, `chunks`, `chunk_vectors`, `chunk_fts`, object storage | upsert source, find version, write objects, insert, embed in batches, full text, one commit | objects are outside the transaction; partial vectors; concurrent workers; lock order | one version per content, objects before rows, both indexes complete before the item is recorded |
| Connectors (`RAG/app/services/connectors`) | none | paginated `list_descriptors`, `fetch_item` | the source changes between pages | `listing_complete` only for an authoritative listing |
| Conversation lifecycle (`post_query`, `ConversationRepository`) | conversations, turns, resolutions, summaries | create or expire, number turns, rewrite, count clarifications, summarise | concurrent requests of one conversation, each step committed by itself | turn order, no answer to an unresolved question, a bound on clarifications |
| Agent pipeline, verification (`agent_pipeline.py`, `anti_hallucination.py`) | none | stages with early exits | score boundaries | fallback instead of an unsupported answer |
| Retrieval, expansion, budget (`retrieval.py`, `context_expansion.py`, `query_pipeline.py`) | none | rank, boost, expand, cut to a token budget | ties, caps, rounding | tenant isolation, budget kept, no duplicate chunk |
| Rate limiter (`services/security.py`) | request times per user | check, evict | shared between threads without a lock | no more than the limit in a window |
| Chunking (`ingestion.py` 101-507) | none | parse blocks, split, merge, overlap | boundaries of windows | every block is in a chunk, size bounds |
| Embeddings service (`src/services/embeddings-service`) | loaded encoders | encode, check the dimension | dimension mismatch | vectors of one dimension, one per text |
| Telegram bot (`TG/telegram_ui`) | one `telegram_conversations` row per user | commands, questions, callbacks, cleanup | handlers of one user run concurrently on stale contexts; crashes while PROCESSING | one question at a time, the user is never locked out |
| Frontend (`src/frontend`) | query page state, job polling | submit, poll | overlapping requests | the answer shown belongs to the last question |
| Audit, telemetry, traces, read-only endpoints, migrations, scripts | write-only logs | | | |

The components interact through PostgreSQL (queue, tables, row locks), object
storage, HTTP calls to the embeddings service and the language model, and calls
from the Telegram bot and the frontend to `POST /v1/query`.

## 2. The modules

| Module | Component | State |
|---|---|---|
| `IngestPipeline`, `SearchMirror` (`MCIngestPipeline`, `IngestPipeline_proofs`) | queue, workers, synchronisation, versioned ingestion and the stores, composed in one module because their correctness is a property of the transactions and locks they share | done |
| `AuthoritativeListing`, `TokenListing`, `OffsetListing`, `WalkListing`, `SortedPrefix` (`MCListings`, `Listings_proofs`) | the connectors' side of `listing_complete`, with a source that changes meanwhile | done |
| `TelegramUi` (`TelegramUi_proofs`) | store and handlers of one user of the bot | done |
| `AgentPipeline`, `Conversation` (`MCConversation`, `Conversation_proofs`) | the lifecycle of a conversation under concurrent `post_query` requests | done |
| `Ranking`, `ContextAssembly`, `AnswerPath` (`AnswerPath_proofs`, `FiniteSums`) | from a question to an answer with sources | done, without links |
| `RateLimiter` (`RateLimiter_proofs`) | the limiter of `post_query` | done |
| `Chunking` (`Chunking_proofs`, `FiniteSums`) | from the lines of a document to its chunks | done |

`MCListings` and `MCQueryPath` put modules that share no variable side by side:
which one runs is chosen in the initial state (`part`), and the others stand
still. That is one TLC run for several questions, not a composition. Real
compositions are `IngestPipeline` (queue, worker, synchronisation, ingestion),
`AnswerPath` (it extends `ContextAssembly`, which extends `Ranking`, and
`AgentPipeline`) and `Conversation` (it extends `AgentPipeline`).

Two specifications are abstract: `AuthoritativeListing`, what a connector promises,
implemented by the S3 listing, and `SearchMirror`, what a synchronisation promises to
whoever searches, implemented by `IngestPipeline`.

## 3. `IngestPipeline`

### Correspondence with the code

| Model | Code |
|---|---|
| `catalog` | the connected source: content and modification stamp of each item (external) |
| `status` | `ingest_jobs.job_status`; job numbers are the order of `started_at` |
| `ver`, `vec`, `fts`, `state` | committed rows of `source_versions` (with the document, chunks and links inserted by the same statements), `chunk_vectors`, `chunk_fts`, `source_sync_state` |
| `blobs` | `raw.bin`, `normalized.md`, `artifacts/ingestion.json` under a version id |
| `tx[w]`, `locks[w]` | rows written and rows locked by the open transaction of worker `w` |
| `pc[w]`, `job[w]`, `run[w]` | position in `process_next_job`, its job, the locals of `ingest_sources_sync` |

A worker goes through `idle`, `selected` (row locked, not committed), `sync`
(list and decide), `fetch`, `failure`, `tombstone`, then for every item
`ingest`, `putRaw`, `putMd`, `insert`, `artifact`, `embed`, and after the commit
of all items `mark`; `fail` is the `except` branch of `process_next_job`. Every
call that can wait, fail or be overtaken (a statement that may block on a row
lock, an HTTP call, an object write, a commit) is a step of its own;
computation between two of them belongs to the step before.

The final commit of `process_next_job` commits what the run had written before
it raised (`EndJob`): no rollback happens in the code, and none in the model.
A statement that meets a row locked by another open transaction is not enabled
until that transaction ends; a cycle of such waits enables `DeadlockAbort`. The
aborted transaction makes the final commit fail as well, so the exception
leaves `run_forever` and the process is dead until `Restart`.

### What is checked

| Run | Instance | Shows |
|---|---|---|
| `two_workers` | 2 workers, 2 jobs, 1 item with 2 contents and up to 2 changes, 2 chunks in batches of 1, 2 faults | type invariant; `SkipIsSafe`; `BlobsBeforeRows`; `UniqueVersions`; `JobExclusive`; `MarkedItemsIndexed`; `TerminalIsFinal`; `Mirrored` |
| `crossed` | 2 workers, 2 jobs with opposite orders of 2 source types, 3 items of which the cap hides one, 1 fault, fairness | `NeverTombstonedWhileLive` with an incomplete listing; `MarkedItemsIndexed` through deadlock and abort; `DoneIsRecorded`; `JobsEnd` |
| `failed_fetch` | 1 worker, 1 item, 1 fault | violation: a failed fetch is not retried (finding) |

`MaxStamp` bounds how often an item changes: two changes let a change fall
between list and fetch and another after the marks. `MaxFaults` bounds failing
calls and crashes: two allow a crash after a failure, or a failed retry. Two
workers are enough to contend for every row and to form a cycle; two jobs let
one run follow or overlap another. Symmetry is used on workers and contents, in
the run without liveness. `CHECK_DEADLOCK FALSE`: the bounded system ends when all
jobs are done and the bounds are used up.

`SearchMirror` knows the catalogue, the state rows and an index, the set of
searchable pairs of item and content, and nothing of jobs, workers, transactions
or crashes. An item changes (`Change`); versions become searchable while rows turn
to `failed`, or to empty tombstones of items that are gone or have changed
(`Publish`); rows turn to `success`, for items that have a searchable version, and
the present one if their stamp is the present one (`Confirm`). Nothing leaves the
index, and no step does two of these. `Mirrored` says that `IngestPipeline`
implements it with `index <- SearchIndex`: the commit of `ingest_source_items` and
the commit of a failed job are `Publish`, that of a finished job is `Confirm`, and
everything else stutters. What a search may rely on can then be argued from
`SearchMirror` alone, as `MirrorsSkipSafely` does for `SkipIsSafe`.

`FairSpec` assumes weak fairness of each living worker's own steps, where the
return of a fetch with an error counts as such a step: the loop of `run_forever`
has no other condition for going on, and a fetch returns or raises within its
timeouts. Nothing is assumed of changes, faults or restarts; `JobsEnd` is
therefore restricted to behaviours in which no worker dies. The restriction is
necessary: a crashed worker's job stays `processing` for ever, since nothing in
the repository takes it up again.

### What is proved

`IngestPipeline_proofs` proves every property of the runs but `JobsEnd`.

`TypeCorrect`, that is `Spec => []TypeOK`, by the invariant `TypeInv` (`TypeOK` and,
for each stage, the shape of the descriptor or item in hand).

`SkippingIsSafe` and `RecordedAfterIndexed`, by the invariant `SkipInv`, whose
parts were found with TLC. `SkipIsSafe` alone is not inductive: a row of
`source_sync_state` is written from an item in a worker's memory, fetched long
before. `SkipInv` follows the data along that way: a fetched item holds content no older than the stamp it was listed with
(`Fresh`); items before the cursor are indexed in what the worker sees
(`Progress`), so its commit makes them indexed; once committed they stay so,
because no step removes a row; and a pending or committed mark with the present
stamp therefore names an indexed content (`RowSafe`). The only assumptions are
those of `ConstantsAssumption`.

The other seven properties of the runs, each from `TypeInv` and an invariant of its
own.

- `OneWorkerPerJob` (`JobExclusive`) and `TerminalStays` (`TerminalIsFinal`), by
  `JobInv`: a worker that has locked its job finds it queued, one that works on it
  finds it processing, and an idle worker has none. So no claim meets a job that
  has ended, and only the worker of a job changes its status.
- `RowsHaveObjects` (`BlobsBeforeRows`), by `ObjectInv`: rows that are not
  committed have their objects too, and a worker about to insert has written both
  that the row needs. A crash or an abort in between leaves objects without rows,
  never rows without objects.
- `VersionsAreUnique` (`UniqueVersions`), by `VersionInv`: row locks are
  exclusive, a worker between `ingest` and `embed` holds the lock of its item's
  source, and so it does for every version row it has not committed. Two workers
  can then not both miss the version the other is inserting. What a worker sees
  (`VerSeen`) is unique already before it commits.
- `LiveItemsKeepTheirState` (`NeverTombstonedWhileLive`), by `TombInv`: for an item
  that never left its catalogue, no transaction holds a tombstone and no run has it
  among the dead; and where a run's listing of a source type is complete, the run
  has seen the item.
- `DoneMeansRecorded` (`DoneIsRecorded`), by `DoneInv`: until a run fails, each item
  it has seen is either recorded in the rows the worker sees or still in front of it
  (`Outstanding`: listed, in hand, or fetched and not yet marked).
- `PipelineMirrors` (`Mirrored`), step by step: `MirrorInit` maps the initial states,
  `MirrorStep` every step to `Change`, to `Publish` (`PublishStep`), to `Confirm`
  (`ConfirmStep`) or to a stutter. It needs `SkipInv` (a pending `success` row is
  safe), `TombInv` (a pending tombstone is of an item that changed) and `MarkInv`: a
  worker that has marked an item as synchronised is behind its first commit, has
  nothing else pending, and the item has a searchable version; tombstones are empty.
- `MirrorsSkipSafely` proves `Mirrored => []SkipIsSafe`, by the invariant `MirrorInv` of
  `SearchMirror`: what the rows say is true of the index (`RowsAreTrue`).

`JobsEnd` is a liveness property under fairness and stays with TLC.

### Assumptions and abstractions

- One tenant, since every statement is scoped by `tenant_id`.
- SQL statements are taken at their meaning. At this commit
  `SourceSyncStateRepository` passes plain strings to `Session.execute`, which
  SQLAlchemy 2 refuses, and the package `app/db/repositories/` hides the module
  `app/db/repositories.py`; the models describe the system with these repaired.
  They also assume `CONNECTOR_REGISTRY_ENABLED`: without it a worker's job
  ingests nothing and reports done.
- One row of `ver` stands for the rows of `source_versions`, `documents`,
  `chunks` and `document_links` that one worker inserts in consecutive
  statements of one transaction. A fresh `uuid4` is the pair of the job and the
  item, which no other step can produce.
- A catalogue is listed in one atomic snapshot here, with `listing_complete`
  as the file connector computes it. Section 4 models catalogues that change
  while they are listed.
- Stamps strictly increase. Restoring a file with its old modification time and
  a hint that is absent (S3 multipart objects) would defeat `should_fetch`.
- Source types of a job without duplicates in the checked instances; the
  actions follow the code for duplicates too (later listings replace earlier
  ones).
- `event_logs` writes are left out; retries inside `_upsert_chunk_vectors` are
  the single outcome of their last attempt.
- `finished_at`, `error_code` and `result_json` are not modelled.
  `docs/architecture/architecture-freeze.md` asks every terminal transition to
  write `finished_at`; the worker never does.

## 4. The listings of the connectors

`ingest_sources_sync` takes an item it has a state row for, and that a
`listing_complete` listing does not contain, for deleted. `AuthoritativeListing`
states what that presumes of `list_descriptors`: what it returns was in the
source at some time since the call began, and a complete listing has everything
that was there all the time. Three modules model the connectors, each with
requests that are steps of their own and a source that changes between them.
The S3 listing implements the contract (`Listing == INSTANCE AuthoritativeListing
WITH ...`, `Authoritative == Listing!Spec`). The other two do not in every case,
and their properties say exactly by how much they miss it.

| Module | Code | Model |
|---|---|---|
| `TokenListing` | `s3_catalog.py` `list_descriptors` | `token` is the last key returned; `Capped`, `Exhausted` and `Continue` are the three ends of a pass through the loop |
| `OffsetListing` | `confluence.py` `list_descriptors` of pages and of attachments | `start` is the offset; `Advance` reads a page and stops at the cap within it, `Exhausted` and `Capped` leave the loop |
| `WalkListing` | `file_catalog.py` `_iter_files`, `list_descriptors` | `OpenDir` yields the names of a directory, `Examine` filters one and raises if it is gone, `Finish` sorts, cuts and compares |

The run `listings` checks all three (`MCListings`):

| Part | Instance | Shows |
|---|---|---|
| `TokenListing` | 5 objects of which 4 ingestible, pages of 2, cap 3, 3 changes | `Authoritative`: S3 refines the contract |
| `OffsetListing` | 5 items, pages of 3, cap 4, 2 insertions or removals anywhere | `MissesFew`: at most one miss for a removal, none without |
| `WalkListing` | 5 files in 2 directories, one too large, one of another extension, cap 2, 2 changes, 1 unreadable directory | `MissesOnlyUnread`: misses lie in that directory |

`ListingTypes` is the type invariant and `ListingsEnd` the end of whichever loop
runs. The run `removed_page` (4 items, 1 change) refutes `CompleteIsAuthoritative`
for `OffsetListing` (finding).

Page sizes that divide and do not divide the number of items, and caps below, at
and above it, occur among the initial states, which are all subsets (sequences,
for offsets) of the items. `FairSpec` assumes that a pending loop goes on: each
request is answered or raises within its timeout. The changes are bounded; an
offset listing of a source that grows faster than it is read ends at the cap.

`Listings_proofs` proves all of this but `ListingsEnd`, for any buckets, spaces and
directories, page sizes, caps and numbers of changes.

- `TokenListingIsAuthoritative`, that is `Spec => Authoritative`, from
  `ListingAssumption`. The invariant is `Passed`: every ingestible object that was
  there all the time and whose key is not after the token is in `out`. The step
  from one page to the next needs that a page is a prefix of the rest in key order.
- `RemovalsCostOneEach` (`MissesFew`), by `OffsetInv`: as long as the listing goes on,
  the items before the offset that were there all the time and were not read
  (`Behind`) are no more than the removals. An insertion moves items away from the
  start and can only take some out of `Behind`; a removal brings at most the item
  after the offset into it; a page reads what the offset passes; and the empty page
  that ends the loop says the offset has passed everything. Only finitely many items
  exist (`OffsetListing!ConstantsOK`).
- `OnlyUnreadAreMissed` (`MissesOnlyUnread`), by `WalkInv`: a file that was there all
  the time is in `out`, among the names being examined, or in a directory that is
  still to be opened or could not be read (`Ahead`). That nothing is cut off at the
  cap needs a lemma (`FirstNIsAll`), since `Finish` sorts and cuts before it compares.
- `ListingsKeepTypes` (`ListingTypes`), from the three together.

The last three are theorems of `MCSpec`, in which the three listings stand side by
side, from `MCListingsAssumption`; `TwoDirs` is TLC's choice of directories only.

Abstractions: the order of a Confluence search is stable apart from additions
and removals; the server returns as many entries as asked for. The branch of
`_iter_files` that does not recurse (one `iterdir`, which raises if it fails) is
not modelled. Symbolic links and paths that escape the root are filtered like
an extension that is not allowed.

A listing of exactly as many items as the cap counts as incomplete for S3 and
Confluence and as complete for files; both keep the contract.

## 5. `TelegramUi`

One user's row of `telegram_conversations` (`row`, `NoRow` if there is none),
and handlers `h` with a position `pc[h]`, the update `task[h]` and the context
`ctx[h]` loaded at the beginning. Each transaction of `PostgresConversationStore`
is one step: `SELECT ... FOR UPDATE` and the upsert cannot be separated, while
`get_or_create` reads and writes in two.

| `pc[h]` | Position in the code |
|---|---|
| `get`, `create` | `get_or_create`, before its read and before its upsert |
| `act` | the context is loaded; the branch of the command, the callback, or `try_begin_processing` follows |
| `begun` | the lock is taken (`handle_text` 183-191, `_process_question` 107-112) |
| `query` | in `rag_client.query`, up to the transaction that stores its outcome |
| `finish` | before the `finally` clause |

The repository has no dispatcher that calls `TelegramUiService`; its
documentation asks for a lock between overlapping handlers of a user, and the
store takes row locks, so the model lets `Handlers` overlap, and one handler is
the case of a sequential dispatcher.

| Run | Instance | Shows |
|---|---|---|
| `telegram` | 2 handlers, of which the first 3 updates may overlap, all updates, new user, expiry, depth 2, 7 updates, 1 fault | type invariant; `ProcessingExclusive`; `ConversationNeverReturns`; `DepthLimited`; `LockIsReleased` |
| `refused_option` | 1 handler, known user, 3 updates | violation: `OfferedOptionAccepted` (finding) |

The processing lock is a state of the row, and the properties say what that is
worth. `overridden` records that an update which does not take the lock (`/start`,
`/new`, `/debug`, cancel, the creation of a row, or the step from IDLE to
AWAITING_QUESTION of a first message) stored another state over a processing row;
`ProcessingExclusive` holds unless that happened, and TLC shows two questions in
process if the exception is dropped. A question turned down after the lock was
taken (`TurnDown` in ERROR, CLARIFICATION or a stale PROCESSING, `EnterRaises` in
DEBUG) leaves the row PROCESSING, since `finish_processing` writes it back as it
is: `LockIsReleased` names this exception, and without it one handler suffices to
lock the user out until `/new` or the cleanup. With two handlers `DepthLimited`
fails too: a text loaded before another's clarification is processed with the old
state and depth. No document of the repository contradicts these three
exceptions in words as plain as those of the findings, apart from the sentence
that the lock is there "to prevent concurrent `PROCESSING`"
(`src/docs/implementation/ui_conversational_layer_v1.md:13`).

`Age` needs idle handlers, because no handler runs for hours; the deletion it
makes possible may still fall between two transactions of a later handler.
Whether
updates come one after another (`sequential`) or may overlap is chosen in the
initial state. `MaxOverlapping` allows three in the second case, which suffice for a
stale handler, an update that overtakes it and a third beside them; `MaxUpdates`
allows seven in the first, enough for a conversation to reach the depth limit and
be asked again, with `/start` in between. `CHECK_DEADLOCK FALSE`: the bounded run ends when the
updates are used up. `ui_debug_default` is taken as its default, `FALSE`;
`last_question` and the rendered messages are left out, since nothing reads them
back.

`TelegramUi_proofs` proves `TelegramTypes` (`Spec => []TypeOK`) and
`TelegramLock` (`Spec => []ProcessingExclusive`) from `TelegramAssumption` alone,
so for any number of handlers and updates. The types are not inductive without
`ctx[h].conv < fresh` for every handler: a stale handler may create the row anew
from a context it loaded long ago. `ProcessingExclusive` is not inductive either:
`LockInv` speaks of all handlers past `try_begin_processing` (`Holders`: `begun`
or `query`), says that while there is one the row is PROCESSING and not expired
(it was written after the handler began, and a user is away only when none of his
handlers runs, so a cleanup cannot delete the lock), and that there is at most
one.

The same module proves the three properties of dialogs. `DialogsStayLeft`
(`ConversationNeverReturns`) needs `DialogInv`: also the conversation a handler is
about to create (`Creators`) is not a retired one, not that of the row, and not
that of another creator. `ClarificationsLimited` (`DepthLimited`) and `LockComesBack`
(`LockIsReleased`) speak of updates one after another, that is of one handler at a
time (`AloneInv`). `DepthInv` says that the row's depth, and the depth in the context
of a handler that is going to ask, is at least the number of clarifications
`asked`; without the context it is not inductive, since a handler writes the depth it
loaded. `ReleaseInv` says that, as long as nothing failed (`Smooth`), a row that is
PROCESSING has a holder, and that a handler that has loaded its context did not load
one that was PROCESSING.

## 6. `Conversation`

One conversation of `POST /v1/query`: the code of `post_query` that reads and
writes `ConversationRepository`, for requests that run in threads of their own.
Every repository call commits by itself, so each is one step; what is read in one
and written in the next is in `local[r]`.

| `pc[r]` | Position in `post_query` |
|---|---|
| `create`, `archive`, `touch` | `create_conversation`; `mark_conversation_archived` of an expired conversation; `touch_conversation` |
| `index`, `insertUser` | `get_next_turn_index`, `create_turn` of the question |
| `summary`, `summarize`, `insertSummary` | is a summary due; the summarizer; `create_summary` |
| `pending`, `rewrite`, `count` | `get_latest_query_resolution`; the rewriter and `create_query_resolution`; `count_recent_consecutive_clarifications` |
| `retrieve`, `trace` | embedding to `AgentPipeline.run`; `create_retrieval_trace_items` |
| `answerIndex`, `insertAnswer`, `respond` | the assistant's turn and the response |

`AgentPipeline` gives the result from the depth, the confidence and the
threshold; `AnswerPath` uses the same operators. `Break(r)` ends a request after
any commit: a call of another service fails, or the process dies; both leave the
tables as they are, which is all the next request sees. `Age` lets the TTL pass
between requests.

The run `conversation` checks several configurations, one of which is chosen in
the initial state: four requests one after another with the clarification loop;
two overlapping ones with rewriting, with and without the loop; three overlapping
ones without rewriting; and the service as it is (`AsIs`). It shows the type
invariant and

- `AnswersFollowQuestions`: the history pairs answers with questions, however
  requests overlap;
- `RepliesAreStored`: what the client got is in the history, and a question
  without an answer belongs to a request that failed;
- `ConflictsNeedOverlap`: the unique constraints refuse only requests that
  overlapped, and never all of them;
- `ClarificationsBounded`: one after another, requests ask back at most
  `MaxDepth - 1` times in a row, one less than the setting says, since the streak
  counts the resolution just written and adds one for it;
- `PendingWasAsked`: what the rewriter is told to be a pending question was
  asked, or its request failed or still runs;
- `SummaryKeepsUp`: above the threshold the summaries cover what was asked.
  Overlapping requests may write a summary that covers less than the one before
  (the second conjunct is stated for requests one after another).

Four requests are two more than `MaxDepth`, so that a streak ends and starts
again; the threshold of 3 turns is reached by the second request, passed again by
the third. `MaxScan` (10 in
the code) only has to reach `MaxDepth`. Confidences lie below
the threshold, above it, and above 1, which a memory boost makes possible once
there is a trace. Overlapping requests may pass one more clarification than
`ClarificationsBounded` allows, so that property is stated for `parallel = 1`.
`CHECK_DEADLOCK FALSE`: the run ends when the requests are used up. No fairness is
assumed; whether a request ends depends on its timeouts alone.

`Conversation_proofs` proves all seven, for any set of configurations and any number
of requests. Each has an invariant that says what a request in the middle of its
steps still owes.

- `TypeCorrect` (`TypeOK`): `TypeInv` adds, for each position, which locals are set.
- `HistoryIsPaired` and `RepliesStayStored`, by `HistoryInv`: a request past
  `insertUser` has its question in the history, one past `insertAnswer` its answer,
  and a turn belongs to a request that has come that far.
- `OnlyOverlapsConflict`, by `OverlapInv`: one request at a time never collides with
  a row that is there, and as soon as the conversation exists some request leads,
  that is has not been refused by a constraint.
- `SummariesKeepUp`, by `SummaryInv`: past the summary step the question of a request
  is covered, and a request that is writing a summary is going to cover it.
- `PendingQuestionsWereAsked`, by `QuestionInv`: a request has at most one
  resolution, and what is remembered as asked was asked by a request that has ended
  or still runs.
- `ClarificationsStop`, by `BoundInv`, which counts the run of clarifications that
  ends at each resolution (`Within`). Its hypothesis `MaxDepth \in 1..MaxScan` is
  needed: `count_recent_consecutive_clarifications` scans `MaxScan` rows (10), and a
  limit above that would never be reached. The default limit is 2; the setting
  is not validated against the scan.

`audited` repairs the call before the rewriter (finding `RewriterInvoked`), without
which nothing behind it could be checked. Left out: the text of questions,
resolutions and summaries, the checks of the rewriter's JSON (its rejection is a
`Break`), and requests without a conversation, which write nothing.

## 7. From a document to an answer

The run `query_path` (`MCQueryPath`) checks three models that share no state;
`Parts` names them and one is chosen in the initial state. `CHECK_DEADLOCK FALSE`:
each ends when its document is cut, its requests or its calls are used up. No
liveness is stated: each path is a bounded sequence of steps.

### `Chunking`

`_parse_markdown_blocks` reads a line per step, `chunk_markdown` takes a block per
step, and `_split_large_block` is an operator. A line is a kind and a number of
words, as many as `estimate_tokens` gives the target sizes in; positions count
words where the code's count characters, and a section is the line of its
heading. The documents are all sequences of up to five lines of eight kinds and
sizes, with `Target` 3, `Most` 4, `Least` 2 and `Overlap` 1: a paragraph of six
words needs two windows, a head of a table with a long rule exceeds `Most`, two
blocks may stay below `Least`, and a fence may stay open.

`NothingIsLost`, `SizesBounded` and `NothingIsTorn` say what the three functions
keep: order, coverage, at most `Overlap` words twice, the exceptions to `Most`, and
that code and heads of tables stay whole. `SectionsApart` is refuted (finding).

`Chunking_proofs` proves the three for any documents and sizes that `SizesOK` allows.
None of them is inductive: they speak of chunks, and what makes the chunks right is
known of the blocks and of the part of the document that is still open. The invariant
`ChunkInv` has two halves.

- *While lines are read*, `ParseInv`: the blocks are in order and do not overlap, each
  starts with words, each but code has words in every line, a table has its head and
  the line under it (`BlocksOK`); the open block begins after all of them; every line
  read is in a block, in the open one, or is a heading or blank (`Covered`).
- *While blocks are merged*, `MergeInv`: the chunks are `Pieces` of the blocks before
  those of `current`, and these have fewer words than `Target`. `Pieces` says for a range
  of blocks all that the properties need: where its chunks lie, how large they are,
  that they are in order and `Apart`, and that each block is `Kept`. It is composed:
  pieces of the next blocks go after pieces of the first (`PiecesJoin`), blocks that
  are merged are one piece (`OnePiece`), and what `_split_large_block` returns are
  pieces of its block (`SplitPieces`).

Three parts need more than case distinctions. Positions and sizes are folds, which
`AtIsPos` and `WordsTotal` identify with the sums of `FiniteSums`. For `Windows` the
number of windows exists and the last one reaches the end (`WindowCount`,
`WindowPieces`). `Lines` is a recursive function of the lines: that it has a value
(`StartsExist`) and where its chunks start (`StartsHold`) is proved by the smallest line
for which it fails.

`LinesReachChunks` (`NothingIsLost`) has one more hypothesis, `2 * Overlap <= Most`. It
holds of the defaults (80 and 900), nothing validates the settings, and it is needed:
with a larger overlap a window shares words with the next but one as well. The other
two need no such bound.

### `RateLimiter`

`InMemoryRateLimiter` is shared by the threads of the server without a lock. A
step is one access of a deque or of the table: the lookup that enters a user
(`Enter`), the condition and the `popleft` of `_prune`, the length check, the loop of
`_can_register_burst` (which raises if the deque changes under it, `ScanRaises`), the
`append`, the cleanup. A deque goes on living in a call whose user was evicted.

Two assumptions: a call lasts less than a tick of the clock (`Tick`), and the
cleanup is one step; `sorted` and the loop after it are long enough to be
interrupted, but a second cleanup in between would only drop more users.

`granted` keeps, for each user, the time of every request that was let through and
its number at that time, for as long as a window may reach back to it.
`QuotaAlone`: a user whose requests do not overlap gets no more than the limits
through in any window, and in any burst. `QuotaShared`: overlapping requests exceed
them by at most the other threads. Both except users who were `evicted` (their quota
starts anew), and `QuotaShared` also those who lost a time to a second `popleft`
(`dropped`). For bursts it also excepts users whose times are not in order
(`reordered`): a call that read its time before a tick and appends it after a later
one puts it last, and the loop of `_can_register_burst`, which goes back from the end
and stops at the first time before the burst, then counts nothing. TLC shows each of
the exceptions to be needed. `TableBounded`: the table has at most
`max_users` entries and one for each call under way, although a call that is
refused does not clean up. Two users and two threads contend for one place in the
table; a window of four ticks with three requests and a burst of one tick with
one leave room for both limits, and five calls are more than one window allows.

`RateLimiter_proofs` proves `TableIsBounded`, `Spec => []TableBounded`, from
`LimitsOK` for any number of users and threads. `TableBounded` is not inductive: a
call that ends without a cleanup makes its right side smaller. The invariant
`TableInv` says that the users nobody will clean up after are at most `MaxUsers`
(`Crowded`). A user is `Owed` a cleanup if a call holding his deque has let a
request through and not yet cleaned up, or if none of the calls holding his deque
has come that far and nothing can refuse them, for the deque is empty
(`Untouched`). A new user is untouched; an untouched user becomes one for whom a
call cleans up with the first `append`; and a cleanup leaves at most `MaxUsers`
whoever they are. Finally each owed user has a call of his own, because no two
users share a deque (`Separate`). That `Enter` always finds an unused deque is a
lemma (`UnusedDeque`), so the finite set `Deques` loses no behaviour.

`OneGetsHisQuota` and `ManyGetLittleMore` prove both quotas, from `LimitsOK` again, by
`QuotaInv`. For every user who was not evicted it says that the calls hold the deque
of the table (`Owns`); that what was let through and may still be counted is in that
deque (`Keeps`); that the times held, with the calls that have passed the checks and
not yet appended (`Cleared`), are within the limit and one for each other call there
may be (`Room`), for the window and, while the times rise, for the burst; and that the
times of a user whose calls do not overlap are in order and no later than his call
(`Alone`). `Room` is where the excess comes from: several calls may pass the check on
the same deque before the first of them appends.

### `AnswerPath`

`post_query` from the embedding to the response: two candidate statements, the
ranking, the expansion, the budget, the generation, the pipeline. Each statement
reads the tables anew, and `Index` commits a document between any two of them.
`Ranking` and `ContextAssembly` are the pure part: `hybrid_rank`,
`_apply_memory_boosting`, `expand_neighbors`, `apply_context_budget` and the modes of
`ContextExpansionEngine`, as operators on sets of candidates with explicit orders.
Scores are in thousandths, rounded down where the code has floats; `Limited`
returns every way in which `LIMIT` may cut equal scores.

The corpora have two documents of the tenant (four and two chunks) and a foreign
one that scores best; one chunk, or all, may be long, and some are copies of
others. The configurations cover all modes of expansion, `top_k` below and above
the cap, three budgets (smaller than the margin, than one long chunk, than all),
generation and memory on and off; three requests of two questions let a boost
build up. The constants keep the relations of the defaults: the hard cap is
reached, `ExtraPerDoc < ExtraTotal`, `maxTokens <= NumCtx`. `SettingsOK` states what the
settings may be, and `CorporaOK` what the tables hold: rows with different ids, and
different ordinals within a document.

`ContextIsJustified`: every chunk of the context is of the tenant, and was
retrieved or lies in the window of one that was, within the caps.
`RetrievedKeepScores`: neighbours do not displace what was retrieved.
`ContextFits` and `BestIsKept`: the budget is kept, and not by dropping the best
chunk (unless `top_k` exceeds the cap of `expand_neighbors`, which cuts by
position). `PassIsSupported`: a PASS needs sources, confidence and, if generated,
support. `ConfidenceInRange` is refuted (finding).

How similar a sentence is to a chunk is a choice of the environment (`Outputs`), as
is what the language model returns. `estimate_tokens` is its fallback without
`tiktoken`. The reranker is a step without effect: `post_query` sorts by
`final_score` again after it.

`AnswerPath_proofs` proves the five properties of the run from `SettingsOK` and
`CorporaOK`, so for any corpora, documents that come later, settings, limits,
questions and number of requests. Its parts follow the request:

- *Orders.* A total order of a finite set gives its members the places 0, 1, 2 and so
  on (`PlacesRise`, `PlacesAreTaken`). Everything the code sorts is one: the ranking
  (`BeforeOrders`), the text (`InTextOrders`), documents by their best chunk
  (`DocsAreOrdered`), what is dropped last (`KeptInOrder`) and the context
  (`ContextHasFirst`). So every `CHOOSE` of the model has one value, and the first
  `n` are no more than `n`, with the first of all among them (`BestFew`).
- *Expansions.* Whatever `expand_neighbors` (`Fetched`, `NeighborsExpand`) and the modes
  of the engine (`ChunksAround`, `DocsAround`, `EngineExpands`) add is `Around` the base:
  new chunks of visible rows near one of its chunks, no more than the cap, none better
  than all of it. The redundancy filter and the selection keep the best chunk, or
  nothing (`FiltersKeepBest`, `SelectionStartsWithBest`).
- *Sums* (`FiniteSums`, which `Chunking_proofs` uses as well). `TokensOf` is a fold, and
  the library's induction theorems cannot be instantiated here. Its facts are proved
  by a smallest counterexample instead: among
  the finite sets for which a claim fails there is one with no smaller one in it
  (`SmallestSet`). That gives that the fold has one value (`SumsExist`,
  `SumsAreUnique`), that any member may be taken out first (`TotalWithout`) and that a
  larger set has a larger sum (`TotalGrows`).
- *Budget.* Of the chunks that are kept the last one had to fit together with all
  others, and the best one had to fit alone (`WhatIsKeptFits`). A truncated chunk has
  at most one token more than was left for it, or three (`TruncatedFits`).
- *The invariant* `AInv`: `Shape` (candidates with one id each, of the tenant's rows),
  `Chosen` (before the budget the context has `Grown` from `Start`; after it scores and
  tokens are right; in both it has a best chunk) and `Replied` (nothing is replied
  while a request is at work). `ContextIsJustified` and the others are not inductive:
  they say nothing of the context at the stages before, or of the rows that `ranked`
  and later statements of the same request share while `Index` adds more.

`BudgetHolds` (`ContextFits`) has one more hypothesis, that `Margin` is at least 1 and
`maxTokens` at least 3 in every configuration. Neither setting is validated. With a
margin of 0 and a limit of 10, a truncated chunk has 8 words with its marker, which
`estimate_tokens` takes for 11 tokens; the defaults are 256 and 65536.

## 8. Findings

`PROJECT.json` quotes the lines.

| Property (run) | What the code does |
|---|---|
| `FailedFetchIsRetried` (`failed_fetch`) | The documentation calls network failures retryable, but `mark_failure` stores the descriptor's stamp and hint and `should_fetch` ignores the failed status, so the item is skipped until it changes. |
| `CompleteIsAuthoritative` (`removed_page`) | The contract of the connectors asks for `listing_complete=false` unless the listing is provably complete; an item removed before the cursor makes a complete Confluence listing miss a live item, which is then marked as deleted. An unreadable directory has the same effect on the file listing (`MissesOnlyUnread` is what still holds). |
| `OfferedOptionAccepted` (`refused_option`) | The documentation calls the state of the bot fully PostgreSQL-backed; the options of a clarification are not stored, so choosing one is refused. |
| `RewriterInvoked` (`rewriter`) | The log call before the rewriter passes the arguments of another function and raises. |
| `ConfidenceInRange` (`confidence`) | A memory boost lifts a score, and with it the confidence, above 1; the pipeline's own assertion then ends the request in a 500. |
| `SectionsApart` (`sections`) | The chunking specification closes a chunk at a heading; the code merges short blocks of different sections under the path of the first. |

Also met, without a run:

- `docs/file_catalog_strategy.md:42` says retrieval remains on the latest ingested
  document, but the two candidate queries (`fetch_vector_candidates_by_similarity`,
  `fetch_lexical_candidate_scores`) have no condition on the version and the chunks
  of superseded versions are kept.
- Of the chunking specification (`src/docs/contracts/chunking_spec_v1.md`), 7.3 (the
  head of a table repeated in each of its chunks) is not implemented, and tables
  and code are merged with other types against 7.5.
- `CONTEXT_EXPANSION_NEIGHBOR_WINDOW` and `CONTEXT_EXPANSION_MAX_EXTRA_CHUNKS`, which
  `RAG/docs/context_expansion.md` describes, are logged but not used;
  the engine reads other settings. Links are never followed, since
  `document_links.to_document_id` is only ever written as NULL.
- The confidence of an answer is the score of the first chunk in the order of the
  text, not of the best one, when the context was expanded.
- Rows of a trace are stamped one after another, so the newest of them, which
  `_apply_memory_boosting` weighs most, is that of the lowest rank.
- The budget selection of the engine may keep nothing (`MIN_GAIN`), which leads to the
  refusal for missing sources although chunks were found.
- `MAX_CONTEXT_TOKENS` may equal `LLM_NUM_CTX`; a context within its budget then makes a
  prompt that is refused with 422. JSON from the language model that is a list ends
  in a 500.

## 9. What is proved and what is only checked

| Theorem | Statement | Assumption |
|---|---|---|
| `TypeCorrect` | `IngestPipeline`: `TypeOK` | `ConstantsAssumption` |
| `SkippingIsSafe`, `RecordedAfterIndexed` | `IngestPipeline`: `SkipIsSafe`, `MarkedItemsIndexed` | `ConstantsAssumption` |
| `OneWorkerPerJob`, `TerminalStays` | `IngestPipeline`: `JobExclusive`, `TerminalIsFinal` | `ConstantsAssumption` |
| `RowsHaveObjects`, `VersionsAreUnique` | `IngestPipeline`: `BlobsBeforeRows`, `UniqueVersions` | `ConstantsAssumption` |
| `LiveItemsKeepTheirState`, `DoneMeansRecorded` | `IngestPipeline`: `NeverTombstonedWhileLive`, `DoneIsRecorded` | `ConstantsAssumption` |
| `PipelineMirrors` | `IngestPipeline` implements `SearchMirror` | `ConstantsAssumption` |
| `MirrorsSkipSafely` | `SearchMirror` implies `[]SkipIsSafe` | none |
| `TokenListingIsAuthoritative` | the S3 listing implements `AuthoritativeListing` | `ListingAssumption` |
| `RemovalsCostOneEach`, `OnlyUnreadAreMissed`, `ListingsKeepTypes` | `MCListings`: `MissesFew`, `MissesOnlyUnread`, `ListingTypes` | `MCListingsAssumption`, `ListingAssumption` |
| `TypeCorrect` | `Conversation`: `TypeOK` | `ConversationAssumption` |
| `HistoryIsPaired`, `RepliesStayStored` | `Conversation`: `AnswersFollowQuestions`, `RepliesAreStored` | `ConversationAssumption` |
| `OnlyOverlapsConflict`, `SummariesKeepUp`, `PendingQuestionsWereAsked` | `Conversation`: `ConflictsNeedOverlap`, `SummaryKeepsUp`, `PendingWasAsked` | `ConversationAssumption` |
| `ClarificationsStop` | `Conversation`: `ClarificationsBounded` | `ConversationAssumption`, `MaxDepth \in 1..MaxScan` |
| `TelegramTypes`, `TelegramLock` | `TelegramUi`: `TypeOK`, `ProcessingExclusive` | `TelegramAssumption` |
| `DialogsStayLeft`, `ClarificationsLimited`, `LockComesBack` | `TelegramUi`: `ConversationNeverReturns`, `DepthLimited`, `LockIsReleased` | `TelegramAssumption` |
| `TableIsBounded`, `OneGetsHisQuota`, `ManyGetLittleMore` | `RateLimiter`: `TableBounded`, `QuotaAlone`, `QuotaShared` | `LimitsOK` |
| `ContextJustified`, `ScoresAreKept`, `BestStays`, `PassSupported` | `AnswerPath`: `ContextIsJustified`, `RetrievedKeepScores`, `BestIsKept`, `PassIsSupported` | `SettingsOK`, `CorporaOK` |
| `BudgetHolds` | `AnswerPath`: `ContextFits` | the same, `Margin` and limits as in section 7 |
| `ChunksAreBounded`, `CodeAndHeadsAreWhole` | `Chunking`: `SizesBounded`, `NothingIsTorn` | `SizesOK` |
| `LinesReachChunks` | `Chunking`: `NothingIsLost` | `SizesOK`, `2 * Overlap <= Most` |

Each statement is `Spec => []P`, or `Spec => P` for an action property or a
specification, with the specification of the module named; `MirrorsSkipSafely` has
`Mirrored` in the place of `Spec`.

Only `JobsEnd` and `ListingsEnd` stay with TLC: they are liveness properties under
fairness, which the proof system does not reach. That the properties of the findings
are violated is shown by their runs.

Two results about recursive data are proved without induction over data, which the
installed provers cannot instantiate: the sums of `FiniteSums` and the lines of a split
block in `Chunking_proofs`. Both take the smallest counterexample of a well-founded
order (`SmallestSet`, `SmallestNumber`) and show that there is none.

## 10. Not modelled

Listed with reasons under `components` in `PROJECT.json`. Purely textual work (file
conversion, normalisation of whitespace and HTML, prompts, `sanitize_user_query`),
logging and metrics, read-only endpoints, migrations and scripts have no behaviour
these models could say anything about. Retrieval by ordinal (`USE_VECTOR_RETRIEVAL`
off) is retrieval with equal scores. The mode of the expansion that follows links
adds nothing, as no link names a document. The frontend disables its button while
a question is answered, so its requests do not overlap. The file upload endpoint
runs the same synchronisation with one item, but its connector returns a list where
a `ConnectorListResult` is read, so at this commit the request fails before it writes
a row. The embeddings service encodes a batch and keeps no state but its cache of
loaded models.
