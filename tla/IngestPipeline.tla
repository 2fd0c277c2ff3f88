--------------------------- MODULE IngestPipeline ---------------------------
(***************************************************************************)
(* The ingestion pipeline of corporate-rag-service: the ingest_jobs queue, *)
(* the polling workers (app/workers/ingest_worker.py), the incremental     *)
(* synchronisation they run (ingest_sources_sync and ingest_source_items   *)
(* of app/services/ingestion.py), the PostgreSQL tables they write inside  *)
(* one open transaction, and the object storage they write outside it.     *)
(*                                                                         *)
(* One tenant: every key of the code is scoped by tenant_id.               *)
(*                                                                         *)
(* The tables are the committed rows; tx[w] holds the rows worker w has    *)
(* written since its last commit, and locks[w] the row locks PostgreSQL    *)
(* keeps for that transaction.  A worker reads the committed rows and its  *)
(* own (READ COMMITTED), and a statement that writes a row locked by       *)
(* another open transaction waits.                                         *)
(***************************************************************************)
EXTENDS Naturals, Sequences, FiniteSets

CONSTANTS
  Workers,      \* worker processes running run_forever
  Jobs,         \* ingest_jobs rows, numbered in the order of started_at
  JobTypes,     \* job_payload_json["source_types"] of each job
  Types,        \* registered source types
  Refs,         \* external_refs, numbered in their sorted order
  TypeOf,       \* the source type of each external_ref
  Hinted,       \* the refs whose descriptors carry a checksum_hint
  Contents,     \* what an item can contain
  NoContent,    \* an item that is not in its catalogue, or not fetched yet
  NoHint,       \* checksum_hint is None
  NoItem,       \* no item in hand
  ChunkNos,     \* the ordinals of the chunks of a document
  BatchSize,    \* EMBEDDINGS_BATCH_SIZE
  MaxItems,     \* CONNECTOR_SYNC_MAX_ITEMS_PER_RUN
  Incremental,  \* CONNECTOR_INCREMENTAL_ENABLED
  MaxStamp,     \* bound: how often an item of a catalogue changes
  MaxFaults     \* bound: failures of calls, crashes and restarts

ASSUME ConstantsAssumption ==
  /\ Jobs \subseteq Nat \ {0}
  /\ JobTypes \in [Jobs -> Seq(Types)]
  /\ Refs \subseteq Nat
  /\ TypeOf \in [Refs -> Types]
  /\ Hinted \subseteq Refs
  /\ NoContent \notin Contents
  /\ NoHint \notin Contents
  /\ ChunkNos \subseteq Nat
  /\ BatchSize \in Nat \ {0}
  /\ MaxItems \in Nat \ {0}
  /\ Incremental \in BOOLEAN
  /\ MaxStamp \in Nat
  /\ MaxFaults \in Nat

VARIABLES
  catalog,  \* external: the items of the connected sources
  status,   \* ingest_jobs.job_status
  ver,      \* source_versions, each with its document and its chunks
  vec,      \* chunk_vectors
  fts,      \* chunk_fts
  state,    \* source_sync_state
  blobs,    \* object storage: raw.bin and normalized.md of a version id
  tx,       \* per worker: rows written and not committed
  locks,    \* per worker: row locks of the open transaction
  pc,       \* per worker: where it is in process_next_job
  job,      \* per worker: the job it runs
  run,      \* per worker: the locals of ingest_sources_sync
  faults    \* how many faults happened

tables == <<ver, vec, fts, state>>
vars == <<catalog, status, tables, blobs, tx, locks, pc, job, run, faults>>

-----------------------------------------------------------------------------
(* Types *)

(* SourceDescriptor: last_modified and checksum_hint of a listed item;     *)
(* SourceItem: the item as it was fetched.                                 *)
Descriptors == [ref : Refs, stamp : Nat, hint : Contents \cup {NoHint}]
Items       == [ref : Refs, stamp : Nat, hint : Contents \cup {NoHint},
                content : Contents]

Keys       == Refs \X Contents       \* UNIQUE (source_id, checksum)
VersionIds == Jobs \X Refs           \* a fresh uuid4 for each item of a run
Versions   == [key : Keys, vid : VersionIds]
Chunks     == Keys \X ChunkNos       \* stable_chunk_id
Statuses   == {"absent", "queued", "processing", "done", "error"}
Stages     == {"idle", "selected", "sync", "fetch", "failure", "tombstone",
               "ingest", "putRaw", "putMd", "insert", "artifact", "embed",
               "mark", "fail", "dead"}

SyncStates == [status : {"none", "unwritten", "success", "failed", "deleted"},
               stamp : Nat, hint : Contents \cup {NoHint}]
Locks      == {"source", "state"} \X Refs
Transactions == [ver : SUBSET Versions, vec : SUBSET Chunks,
                 fts : SUBSET Chunks, state : [Refs -> SyncStates]]

NoState    == [status |-> "none", stamp |-> 0, hint |-> NoHint]
Unwritten  == [status |-> "unwritten", stamp |-> 0, hint |-> NoHint]
EmptyTx    == [ver |-> {}, vec |-> {}, fts |-> {},
               state |-> [r \in Refs |-> Unwritten]]

(* The locals of ingest_sources_sync: source types still to visit, listed  *)
(* descriptors not decided on, seen_refs and listing_complete by source    *)
(* type, the fetched items and the position in them, deleted_refs not yet  *)
(* marked, and the descriptor or item in hand.                             *)
Runs == [types : Seq(Types), descs : SUBSET Descriptors, seen : SUBSET Refs,
         complete : SUBSET Types, items : Seq(Items), next : Nat \ {0},
         dead : SUBSET Refs, cur : Descriptors \cup Items \cup {NoItem}]

NewRun(types) == [types |-> types, descs |-> {}, seen |-> {},
                  complete |-> {}, items |-> <<>>, next |-> 1, dead |-> {},
                  cur |-> NoItem]

More(w) == run[w].next <= Len(run[w].items)
Item(w) == run[w].items[run[w].next]

NoJob == 0

-----------------------------------------------------------------------------
(* What a worker sees, and what its commit makes of the tables             *)

VerSeen(w) == ver \cup tx[w].ver
VecSeen(w) == vec \cup tx[w].vec
FtsSeen(w) == fts \cup tx[w].fts

StateAfter(w) ==
  [r \in Refs |-> IF tx[w].state[r].status = "unwritten"
                    THEN state[r] ELSE tx[w].state[r]]

Commit(w) ==
  /\ ver' = VerSeen(w)
  /\ vec' = VecSeen(w)
  /\ fts' = FtsSeen(w)
  /\ state' = StateAfter(w)

(* A closed transaction: nothing pending, every lock released.             *)
EndTx(w) ==
  /\ tx' = [tx EXCEPT ![w] = EmptyTx]
  /\ locks' = [locks EXCEPT ![w] = {}]

Free(w, lock) == \A x \in Workers \ {w} : lock \notin locks[x]

(* An upsert of a source_sync_state row.                                   *)
UpsertState(w, r, st) ==
  /\ Free(w, <<"state", r>>)
  /\ locks' = [locks EXCEPT ![w] = @ \cup {<<"state", r>>}]
  /\ tx' = [tx EXCEPT ![w].state[r] = st]

Goto(w, stage) == pc' = [pc EXCEPT ![w] = stage]

Fault == faults < MaxFaults /\ faults' = faults + 1

-----------------------------------------------------------------------------
(* The catalogues                                                          *)

Live(r) == catalog[r].content # NoContent

Descriptor(r) ==
  [ref |-> r, stamp |-> catalog[r].stamp,
   hint |-> IF r \in Hinted THEN catalog[r].content ELSE NoHint]

(* Somebody edits, removes or creates an item: last_modified advances.     *)
ChangeCatalog(r) ==
  /\ catalog[r].stamp < MaxStamp
  /\ \E c \in (Contents \cup {NoContent}) \ {catalog[r].content} :
       catalog' = [catalog EXCEPT ![r] = [content |-> c,
                                          stamp |-> catalog[r].stamp + 1]]
  /\ UNCHANGED <<status, tables, blobs, tx, locks, pc, job, run, faults>>

-----------------------------------------------------------------------------
(* The queue                                                               *)

(* start_source_sync -> create_job                                         *)
CreateJob(j) ==
  /\ status[j] = "absent"
  /\ \A k \in Jobs : k < j => status[k] # "absent"
  /\ status' = [status EXCEPT ![j] = "queued"]
  /\ UNCHANGED <<catalog, tables, blobs, tx, locks, pc, job, run, faults>>

(* Faulty variant: the row of a selected job is not locked.                *)
FaultyClaimable(j) == status[j] = "queued"

(* SELECT ... ORDER BY started_at FOR UPDATE SKIP LOCKED LIMIT 1: the row  *)
(* stays locked until the claim commits.                                   *)
Claimable(j) ==
  /\ status[j] = "queued"
  /\ \A w \in Workers : ~(pc[w] = "selected" /\ job[w] = j)

SelectJob(w, j) ==
  /\ pc[w] = "idle"
  /\ Claimable(j)
  /\ \A k \in Jobs : k < j => ~Claimable(k)
  /\ job' = [job EXCEPT ![w] = j]
  /\ Goto(w, "selected")
  /\ UNCHANGED <<catalog, status, tables, blobs, tx, locks, run, faults>>

ClaimJob(w) ==
  /\ pc[w] = "selected"
  /\ status' = [status EXCEPT ![job[w]] = "processing"]
  /\ run' = [run EXCEPT ![w] = NewRun(JobTypes[job[w]])]
  /\ Goto(w, "sync")
  /\ UNCHANGED <<catalog, tables, blobs, tx, locks, job, faults>>

-----------------------------------------------------------------------------
(* ingest_sources_sync: list, decide, fetch                                *)

ListingOf(t) == {r \in Refs : TypeOf[r] = t /\ Live(r)}

(* The connector's listing: the whole catalogue, or MaxItems of it with    *)
(* listing_complete false.                                                 *)
ListDescriptors(w) ==
  /\ pc[w] = "sync" /\ run[w].descs = {} /\ run[w].types # <<>>
  /\ LET t == Head(run[w].types)
     IN \E refs \in SUBSET ListingOf(t), whole \in BOOLEAN :
          /\ IF whole
               THEN refs = ListingOf(t) /\ Cardinality(refs) <= MaxItems
               ELSE Cardinality(refs) = MaxItems
          /\ run' = [run EXCEPT ![w].types = Tail(@),
                                ![w].descs = {Descriptor(r) : r \in refs},
                                ![w].seen = {r \in @ : TypeOf[r] # t} \cup refs,
                                ![w].complete = IF whole THEN @ \cup {t}
                                                         ELSE @ \ {t}]
  /\ UNCHANGED <<catalog, status, tables, blobs, tx, locks, pc, job, faults>>

ShouldFetch(d, st) ==
  \/ ~Incremental
  \/ st.status = "none"
  \/ d.stamp > st.stamp
  \/ d.hint # NoHint /\ d.hint # st.hint

(* get_state and should_fetch for one descriptor                           *)
Decide(w, d) ==
  /\ pc[w] = "sync" /\ d \in run[w].descs
  /\ IF ShouldFetch(d, StateAfter(w)[d.ref])
       THEN /\ Goto(w, "fetch")
            /\ run' = [run EXCEPT ![w].descs = @ \ {d}, ![w].cur = d]
       ELSE /\ UNCHANGED pc
            /\ run' = [run EXCEPT ![w].descs = @ \ {d}]
  /\ UNCHANGED <<catalog, status, tables, blobs, tx, locks, job, faults>>

(* fetch_item returns what the item holds now, not when it was listed.     *)
FetchItem(w) ==
  /\ pc[w] = "fetch" /\ Live(run[w].cur.ref)
  /\ LET d == run[w].cur
         item == [ref |-> d.ref, stamp |-> d.stamp, hint |-> d.hint,
                  content |-> catalog[d.ref].content]
     IN run' = [run EXCEPT ![w].items = Append(@, item), ![w].cur = NoItem]
  /\ Goto(w, "sync")
  /\ UNCHANGED <<catalog, status, tables, blobs, tx, locks, job, faults>>

(* fetch_item reports an error, as it must for an item that is gone.       *)
FetchFails(w) ==
  /\ pc[w] = "fetch"
  /\ IF Live(run[w].cur.ref) THEN Fault ELSE UNCHANGED faults
  /\ Goto(w, "failure")
  /\ UNCHANGED <<catalog, status, tables, blobs, tx, locks, job, run>>

(* mark_failure stores the stamp and the hint of the descriptor.           *)
MarkFailure(w) ==
  /\ pc[w] = "failure"
  /\ UpsertState(w, run[w].cur.ref,
                 [status |-> "failed", stamp |-> run[w].cur.stamp,
                  hint |-> run[w].cur.hint])
  /\ run' = [run EXCEPT ![w].cur = NoItem]
  /\ Goto(w, "sync")
  /\ UNCHANGED <<catalog, status, tables, blobs, job, faults>>

(* Listing or fetching raises, and the exception leaves                    *)
(* ingest_sources_sync (an unreachable source, get_object of a lost key).  *)
SourceRaises(w) ==
  /\ pc[w] \in {"sync", "fetch"}
  /\ Fault
  /\ Goto(w, "fail")
  /\ UNCHANGED <<catalog, status, tables, blobs, tx, locks, job, run>>

-----------------------------------------------------------------------------
(* ingest_sources_sync: tombstones                                         *)

EndOfListing(w) ==
  /\ pc[w] = "sync" /\ run[w].descs = {} /\ run[w].types = <<>>
  /\ run' = [run EXCEPT ![w].types = JobTypes[job[w]]]
  /\ Goto(w, "tombstone")
  /\ UNCHANGED <<catalog, status, tables, blobs, tx, locks, job, faults>>

(* Faulty variant: the listing_complete flag is not consulted.             *)
FaultyDeletedRefs(w, t) ==
  {r \in Refs : /\ TypeOf[r] = t
                /\ StateAfter(w)[r].status # "none"
                /\ r \notin run[w].seen}

(* previous_refs - seen_refs of one source type, none if its listing was   *)
(* not complete                                                            *)
DeletedRefs(w, t) ==
  IF t \in run[w].complete
    THEN {r \in Refs : /\ TypeOf[r] = t
                       /\ StateAfter(w)[r].status # "none"
                       /\ r \notin run[w].seen}
    ELSE {}

FindDeleted(w) ==
  /\ pc[w] = "tombstone" /\ run[w].dead = {} /\ run[w].types # <<>>
  /\ run' = [run EXCEPT ![w].types = Tail(@),
                        ![w].dead = DeletedRefs(w, Head(run[w].types))]
  /\ UNCHANGED <<catalog, status, tables, blobs, tx, locks, pc, job, faults>>

(* sorted(deleted_refs)                                                    *)
NextDead(w) == {r \in run[w].dead : \A q \in run[w].dead : r <= q}

(* Faulty variant: the stamp and the hint of the row are kept.             *)
FaultyMarkDeleted(w, r) ==
  /\ pc[w] = "tombstone" /\ r \in NextDead(w)
  /\ UpsertState(w, r, [StateAfter(w)[r] EXCEPT !.status = "deleted"])
  /\ run' = [run EXCEPT ![w].dead = @ \ {r}]
  /\ UNCHANGED <<catalog, status, tables, blobs, pc, job, faults>>

MarkDeleted(w, r) ==
  /\ pc[w] = "tombstone" /\ r \in NextDead(w)
  /\ UpsertState(w, r, [status |-> "deleted", stamp |-> 0, hint |-> NoHint])
  /\ run' = [run EXCEPT ![w].dead = @ \ {r}]
  /\ UNCHANGED <<catalog, status, tables, blobs, pc, job, faults>>

BeginIngest(w) ==
  /\ pc[w] = "tombstone" /\ run[w].dead = {} /\ run[w].types = <<>>
  /\ Goto(w, "ingest")
  /\ UNCHANGED <<catalog, status, tables, blobs, tx, locks, job, run, faults>>

-----------------------------------------------------------------------------
(* ingest_source_items                                                     *)

Key(item) == <<item.ref, item.content>>
CurKey(w) == Key(run[w].cur)
CurVid(w) == <<job[w], run[w].cur.ref>>
ChunksOf(key) == {key} \X ChunkNos
HasVersion(w, key) == \E v \in VerSeen(w) : v.key = key

(* Faulty variant: ON CONFLICT DO NOTHING, which locks no row.             *)
FaultyUpsertNoLock(w) ==
  /\ pc[w] = "ingest" /\ More(w)
  /\ run' = [run EXCEPT ![w].cur = Item(w)]
  /\ Goto(w, IF HasVersion(w, Key(Item(w))) THEN "embed" ELSE "putRaw")
  /\ UNCHANGED <<catalog, status, tables, blobs, tx, locks, job, faults>>

(* Faulty variant: an item with a known version is not indexed again.      *)
FaultyUpsertSkips(w) ==
  /\ pc[w] = "ingest" /\ More(w)
  /\ Free(w, <<"source", Item(w).ref>>)
  /\ locks' = [locks EXCEPT ![w] = @ \cup {<<"source", Item(w).ref>>}]
  /\ IF HasVersion(w, Key(Item(w)))
       THEN /\ run' = [run EXCEPT ![w].next = @ + 1]
            /\ UNCHANGED pc
       ELSE /\ run' = [run EXCEPT ![w].cur = Item(w)]
            /\ Goto(w, "putRaw")
  /\ UNCHANGED <<catalog, status, tables, blobs, tx, job, faults>>

(* _upsert_source locks the sources row of the item until the commit;      *)
(* _find_source_version_id then decides whether the content is new.        *)
UpsertSource(w) ==
  /\ pc[w] = "ingest" /\ More(w)
  /\ Free(w, <<"source", Item(w).ref>>)
  /\ locks' = [locks EXCEPT ![w] = @ \cup {<<"source", Item(w).ref>>}]
  /\ run' = [run EXCEPT ![w].cur = Item(w)]
  /\ Goto(w, IF HasVersion(w, Key(Item(w))) THEN "embed" ELSE "putRaw")
  /\ UNCHANGED <<catalog, status, tables, blobs, tx, job, faults>>

PutBlob(w, stage, kind, next) ==
  /\ pc[w] = stage
  /\ <<CurVid(w), kind>> \notin blobs     \* else VersionOverwriteError
  /\ blobs' = blobs \cup {<<CurVid(w), kind>>}
  /\ Goto(w, next)
  /\ UNCHANGED <<catalog, status, tables, tx, locks, job, run, faults>>

PutRaw(w) == PutBlob(w, "putRaw", "raw", "putMd")
PutMd(w)  == PutBlob(w, "putMd", "md", "insert")

(* _insert_source_version, _insert_document, _insert_chunks and            *)
(* _insert_links: statements of one transaction, no other call between     *)
(* them.                                                                   *)
InsertVersion(w) ==
  /\ pc[w] = "insert"
  /\ IF HasVersion(w, CurKey(w))
       THEN UNCHANGED tx /\ Goto(w, "embed")      \* ON CONFLICT DO NOTHING
       ELSE /\ tx' = [tx EXCEPT ![w].ver =
                        @ \cup {[key |-> CurKey(w), vid |-> CurVid(w)]}]
            /\ Goto(w, "artifact")
  /\ UNCHANGED <<catalog, status, tables, blobs, locks, job, run, faults>>

PutArtifact(w) ==
  /\ pc[w] = "artifact"
  /\ blobs' = blobs \cup {<<CurVid(w), "artifact">>}
  /\ Goto(w, "embed")
  /\ UNCHANGED <<catalog, status, tables, tx, locks, job, run, faults>>

(* Faulty variant: a failed write of normalized.md is logged and ignored.  *)
FaultyPutFails(w) ==
  /\ pc[w] \in {"putRaw", "putMd", "artifact"}
  /\ Fault
  /\ Goto(w, IF pc[w] = "putMd" THEN "insert" ELSE "fail")
  /\ UNCHANGED <<catalog, status, tables, blobs, tx, locks, job, run>>

(* Object storage refuses a write; the exception leaves the run.           *)
PutFails(w) ==
  /\ pc[w] \in {"putRaw", "putMd", "artifact"}
  /\ Fault
  /\ Goto(w, "fail")
  /\ UNCHANGED <<catalog, status, tables, blobs, tx, locks, job, run>>

(* _upsert_chunk_vectors: the chunks without a vector, in batches by       *)
(* ordinal.                                                                *)
MissingVectors(w) == ChunksOf(CurKey(w)) \ VecSeen(w)

(* Faulty variant: the end of a batch is off by one.                       *)
FaultyNextBatch(w) ==
  {c \in MissingVectors(w) :
     Cardinality({d \in MissingVectors(w) : d[2] < c[2]}) < BatchSize - 1}

NextBatch(w) ==
  {c \in MissingVectors(w) :
     Cardinality({d \in MissingVectors(w) : d[2] < c[2]}) < BatchSize}

EmbedBatch(w) ==
  /\ pc[w] = "embed" /\ MissingVectors(w) # {}
  /\ tx' = [tx EXCEPT ![w].vec = @ \cup NextBatch(w)]
  /\ UNCHANGED <<catalog, status, tables, blobs, locks, pc, job, run, faults>>

(* Faulty variant: the item is given up and the run goes on.               *)
FaultyEmbedFails(w) ==
  /\ pc[w] = "embed" /\ MissingVectors(w) # {}
  /\ Fault
  /\ run' = [run EXCEPT ![w].cur = NoItem, ![w].next = @ + 1]
  /\ Goto(w, "ingest")
  /\ UNCHANGED <<catalog, status, tables, blobs, tx, locks, job>>

(* Every attempt of EMBEDDINGS_RETRY_ATTEMPTS failed, or the answer has    *)
(* another length than the batch: EmbeddingIndexingError.                  *)
EmbedFails(w) ==
  /\ pc[w] = "embed" /\ MissingVectors(w) # {}
  /\ Fault
  /\ Goto(w, "fail")
  /\ UNCHANGED <<catalog, status, tables, blobs, tx, locks, job, run>>

(* _upsert_fts_for_chunks, the last step of an item                        *)
IndexFts(w) ==
  /\ pc[w] = "embed" /\ MissingVectors(w) = {}
  /\ tx' = [tx EXCEPT ![w].fts = @ \cup ChunksOf(CurKey(w))]
  /\ run' = [run EXCEPT ![w].cur = NoItem, ![w].next = @ + 1]
  /\ Goto(w, "ingest")
  /\ UNCHANGED <<catalog, status, tables, blobs, locks, job, faults>>

(* The single commit of ingest_source_items                                *)
CommitItems(w) ==
  /\ pc[w] = "ingest" /\ ~More(w)
  /\ Commit(w) /\ EndTx(w)
  /\ run' = [run EXCEPT ![w].next = 1]
  /\ Goto(w, "mark")
  /\ UNCHANGED <<catalog, status, blobs, job, faults>>

-----------------------------------------------------------------------------
(* The end of a job                                                        *)

(* Faulty variant: the item's modification time is looked up again.        *)
FaultyMarkSuccess(w) ==
  /\ pc[w] = "mark" /\ More(w)
  /\ UpsertState(w, Item(w).ref,
                 [status |-> "success", stamp |-> catalog[Item(w).ref].stamp,
                  hint |-> Item(w).hint])
  /\ run' = [run EXCEPT ![w].next = @ + 1]
  /\ UNCHANGED <<catalog, status, tables, blobs, pc, job, faults>>

(* mark_success stores the stamp and the hint the item was listed with.    *)
MarkSuccess(w) ==
  /\ pc[w] = "mark" /\ More(w)
  /\ UpsertState(w, Item(w).ref,
                 [status |-> "success", stamp |-> Item(w).stamp,
                  hint |-> Item(w).hint])
  /\ run' = [run EXCEPT ![w].next = @ + 1]
  /\ UNCHANGED <<catalog, status, tables, blobs, pc, job, faults>>

(* The locals of process_next_job are gone.                                *)
Leave(w, stage) ==
  /\ job' = [job EXCEPT ![w] = NoJob]
  /\ run' = [run EXCEPT ![w] = NewRun(<<>>)]
  /\ Goto(w, stage)

(* Faulty variant: the rows of a run are rolled back before its status is  *)
(* written.                                                                *)
FaultyEndJob(w, result) ==
  /\ EndTx(w)
  /\ status' = [status EXCEPT ![job[w]] = result]
  /\ Leave(w, "idle")
  /\ UNCHANGED <<catalog, tables, blobs, faults>>

(* The commit of process_next_job.  It commits whatever the run wrote      *)
(* before it returned or raised: nothing rolls back.                       *)
EndJob(w, result) ==
  /\ Commit(w) /\ EndTx(w)
  /\ status' = [status EXCEPT ![job[w]] = result]
  /\ Leave(w, "idle")
  /\ UNCHANGED <<catalog, blobs, faults>>

(* Faulty variant: a status that JOB_STATUS does not have.                 *)
FaultyFailJob(w) == pc[w] = "fail" /\ EndJob(w, "failed")

FinishJob(w) == pc[w] = "mark" /\ ~More(w) /\ EndJob(w, "done")
FailJob(w)   == pc[w] = "fail" /\ EndJob(w, "error")

-----------------------------------------------------------------------------
(* Processes that die                                                      *)

Die(w) ==
  /\ EndTx(w)
  /\ Leave(w, "dead")
  /\ UNCHANGED <<catalog, status, tables, blobs>>

(* PostgreSQL drops the open transaction of a process that crashed.        *)
Crash(w) == pc[w] \notin {"idle", "dead"} /\ Fault /\ Die(w)

(* The row lock the next statement of w may have to wait for               *)
Wanted(w) ==
  CASE pc[w] = "failure"              -> {<<"state", run[w].cur.ref>>}
    [] pc[w] = "tombstone"            -> {<<"state", r>> : r \in NextDead(w)}
    [] pc[w] = "ingest" /\ More(w)    -> {<<"source", Item(w).ref>>}
    [] pc[w] = "mark" /\ More(w)      -> {<<"state", Item(w).ref>>}
    [] OTHER                          -> {}

WaitsFor(w, x) == x # w /\ Wanted(w) \cap locks[x] # {}

(* Workers wait for each other in a cycle and PostgreSQL aborts one: its   *)
(* statement raises, the commit of the error status fails too, and         *)
(* run_forever ends with the exception.                                    *)
DeadlockAbort(w) ==
  /\ \E cycle \in SUBSET Workers :
       /\ w \in cycle
       /\ \A x \in cycle : /\ \E y \in cycle : WaitsFor(x, y)
                           /\ \E y \in cycle : WaitsFor(y, x)
  /\ Die(w) /\ UNCHANGED faults

(* Somebody starts the worker process again.                               *)
Restart(w) ==
  /\ pc[w] = "dead"
  /\ Goto(w, "idle")
  /\ UNCHANGED <<catalog, status, tables, blobs, tx, locks, job, run, faults>>

-----------------------------------------------------------------------------
Init ==
  /\ \E live \in SUBSET Refs, c \in Contents :
       catalog = [r \in Refs |->
                    [content |-> IF r \in live THEN c ELSE NoContent,
                     stamp |-> 1]]
  /\ status = [j \in Jobs |-> "absent"]
  /\ ver = {} /\ vec = {} /\ fts = {}
  /\ state = [r \in Refs |-> NoState]
  /\ blobs = {}
  /\ tx = [w \in Workers |-> EmptyTx]
  /\ locks = [w \in Workers |-> {}]
  /\ pc = [w \in Workers |-> "idle"]
  /\ job = [w \in Workers |-> NoJob]
  /\ run = [w \in Workers |-> NewRun(<<>>)]
  /\ faults = 0

(* What a worker does by itself                                            *)
Run(w) ==
  \/ \E j \in Jobs : SelectJob(w, j)
  \/ ClaimJob(w)
  \/ ListDescriptors(w)
  \/ \E d \in run[w].descs : Decide(w, d)
  \/ FetchItem(w)
  \/ MarkFailure(w)
  \/ EndOfListing(w)
  \/ FindDeleted(w)
  \/ \E r \in run[w].dead : MarkDeleted(w, r)
  \/ BeginIngest(w)
  \/ UpsertSource(w)
  \/ PutRaw(w)
  \/ PutMd(w)
  \/ InsertVersion(w)
  \/ PutArtifact(w)
  \/ EmbedBatch(w)
  \/ IndexFts(w)
  \/ CommitItems(w)
  \/ MarkSuccess(w)
  \/ FinishJob(w)
  \/ FailJob(w)
  \/ DeadlockAbort(w)

(* What its surroundings do to it                                          *)
Disturb(w) ==
  \/ FetchFails(w)
  \/ SourceRaises(w)
  \/ PutFails(w)
  \/ EmbedFails(w)
  \/ Crash(w)
  \/ Restart(w)

Next ==
  \/ \E r \in Refs : ChangeCatalog(r)
  \/ \E j \in Jobs : CreateJob(j)
  \/ \E w \in Workers : Run(w) \/ Disturb(w)

Spec == Init /\ [][Next]_vars

(* A worker process that lives keeps taking its steps, a call it made      *)
(* returns; nothing makes sources change, calls fail or dead workers come  *)
(* back.                                                                   *)
FairSpec == Spec /\ \A w \in Workers : WF_vars(Run(w) \/ FetchFails(w))

-----------------------------------------------------------------------------
(* Properties                                                              *)

Active(w) == pc[w] \notin {"idle", "dead"}

TypeOK ==
  /\ catalog \in [Refs -> [content : Contents \cup {NoContent}, stamp : Nat]]
  /\ status \in [Jobs -> Statuses]
  /\ ver \subseteq Versions
  /\ vec \subseteq Chunks
  /\ fts \subseteq Chunks
  /\ state \in [Refs -> SyncStates]
  /\ blobs \subseteq VersionIds \X {"raw", "md", "artifact"}
  /\ tx \in [Workers -> Transactions]
  /\ locks \in [Workers -> SUBSET Locks]
  /\ pc \in [Workers -> Stages]
  /\ job \in [Workers -> Jobs \cup {NoJob}]
  /\ run \in [Workers -> Runs]
  /\ faults \in Nat

(* A version whose document can be found by both retrieval strategies      *)
Indexed(key) ==
  /\ \E v \in ver : v.key = key
  /\ ChunksOf(key) \subseteq vec
  /\ ChunksOf(key) \subseteq fts

(* An item the next synchronisation would skip as unchanged is indexed     *)
(* with the content it has now, whatever failed, crashed or ran            *)
(* concurrently before.  A failed fetch is the exception, see below.       *)
SkipIsSafe ==
  \A r \in Refs :
    Live(r) /\ state[r].status # "failed"
            /\ ~ShouldFetch(Descriptor(r), state[r])
      => Indexed(<<r, catalog[r].content>>)

(* Every committed source_versions row names objects that were stored.     *)
BlobsBeforeRows ==
  \A v \in ver : {<<v.vid, "raw">>, <<v.vid, "md">>} \subseteq blobs

(* The same content of a source never gets a second version.               *)
UniqueVersions ==
  \A u, v \in ver : u.key = v.key => u = v

(* An item that never left its catalogue is never marked as deleted.       *)
NeverTombstonedWhileLive ==
  \A r \in Refs :
    Live(r) /\ catalog[r].stamp = 1 => state[r].status # "deleted"

(* A job is run by one worker.                                             *)
JobExclusive ==
  \A w, x \in Workers : w # x /\ Active(w) => job[w] # job[x]

(* A job whose result is reported keeps it, and is never run again.        *)
TerminalIsFinal ==
  [][\A j \in Jobs : status[j] \in {"done", "error"} =>
       /\ status'[j] = status[j]
       /\ \A w \in Workers : job'[w] # j \/ job[w] = j]_vars

(* Items a run is about to record as synchronised are committed and        *)
(* searchable, so a crash between the two commits loses nothing.           *)
MarkedItemsIndexed ==
  \A w \in Workers : pc[w] = "mark" =>
    \A i \in 1 .. Len(run[w].items) : Indexed(Key(run[w].items[i]))

(* A job that reports done has committed what became of every item it      *)
(* listed.                                                                 *)
DoneIsRecorded ==
  [][\A w \in Workers : pc[w] = "mark" /\ pc'[w] = "idle" =>
       \A r \in run[w].seen : state'[r].status # "none"]_vars

(* As long as no worker dies, every accepted job ends: no lock is waited   *)
(* for forever and no failing call blocks the queue.                       *)
JobsEnd ==
  ([](\A w \in Workers : pc[w] # "dead")) =>
    \A j \in Jobs : status[j] = "queued" ~> status[j] \in {"done", "error"}

-----------------------------------------------------------------------------
(* Inductive invariants: what has to hold in between for the properties    *)

Ingesting == {"putRaw", "putMd", "insert", "artifact", "embed"}

(* A remembered synchronisation is no newer than the catalogue, and one    *)
(* that is as new is searchable.                                           *)
RowSafe(r, st) ==
  /\ st.status \in {"none", "unwritten", "deleted"} => st.stamp = 0
  /\ st.status = "success" =>
       /\ st.stamp <= catalog[r].stamp
       /\ st.stamp = catalog[r].stamp => Indexed(<<r, catalog[r].content>>)

(* A fetched item may hold content newer than the stamp it was listed      *)
(* with, never older.                                                      *)
Fresh(item) ==
  /\ item.stamp <= catalog[item.ref].stamp
  /\ item.stamp = catalog[item.ref].stamp =>
       item.content = catalog[item.ref].content

IndexedSeen(w, key) ==
  /\ HasVersion(w, key)
  /\ ChunksOf(key) \subseteq VecSeen(w)
  /\ ChunksOf(key) \subseteq FtsSeen(w)

(* The items before the cursor are indexed in the worker's transaction,    *)
(* the item in hand is the one at the cursor.                              *)
Progress(w) ==
  /\ pc[w] \in {"sync", "fetch", "failure", "tombstone"} => run[w].next = 1
  /\ pc[w] \in Ingesting \cup {"ingest"} =>
       \A i \in 1 .. Len(run[w].items) :
         i < run[w].next => IndexedSeen(w, Key(run[w].items[i]))
  /\ pc[w] \in Ingesting => More(w) /\ run[w].cur = Item(w)
  /\ pc[w] \in {"artifact", "embed"} => HasVersion(w, CurKey(w))

(* What a worker carries from one step to the next                         *)
WorkerInv(w) ==
  /\ \A r \in Refs : RowSafe(r, tx[w].state[r])
  /\ \A d \in run[w].descs : d.stamp <= catalog[d.ref].stamp
  /\ pc[w] = "fetch" => run[w].cur.stamp <= catalog[run[w].cur.ref].stamp
  /\ \A i \in 1 .. Len(run[w].items) : Fresh(run[w].items[i])
  /\ Progress(w)
  /\ pc[w] = "mark" =>
       \A i \in 1 .. Len(run[w].items) : Indexed(Key(run[w].items[i]))

(* SkipIsSafe and MarkedItemsIndexed with what makes them inductive        *)
SkipInv ==
  /\ \A r \in Refs : catalog[r].stamp > 0 /\ RowSafe(r, state[r])
  /\ \A w \in Workers : WorkerInv(w)

-----------------------------------------------------------------------------
(* What the pipeline promises to whoever searches                          *)

SearchIndex == {key \in Keys : Indexed(key)}

Mirror == INSTANCE SearchMirror WITH index <- SearchIndex

(* The two commits of a run, seen from outside: the first makes versions   *)
(* searchable, the second confirms items that are searchable already, and  *)
(* a run that ends early is a first commit without a second, at any point, *)
(* with any number of workers.                                             *)
Mirrored == Mirror!Spec

-----------------------------------------------------------------------------
(* What the documentation says and the code does not do                    *)

(* Documentation: a failed fetch is retryable.                             *)
FailedFetchIsRetried ==
  \A r \in Refs :
    Live(r) /\ state[r].status = "failed" => ShouldFetch(Descriptor(r), state[r])
=============================================================================
