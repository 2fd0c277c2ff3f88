----------------------- MODULE IngestPipeline_proofs -----------------------
(* Theorems about IngestPipeline, for every number of workers, jobs and    *)
(* items, and without the bounds TLC needs: types, then what a skip rests  *)
(* on (SkipInv), then jobs, objects, versions, tombstones and what a job   *)
(* that is done has recorded.                                              *)
EXTENDS IngestPipeline, TLAPS

-----------------------------------------------------------------------------
(* The type invariant                                                      *)

(* What the locals of a worker hold at each place of process_next_job.     *)
Shape(w) ==
  /\ Active(w) => job[w] \in Jobs
  /\ pc[w] \in {"fetch", "failure"} => run[w].cur \in Descriptors
  /\ pc[w] \in {"putRaw", "putMd", "insert", "artifact", "embed"} =>
       run[w].cur \in Items

TypeInv == TypeOK /\ \A w \in Workers : Shape(w)

USE DEF tables

LEMMA InitTypeInv == ASSUME Init PROVE TypeInv
<1> USE ConstantsAssumption DEF Init
<1>1. catalog \in [Refs -> [content : Contents \cup {NoContent}, stamp : Nat]]
  OBVIOUS
<1>2. state \in [Refs -> SyncStates]
  BY DEF NoState, SyncStates
<1>3. EmptyTx \in Transactions
  BY DEF EmptyTx, Transactions, Unwritten, SyncStates
<1>4. NewRun(<<>>) \in Runs
  BY DEF NewRun, Runs
<1>5. TypeOK
  BY <1>1, <1>2, <1>3, <1>4 DEF TypeOK, Statuses, Stages, NoJob
<1>6. \A w \in Workers : Shape(w)
  BY DEF Shape, Active
<1> QED BY <1>5, <1>6 DEF TypeInv

LEMMA CreateJobTypeInv ==
  ASSUME TypeInv, NEW j \in Jobs, CreateJob(j) PROVE TypeInv'
BY DEF TypeInv, TypeOK, CreateJob, Statuses, Shape, Active

LEMMA ChangeCatalogTypeInv ==
  ASSUME TypeInv, NEW r \in Refs, ChangeCatalog(r) PROVE TypeInv'
<1>1. catalog' \in [Refs -> [content : Contents \cup {NoContent}, stamp : Nat]]
  BY DEF TypeInv, TypeOK, ChangeCatalog
<1> QED BY <1>1 DEF TypeInv, TypeOK, ChangeCatalog, Shape, Active

LEMMA ListTypeInv ==
  ASSUME TypeInv, NEW w \in Workers, ListDescriptors(w) PROVE TypeInv'
<1> USE ConstantsAssumption
<1> DEFINE t == Head(run[w].types)
<1>1. PICK refs \in SUBSET ListingOf(t), whole \in BOOLEAN :
        run' = [run EXCEPT ![w].types = Tail(@),
                           ![w].descs = {Descriptor(r) : r \in refs},
                           ![w].seen = {r \in @ : TypeOf[r] # t} \cup refs,
                           ![w].complete = IF whole THEN @ \cup {t} ELSE @ \ {t}]
  BY DEF ListDescriptors
<1>2. run[w] \in Runs /\ run[w].types # <<>>
  BY DEF TypeInv, TypeOK, ListDescriptors
<1>3. t \in Types /\ Tail(run[w].types) \in Seq(Types)
  BY <1>2 DEF Runs
<1>4. \A r \in ListingOf(t) : Descriptor(r) \in Descriptors
  BY SMTT(60) DEF ListingOf, Live, Descriptor, Descriptors, TypeInv, TypeOK
<1>5. run'[w] \in Runs
  <2>1. run[w].seen \subseteq Refs /\ run[w].complete \subseteq Types
    BY <1>2 DEF Runs
  <2>2. /\ {Descriptor(r) : r \in refs} \subseteq Descriptors
        /\ {r \in run[w].seen : TypeOf[r] # t} \cup refs \subseteq Refs
        /\ (IF whole THEN run[w].complete \cup {t} ELSE run[w].complete \ {t})
             \subseteq Types
    BY <1>3, <1>4, <2>1 DEF ListingOf
  <2>3. run'[w] = [run[w] EXCEPT
                     !.types = Tail(@),
                     !.descs = {Descriptor(r) : r \in refs},
                     !.seen = {r \in @ : TypeOf[r] # t} \cup refs,
                     !.complete = IF whole THEN @ \cup {t} ELSE @ \ {t}]
    BY <1>1, <1>2 DEF TypeInv, TypeOK
  <2> QED BY <1>2, <1>3, <2>2, <2>3, ZenonT(60) DEF Runs
<1>6. run' \in [Workers -> Runs]
  BY <1>1, <1>5 DEF TypeInv, TypeOK
<1>7. \A x \in Workers : run'[x].cur = run[x].cur
  BY <1>1, <1>2 DEF TypeInv, TypeOK, Runs
<1>8. \A x \in Workers : Shape(x)'
  BY <1>7, ZenonT(60) DEF TypeInv, TypeOK, ListDescriptors, Shape, Active
<1>9. TypeOK'
  BY <1>6 DEF TypeInv, TypeOK, ListDescriptors
<1> QED BY <1>8, <1>9 DEF TypeInv
(* What the shared pieces of the actions return                            *)

LEMMA UpsertStateType ==
  ASSUME TypeOK, NEW w \in Workers, NEW r \in Refs, NEW st \in SyncStates,
         UpsertState(w, r, st)
  PROVE  /\ tx' \in [Workers -> Transactions]
         /\ locks' \in [Workers -> SUBSET Locks]
<1>1. [tx[w].state EXCEPT ![r] = st] \in [Refs -> SyncStates]
  BY DEF TypeOK, Transactions
<1>2. tx[w] \in Transactions
  BY DEF TypeOK
<1>3. [tx[w] EXCEPT !.state = [@ EXCEPT ![r] = st]] \in Transactions
  BY <1>1, <1>2 DEF Transactions
<1>4. tx' \in [Workers -> Transactions]
  BY <1>3 DEF TypeOK, UpsertState
<1>5. locks' \in [Workers -> SUBSET Locks]
  BY DEF TypeOK, UpsertState, Locks
<1> QED BY <1>4, <1>5

LEMMA EndTxType ==
  ASSUME TypeOK, NEW w \in Workers, EndTx(w)
  PROVE  /\ tx' \in [Workers -> Transactions]
         /\ locks' \in [Workers -> SUBSET Locks]
<1>1. EmptyTx \in Transactions
  BY DEF EmptyTx, Transactions, Unwritten, SyncStates
<1> QED BY <1>1 DEF TypeOK, EndTx

LEMMA StateAfterType ==
  ASSUME TypeOK, NEW w \in Workers
  PROVE  StateAfter(w) \in [Refs -> SyncStates]
<1>1. tx[w].state \in [Refs -> SyncStates]
  BY DEF TypeOK, Transactions
<1> QED BY <1>1 DEF TypeOK, StateAfter

LEMMA SeenType ==
  ASSUME TypeOK, NEW w \in Workers
  PROVE  VerSeen(w) \subseteq Versions /\ VecSeen(w) \subseteq Chunks
         /\ FtsSeen(w) \subseteq Chunks
<1>1. tx[w] \in Transactions
  BY DEF TypeOK
<1> QED BY <1>1 DEF TypeOK, Transactions, VerSeen, VecSeen, FtsSeen

LEMMA LeaveType ==
  ASSUME TypeOK, NEW w \in Workers, NEW stage \in Stages, Leave(w, stage)
  PROVE  /\ job' \in [Workers -> Jobs \cup {NoJob}]
         /\ run' \in [Workers -> Runs]
         /\ pc' \in [Workers -> Stages]
         /\ pc' = [pc EXCEPT ![w] = stage]
         /\ \A x \in Workers \ {w} : run'[x] = run[x] /\ job'[x] = job[x]
<1>1. NewRun(<<>>) \in Runs
  BY DEF NewRun, Runs
<1> QED BY <1>1 DEF TypeOK, Leave, Goto

-----------------------------------------------------------------------------
LEMMA SelectTypeInv ==
  ASSUME TypeInv, NEW w \in Workers, NEW j \in Jobs, SelectJob(w, j)
  PROVE  TypeInv'
<1>1. TypeOK'
  BY DEF TypeInv, TypeOK, SelectJob, Goto, Stages
<1>2. \A x \in Workers : Shape(x)'
  BY DEF TypeInv, TypeOK, SelectJob, Goto, Shape, Active
<1> QED BY <1>1, <1>2 DEF TypeInv

LEMMA ClaimTypeInv ==
  ASSUME TypeInv, NEW w \in Workers, ClaimJob(w) PROVE TypeInv'
<1>1. job[w] \in Jobs
  BY DEF TypeInv, ClaimJob, Shape, Active
<1>2. NewRun(JobTypes[job[w]]) \in Runs
  <2>1. JobTypes[job[w]] \in Seq(Types)
    BY <1>1, ConstantsAssumption
  <2> QED BY <2>1 DEF NewRun, Runs
<1>3. TypeOK'
  BY <1>1, <1>2 DEF TypeInv, TypeOK, ClaimJob, Goto, Stages, Statuses
<1>4. \A x \in Workers : Shape(x)'
  BY <1>1 DEF TypeInv, TypeOK, ClaimJob, Goto, Shape, Active
<1> QED BY <1>3, <1>4 DEF TypeInv

LEMMA DecideTypeInv ==
  ASSUME TypeInv, NEW w \in Workers, NEW d \in run[w].descs, Decide(w, d)
  PROVE  TypeInv'
<1>1. run[w] \in Runs /\ d \in Descriptors
  BY DEF TypeInv, TypeOK, Runs
<1>2. CASE ShouldFetch(d, StateAfter(w)[d.ref])
  <2>1. /\ run' = [run EXCEPT ![w].descs = @ \ {d}, ![w].cur = d]
        /\ pc' = [pc EXCEPT ![w] = "fetch"]
    BY <1>2 DEF Decide, Goto
  <2>2. [run[w] EXCEPT !.descs = @ \ {d}, !.cur = d] \in Runs
    BY <1>1 DEF Runs
  <2>3. TypeOK'
    BY <2>1, <2>2 DEF TypeInv, TypeOK, Decide, Stages
  <2>4. \A x \in Workers : Shape(x)'
    BY <1>1, <2>1 DEF TypeInv, TypeOK, Decide, Shape, Active, Runs
  <2> QED BY <2>3, <2>4 DEF TypeInv
<1>3. CASE ~ShouldFetch(d, StateAfter(w)[d.ref])
  <2>1. run' = [run EXCEPT ![w].descs = @ \ {d}] /\ pc' = pc
    BY <1>3 DEF Decide
  <2>2. [run[w] EXCEPT !.descs = @ \ {d}] \in Runs
    BY <1>1 DEF Runs
  <2>3. TypeOK'
    BY <2>1, <2>2 DEF TypeInv, TypeOK, Decide
  <2>4. \A x \in Workers : run'[x].cur = run[x].cur
    BY <2>1, <1>1 DEF TypeInv, TypeOK, Runs
  <2>5. \A x \in Workers : Shape(x)'
    BY <2>1, <2>4 DEF TypeInv, Decide, Shape, Active
  <2> QED BY <2>3, <2>5 DEF TypeInv
<1> QED BY <1>2, <1>3

(* The steps that replace at most the cursor and the item in hand          *)
LEMMA FetchTypeInv ==
  ASSUME TypeInv, NEW w \in Workers, FetchItem(w) PROVE TypeInv'
<1> DEFINE d == run[w].cur
           item == [ref |-> d.ref, stamp |-> d.stamp, hint |-> d.hint,
                    content |-> catalog[d.ref].content]
<1>1. run[w] \in Runs /\ d \in Descriptors
  BY DEF TypeInv, TypeOK, Shape, FetchItem
<1>2. item \in Items
  BY <1>1 DEF FetchItem, Live, TypeInv, TypeOK, Descriptors, Items
<1>3. run' = [run EXCEPT ![w].items = Append(@, item), ![w].cur = NoItem]
  BY DEF FetchItem
<1>4. [run[w] EXCEPT !.items = Append(@, item), !.cur = NoItem] \in Runs
  <2> HIDE DEF item
  <2>1. run[w].items \in Seq(Items)
    BY <1>1 DEF Runs
  <2>2. Append(run[w].items, item) \in Seq(Items)
    BY <1>2, <2>1
  <2> QED BY <1>1, <2>2 DEF Runs
<1>5. TypeOK'
  <2> HIDE DEF item
  <2> QED BY <1>3, <1>4, ZenonT(60) DEF TypeInv, TypeOK, FetchItem, Goto, Stages
<1>6. \A x \in Workers : Shape(x)'
  <2> HIDE DEF item
  <2> QED BY <1>3 DEF TypeInv, TypeOK, FetchItem, Goto, Shape, Active
<1> QED BY <1>5, <1>6 DEF TypeInv

LEMMA FetchFailsTypeInv ==
  ASSUME TypeInv, NEW w \in Workers, FetchFails(w) PROVE TypeInv'
<1>1. TypeOK'
  BY DEF TypeInv, TypeOK, FetchFails, Fault, Goto, Stages
<1>2. \A x \in Workers : Shape(x)'
  BY DEF TypeInv, TypeOK, FetchFails, Goto, Shape, Active
<1> QED BY <1>1, <1>2 DEF TypeInv

LEMMA MarkFailureTypeInv ==
  ASSUME TypeInv, NEW w \in Workers, MarkFailure(w) PROVE TypeInv'
<1> DEFINE st == [status |-> "failed", stamp |-> run[w].cur.stamp,
                  hint |-> run[w].cur.hint]
<1>1. run[w] \in Runs /\ run[w].cur \in Descriptors
  BY DEF TypeInv, TypeOK, Shape, MarkFailure
<1>2. st \in SyncStates /\ run[w].cur.ref \in Refs
  BY <1>1 DEF Descriptors, SyncStates
<1>3. tx' \in [Workers -> Transactions] /\ locks' \in [Workers -> SUBSET Locks]
  <2>1. UpsertState(w, run[w].cur.ref, st)
    BY DEF MarkFailure
  <2> HIDE DEF st
  <2> QED BY <1>2, <2>1, UpsertStateType DEF TypeInv
<1>4. [run[w] EXCEPT !.cur = NoItem] \in Runs
  BY <1>1 DEF Runs
<1>5. TypeOK'
  BY <1>3, <1>4 DEF TypeInv, TypeOK, MarkFailure, Goto, Stages
<1>6. \A x \in Workers : Shape(x)'
  BY DEF TypeInv, TypeOK, MarkFailure, Goto, Shape, Active
<1> QED BY <1>5, <1>6 DEF TypeInv

LEMMA RaiseTypeInv ==
  ASSUME TypeInv, NEW w \in Workers,
         SourceRaises(w) \/ PutFails(w) \/ EmbedFails(w)
  PROVE  TypeInv'
<1>1. /\ pc' = [pc EXCEPT ![w] = "fail"] /\ Active(w)
      /\ faults' \in Nat
      /\ UNCHANGED <<catalog, status, ver, vec, fts, state, blobs, tx, locks,
                    job, run>>
  BY DEF SourceRaises, PutFails, EmbedFails, Goto, Active, Fault, TypeInv,
         TypeOK
<1>2. TypeOK'
  BY <1>1 DEF TypeInv, TypeOK, Stages
<1>3. \A x \in Workers : Shape(x)'
  BY <1>1 DEF TypeInv, TypeOK, Shape, Active
<1> QED BY <1>2, <1>3 DEF TypeInv

LEMMA EndOfListingTypeInv ==
  ASSUME TypeInv, NEW w \in Workers, EndOfListing(w) PROVE TypeInv'
<1>1. run[w] \in Runs /\ job[w] \in Jobs
  BY DEF TypeInv, TypeOK, Shape, EndOfListing, Active
<1>2. JobTypes[job[w]] \in Seq(Types)
  BY <1>1, ConstantsAssumption
<1>3. [run[w] EXCEPT !.types = JobTypes[job[w]]] \in Runs
  BY <1>1, <1>2 DEF Runs
<1>4. TypeOK'
  BY <1>3 DEF TypeInv, TypeOK, EndOfListing, Goto, Stages
<1>5. \A x \in Workers : Shape(x)'
  BY DEF TypeInv, TypeOK, EndOfListing, Goto, Shape, Active
<1> QED BY <1>4, <1>5 DEF TypeInv

LEMMA FindDeletedTypeInv ==
  ASSUME TypeInv, NEW w \in Workers, FindDeleted(w) PROVE TypeInv'
<1> DEFINE dead == DeletedRefs(w, Head(run[w].types))
<1>1. run[w] \in Runs
  BY DEF TypeInv, TypeOK
<1>2. Tail(run[w].types) \in Seq(Types)
  BY <1>1 DEF FindDeleted, Runs
<1>3. dead \subseteq Refs
  BY DEF DeletedRefs
<1>4. run' = [run EXCEPT ![w].types = Tail(@), ![w].dead = dead]
  BY DEF FindDeleted
<1> HIDE DEF dead
<1>5. [run[w] EXCEPT !.types = Tail(@), !.dead = dead] \in Runs
  BY <1>1, <1>2, <1>3 DEF Runs
<1>6. TypeOK'
  BY <1>4, <1>5 DEF TypeInv, TypeOK, FindDeleted
<1>7. \A x \in Workers : Shape(x)'
  BY <1>4 DEF TypeInv, TypeOK, FindDeleted, Shape, Active
<1> QED BY <1>6, <1>7 DEF TypeInv

LEMMA MarkDeletedTypeInv ==
  ASSUME TypeInv, NEW w \in Workers, NEW r \in run[w].dead, MarkDeleted(w, r)
  PROVE  TypeInv'
<1> DEFINE st == [status |-> "deleted", stamp |-> 0, hint |-> NoHint]
<1>1. run[w] \in Runs /\ r \in Refs
  BY DEF TypeInv, TypeOK, Runs
<1>2. st \in SyncStates
  BY DEF SyncStates
<1>3. tx' \in [Workers -> Transactions] /\ locks' \in [Workers -> SUBSET Locks]
  <2>1. UpsertState(w, r, st)
    BY DEF MarkDeleted
  <2> HIDE DEF st
  <2> QED BY <1>1, <1>2, <2>1, UpsertStateType DEF TypeInv
<1>4. [run[w] EXCEPT !.dead = @ \ {r}] \in Runs
  BY <1>1 DEF Runs
<1>5. TypeOK'
  BY <1>3, <1>4 DEF TypeInv, TypeOK, MarkDeleted
<1>6. \A x \in Workers : Shape(x)'
  BY DEF TypeInv, TypeOK, MarkDeleted, Shape, Active
<1> QED BY <1>5, <1>6 DEF TypeInv

LEMMA BeginIngestTypeInv ==
  ASSUME TypeInv, NEW w \in Workers, BeginIngest(w) PROVE TypeInv'
<1>1. TypeOK'
  BY DEF TypeInv, TypeOK, BeginIngest, Goto, Stages
<1>2. \A x \in Workers : Shape(x)'
  BY DEF TypeInv, TypeOK, BeginIngest, Goto, Shape, Active
<1> QED BY <1>1, <1>2 DEF TypeInv

-----------------------------------------------------------------------------
(* ingest_source_items                                                     *)

(* The item at the cursor                                                  *)
LEMMA ItemType ==
  ASSUME TypeOK, NEW w \in Workers, More(w)
  PROVE  Item(w) \in Items
<1>1. run[w].items \in Seq(Items) /\ run[w].next \in Nat \ {0}
  BY DEF TypeOK, Runs
<1>2. run[w].next \in 1 .. Len(run[w].items)
  BY <1>1 DEF More
<1> QED BY <1>1, <1>2 DEF Item

LEMMA CursorType ==
  ASSUME TypeOK, NEW w \in Workers
  PROVE  /\ [run[w] EXCEPT !.next = @ + 1] \in Runs
         /\ [run[w] EXCEPT !.next = 1] \in Runs
<1>1. run[w] \in Runs
  BY DEF TypeOK
<1>2. run[w].next + 1 \in Nat \ {0} /\ 1 \in Nat \ {0}
  BY <1>1 DEF Runs
<1> HIDE DEF Runs
<1>3. \A n \in Nat \ {0} : [run[w] EXCEPT !.next = n] \in Runs
  BY <1>1 DEF Runs
<1> QED BY <1>2, <1>3

LEMMA UpsertSourceTypeInv ==
  ASSUME TypeInv, NEW w \in Workers, UpsertSource(w) PROVE TypeInv'
<1>1. Item(w) \in Items
  BY ItemType DEF TypeInv, UpsertSource
<1>2. locks' \in [Workers -> SUBSET Locks]
  BY <1>1 DEF TypeInv, TypeOK, UpsertSource, Locks, Items
<1>3. run' = [run EXCEPT ![w].cur = Item(w)]
  BY DEF UpsertSource
<1>4. [run[w] EXCEPT !.cur = Item(w)] \in Runs
  BY <1>1 DEF TypeInv, TypeOK, Runs
<1>5. pc' \in [Workers -> Stages] /\ \A x \in Workers \ {w} : pc'[x] = pc[x]
  BY DEF TypeInv, TypeOK, UpsertSource, Goto, Stages
<1>6. TypeOK'
  BY <1>2, <1>3, <1>4, <1>5 DEF TypeInv, TypeOK, UpsertSource
<1>7. \A x \in Workers : Shape(x)'
  <2>1. run'[w].cur \in Items /\ \A x \in Workers \ {w} : run'[x] = run[x]
    BY <1>1, <1>3 DEF TypeInv, TypeOK, Runs
  <2>2. pc'[w] \in {"embed", "putRaw"} /\ Active(w) /\ job' = job
    BY DEF TypeInv, TypeOK, UpsertSource, Goto, Active
  <2> QED BY <1>5, <2>1, <2>2 DEF TypeInv, Shape, Active
<1> QED BY <1>6, <1>7 DEF TypeInv

(* The names of the objects of a version                                   *)
LEMMA CurType ==
  ASSUME TypeInv, NEW w \in Workers,
         pc[w] \in {"putRaw", "putMd", "insert", "artifact", "embed"}
  PROVE  CurVid(w) \in VersionIds /\ CurKey(w) \in Keys
BY DEF TypeInv, Shape, Active, CurVid, CurKey, Key, VersionIds, Keys, Items

LEMMA PutTypeInv ==
  ASSUME TypeInv, NEW w \in Workers, PutRaw(w) \/ PutMd(w) \/ PutArtifact(w)
  PROVE  TypeInv'
<1>1. PICK kind \in {"raw", "md", "artifact"}, next \in {"putMd", "insert", "embed"} :
        /\ pc[w] \in {"putRaw", "putMd", "artifact"}
        /\ blobs' = blobs \cup {<<CurVid(w), kind>>}
        /\ pc' = [pc EXCEPT ![w] = next]
        /\ UNCHANGED <<catalog, status, ver, vec, fts, state, tx, locks, job,
                      run, faults>>
  <2>1. CASE PutRaw(w)
    BY <2>1 DEF PutRaw, PutBlob, Goto
  <2>2. CASE PutMd(w)
    BY <2>2 DEF PutMd, PutBlob, Goto
  <2>3. CASE PutArtifact(w)
    BY <2>3 DEF PutArtifact, Goto
  <2> QED BY <2>1, <2>2, <2>3
<1>2. CurVid(w) \in VersionIds
  BY <1>1, CurType
<1>3. TypeOK'
  BY <1>1, <1>2 DEF TypeInv, TypeOK, Stages
<1>4. \A x \in Workers : Shape(x)'
  BY <1>1 DEF TypeInv, TypeOK, Shape, Active
<1> QED BY <1>3, <1>4 DEF TypeInv

LEMMA InsertVersionTypeInv ==
  ASSUME TypeInv, NEW w \in Workers, InsertVersion(w) PROVE TypeInv'
<1> DEFINE row == [key |-> CurKey(w), vid |-> CurVid(w)]
<1>1. row \in Versions
  BY CurType DEF InsertVersion, Versions
<1> HIDE DEF row
<1>2. tx[w] \in Transactions
  BY DEF TypeInv, TypeOK
<1>3. [tx[w] EXCEPT !.ver = @ \cup {row}] \in Transactions
  BY <1>1, <1>2 DEF Transactions
<1>4. tx' \in [Workers -> Transactions]
  BY <1>3 DEF InsertVersion, TypeInv, TypeOK, row
<1>5. /\ pc' \in [Workers -> Stages]
      /\ pc'[w] \in {"embed", "artifact"}
      /\ \A x \in Workers \ {w} : pc'[x] = pc[x]
  BY DEF TypeInv, TypeOK, InsertVersion, Goto, Stages
<1>6. TypeOK'
  BY <1>4, <1>5 DEF TypeInv, TypeOK, InsertVersion
<1>7. \A x \in Workers : Shape(x)'
  BY <1>5 DEF TypeInv, InsertVersion, Shape, Active
<1> QED BY <1>6, <1>7 DEF TypeInv

LEMMA EmbedBatchTypeInv ==
  ASSUME TypeInv, NEW w \in Workers, EmbedBatch(w) PROVE TypeInv'
<1>1. NextBatch(w) \subseteq Chunks
  BY CurType DEF EmbedBatch, NextBatch, MissingVectors, ChunksOf, Chunks
<1>2. tx[w] \in Transactions
  BY DEF TypeInv, TypeOK
<1>3. [tx[w] EXCEPT !.vec = @ \cup NextBatch(w)] \in Transactions
  BY <1>1, <1>2 DEF Transactions
<1>4. TypeOK'
  BY <1>3 DEF TypeInv, TypeOK, EmbedBatch
<1>5. \A x \in Workers : Shape(x)'
  BY DEF TypeInv, EmbedBatch, Shape, Active
<1> QED BY <1>4, <1>5 DEF TypeInv

LEMMA IndexFtsTypeInv ==
  ASSUME TypeInv, NEW w \in Workers, IndexFts(w) PROVE TypeInv'
<1>1. ChunksOf(CurKey(w)) \subseteq Chunks
  BY CurType DEF IndexFts, ChunksOf, Chunks
<1>2. tx[w] \in Transactions /\ run[w] \in Runs
  BY DEF TypeInv, TypeOK
<1>3. [tx[w] EXCEPT !.fts = @ \cup ChunksOf(CurKey(w))] \in Transactions
  BY <1>1, <1>2 DEF Transactions
<1>4. [run[w] EXCEPT !.cur = NoItem, !.next = @ + 1] \in Runs
  <2>1. [run[w] EXCEPT !.next = @ + 1] \in Runs
    BY CursorType DEF TypeInv
  <2> QED BY <1>2, <2>1 DEF Runs
<1>5. TypeOK'
  BY <1>3, <1>4 DEF TypeInv, TypeOK, IndexFts, Goto, Stages
<1>6. \A x \in Workers : Shape(x)'
  BY DEF TypeInv, TypeOK, IndexFts, Goto, Shape, Active
<1> QED BY <1>5, <1>6 DEF TypeInv

-----------------------------------------------------------------------------
(* Commits, the end of a job, crashes                                      *)

LEMMA CommitType ==
  ASSUME TypeOK, NEW w \in Workers, Commit(w)
  PROVE  /\ ver' \subseteq Versions /\ vec' \subseteq Chunks
         /\ fts' \subseteq Chunks /\ state' \in [Refs -> SyncStates]
BY SeenType, StateAfterType DEF Commit

LEMMA CommitItemsTypeInv ==
  ASSUME TypeInv, NEW w \in Workers, CommitItems(w) PROVE TypeInv'
<1>1. /\ ver' \subseteq Versions /\ vec' \subseteq Chunks
      /\ fts' \subseteq Chunks /\ state' \in [Refs -> SyncStates]
  BY CommitType DEF TypeInv, CommitItems
<1>2. tx' \in [Workers -> Transactions] /\ locks' \in [Workers -> SUBSET Locks]
  BY EndTxType DEF TypeInv, CommitItems
<1>3. [run[w] EXCEPT !.next = 1] \in Runs
  BY CursorType DEF TypeInv
<1>4. TypeOK'
  BY <1>1, <1>2, <1>3 DEF TypeInv, TypeOK, CommitItems, Goto, Stages
<1>5. \A x \in Workers : Shape(x)'
  BY DEF TypeInv, TypeOK, CommitItems, Goto, Shape, Active
<1> QED BY <1>4, <1>5 DEF TypeInv

LEMMA MarkSuccessTypeInv ==
  ASSUME TypeInv, NEW w \in Workers, MarkSuccess(w) PROVE TypeInv'
<1> DEFINE st == [status |-> "success", stamp |-> Item(w).stamp,
                  hint |-> Item(w).hint]
<1>1. Item(w) \in Items
  BY ItemType DEF TypeInv, MarkSuccess
<1>2. st \in SyncStates /\ Item(w).ref \in Refs
  BY <1>1 DEF SyncStates, Items
<1>3. tx' \in [Workers -> Transactions] /\ locks' \in [Workers -> SUBSET Locks]
  <2>1. UpsertState(w, Item(w).ref, st)
    BY DEF MarkSuccess
  <2> HIDE DEF st
  <2> QED BY <1>2, <2>1, UpsertStateType DEF TypeInv
<1>4. [run[w] EXCEPT !.next = @ + 1] \in Runs
  BY CursorType DEF TypeInv
<1>5. TypeOK'
  BY <1>3, <1>4 DEF TypeInv, TypeOK, MarkSuccess
<1>6. \A x \in Workers : Shape(x)'
  BY DEF TypeInv, TypeOK, MarkSuccess, Shape, Active
<1> QED BY <1>5, <1>6 DEF TypeInv

LEMMA EndJobTypeInv ==
  ASSUME TypeInv, NEW w \in Workers, FinishJob(w) \/ FailJob(w) PROVE TypeInv'
<1>1. PICK result \in {"done", "error"} : EndJob(w, result)
  BY DEF FinishJob, FailJob
<1>2. Active(w) /\ job[w] \in Jobs
  BY DEF FinishJob, FailJob, Active, TypeInv, Shape
<1>3. /\ ver' \subseteq Versions /\ vec' \subseteq Chunks
      /\ fts' \subseteq Chunks /\ state' \in [Refs -> SyncStates]
  BY <1>1, CommitType DEF TypeInv, EndJob
<1>4. tx' \in [Workers -> Transactions] /\ locks' \in [Workers -> SUBSET Locks]
  BY <1>1, EndTxType DEF TypeInv, EndJob
<1>5. status' \in [Jobs -> Statuses]
  BY <1>1, <1>2 DEF EndJob, TypeInv, TypeOK, Statuses
<1>6. /\ job' \in [Workers -> Jobs \cup {NoJob}]
      /\ run' \in [Workers -> Runs]
      /\ pc' \in [Workers -> Stages]
      /\ pc' = [pc EXCEPT ![w] = "idle"]
      /\ \A x \in Workers \ {w} : run'[x] = run[x] /\ job'[x] = job[x]
  BY <1>1, LeaveType DEF TypeInv, EndJob, Stages
<1>7. TypeOK'
  BY <1>1, <1>3, <1>4, <1>5, <1>6 DEF TypeInv, TypeOK, EndJob
<1>8. \A x \in Workers : Shape(x)'
  BY <1>6 DEF TypeInv, TypeOK, Shape, Active
<1> QED BY <1>7, <1>8 DEF TypeInv

LEMMA DieTypeInv ==
  ASSUME TypeInv, NEW w \in Workers, Crash(w) \/ DeadlockAbort(w) PROVE TypeInv'
<1>1. Die(w) /\ faults' \in Nat
  BY DEF Crash, DeadlockAbort, Fault, TypeInv, TypeOK
<1>2. tx' \in [Workers -> Transactions] /\ locks' \in [Workers -> SUBSET Locks]
  BY <1>1, EndTxType DEF TypeInv, Die
<1>3. /\ job' \in [Workers -> Jobs \cup {NoJob}]
      /\ run' \in [Workers -> Runs]
      /\ pc' \in [Workers -> Stages]
      /\ pc' = [pc EXCEPT ![w] = "dead"]
      /\ \A x \in Workers \ {w} : run'[x] = run[x] /\ job'[x] = job[x]
  BY <1>1, LeaveType DEF TypeInv, Die, Stages
<1>4. TypeOK'
  BY <1>1, <1>2, <1>3 DEF TypeInv, TypeOK, Die
<1>5. \A x \in Workers : Shape(x)'
  BY <1>3 DEF TypeInv, TypeOK, Shape, Active
<1> QED BY <1>4, <1>5 DEF TypeInv

LEMMA RestartTypeInv ==
  ASSUME TypeInv, NEW w \in Workers, Restart(w) PROVE TypeInv'
<1>1. TypeOK'
  BY DEF TypeInv, TypeOK, Restart, Goto, Stages
<1>2. \A x \in Workers : Shape(x)'
  BY DEF TypeInv, TypeOK, Restart, Goto, Shape, Active
<1> QED BY <1>1, <1>2 DEF TypeInv

LEMMA NextTypeInv == ASSUME TypeInv, [Next]_vars PROVE TypeInv'
<1>1. CASE \E r \in Refs : ChangeCatalog(r)
  BY <1>1, ChangeCatalogTypeInv
<1>2. CASE \E j \in Jobs : CreateJob(j)
  BY <1>2, CreateJobTypeInv
<1>3. ASSUME NEW w \in Workers, Run(w) PROVE TypeInv'
  BY <1>3, SelectTypeInv, ClaimTypeInv, ListTypeInv, DecideTypeInv,
     FetchTypeInv, MarkFailureTypeInv, EndOfListingTypeInv,
     FindDeletedTypeInv, MarkDeletedTypeInv, BeginIngestTypeInv,
     UpsertSourceTypeInv, PutTypeInv, InsertVersionTypeInv,
     EmbedBatchTypeInv, IndexFtsTypeInv, CommitItemsTypeInv,
     MarkSuccessTypeInv, EndJobTypeInv, DieTypeInv
     DEF Run
<1>4. ASSUME NEW w \in Workers, Disturb(w) PROVE TypeInv'
  BY <1>4, FetchFailsTypeInv, RaiseTypeInv, DieTypeInv, RestartTypeInv
     DEF Disturb
<1>5. CASE UNCHANGED vars
  BY <1>5 DEF vars, TypeInv, TypeOK, Shape, Active
<1> QED BY <1>1, <1>2, <1>3, <1>4, <1>5 DEF Next

(* Every variable keeps its type in every behaviour, whatever the source   *)
(* content, the order of the workers and the failures.                     *)
THEOREM TypeCorrect == Spec => []TypeOK
<1>1. Init => TypeInv
  BY InitTypeInv
<1>2. TypeInv /\ [Next]_vars => TypeInv'
  BY NextTypeInv
<1>3. TypeInv => TypeOK
  BY DEF TypeInv
<1> QED BY <1>1, <1>2, <1>3, PTL DEF Spec
-----------------------------------------------------------------------------
(* Committed rows are never taken away                                     *)

Grows == ver \subseteq ver' /\ vec \subseteq vec' /\ fts \subseteq fts'

LEMMA IndexedStable ==
  ASSUME Grows, NEW key, Indexed(key) PROVE Indexed(key)'
BY DEF Grows, Indexed, ChunksOf

LEMMA RowStable ==
  ASSUME Grows, catalog' = catalog, NEW r \in Refs, NEW st, RowSafe(r, st)
  PROVE  RowSafe(r, st)'
BY IndexedStable DEF RowSafe

(* A step of another worker does not disturb what a worker carries.        *)
LEMMA OtherWorkers ==
  ASSUME Grows, catalog' = catalog, NEW x \in Workers, WorkerInv(x),
         tx'[x] = tx[x], run'[x] = run[x], pc'[x] = pc[x]
  PROVE  WorkerInv(x)'
<1>1. \A r \in Refs : RowSafe(r, tx[x].state[r])'
  BY RowStable DEF WorkerInv
<1>2. \A key : HasVersion(x, key) => HasVersion(x, key)'
  BY DEF HasVersion, VerSeen, Grows
<1>3. \A key : IndexedSeen(x, key) => IndexedSeen(x, key)'
  BY <1>2 DEF IndexedSeen, VecSeen, FtsSeen, ChunksOf, Grows
<1>4. Progress(x)'
  BY <1>2, <1>3 DEF WorkerInv, Progress, Key, CurKey, Item, More
<1>5. pc[x] = "mark" =>
        \A i \in 1 .. Len(run[x].items) : Indexed(Key(run[x].items[i]))'
  BY IndexedStable DEF WorkerInv, Key
<1> QED BY <1>1, <1>4, <1>5 DEF WorkerInv, Fresh, Key

(* So it is enough to look at the worker that moves.                       *)
LEMMA OneWorkerMoves ==
  ASSUME SkipInv, Grows, catalog' = catalog, NEW w \in Workers,
         \A x \in Workers \ {w} :
           tx'[x] = tx[x] /\ run'[x] = run[x] /\ pc'[x] = pc[x],
         \A r \in Refs : RowSafe(r, state[r])',
         WorkerInv(w)'
  PROVE  SkipInv'
<1>1. \A x \in Workers \ {w} : WorkerInv(x)'
  BY OtherWorkers DEF SkipInv
<1> QED BY <1>1 DEF SkipInv

(* The same when no table changes                                          *)
LEMMA NoTableChanges ==
  ASSUME SkipInv, UNCHANGED <<catalog, tables>>, NEW w \in Workers,
         \A x \in Workers \ {w} :
           tx'[x] = tx[x] /\ run'[x] = run[x] /\ pc'[x] = pc[x],
         WorkerInv(w)'
  PROVE  SkipInv'
<1>1. Grows
  BY DEF Grows
<1>2. \A r \in Refs : RowSafe(r, state[r])'
  BY <1>1, RowStable DEF SkipInv
<1> QED BY <1>1, <1>2, OneWorkerMoves

(* A worker with a fresh set of locals                                     *)
LEMMA NothingCarried ==
  ASSUME NEW w \in Workers, NEW types, run'[w] = NewRun(types),
         \A r \in Refs : RowSafe(r, tx[w].state[r])',
         pc'[w] \in {"idle", "selected", "sync", "dead"}
  PROVE  WorkerInv(w)'
<1>1. /\ run'[w].descs = {} /\ run'[w].items = <<>> /\ run'[w].next = 1
  BY DEF NewRun
<1>2. Progress(w)'
  BY <1>1 DEF Progress, Ingesting
<1> QED BY <1>1, <1>2 DEF WorkerInv

(* A worker that keeps its items and writes no source_sync_state row       *)
LEMMA ItemsCarried ==
  ASSUME NEW w \in Workers, WorkerInv(w), UNCHANGED <<catalog, tables>>,
         tx'[w].state = tx[w].state,
         run'[w].items = run[w].items, run'[w].descs \subseteq run[w].descs,
         pc'[w] \notin {"fetch", "mark"}, Progress(w)'
  PROVE  WorkerInv(w)'
<1>1. Grows
  BY DEF Grows
<1>2. \A r \in Refs : RowSafe(r, tx[w].state[r])'
  BY <1>1, RowStable DEF WorkerInv
<1> QED BY <1>2 DEF WorkerInv, Fresh

(* The rows pending after an upsert of source_sync_state                   *)
LEMMA UpsertedRows ==
  ASSUME TypeInv, NEW w \in Workers, WorkerInv(w), UNCHANGED <<catalog, tables>>,
         NEW q \in Refs, NEW st, UpsertState(w, q, st), RowSafe(q, st)
  PROVE  /\ \A r \in Refs : RowSafe(r, tx[w].state[r])'
         /\ \A x \in Workers \ {w} : tx'[x] = tx[x]
<1>1. Grows
  BY DEF Grows
<1>2. tx[w].state \in [Refs -> SyncStates] /\ tx[w] \in Transactions
  BY DEF TypeInv, TypeOK, Transactions
<1>3. tx'[w].state = [tx[w].state EXCEPT ![q] = st]
  BY <1>2 DEF UpsertState, TypeInv, TypeOK, Transactions
<1>4. \A r \in Refs : tx'[w].state[r] = IF r = q THEN st ELSE tx[w].state[r]
  BY <1>2, <1>3
<1>5. \A r \in Refs : \A row : RowSafe(r, row) => RowSafe(r, row)'
  BY <1>1, RowStable
<1>6. ASSUME NEW r \in Refs PROVE RowSafe(r, tx[w].state[r])'
  <2>1. \A row : row = tx'[w].state[r] /\ RowSafe(r, row)' =>
                   RowSafe(r, tx[w].state[r])'
    BY DEF RowSafe
  <2>2. CASE r = q
    BY <1>4, <1>5, <2>1, <2>2
  <2>3. CASE r # q
    BY <1>4, <1>5, <2>1, <2>3 DEF WorkerInv
  <2> QED BY <2>2, <2>3
<1> QED BY <1>6 DEF UpsertState, TypeInv, TypeOK

-----------------------------------------------------------------------------
LEMMA SkipInit == ASSUME Init PROVE SkipInv
<1>1. \A r \in Refs : catalog[r].stamp > 0 /\ RowSafe(r, state[r])
  BY DEF Init, NoState, RowSafe
<1>2. ASSUME NEW w \in Workers PROVE WorkerInv(w)
  <2>1. \A r \in Refs : RowSafe(r, tx[w].state[r])
    BY DEF Init, EmptyTx, Unwritten, RowSafe
  <2>2. run[w].descs = {} /\ run[w].items = <<>> /\ run[w].next = 1
    BY DEF Init, NewRun
  <2>3. pc[w] = "idle"
    BY DEF Init
  <2> QED BY <2>1, <2>2, <2>3 DEF WorkerInv, Progress, Ingesting
<1> QED BY <1>1, <1>2 DEF SkipInv

LEMMA ChangeCatalogSkip ==
  ASSUME TypeInv, SkipInv, NEW r \in Refs, ChangeCatalog(r) PROVE SkipInv'
<1>1. /\ \A q \in Refs : catalog[q].stamp \in Nat
      /\ catalog'[r].stamp = catalog[r].stamp + 1
      /\ \A q \in Refs \ {r} : catalog'[q] = catalog[q]
  BY DEF ChangeCatalog, TypeInv, TypeOK
<1>2. UNCHANGED <<ver, vec, fts, state, tx, run, pc>>
  BY DEF ChangeCatalog
<1>3. ASSUME NEW q \in Refs, NEW st \in SyncStates, RowSafe(q, st)
      PROVE  RowSafe(q, st)'
  <2>1. st.stamp \in Nat
    BY DEF SyncStates
  <2>2. CASE q = r
    BY <1>1, <1>3, <2>1, <2>2 DEF RowSafe
  <2>3. CASE q # r
    BY <1>1, <1>2, <1>3, <2>3 DEF RowSafe, Indexed, ChunksOf
  <2> QED BY <2>2, <2>3
<1>4. ASSUME NEW item \in Items, Fresh(item) PROVE Fresh(item)'
  BY <1>1, <1>4 DEF Fresh, Items
<1>5. ASSUME NEW w \in Workers PROVE WorkerInv(w)'
  <2>1. WorkerInv(w) /\ run[w] \in Runs /\ tx[w] \in Transactions
    BY DEF SkipInv, TypeInv, TypeOK
  <2>2. \A q \in Refs : RowSafe(q, tx[w].state[q])'
    BY <1>2, <1>3, <2>1 DEF WorkerInv, Transactions
  <2>3. \A d \in Descriptors :
          d.stamp <= catalog[d.ref].stamp => d.stamp <= catalog'[d.ref].stamp
    BY <1>1 DEF Descriptors
  <2>4. \A i \in 1 .. Len(run[w].items) : Fresh(run[w].items[i])'
    BY <1>2, <1>4, <2>1 DEF WorkerInv, Runs
  <2>5. pc[w] = "fetch" => run[w].cur \in Descriptors
    BY DEF TypeInv, Shape
  <2>6. Progress(w)'
    BY <1>2, <2>1 DEF WorkerInv, Progress, More, Item, Key, CurKey,
                      IndexedSeen, HasVersion, VerSeen, VecSeen, FtsSeen, ChunksOf
  <2> QED BY <1>2, <2>1, <2>2, <2>3, <2>4, <2>5, <2>6
          DEF WorkerInv, Runs, Indexed, Key, ChunksOf
<1>6. \A q \in Refs : catalog'[q].stamp > 0 /\ RowSafe(q, state[q])'
  BY <1>1, <1>2, <1>3 DEF SkipInv, TypeInv, TypeOK
<1> QED BY <1>5, <1>6 DEF SkipInv

-----------------------------------------------------------------------------
(* One lemma per step of a worker                                          *)

LEMMA SelectSkip ==
  ASSUME TypeInv, SkipInv, NEW w \in Workers, NEW j \in Jobs, SelectJob(w, j)
  PROVE  SkipInv'
<1>1. /\ UNCHANGED <<catalog, tables, tx, run>>
      /\ pc'[w] = "selected" /\ \A x \in Workers \ {w} : pc'[x] = pc[x]
  BY DEF SelectJob, Goto, TypeInv, TypeOK
<1>2. Progress(w)'
  BY <1>1 DEF Progress, Ingesting
<1>3. WorkerInv(w)'
  BY <1>1, <1>2, ItemsCarried DEF SkipInv
<1> QED BY <1>1, <1>3, NoTableChanges

LEMMA ClaimSkip ==
  ASSUME TypeInv, SkipInv, NEW w \in Workers, ClaimJob(w) PROVE SkipInv'
<1>1. /\ UNCHANGED <<catalog, tables, tx>>
      /\ pc'[w] = "sync" /\ run'[w] = NewRun(JobTypes[job[w]])
      /\ \A x \in Workers \ {w} : pc'[x] = pc[x] /\ run'[x] = run[x]
  BY DEF ClaimJob, Goto, TypeInv, TypeOK
<1>2. \A r \in Refs : RowSafe(r, tx[w].state[r])'
  BY <1>1 DEF SkipInv, WorkerInv, RowSafe, Indexed, ChunksOf
<1>3. WorkerInv(w)'
  BY <1>1, <1>2, NothingCarried
<1> QED BY <1>1, <1>3, NoTableChanges

LEMMA ListSkip ==
  ASSUME TypeInv, SkipInv, NEW w \in Workers, ListDescriptors(w) PROVE SkipInv'
<1>1. PICK refs \in SUBSET ListingOf(Head(run[w].types)) :
        /\ run'[w].descs = {Descriptor(r) : r \in refs}
        /\ run'[w].items = run[w].items /\ run'[w].next = run[w].next
        /\ \A x \in Workers \ {w} : run'[x] = run[x]
  <2> DEFINE t == Head(run[w].types)
  <2>1. PICK refs \in SUBSET ListingOf(t), whole \in BOOLEAN :
          run' = [run EXCEPT ![w].types = Tail(@),
                             ![w].descs = {Descriptor(r) : r \in refs},
                             ![w].seen = {r \in @ : TypeOf[r] # t} \cup refs,
                             ![w].complete = IF whole THEN @ \cup {t} ELSE @ \ {t}]
    BY DEF ListDescriptors
  <2>2. run \in [Workers -> Runs] /\ run[w] \in Runs
    BY DEF TypeInv, TypeOK
  <2> HIDE DEF t
  <2> QED BY <2>1, <2>2 DEF Runs, t
<1>2. UNCHANGED <<catalog, tables, tx, pc>> /\ pc[w] = "sync"
  BY DEF ListDescriptors
<1>3. \A d \in run'[w].descs : d.stamp <= catalog[d.ref].stamp
  <2>1. \A r \in refs : /\ Descriptor(r).ref = r /\ catalog[r].stamp \in Nat
                        /\ Descriptor(r).stamp = catalog[r].stamp
    BY DEF Descriptor, ListingOf, TypeInv, TypeOK
  <2> QED BY <1>1, <2>1
<1>4. Progress(w)'
  BY <1>1, <1>2 DEF SkipInv, WorkerInv, Progress, Ingesting
<1>5. \A r \in Refs : RowSafe(r, tx[w].state[r])'
  BY <1>2 DEF SkipInv, WorkerInv, RowSafe, Indexed, ChunksOf
<1>6. WorkerInv(w)'
  BY <1>1, <1>2, <1>3, <1>4, <1>5 DEF SkipInv, WorkerInv, Fresh
<1> QED BY <1>1, <1>2, <1>6, NoTableChanges

LEMMA DecideSkip ==
  ASSUME TypeInv, SkipInv, NEW w \in Workers, NEW d \in run[w].descs,
         Decide(w, d)
  PROVE  SkipInv'
<1>1. /\ UNCHANGED <<catalog, tables, tx>> /\ pc[w] = "sync"
      /\ run'[w].descs \subseteq run[w].descs
      /\ run'[w].items = run[w].items /\ run'[w].next = run[w].next
      /\ \/ pc'[w] = "fetch" /\ run'[w].cur = d
         \/ pc'[w] = "sync"
      /\ \A x \in Workers \ {w} : pc'[x] = pc[x] /\ run'[x] = run[x]
  BY DEF Decide, Goto, TypeInv, TypeOK, Runs
<1>2. Progress(w)'
  BY <1>1 DEF SkipInv, WorkerInv, Progress, Ingesting
<1>3. \A r \in Refs : RowSafe(r, tx[w].state[r])'
  BY <1>1 DEF SkipInv, WorkerInv, RowSafe, Indexed, ChunksOf
<1>4. WorkerInv(w)'
  BY <1>1, <1>2, <1>3 DEF SkipInv, WorkerInv, Fresh
<1> QED BY <1>1, <1>4, NoTableChanges

LEMMA FetchSkip ==
  ASSUME TypeInv, SkipInv, NEW w \in Workers, FetchItem(w) PROVE SkipInv'
<1> DEFINE d == run[w].cur
           item == [ref |-> d.ref, stamp |-> d.stamp, hint |-> d.hint,
                    content |-> catalog[d.ref].content]
<1>1. run[w] \in Runs /\ run[w].items \in Seq(Items) /\ d \in Descriptors
  BY DEF TypeInv, TypeOK, Shape, FetchItem, Runs
<1>2. /\ UNCHANGED <<catalog, tables, tx>> /\ pc[w] = "fetch" /\ pc'[w] = "sync"
      /\ run'[w].descs = run[w].descs /\ run'[w].next = run[w].next
      /\ run'[w].items = Append(run[w].items, item)
      /\ \A x \in Workers \ {w} : pc'[x] = pc[x] /\ run'[x] = run[x]
  BY <1>1 DEF FetchItem, Goto, TypeInv, TypeOK, Runs
<1>3. Fresh(item)
  BY <1>2 DEF SkipInv, WorkerInv, Fresh
<1>4. item \in Items
  BY <1>1 DEF FetchItem, Live, TypeInv, TypeOK, Descriptors, Items
<1> HIDE DEF item, d
<1>5. \A i \in 1 .. Len(run'[w].items) : Fresh(run'[w].items[i])
  BY <1>1, <1>2, <1>3, <1>4 DEF SkipInv, WorkerInv
<1>6. Progress(w)'
  BY <1>2 DEF SkipInv, WorkerInv, Progress, Ingesting
<1>7. \A r \in Refs : RowSafe(r, tx[w].state[r])'
  BY <1>2 DEF SkipInv, WorkerInv, RowSafe, Indexed, ChunksOf
<1>8. WorkerInv(w)'
  BY <1>2, <1>5, <1>6, <1>7 DEF SkipInv, WorkerInv, Fresh
<1> QED BY <1>2, <1>8, NoTableChanges

LEMMA FetchFailsSkip ==
  ASSUME TypeInv, SkipInv, NEW w \in Workers, FetchFails(w) PROVE SkipInv'
<1>1. /\ UNCHANGED <<catalog, tables, tx, run>> /\ pc[w] = "fetch"
      /\ pc'[w] = "failure" /\ \A x \in Workers \ {w} : pc'[x] = pc[x]
  BY DEF FetchFails, Goto, TypeInv, TypeOK
<1>2. Progress(w)'
  BY <1>1 DEF SkipInv, WorkerInv, Progress, Ingesting
<1>3. WorkerInv(w)'
  BY <1>1, <1>2, ItemsCarried DEF SkipInv
<1> QED BY <1>1, <1>3, NoTableChanges

LEMMA MarkFailureSkip ==
  ASSUME TypeInv, SkipInv, NEW w \in Workers, MarkFailure(w) PROVE SkipInv'
<1> DEFINE st == [status |-> "failed", stamp |-> run[w].cur.stamp,
                  hint |-> run[w].cur.hint]
<1>1. /\ UNCHANGED <<catalog, tables>> /\ pc[w] = "failure" /\ pc'[w] = "sync"
      /\ run'[w].descs = run[w].descs /\ run'[w].next = run[w].next
      /\ run'[w].items = run[w].items
      /\ \A x \in Workers \ {w} : pc'[x] = pc[x] /\ run'[x] = run[x]
  BY DEF MarkFailure, Goto, TypeInv, TypeOK, Runs
<1>2. run[w].cur.ref \in Refs
  BY <1>1 DEF TypeInv, Shape, Descriptors
<1>3. RowSafe(run[w].cur.ref, st) /\ UpsertState(w, run[w].cur.ref, st)
  BY DEF RowSafe, MarkFailure
<1> HIDE DEF st
<1>4. /\ \A r \in Refs : RowSafe(r, tx[w].state[r])'
      /\ \A x \in Workers \ {w} : tx'[x] = tx[x]
  BY <1>1, <1>2, <1>3, UpsertedRows DEF SkipInv
<1>5. Progress(w)'
  BY <1>1 DEF SkipInv, WorkerInv, Progress, Ingesting
<1>6. WorkerInv(w)'
  BY <1>1, <1>4, <1>5 DEF SkipInv, WorkerInv, Fresh
<1> QED BY <1>1, <1>4, <1>6, NoTableChanges

LEMMA RaiseSkip ==
  ASSUME TypeInv, SkipInv, NEW w \in Workers,
         SourceRaises(w) \/ PutFails(w) \/ EmbedFails(w)
  PROVE  SkipInv'
<1>1. /\ UNCHANGED <<catalog, tables, tx, run>> /\ pc'[w] = "fail"
      /\ \A x \in Workers \ {w} : pc'[x] = pc[x]
  BY DEF SourceRaises, PutFails, EmbedFails, Goto, TypeInv, TypeOK
<1>2. Progress(w)'
  BY <1>1 DEF Progress, Ingesting
<1>3. WorkerInv(w)'
  BY <1>1, <1>2, ItemsCarried DEF SkipInv
<1> QED BY <1>1, <1>3, NoTableChanges

LEMMA BookkeepingSkip ==
  ASSUME TypeInv, SkipInv, NEW w \in Workers,
         EndOfListing(w) \/ FindDeleted(w) \/ BeginIngest(w)
  PROVE  SkipInv'
<1>1. /\ UNCHANGED <<catalog, tables, tx>>
      /\ pc[w] \in {"sync", "tombstone"} /\ pc'[w] \in {"tombstone", "ingest"}
      /\ run'[w].descs = run[w].descs /\ run'[w].next = run[w].next
      /\ run'[w].items = run[w].items
      /\ \A x \in Workers \ {w} : pc'[x] = pc[x] /\ run'[x] = run[x]
  BY DEF EndOfListing, FindDeleted, BeginIngest, Goto, TypeInv, TypeOK, Runs
<1>2. run[w].next = 1
  BY <1>1 DEF SkipInv, WorkerInv, Progress
<1>3. Progress(w)'
  BY <1>1, <1>2 DEF Progress, Ingesting
<1>4. WorkerInv(w)'
  BY <1>1, <1>3, ItemsCarried DEF SkipInv
<1> QED BY <1>1, <1>4, NoTableChanges

LEMMA MarkDeletedSkip ==
  ASSUME TypeInv, SkipInv, NEW w \in Workers, NEW r \in run[w].dead,
         MarkDeleted(w, r)
  PROVE  SkipInv'
<1> DEFINE st == [status |-> "deleted", stamp |-> 0, hint |-> NoHint]
<1>1. /\ UNCHANGED <<catalog, tables, pc>> /\ pc[w] = "tombstone"
      /\ run'[w].descs = run[w].descs /\ run'[w].next = run[w].next
      /\ run'[w].items = run[w].items
      /\ \A x \in Workers \ {w} : run'[x] = run[x]
  BY DEF MarkDeleted, TypeInv, TypeOK, Runs
<1>2. r \in Refs
  BY DEF TypeInv, TypeOK, Runs
<1>3. RowSafe(r, st) /\ UpsertState(w, r, st)
  BY DEF RowSafe, MarkDeleted
<1> HIDE DEF st
<1>4. /\ \A q \in Refs : RowSafe(q, tx[w].state[q])'
      /\ \A x \in Workers \ {w} : tx'[x] = tx[x]
  BY <1>1, <1>2, <1>3, UpsertedRows DEF SkipInv
<1>5. Progress(w)'
  BY <1>1 DEF SkipInv, WorkerInv, Progress, Ingesting
<1>6. WorkerInv(w)'
  BY <1>1, <1>4, <1>5 DEF SkipInv, WorkerInv, Fresh
<1> QED BY <1>1, <1>4, <1>6, NoTableChanges

-----------------------------------------------------------------------------
(* ingest_source_items                                                     *)

LEMMA SeenStable ==
  ASSUME NEW w \in Workers, VerSeen(w) \subseteq VerSeen(w)',
         VecSeen(w) \subseteq VecSeen(w)', FtsSeen(w) \subseteq FtsSeen(w)',
         NEW key
  PROVE  /\ HasVersion(w, key) => HasVersion(w, key)'
         /\ IndexedSeen(w, key) => IndexedSeen(w, key)'
<1>1. HasVersion(w, key) => HasVersion(w, key)'
  BY DEF HasVersion
<1> QED BY <1>1 DEF IndexedSeen, ChunksOf

(* A step within an item: the cursor stays, the seen rows only grow.       *)
LEMMA SkipItemStep ==
  ASSUME SkipInv, NEW w \in Workers, UNCHANGED <<catalog, tables>>,
         pc[w] \in Ingesting \cup {"ingest"}, pc'[w] \in Ingesting,
         run'[w].items = run[w].items, run'[w].next = run[w].next,
         run'[w].descs = run[w].descs,
         tx'[w].state = tx[w].state,
         VerSeen(w) \subseteq VerSeen(w)',
         VecSeen(w) \subseteq VecSeen(w)', FtsSeen(w) \subseteq FtsSeen(w)',
         More(w), run'[w].cur = Item(w),
         pc'[w] \in {"artifact", "embed"} => HasVersion(w, Key(Item(w)))',
         \A x \in Workers \ {w} :
           tx'[x] = tx[x] /\ run'[x] = run[x] /\ pc'[x] = pc[x]
  PROVE  SkipInv'
<1>1. WorkerInv(w) /\ Progress(w)
  BY DEF SkipInv, WorkerInv
<1>2. \A key : IndexedSeen(w, key) => IndexedSeen(w, key)'
  BY SeenStable
<1>3. \A i \in 1 .. Len(run[w].items) :
        i < run[w].next => IndexedSeen(w, Key(run[w].items[i]))
  BY <1>1 DEF Progress
<1>4. More(w)' /\ Item(w)' = Item(w)
  BY DEF More, Item
<1>5. Key(Item(w))' = Key(Item(w)) /\ CurKey(w)' = Key(Item(w))
  BY <1>4 DEF Key, CurKey
<1>6. Progress(w)'
  <2>1. pc'[w] \notin {"sync", "fetch", "failure", "tombstone"}
    BY DEF Ingesting
  <2>2. \A i \in 1 .. Len(run'[w].items) :
          i < run'[w].next => IndexedSeen(w, Key(run[w].items[i]))'
    BY <1>2, <1>3 DEF Key
  <2>3. pc'[w] \in {"artifact", "embed"} => HasVersion(w, CurKey(w))'
    BY <1>5 DEF HasVersion
  <2> QED BY <1>4, <2>1, <2>2, <2>3 DEF Progress
<1>7. WorkerInv(w)'
  BY <1>1, <1>6, ItemsCarried DEF Ingesting
<1> QED BY <1>7, NoTableChanges

LEMMA UpsertSourceSkip ==
  ASSUME TypeInv, SkipInv, NEW w \in Workers, UpsertSource(w) PROVE SkipInv'
<1>1. /\ UNCHANGED <<catalog, tables, tx>> /\ pc[w] = "ingest" /\ More(w)
      /\ pc'[w] = IF HasVersion(w, Key(Item(w))) THEN "embed" ELSE "putRaw"
      /\ run'[w].items = run[w].items /\ run'[w].next = run[w].next
      /\ run'[w].descs = run[w].descs /\ run'[w].cur = Item(w)
      /\ \A x \in Workers \ {w} : run'[x] = run[x] /\ pc'[x] = pc[x]
  BY DEF UpsertSource, Goto, TypeInv, TypeOK, Runs
<1>2. /\ VerSeen(w)' = VerSeen(w) /\ VecSeen(w)' = VecSeen(w)
      /\ FtsSeen(w)' = FtsSeen(w)
  BY <1>1 DEF VerSeen, VecSeen, FtsSeen
<1>3. Item(w)' = Item(w)
  BY <1>1 DEF Item
<1>4. pc'[w] \in {"artifact", "embed"} => HasVersion(w, Key(Item(w)))'
  BY <1>1, <1>2, <1>3 DEF HasVersion, Key
<1>5. pc[w] \in Ingesting \cup {"ingest"} /\ pc'[w] \in Ingesting
  BY <1>1 DEF Ingesting
<1> QED BY <1>1, <1>2, <1>4, <1>5, SkipItemStep

LEMMA PutSkip ==
  ASSUME TypeInv, SkipInv, NEW w \in Workers,
         PutRaw(w) \/ PutMd(w) \/ PutArtifact(w)
  PROVE  SkipInv'
<1>1. /\ UNCHANGED <<catalog, tables, tx, run>>
      /\ \/ pc[w] = "putRaw" /\ pc'[w] = "putMd"
         \/ pc[w] = "putMd" /\ pc'[w] = "insert"
         \/ pc[w] = "artifact" /\ pc'[w] = "embed"
      /\ \A x \in Workers \ {w} : pc'[x] = pc[x]
  BY DEF PutRaw, PutMd, PutBlob, PutArtifact, Goto, TypeInv, TypeOK
<1>2. /\ VerSeen(w)' = VerSeen(w) /\ VecSeen(w)' = VecSeen(w)
      /\ FtsSeen(w)' = FtsSeen(w)
  BY <1>1 DEF VerSeen, VecSeen, FtsSeen
<1>3. /\ More(w) /\ run[w].cur = Item(w) /\ Item(w)' = Item(w)
      /\ pc[w] = "artifact" => HasVersion(w, CurKey(w))
  BY <1>1 DEF SkipInv, WorkerInv, Progress, Ingesting, Item
<1>4. pc'[w] \in {"artifact", "embed"} => HasVersion(w, Key(Item(w)))'
  BY <1>1, <1>2, <1>3 DEF HasVersion, CurKey, Key
<1>5. pc[w] \in Ingesting /\ pc'[w] \in Ingesting
  BY <1>1 DEF Ingesting
<1> QED BY <1>1, <1>2, <1>3, <1>4, <1>5, SkipItemStep

LEMMA InsertVersionSkip ==
  ASSUME TypeInv, SkipInv, NEW w \in Workers, InsertVersion(w) PROVE SkipInv'
<1>1. /\ UNCHANGED <<catalog, tables, run>> /\ pc[w] = "insert"
      /\ pc'[w] \in {"embed", "artifact"}
      /\ \A x \in Workers \ {w} : pc'[x] = pc[x] /\ tx'[x] = tx[x]
      /\ tx'[w].state = tx[w].state
      /\ tx'[w].vec = tx[w].vec /\ tx'[w].fts = tx[w].fts
      /\ tx[w].ver \subseteq tx'[w].ver
  BY DEF InsertVersion, Goto, TypeInv, TypeOK, Transactions
<1>2. HasVersion(w, CurKey(w))'
  <2>1. CASE HasVersion(w, CurKey(w))
    BY <1>1, <2>1 DEF HasVersion, VerSeen, CurKey, Key
  <2>2. CASE ~HasVersion(w, CurKey(w))
    <3>1. [key |-> CurKey(w), vid |-> CurVid(w)] \in tx'[w].ver
      BY <2>2 DEF InsertVersion, TypeInv, TypeOK, Transactions
    <3> QED BY <1>1, <3>1 DEF HasVersion, VerSeen, CurKey, Key
  <2> QED BY <2>1, <2>2
<1>3. /\ VerSeen(w) \subseteq VerSeen(w)' /\ VecSeen(w)' = VecSeen(w)
      /\ FtsSeen(w)' = FtsSeen(w)
  BY <1>1 DEF VerSeen, VecSeen, FtsSeen
<1>4. More(w) /\ run[w].cur = Item(w) /\ Item(w)' = Item(w)
  BY <1>1 DEF SkipInv, WorkerInv, Progress, Ingesting, Item
<1>5. pc'[w] \in {"artifact", "embed"} => HasVersion(w, Key(Item(w)))'
  BY <1>1, <1>2, <1>4 DEF HasVersion, CurKey, Key
<1>6. pc[w] \in Ingesting /\ pc'[w] \in Ingesting
  BY <1>1 DEF Ingesting
<1> QED BY <1>1, <1>3, <1>4, <1>5, <1>6, SkipItemStep

LEMMA EmbedBatchSkip ==
  ASSUME TypeInv, SkipInv, NEW w \in Workers, EmbedBatch(w) PROVE SkipInv'
<1>1. /\ UNCHANGED <<catalog, tables, run, pc>> /\ pc[w] = "embed"
      /\ \A x \in Workers \ {w} : tx'[x] = tx[x]
      /\ tx'[w].state = tx[w].state
      /\ tx'[w].ver = tx[w].ver /\ tx'[w].fts = tx[w].fts
      /\ tx[w].vec \subseteq tx'[w].vec
  BY DEF EmbedBatch, TypeInv, TypeOK, Transactions
<1>2. /\ VerSeen(w)' = VerSeen(w) /\ VecSeen(w) \subseteq VecSeen(w)'
      /\ FtsSeen(w)' = FtsSeen(w)
  BY <1>1 DEF VerSeen, VecSeen, FtsSeen
<1>3. /\ More(w) /\ run[w].cur = Item(w) /\ Item(w)' = Item(w)
      /\ HasVersion(w, CurKey(w))
  BY <1>1 DEF SkipInv, WorkerInv, Progress, Ingesting, Item
<1>4. HasVersion(w, Key(Item(w)))'
  BY <1>2, <1>3 DEF HasVersion, CurKey, Key
<1>5. pc[w] \in Ingesting /\ pc'[w] \in Ingesting
  BY <1>1 DEF Ingesting
<1> QED BY <1>1, <1>2, <1>3, <1>4, <1>5, SkipItemStep

LEMMA IndexFtsSkip ==
  ASSUME TypeInv, SkipInv, NEW w \in Workers, IndexFts(w) PROVE SkipInv'
<1>1. run[w] \in Runs /\ tx[w] \in Transactions
  BY DEF TypeInv, TypeOK
<1>2. /\ UNCHANGED <<catalog, tables>> /\ pc[w] = "embed" /\ pc'[w] = "ingest"
      /\ MissingVectors(w) = {}
      /\ run'[w].items = run[w].items /\ run'[w].descs = run[w].descs
      /\ run'[w].next = run[w].next + 1
      /\ tx'[w].state = tx[w].state /\ tx'[w].ver = tx[w].ver
      /\ tx'[w].vec = tx[w].vec
      /\ tx'[w].fts = tx[w].fts \cup ChunksOf(CurKey(w))
      /\ \A x \in Workers \ {w} :
           tx'[x] = tx[x] /\ run'[x] = run[x] /\ pc'[x] = pc[x]
  BY <1>1 DEF IndexFts, Goto, TypeInv, TypeOK, Transactions, Runs
<1>3. WorkerInv(w) /\ Progress(w)
  BY DEF SkipInv, WorkerInv
<1>4. More(w) /\ run[w].cur = Item(w) /\ HasVersion(w, CurKey(w))
  BY <1>2, <1>3 DEF Progress, Ingesting
<1>5. /\ VerSeen(w)' = VerSeen(w) /\ VecSeen(w)' = VecSeen(w)
      /\ FtsSeen(w)' = FtsSeen(w) \cup ChunksOf(CurKey(w))
  BY <1>2 DEF VerSeen, VecSeen, FtsSeen
<1>6. \A key : IndexedSeen(w, key) => IndexedSeen(w, key)'
  BY <1>5, SeenStable
<1>7. \A key : key = CurKey(w) => IndexedSeen(w, key)'
  <2>1. ChunksOf(CurKey(w)) \subseteq VecSeen(w)
    BY <1>2 DEF MissingVectors
  <2>2. SUFFICES ASSUME NEW key, key = CurKey(w) PROVE IndexedSeen(w, key)'
    OBVIOUS
  <2>3. HasVersion(w, key)'
    BY <1>4, <1>5, <2>2 DEF HasVersion
  <2>4. ChunksOf(key) \subseteq VecSeen(w)' /\ ChunksOf(key) \subseteq FtsSeen(w)'
    BY <1>5, <2>1, <2>2
  <2> QED BY <2>3, <2>4 DEF IndexedSeen, ChunksOf
<1>8. \A i \in 1 .. Len(run[w].items) :
        i < run[w].next + 1 => IndexedSeen(w, Key(run[w].items[i]))'
  <2>1. SUFFICES ASSUME NEW i \in 1 .. Len(run[w].items), i < run[w].next + 1,
                        NEW key, key = Key(run[w].items[i])
                 PROVE  IndexedSeen(w, key)'
    BY <1>2 DEF Key
  <2>2. run[w].next \in Nat /\ i \in Nat
    BY <1>1 DEF Runs
  <2>3. CASE i < run[w].next
    <3>1. IndexedSeen(w, key)
      BY <1>2, <1>3, <2>1, <2>3 DEF Progress, Ingesting
    <3> QED BY <1>6, <3>1
  <2>4. CASE i = run[w].next
    <3>1. key = CurKey(w)
      BY <1>4, <2>1, <2>4 DEF Item, CurKey
    <3> QED BY <1>7, <3>1
  <2> QED BY <2>1, <2>2, <2>3, <2>4
<1>9. Progress(w)'
  BY <1>2, <1>8 DEF Progress, Ingesting, Key
<1>10. WorkerInv(w)'
  BY <1>2, <1>3, <1>9, ItemsCarried
<1> QED BY <1>2, <1>10, NoTableChanges

-----------------------------------------------------------------------------
(* Commits                                                                 *)

LEMMA CommitSkip ==
  ASSUME TypeInv, SkipInv, NEW w \in Workers, Commit(w), catalog' = catalog
  PROVE  /\ Grows
         /\ \A r \in Refs : RowSafe(r, state[r])'
         /\ \A key : IndexedSeen(w, key) => Indexed(key)'
<1>1. Grows
  BY DEF Commit, VerSeen, VecSeen, FtsSeen, Grows
<1>2. \A r \in Refs : \A row : RowSafe(r, row) => RowSafe(r, row)'
  BY <1>1, RowStable
<1>3. ASSUME NEW r \in Refs PROVE RowSafe(r, state[r])'
  <2>1. RowSafe(r, state[r]) /\ RowSafe(r, tx[w].state[r])
    BY DEF SkipInv, WorkerInv
  <2>2. state'[r] = state[r] \/ state'[r] = tx[w].state[r]
    BY DEF Commit, StateAfter
  <2>3. \A row : row = state'[r] /\ RowSafe(r, row)' => RowSafe(r, state[r])'
    BY DEF RowSafe
  <2> QED BY <1>2, <2>1, <2>2, <2>3
<1>4. ASSUME NEW key, IndexedSeen(w, key) PROVE Indexed(key)'
  BY <1>4 DEF Commit, IndexedSeen, HasVersion, Indexed, ChunksOf
<1> QED BY <1>1, <1>3, <1>4

LEMMA EndTxSkip ==
  ASSUME TypeInv, NEW w \in Workers, EndTx(w)
  PROVE  /\ \A r \in Refs : RowSafe(r, tx[w].state[r])'
         /\ \A x \in Workers \ {w} : tx'[x] = tx[x]
<1>1. tx'[w] = EmptyTx /\ \A x \in Workers \ {w} : tx'[x] = tx[x]
  BY DEF EndTx, TypeInv, TypeOK
<1> QED BY <1>1 DEF EmptyTx, Unwritten, RowSafe

LEMMA CommitItemsSkip ==
  ASSUME TypeInv, SkipInv, NEW w \in Workers, CommitItems(w) PROVE SkipInv'
<1>1. /\ Commit(w) /\ EndTx(w) /\ catalog' = catalog
      /\ pc[w] = "ingest" /\ pc'[w] = "mark" /\ ~More(w)
      /\ run'[w].items = run[w].items /\ run'[w].descs = run[w].descs
      /\ \A x \in Workers \ {w} : run'[x] = run[x] /\ pc'[x] = pc[x]
  BY DEF CommitItems, Goto, TypeInv, TypeOK, Runs
<1>2. /\ Grows
      /\ \A r \in Refs : RowSafe(r, state[r])'
      /\ \A key : IndexedSeen(w, key) => Indexed(key)'
  BY <1>1, CommitSkip
<1>3. /\ \A r \in Refs : RowSafe(r, tx[w].state[r])'
      /\ \A x \in Workers \ {w} : tx'[x] = tx[x]
  BY <1>1, EndTxSkip
<1>4. WorkerInv(w) /\ Progress(w)
  BY DEF SkipInv, WorkerInv
<1>5. \A i \in 1 .. Len(run[w].items) : i < run[w].next
  BY <1>1 DEF More, TypeInv, TypeOK, Runs
<1>6. \A i \in 1 .. Len(run[w].items) : IndexedSeen(w, Key(run[w].items[i]))
  BY <1>1, <1>4, <1>5 DEF Progress
<1>7. \A i \in 1 .. Len(run'[w].items) : Indexed(Key(run[w].items[i]))'
  BY <1>1, <1>2, <1>6 DEF Key
<1>8. Progress(w)'
  BY <1>1 DEF Progress, Ingesting
<1>9. WorkerInv(w)'
  BY <1>1, <1>3, <1>4, <1>7, <1>8 DEF WorkerInv, Fresh
<1> QED BY <1>1, <1>2, <1>3, <1>9, OneWorkerMoves

LEMMA MarkSuccessSkip ==
  ASSUME TypeInv, SkipInv, NEW w \in Workers, MarkSuccess(w) PROVE SkipInv'
<1> DEFINE st == [status |-> "success", stamp |-> Item(w).stamp,
                  hint |-> Item(w).hint]
<1>1. /\ UNCHANGED <<catalog, tables, pc>> /\ pc[w] = "mark" /\ More(w)
      /\ run'[w].descs = run[w].descs /\ run'[w].items = run[w].items
      /\ \A x \in Workers \ {w} : run'[x] = run[x]
  BY DEF MarkSuccess, TypeInv, TypeOK, Runs
<1>2. Item(w) \in Items /\ Item(w).ref \in Refs
  BY <1>1, ItemType DEF TypeInv, Items
<1>3. Fresh(Item(w)) /\ Indexed(Key(Item(w)))
  <2>1. run[w].next \in 1 .. Len(run[w].items)
    BY <1>1 DEF TypeInv, TypeOK, Runs, More
  <2> QED BY <1>1, <2>1 DEF SkipInv, WorkerInv, Item
<1>4. RowSafe(Item(w).ref, st) /\ UpsertState(w, Item(w).ref, st)
  BY <1>3 DEF RowSafe, Fresh, Key, MarkSuccess
<1> HIDE DEF st
<1>5. /\ \A q \in Refs : RowSafe(q, tx[w].state[q])'
      /\ \A x \in Workers \ {w} : tx'[x] = tx[x]
  BY <1>1, <1>2, <1>4, UpsertedRows DEF SkipInv
<1>6. Progress(w)'
  BY <1>1 DEF Progress, Ingesting
<1>7. \A i \in 1 .. Len(run'[w].items) : Indexed(Key(run[w].items[i]))'
  BY <1>1 DEF SkipInv, WorkerInv, Indexed, Key, ChunksOf
<1>8. WorkerInv(w)'
  BY <1>1, <1>5, <1>6, <1>7 DEF SkipInv, WorkerInv, Fresh
<1> QED BY <1>1, <1>5, <1>8, NoTableChanges

LEMMA EndJobSkip ==
  ASSUME TypeInv, SkipInv, NEW w \in Workers, FinishJob(w) \/ FailJob(w)
  PROVE  SkipInv'
<1>1. /\ Commit(w) /\ EndTx(w) /\ catalog' = catalog
      /\ Leave(w, "idle")
  BY DEF FinishJob, FailJob, EndJob
<1>2. /\ run'[w] = NewRun(<<>>) /\ pc'[w] = "idle"
      /\ \A x \in Workers \ {w} : run'[x] = run[x] /\ pc'[x] = pc[x]
  BY <1>1 DEF Leave, Goto, TypeInv, TypeOK
<1>3. /\ \A r \in Refs : RowSafe(r, tx[w].state[r])'
      /\ \A x \in Workers \ {w} : tx'[x] = tx[x]
  BY <1>1, EndTxSkip
<1>4. WorkerInv(w)'
  BY <1>2, <1>3, NothingCarried
<1> QED BY <1>1, <1>2, <1>3, <1>4, CommitSkip, OneWorkerMoves

LEMMA DieSkip ==
  ASSUME TypeInv, SkipInv, NEW w \in Workers, Crash(w) \/ DeadlockAbort(w)
  PROVE  SkipInv'
<1>1. /\ UNCHANGED <<catalog, tables>> /\ EndTx(w) /\ Leave(w, "dead")
  BY DEF Crash, DeadlockAbort, Die
<1>2. /\ run'[w] = NewRun(<<>>) /\ pc'[w] = "dead"
      /\ \A x \in Workers \ {w} : run'[x] = run[x] /\ pc'[x] = pc[x]
  BY <1>1 DEF Leave, Goto, TypeInv, TypeOK
<1>3. /\ \A r \in Refs : RowSafe(r, tx[w].state[r])'
      /\ \A x \in Workers \ {w} : tx'[x] = tx[x]
  BY <1>1, EndTxSkip
<1>4. WorkerInv(w)'
  BY <1>2, <1>3, NothingCarried
<1> QED BY <1>1, <1>2, <1>3, <1>4, NoTableChanges

LEMMA RestartSkip ==
  ASSUME TypeInv, SkipInv, NEW w \in Workers, Restart(w) PROVE SkipInv'
<1>1. /\ UNCHANGED <<catalog, tables, tx, run>>
      /\ pc'[w] = "idle" /\ \A x \in Workers \ {w} : pc'[x] = pc[x]
  BY DEF Restart, Goto, TypeInv, TypeOK
<1>2. Progress(w)'
  BY <1>1 DEF Progress, Ingesting
<1>3. WorkerInv(w)'
  BY <1>1, <1>2, ItemsCarried DEF SkipInv
<1> QED BY <1>1, <1>3, NoTableChanges

LEMMA NobodyMoves ==
  ASSUME SkipInv, UNCHANGED <<catalog, tables, tx, run, pc>> PROVE SkipInv'
<1>1. Grows
  BY DEF Grows
<1>2. \A x \in Workers : WorkerInv(x)'
  BY <1>1, OtherWorkers DEF SkipInv
<1>3. \A r \in Refs : RowSafe(r, state[r])'
  BY <1>1, RowStable DEF SkipInv
<1> QED BY <1>2, <1>3 DEF SkipInv

LEMMA NextSkip == ASSUME TypeInv, SkipInv, [Next]_vars PROVE SkipInv'
<1>1. CASE \E r \in Refs : ChangeCatalog(r)
  BY <1>1, ChangeCatalogSkip
<1>2. CASE \E j \in Jobs : CreateJob(j)
  BY <1>2, NobodyMoves DEF CreateJob
<1>3. ASSUME NEW w \in Workers, Run(w) PROVE SkipInv'
  BY <1>3, SelectSkip, ClaimSkip, ListSkip, DecideSkip, FetchSkip,
     MarkFailureSkip, BookkeepingSkip, MarkDeletedSkip, UpsertSourceSkip,
     PutSkip, InsertVersionSkip, EmbedBatchSkip, IndexFtsSkip,
     CommitItemsSkip, MarkSuccessSkip, EndJobSkip, DieSkip
     DEF Run
<1>4. ASSUME NEW w \in Workers, Disturb(w) PROVE SkipInv'
  BY <1>4, FetchFailsSkip, RaiseSkip, DieSkip, RestartSkip DEF Disturb
<1>5. CASE UNCHANGED vars
  BY <1>5, NobodyMoves DEF vars
<1> QED BY <1>1, <1>2, <1>3, <1>4, <1>5 DEF Next

LEMMA SkipInvImpliesSkipIsSafe == ASSUME TypeInv, SkipInv PROVE SkipIsSafe
<1>1. SUFFICES ASSUME NEW r \in Refs, Live(r), state[r].status # "failed",
                      ~ShouldFetch(Descriptor(r), state[r])
               PROVE  Indexed(<<r, catalog[r].content>>)
  BY DEF SkipIsSafe
<1>2. /\ state[r] \in SyncStates /\ catalog[r].stamp \in Nat
      /\ catalog[r].stamp > 0 /\ RowSafe(r, state[r])
  BY DEF TypeInv, TypeOK, SkipInv
<1>3. state[r].status # "none" /\ catalog[r].stamp <= state[r].stamp
  BY <1>1, <1>2 DEF ShouldFetch, Descriptor, SyncStates
<1>4. state[r].status = "success"
  BY <1>1, <1>2, <1>3 DEF RowSafe, SyncStates
<1>5. state[r].stamp = catalog[r].stamp
  BY <1>2, <1>3, <1>4 DEF RowSafe, SyncStates
<1> QED BY <1>2, <1>4, <1>5 DEF RowSafe

-----------------------------------------------------------------------------
(* Whatever the incremental decision skips as unchanged is searchable with *)
(* the content it has, however workers, edits, failures and crashes        *)
(* interleave.                                                             *)
THEOREM SkippingIsSafe == Spec => []SkipIsSafe
<1>1. Init => TypeInv /\ SkipInv
  BY InitTypeInv, SkipInit
<1>2. TypeInv /\ SkipInv /\ [Next]_vars => (TypeInv /\ SkipInv)'
  BY NextTypeInv, NextSkip
<1>3. TypeInv /\ SkipInv => SkipIsSafe
  BY SkipInvImpliesSkipIsSafe
<1> QED BY <1>1, <1>2, <1>3, PTL DEF Spec

(* What a run records as synchronised was committed and indexed before.    *)
THEOREM RecordedAfterIndexed == Spec => []MarkedItemsIndexed
<1>1. Init => TypeInv /\ SkipInv
  BY InitTypeInv, SkipInit
<1>2. TypeInv /\ SkipInv /\ [Next]_vars => (TypeInv /\ SkipInv)'
  BY NextTypeInv, NextSkip
<1>3. TypeInv /\ SkipInv => MarkedItemsIndexed
  BY DEF SkipInv, WorkerInv, MarkedItemsIndexed
<1> QED BY <1>1, <1>2, <1>3, PTL DEF Spec
-----------------------------------------------------------------------------
(* The steps                                                               *)

(* The steps of a run, from the listing to the last row it marks           *)
RunStep(w) ==
  \/ ListDescriptors(w) \/ (\E d \in run[w].descs : Decide(w, d))
  \/ FetchItem(w) \/ FetchFails(w) \/ MarkFailure(w) \/ SourceRaises(w)
  \/ EndOfListing(w) \/ FindDeleted(w)
  \/ (\E r \in run[w].dead : MarkDeleted(w, r)) \/ BeginIngest(w)
  \/ UpsertSource(w) \/ PutRaw(w) \/ PutMd(w) \/ InsertVersion(w)
  \/ PutArtifact(w) \/ PutFails(w) \/ EmbedBatch(w) \/ EmbedFails(w)
  \/ IndexFts(w) \/ CommitItems(w) \/ MarkSuccess(w)

EndStep(w)   == FinishJob(w) \/ FailJob(w)
DeathStep(w) == Crash(w) \/ DeadlockAbort(w)

(* Every step is one of these.                                             *)
LEMMA StepCases ==
  ASSUME [Next]_vars,
         NEW ACTION P,
         UNCHANGED vars => P,
         \A r \in Refs : ChangeCatalog(r) => P,
         \A j \in Jobs : CreateJob(j) => P,
         \A w \in Workers, j \in Jobs : SelectJob(w, j) => P,
         \A w \in Workers : ClaimJob(w) => P,
         \A w \in Workers : RunStep(w) => P,
         \A w \in Workers : EndStep(w) => P,
         \A w \in Workers : DeathStep(w) => P,
         \A w \in Workers : Restart(w) => P
  PROVE  P
<1>1. ASSUME NEW w \in Workers, Run(w) PROVE P
  BY <1>1 DEF Run, RunStep, EndStep, DeathStep
<1>2. ASSUME NEW w \in Workers, Disturb(w) PROVE P
  BY <1>2 DEF Disturb, RunStep, DeathStep
<1> QED BY <1>1, <1>2 DEF Next

(* A step of a run stays in the run of its job.                            *)
LEMMA RunStepStays ==
  ASSUME TypeInv, NEW w \in Workers, RunStep(w)
  PROVE  /\ UNCHANGED <<status, job, catalog>>
         /\ \A x \in Workers \ {w} :
              pc'[x] = pc[x] /\ run'[x] = run[x] /\ tx'[x] = tx[x]
         /\ pc[w] \notin {"idle", "dead", "selected"}
         /\ pc'[w] \notin {"idle", "dead", "selected"}
<1> USE DEF TypeInv, TypeOK, Goto
<1>1. CASE ListDescriptors(w) \/ \E d \in run[w].descs : Decide(w, d)
  BY <1>1 DEF ListDescriptors, Decide
<1>2. CASE FetchItem(w) \/ FetchFails(w) \/ MarkFailure(w) \/ SourceRaises(w)
  BY <1>2 DEF FetchItem, FetchFails, MarkFailure, SourceRaises, UpsertState
<1>3. CASE \/ EndOfListing(w) \/ FindDeleted(w) \/ BeginIngest(w)
           \/ \E r \in run[w].dead : MarkDeleted(w, r)
  BY <1>3, ZenonT(60) DEF EndOfListing, FindDeleted, MarkDeleted, BeginIngest, UpsertState
<1>4. CASE UpsertSource(w) \/ PutRaw(w) \/ PutMd(w) \/ PutArtifact(w)
  BY <1>4 DEF UpsertSource, PutRaw, PutMd, PutBlob, PutArtifact
<1>5. CASE InsertVersion(w) \/ PutFails(w) \/ EmbedFails(w)
  BY <1>5 DEF InsertVersion, PutFails, EmbedFails
<1>6. CASE EmbedBatch(w) \/ IndexFts(w) \/ CommitItems(w) \/ MarkSuccess(w)
  BY <1>6 DEF EmbedBatch, IndexFts, CommitItems, MarkSuccess, EndTx,
              UpsertState
<1> QED BY <1>1, <1>2, <1>3, <1>4, <1>5, <1>6 DEF RunStep

LEMMA EndStepEnds ==
  ASSUME TypeInv, NEW w \in Workers, EndStep(w)
  PROVE  /\ Commit(w) /\ EndTx(w) /\ UNCHANGED <<catalog, blobs>>
         /\ pc[w] \in {"mark", "fail"} /\ pc'[w] = "idle"
         /\ job[w] \in Jobs /\ job'[w] = NoJob /\ run'[w] = NewRun(<<>>)
         /\ status' = [status EXCEPT ![job[w]] =
                         IF pc[w] = "mark" THEN "done" ELSE "error"]
         /\ pc[w] = "mark" => ~More(w)
         /\ tx'[w] = EmptyTx /\ locks'[w] = {}
         /\ \A x \in Workers \ {w} :
              /\ pc'[x] = pc[x] /\ run'[x] = run[x] /\ job'[x] = job[x]
              /\ tx'[x] = tx[x] /\ locks'[x] = locks[x]
BY DEF EndStep, FinishJob, FailJob, EndJob, EndTx, Leave, Goto, TypeInv, TypeOK,
       Shape, Active

LEMMA DeathStepEnds ==
  ASSUME TypeInv, NEW w \in Workers, DeathStep(w)
  PROVE  /\ UNCHANGED <<catalog, status, ver, vec, fts, state, blobs>>
         /\ pc'[w] = "dead" /\ job'[w] = NoJob /\ run'[w] = NewRun(<<>>)
         /\ tx'[w] = EmptyTx /\ locks'[w] = {}
         /\ \A x \in Workers \ {w} :
              /\ pc'[x] = pc[x] /\ run'[x] = run[x] /\ job'[x] = job[x]
              /\ tx'[x] = tx[x] /\ locks'[x] = locks[x]
BY DEF DeathStep, Crash, DeadlockAbort, Die, EndTx, Leave, Goto, TypeInv, TypeOK

-----------------------------------------------------------------------------
(* Jobs                                                                    *)

(* A job in hand is queued until it is claimed and processing from then    *)
(* on; a worker without one has none.                                      *)
JobInv ==
  /\ JobExclusive
  /\ \A w \in Workers :
       /\ ~Active(w) => job[w] = NoJob
       /\ pc[w] = "selected" => status[job[w]] = "queued"
       /\ Active(w) /\ pc[w] # "selected" => status[job[w]] = "processing"

LEMMA JobInit == ASSUME Init PROVE JobInv
BY DEF Init, JobInv, JobExclusive, Active

LEMMA JobsHeld ==
  ASSUME TypeInv, JobInv
  PROVE  /\ NoJob \notin Jobs
         /\ \A w \in Workers : Active(w) => job[w] \in Jobs
         /\ \A w \in Workers : job[w] \in Jobs => Active(w)
BY ConstantsAssumption DEF TypeInv, Shape, JobInv, NoJob

LEMMA SelectJobs ==
  ASSUME TypeInv, JobInv, NEW w \in Workers, NEW j \in Jobs, SelectJob(w, j)
  PROVE  JobInv'
<1>1. \A x \in Workers : job[x] # j
  BY JobsHeld DEF SelectJob, Claimable, JobInv, Active
<1> QED BY <1>1, JobsHeld DEF SelectJob, Claimable, JobInv, JobExclusive, Active,
           Goto, TypeInv, TypeOK

LEMMA ClaimJobs ==
  ASSUME TypeInv, JobInv, NEW w \in Workers, ClaimJob(w) PROVE JobInv'
BY JobsHeld DEF ClaimJob, JobInv, JobExclusive, Active, Goto, TypeInv, TypeOK

LEMMA CreateJobs ==
  ASSUME TypeInv, JobInv, NEW j \in Jobs, CreateJob(j) PROVE JobInv'
BY JobsHeld DEF CreateJob, JobInv, JobExclusive, Active, TypeInv, TypeOK

LEMMA RunStepJobs ==
  ASSUME TypeInv, JobInv, NEW w \in Workers, RunStep(w) PROVE JobInv'
BY RunStepStays DEF JobInv, JobExclusive, Active

LEMMA EndStepJobs ==
  ASSUME TypeInv, JobInv, NEW w \in Workers, EndStep(w) PROVE JobInv'
<1>1. \A x \in Workers \ {w} : job[x] # job[w]
  BY EndStepEnds DEF JobInv, JobExclusive, Active
<1>2. \A x \in Workers \ {w} : job[x] \in Jobs => status'[job[x]] = status[job[x]]
  BY <1>1, EndStepEnds DEF TypeInv, TypeOK
<1>3. ~Active(w)' /\ \A x \in Workers \ {w} : Active(x)' <=> Active(x)
  BY EndStepEnds DEF Active
<1>4. JobExclusive'
  BY <1>3, EndStepEnds, JobsHeld DEF JobInv, JobExclusive
<1>5. ASSUME NEW x \in Workers \ {w}
      PROVE  /\ ~Active(x)' => job'[x] = NoJob
             /\ pc'[x] = "selected" => status'[job'[x]] = "queued"
             /\ Active(x)' /\ pc'[x] # "selected" =>
                  status'[job'[x]] = "processing"
  <2>1. Active(x) => status'[job[x]] = status[job[x]]
    BY <1>2, JobsHeld
  <2>2. job'[x] = job[x] /\ pc'[x] = pc[x]
    BY EndStepEnds
  <2> QED BY <1>3, <2>1, <2>2 DEF JobInv, Active
<1> QED BY <1>3, <1>4, <1>5, EndStepEnds DEF JobInv

LEMMA DeathStepJobs ==
  ASSUME TypeInv, JobInv, NEW w \in Workers, DeathStep(w) PROVE JobInv'
BY DeathStepEnds, JobsHeld DEF JobInv, JobExclusive, Active

LEMMA RestartJobs ==
  ASSUME TypeInv, JobInv, NEW w \in Workers, Restart(w) PROVE JobInv'
BY DEF Restart, JobInv, JobExclusive, Active, Goto, TypeInv, TypeOK

LEMMA NextJobs == ASSUME TypeInv, JobInv, [Next]_vars PROVE JobInv'
<1>1. UNCHANGED vars => JobInv'
  BY DEF vars, JobInv, JobExclusive, Active
<1>2. \A r \in Refs : ChangeCatalog(r) => JobInv'
  BY DEF ChangeCatalog, JobInv, JobExclusive, Active
<1> HIDE DEF JobInv
<1> QED BY <1>1, <1>2, CreateJobs, SelectJobs, ClaimJobs, RunStepJobs,
           EndStepJobs, DeathStepJobs, RestartJobs, StepCases

LEMMA JobInvariant == Spec => [](TypeInv /\ JobInv)
<1>1. Init => TypeInv /\ JobInv
  BY InitTypeInv, JobInit
<1>2. TypeInv /\ JobInv /\ [Next]_vars => (TypeInv /\ JobInv)'
  BY NextTypeInv, NextJobs
<1> QED BY <1>1, <1>2, PTL DEF Spec

(* SKIP LOCKED and the status keep a job with one worker, however many     *)
(* workers poll, crash, restart and are aborted.                           *)
THEOREM OneWorkerPerJob == Spec => []JobExclusive
<1>1. JobInv => JobExclusive
  BY DEF JobInv
<1> QED BY <1>1, JobInvariant, PTL

Terminal(j) == status[j] \in {"done", "error"}

FinalStep ==
  \A j \in Jobs : Terminal(j) =>
    /\ status'[j] = status[j]
    /\ \A w \in Workers : job'[w] # j \/ job[w] = j

LEMMA StepIsFinal == ASSUME TypeInv, JobInv, [Next]_vars PROVE FinalStep
<1> USE DEF FinalStep, Terminal
<1>1. UNCHANGED vars => FinalStep
  BY DEF vars
<1>2. \A r \in Refs : ChangeCatalog(r) => FinalStep
  BY DEF ChangeCatalog
<1>3. \A j \in Jobs : CreateJob(j) => FinalStep
  BY DEF CreateJob, TypeInv, TypeOK
<1>4. \A w \in Workers, j \in Jobs : SelectJob(w, j) => FinalStep
  BY DEF SelectJob, Claimable, TypeInv, TypeOK
<1>5. \A w \in Workers : ClaimJob(w) => FinalStep
  BY DEF ClaimJob, JobInv, TypeInv, TypeOK
<1>6. \A w \in Workers : RunStep(w) => FinalStep
  BY RunStepStays
<1>7. ASSUME NEW w \in Workers, EndStep(w) PROVE FinalStep
  <2>1. status[job[w]] = "processing"
    BY <1>7, EndStepEnds DEF JobInv, Active
  <2> QED BY <1>7, <2>1, EndStepEnds, JobsHeld DEF TypeInv, TypeOK
<1>8. ASSUME NEW w \in Workers, DeathStep(w) PROVE FinalStep
  BY <1>8, DeathStepEnds, JobsHeld
<1>9. \A w \in Workers : Restart(w) => FinalStep
  BY DEF Restart
<1> HIDE DEF FinalStep
<1> QED BY <1>1, <1>2, <1>3, <1>4, <1>5, <1>6, <1>7, <1>8, <1>9, StepCases

(* A job that reported done or error keeps its status, and no worker takes *)
(* it up again.                                                            *)
THEOREM TerminalStays == Spec => TerminalIsFinal
<1>1. TypeInv /\ JobInv /\ [Next]_vars => [FinalStep]_vars
  BY StepIsFinal
<1>2. [][FinalStep]_vars => TerminalIsFinal
  BY PTL DEF FinalStep, Terminal, TerminalIsFinal
<1> QED BY <1>1, <1>2, JobInvariant, PTL DEF Spec

-----------------------------------------------------------------------------
(* What a step of a run does to versions, objects and locks                *)

LEMMA RunStepRows ==
  ASSUME TypeInv, NEW w \in Workers, RunStep(w), ~InsertVersion(w),
         ~CommitItems(w)
  PROVE  ver' = ver /\ tx'[w].ver = tx[w].ver
<1> USE DEF TypeInv, TypeOK, Transactions
<1>1. CASE ListDescriptors(w) \/ \E d \in run[w].descs : Decide(w, d)
  BY <1>1 DEF ListDescriptors, Decide
<1>2. CASE FetchItem(w) \/ FetchFails(w) \/ MarkFailure(w) \/ SourceRaises(w)
  BY <1>2 DEF FetchItem, FetchFails, MarkFailure, SourceRaises, UpsertState
<1>3. CASE EndOfListing(w) \/ FindDeleted(w) \/ BeginIngest(w)
  BY <1>3 DEF EndOfListing, FindDeleted, BeginIngest
<1>4. CASE UpsertSource(w) \/ PutRaw(w) \/ PutMd(w) \/ PutArtifact(w)
  BY <1>4 DEF UpsertSource, PutRaw, PutMd, PutBlob, PutArtifact
<1>5. CASE PutFails(w) \/ EmbedFails(w)
  BY <1>5 DEF PutFails, EmbedFails
<1>6. CASE EmbedBatch(w) \/ IndexFts(w) \/ MarkSuccess(w)
  BY <1>6 DEF EmbedBatch, IndexFts, MarkSuccess, UpsertState
<1>7. CASE \E r \in run[w].dead : MarkDeleted(w, r)
  BY <1>7 DEF MarkDeleted, UpsertState
<1> QED BY <1>1, <1>2, <1>3, <1>4, <1>5, <1>6, <1>7 DEF RunStep

LEMMA RunStepItem ==
  ASSUME TypeInv, NEW w \in Workers, RunStep(w), ~UpsertSource(w),
         pc'[w] \in Ingesting
  PROVE  run'[w].cur = run[w].cur /\ pc[w] \in Ingesting
<1> USE DEF TypeInv, TypeOK, Goto, Ingesting
<1>1. CASE ListDescriptors(w) \/ \E d \in run[w].descs : Decide(w, d)
  BY <1>1 DEF ListDescriptors, Decide
<1>2. CASE FetchItem(w) \/ FetchFails(w) \/ MarkFailure(w) \/ SourceRaises(w)
  BY <1>2 DEF FetchItem, FetchFails, MarkFailure, SourceRaises
<1>3. CASE \/ EndOfListing(w) \/ FindDeleted(w) \/ BeginIngest(w)
           \/ \E r \in run[w].dead : MarkDeleted(w, r)
  BY <1>3 DEF EndOfListing, FindDeleted, MarkDeleted, BeginIngest
<1>4. CASE PutRaw(w) \/ PutMd(w) \/ PutArtifact(w)
  BY <1>4 DEF PutRaw, PutMd, PutBlob, PutArtifact
<1>5. CASE InsertVersion(w) \/ PutFails(w) \/ EmbedFails(w)
  BY <1>5 DEF InsertVersion, PutFails, EmbedFails
<1>6. CASE EmbedBatch(w) \/ IndexFts(w) \/ CommitItems(w) \/ MarkSuccess(w)
  BY <1>6 DEF EmbedBatch, IndexFts, CommitItems, MarkSuccess
<1> QED BY <1>1, <1>2, <1>3, <1>4, <1>5, <1>6 DEF RunStep

(* A lock that is taken was free.                                          *)
LEMMA RunStepLocks ==
  ASSUME TypeInv, NEW w \in Workers, RunStep(w), ~CommitItems(w)
  PROVE  /\ locks[w] \subseteq locks'[w]
         /\ \A x \in Workers \ {w} :
              /\ locks'[x] = locks[x]
              /\ locks'[w] \cap locks[x] \subseteq locks[w]
<1> USE DEF TypeInv, TypeOK
<1>1. CASE ListDescriptors(w) \/ \E d \in run[w].descs : Decide(w, d)
  BY <1>1 DEF ListDescriptors, Decide
<1>2. CASE FetchItem(w) \/ FetchFails(w) \/ SourceRaises(w)
  BY <1>2 DEF FetchItem, FetchFails, SourceRaises
<1>3. CASE EndOfListing(w) \/ FindDeleted(w) \/ BeginIngest(w)
  BY <1>3 DEF EndOfListing, FindDeleted, BeginIngest
<1>4. CASE PutRaw(w) \/ PutMd(w) \/ PutArtifact(w) \/ InsertVersion(w)
  BY <1>4 DEF PutRaw, PutMd, PutBlob, PutArtifact, InsertVersion
<1>5. CASE PutFails(w) \/ EmbedFails(w) \/ EmbedBatch(w) \/ IndexFts(w)
  BY <1>5 DEF PutFails, EmbedFails, EmbedBatch, IndexFts
<1>6. CASE \/ MarkFailure(w) \/ MarkSuccess(w) \/ UpsertSource(w)
           \/ \E r \in run[w].dead : MarkDeleted(w, r)
  <2>1. PICK lock : /\ Free(w, lock)
                    /\ locks' = [locks EXCEPT ![w] = @ \cup {lock}]
    BY <1>6 DEF MarkFailure, MarkSuccess, UpsertSource, MarkDeleted, UpsertState
  <2> QED BY <2>1 DEF Free
<1> QED BY SMTT(30), <1>1, <1>2, <1>3, <1>4, <1>5, <1>6 DEF RunStep

LEMMA CommitItemsEnds ==
  ASSUME TypeInv, NEW w \in Workers, CommitItems(w)
  PROVE  /\ Commit(w) /\ UNCHANGED <<catalog, blobs, status, job>>
         /\ pc[w] = "ingest" /\ pc'[w] = "mark" /\ ~More(w)
         /\ tx'[w] = EmptyTx /\ locks'[w] = {}
         /\ run'[w] = [run[w] EXCEPT !.next = 1]
         /\ \A x \in Workers \ {w} :
              /\ pc'[x] = pc[x] /\ run'[x] = run[x]
              /\ tx'[x] = tx[x] /\ locks'[x] = locks[x]
BY DEF CommitItems, EndTx, Goto, TypeInv, TypeOK

LEMMA InsertVersionRows ==
  ASSUME TypeInv, NEW w \in Workers, InsertVersion(w)
  PROVE  /\ UNCHANGED <<ver, blobs, locks, run, job>>
         /\ pc[w] = "insert" /\ pc'[w] \in {"embed", "artifact"}
         /\ \A x \in Workers \ {w} : pc'[x] = pc[x] /\ tx'[x] = tx[x]
         /\ \/ tx'[w].ver = tx[w].ver
            \/ /\ ~HasVersion(w, CurKey(w))
               /\ tx'[w].ver = tx[w].ver
                                 \cup {[key |-> CurKey(w), vid |-> CurVid(w)]}
BY DEF InsertVersion, Goto, TypeInv, TypeOK, Transactions

-----------------------------------------------------------------------------
(* Objects before rows                                                     *)

HasObjects(vid) == {<<vid, "raw">>, <<vid, "md">>} \subseteq blobs

(* The objects of a version are stored when its row is inserted, and so    *)
(* when the row is committed.                                              *)
ObjectInv ==
  /\ BlobsBeforeRows
  /\ \A w \in Workers :
       /\ \A v \in tx[w].ver : HasObjects(v.vid)
       /\ pc[w] = "putMd" => <<CurVid(w), "raw">> \in blobs
       /\ pc[w] = "insert" => HasObjects(CurVid(w))

LEMMA ObjectInit == ASSUME Init PROVE ObjectInv
BY DEF Init, ObjectInv, BlobsBeforeRows, EmptyTx

(* A step that takes no object away and adds no row                        *)
LEMMA ObjectsStay ==
  ASSUME ObjectInv, blobs \subseteq blobs', ver' = ver,
         \A w \in Workers :
           /\ tx'[w].ver \subseteq tx[w].ver
           /\ \/ pc'[w] \notin {"putMd", "insert"}
              \/ /\ pc'[w] = pc[w] /\ job'[w] = job[w]
                 /\ run'[w].cur = run[w].cur
  PROVE  ObjectInv'
BY DEF ObjectInv, BlobsBeforeRows, HasObjects, CurVid

LEMMA PutObjects ==
  ASSUME TypeInv, ObjectInv, NEW w \in Workers,
         PutRaw(w) \/ PutMd(w) \/ PutArtifact(w)
  PROVE  ObjectInv'
<1>1. /\ UNCHANGED <<ver, tx, job, run>>
      /\ \A x \in Workers \ {w} : pc'[x] = pc[x]
      /\ blobs \subseteq blobs'
      /\ \/ pc'[w] = "putMd" /\ <<CurVid(w), "raw">> \in blobs'
         \/ pc[w] = "putMd" /\ pc'[w] = "insert" /\ <<CurVid(w), "md">> \in blobs'
         \/ pc'[w] = "embed"
  BY DEF PutRaw, PutMd, PutArtifact, PutBlob, Goto, TypeInv, TypeOK
<1> QED BY <1>1 DEF ObjectInv, BlobsBeforeRows, HasObjects, CurVid

LEMMA InsertObjects ==
  ASSUME TypeInv, ObjectInv, NEW w \in Workers, InsertVersion(w)
  PROVE  ObjectInv'
<1>1. \A v \in tx'[w].ver : HasObjects(v.vid)
  <2>1. HasObjects(CurVid(w)) /\ \A v \in tx[w].ver : HasObjects(v.vid)
    BY InsertVersionRows DEF ObjectInv
  <2>2. \A v \in tx'[w].ver : v \in tx[w].ver \/ v.vid = CurVid(w)
    BY InsertVersionRows
  <2> QED BY <2>1, <2>2 DEF HasObjects
<1> QED BY SMTT(30), <1>1, InsertVersionRows
        DEF ObjectInv, BlobsBeforeRows, HasObjects, CurVid

LEMMA CommitObjects ==
  ASSUME ObjectInv, NEW w \in Workers, Commit(w), blobs' = blobs,
         tx'[w] = EmptyTx, pc'[w] \notin {"putMd", "insert"},
         \A x \in Workers \ {w} : /\ pc'[x] = pc[x] /\ run'[x] = run[x]
                                  /\ tx'[x] = tx[x] /\ job'[x] = job[x]
  PROVE  ObjectInv'
<1>1. \A v \in ver' : HasObjects(v.vid)
  BY DEF Commit, VerSeen, ObjectInv, BlobsBeforeRows, HasObjects
<1> QED BY SMTT(30), <1>1
        DEF ObjectInv, BlobsBeforeRows, HasObjects, CurVid, EmptyTx

LEMMA RunStepBlobs ==
  ASSUME TypeInv, NEW w \in Workers, RunStep(w),
         ~(PutRaw(w) \/ PutMd(w) \/ PutArtifact(w))
  PROVE  blobs' = blobs /\ pc'[w] \notin {"putMd", "insert"}
<1> USE DEF TypeInv, TypeOK, Goto
<1>1. CASE ListDescriptors(w) \/ \E d \in run[w].descs : Decide(w, d)
  BY <1>1 DEF ListDescriptors, Decide
<1>2. CASE FetchItem(w) \/ FetchFails(w) \/ MarkFailure(w) \/ SourceRaises(w)
  BY <1>2 DEF FetchItem, FetchFails, MarkFailure, SourceRaises
<1>3. CASE \/ EndOfListing(w) \/ FindDeleted(w) \/ BeginIngest(w)
           \/ \E r \in run[w].dead : MarkDeleted(w, r)
  BY <1>3 DEF EndOfListing, FindDeleted, MarkDeleted, BeginIngest
<1>4. CASE UpsertSource(w) \/ InsertVersion(w) \/ PutFails(w) \/ EmbedFails(w)
  BY <1>4 DEF UpsertSource, InsertVersion, PutFails, EmbedFails
<1>5. CASE EmbedBatch(w) \/ IndexFts(w) \/ CommitItems(w) \/ MarkSuccess(w)
  BY <1>5 DEF EmbedBatch, IndexFts, CommitItems, MarkSuccess
<1> QED BY <1>1, <1>2, <1>3, <1>4, <1>5 DEF RunStep

LEMMA RunStepObjects ==
  ASSUME TypeInv, ObjectInv, NEW w \in Workers, RunStep(w) PROVE ObjectInv'
<1>1. CASE PutRaw(w) \/ PutMd(w) \/ PutArtifact(w)
  BY <1>1, PutObjects
<1>2. CASE InsertVersion(w)
  BY <1>2, InsertObjects
<1>3. CASE CommitItems(w)
  BY <1>3, CommitItemsEnds, CommitObjects
<1>4. CASE ~(\/ PutRaw(w) \/ PutMd(w) \/ PutArtifact(w) \/ InsertVersion(w)
             \/ CommitItems(w))
  <2>1. blobs' = blobs /\ pc'[w] \notin {"putMd", "insert"} /\ job' = job
    BY <1>4, RunStepBlobs, RunStepStays
  <2>2. ver' = ver /\ tx'[w].ver = tx[w].ver
    BY <1>4, RunStepRows
  <2> QED BY <2>1, <2>2, RunStepStays, ObjectsStay
<1> QED BY <1>1, <1>2, <1>3, <1>4

LEMMA NextObjects == ASSUME TypeInv, ObjectInv, [Next]_vars PROVE ObjectInv'
<1>1. UNCHANGED vars => ObjectInv'
  BY ObjectsStay DEF vars
<1>2. \A r \in Refs : ChangeCatalog(r) => ObjectInv'
  BY ObjectsStay DEF ChangeCatalog
<1>3. \A j \in Jobs : CreateJob(j) => ObjectInv'
  BY ObjectsStay DEF CreateJob
<1>4. ASSUME NEW w \in Workers,
             ClaimJob(w) \/ Restart(w) \/ \E j \in Jobs : SelectJob(w, j)
      PROVE  ObjectInv'
  <2>1. /\ UNCHANGED <<blobs, ver, tx>>
        /\ pc'[w] \notin {"putMd", "insert"}
        /\ \A x \in Workers \ {w} :
             pc'[x] = pc[x] /\ run'[x] = run[x] /\ job'[x] = job[x]
    BY <1>4 DEF ClaimJob, Restart, SelectJob, Goto, TypeInv, TypeOK
  <2> QED BY <2>1, ObjectsStay
<1>5. \A w \in Workers : EndStep(w) => ObjectInv'
  BY EndStepEnds, CommitObjects
<1>6. ASSUME NEW w \in Workers, DeathStep(w) PROVE ObjectInv'
  BY <1>6, DeathStepEnds, ObjectsStay DEF EmptyTx
<1> QED BY <1>1, <1>2, <1>3, <1>4, <1>5, <1>6, RunStepObjects, StepCases

(* A committed version, whatever crashed or failed before, names objects   *)
(* that object storage has.                                                *)
THEOREM RowsHaveObjects == Spec => []BlobsBeforeRows
<1>1. Init => TypeInv /\ ObjectInv
  BY InitTypeInv, ObjectInit
<1>2. TypeInv /\ ObjectInv /\ [Next]_vars => (TypeInv /\ ObjectInv)'
  BY NextTypeInv, NextObjects
<1>3. ObjectInv => BlobsBeforeRows
  BY DEF ObjectInv
<1> QED BY <1>1, <1>2, <1>3, PTL DEF Spec

-----------------------------------------------------------------------------
(* One version for each content                                            *)

SourceLock(ref) == <<"source", ref>>

(* Row locks are exclusive, and a worker holds the lock of the source of   *)
(* every version it has written or may be about to write, until the commit *)
(* that shows its rows to the others.                                      *)
VersionInv ==
  /\ \A w, x \in Workers : w # x => locks[w] \cap locks[x] = {}
  /\ \A w \in Workers :
       /\ pc[w] \in Ingesting => SourceLock(run[w].cur.ref) \in locks[w]
       /\ \A v \in tx[w].ver : SourceLock(v.key[1]) \in locks[w]
       /\ \A u, v \in VerSeen(w) : u.key = v.key => u = v
  /\ UniqueVersions

LEMMA VersionInit == ASSUME Init PROVE VersionInv
BY DEF Init, VersionInv, UniqueVersions, EmptyTx, VerSeen, Ingesting

LEMMA VersionsStay ==
  ASSUME VersionInv, ver' = ver, NEW w \in Workers,
         tx'[w].ver \subseteq tx[w].ver,
         locks[w] \subseteq locks'[w] \/ tx'[w].ver = {},
         pc'[w] \in Ingesting => SourceLock(run'[w].cur.ref) \in locks'[w],
         \A x \in Workers \ {w} :
           /\ locks'[x] = locks[x] /\ locks'[w] \cap locks[x] \subseteq locks[w]
           /\ pc'[x] = pc[x] /\ run'[x] = run[x] /\ tx'[x] = tx[x]
  PROVE  VersionInv'
<1>1. \A x, y \in Workers : x # y => locks'[x] \cap locks'[y] = {}
  BY DEF VersionInv
<1>2. \A x \in Workers : \A v \in tx'[x].ver : SourceLock(v.key[1]) \in locks'[x]
  BY DEF VersionInv
<1>3. \A x \in Workers : VerSeen(x)' \subseteq VerSeen(x)
  BY DEF VerSeen
<1>4. \A x \in Workers : \A u, v \in VerSeen(x)' : u.key = v.key => u = v
  BY <1>3 DEF VersionInv
<1>5. \A x \in Workers :
        pc'[x] \in Ingesting => SourceLock(run'[x].cur.ref) \in locks'[x]
  BY DEF VersionInv
<1>6. UniqueVersions'
  BY DEF VersionInv, UniqueVersions
<1> QED BY <1>1, <1>2, <1>4, <1>5, <1>6 DEF VersionInv

LEMMA InsertUnique ==
  ASSUME TypeInv, VersionInv, NEW w \in Workers, InsertVersion(w)
  PROVE  VersionInv'
<1>1. CASE tx'[w].ver = tx[w].ver
  <2>1. pc[w] \in Ingesting
    BY InsertVersionRows DEF Ingesting
  <2>2. SourceLock(run'[w].cur.ref) \in locks'[w]
    BY <2>1, InsertVersionRows DEF VersionInv
  <2> QED BY <1>1, <2>2, InsertVersionRows, VersionsStay
<1>2. CASE tx'[w].ver # tx[w].ver
  <2> DEFINE row == [key |-> CurKey(w), vid |-> CurVid(w)]
  <2>1. tx'[w].ver = tx[w].ver \cup {row} /\ ~HasVersion(w, row.key)
    BY <1>2, InsertVersionRows
  <2>2. row.key[1] = run[w].cur.ref /\ SourceLock(run[w].cur.ref) \in locks[w]
    BY InsertVersionRows DEF VersionInv, Ingesting, CurKey, Key
  <2> HIDE DEF row
  <2>3. VerSeen(w)' = VerSeen(w) \cup {row}
    BY <2>1, InsertVersionRows DEF VerSeen
  <2>4. \A u, v \in VerSeen(w)' : u.key = v.key => u = v
    BY <2>1, <2>3 DEF VersionInv, HasVersion
  <2>5. \A x \in Workers \ {w} : VerSeen(x)' = VerSeen(x)
    BY InsertVersionRows DEF VerSeen
  <2>6. \A v \in tx'[w].ver : SourceLock(v.key[1]) \in locks'[w]
    BY <2>1, <2>2, InsertVersionRows DEF VersionInv
  <2>7. \A x \in Workers :
          pc'[x] \in Ingesting => SourceLock(run'[x].cur.ref) \in locks'[x]
    BY <2>2, InsertVersionRows DEF VersionInv
  <2> QED BY <2>4, <2>5, <2>6, <2>7, InsertVersionRows
          DEF VersionInv, UniqueVersions
<1> QED BY <1>1, <1>2

(* The rows that a commit shows to another worker belong to sources whose  *)
(* lock that worker does not hold.                                         *)
LEMMA CommitUnique ==
  ASSUME TypeInv, VersionInv, NEW w \in Workers, Commit(w),
         tx'[w] = EmptyTx, locks'[w] = {}, pc'[w] \notin Ingesting,
         \A x \in Workers \ {w} :
           /\ locks'[x] = locks[x] /\ pc'[x] = pc[x] /\ run'[x] = run[x]
           /\ tx'[x] = tx[x]
  PROVE  VersionInv'
<1>1. ver' = VerSeen(w) /\ tx'[w].ver = {}
  BY DEF Commit, EmptyTx
<1>2. UniqueVersions'
  BY <1>1 DEF VersionInv, UniqueVersions
<1>3. ASSUME NEW x \in Workers \ {w}, NEW u \in VerSeen(x)',
             NEW v \in VerSeen(x)', u.key = v.key
      PROVE  u = v
  <2>1. VerSeen(x)' = ver \cup tx[w].ver \cup tx[x].ver
    BY <1>1 DEF VerSeen
  <2>2. \A a \in tx[w].ver, b \in tx[x].ver : a.key # b.key
    BY DEF VersionInv
  <2>3. CASE u \in VerSeen(x) /\ v \in VerSeen(x)
    BY <1>3, <2>3 DEF VersionInv
  <2>4. CASE u \in VerSeen(w) /\ v \in VerSeen(w)
    BY <1>3, <2>4 DEF VersionInv
  <2> QED BY <1>3, <2>1, <2>2, <2>3, <2>4 DEF VerSeen
<1>4. \A u, v \in VerSeen(w)' : u.key = v.key => u = v
  BY <1>1, <1>2 DEF VerSeen, UniqueVersions
<1>5. \A x, y \in Workers : x # y => locks'[x] \cap locks'[y] = {}
  BY DEF VersionInv
<1>6. \A x \in Workers : \A v \in tx'[x].ver : SourceLock(v.key[1]) \in locks'[x]
  BY <1>1 DEF VersionInv
<1>7. \A x \in Workers :
        pc'[x] \in Ingesting => SourceLock(run'[x].cur.ref) \in locks'[x]
  BY DEF VersionInv
<1> QED BY <1>2, <1>3, <1>4, <1>5, <1>6, <1>7 DEF VersionInv

LEMMA RunStepUnique ==
  ASSUME TypeInv, VersionInv, NEW w \in Workers, RunStep(w) PROVE VersionInv'
<1>1. CASE InsertVersion(w)
  BY <1>1, InsertUnique
<1>2. CASE CommitItems(w)
  BY <1>2, CommitItemsEnds, CommitUnique DEF Ingesting
<1>3. CASE ~InsertVersion(w) /\ ~CommitItems(w)
  <2>1. pc'[w] \in Ingesting => SourceLock(run'[w].cur.ref) \in locks'[w]
    <3>1. CASE UpsertSource(w)
      BY <3>1 DEF UpsertSource, SourceLock, TypeInv, TypeOK, Runs
    <3>2. CASE ~UpsertSource(w)
      BY <1>3, <3>2, RunStepItem, RunStepLocks DEF VersionInv
    <3> QED BY <3>1, <3>2
  <2> QED BY <1>3, <2>1, RunStepRows, RunStepLocks, RunStepStays, VersionsStay
<1> QED BY <1>1, <1>2, <1>3

LEMMA NextUnique == ASSUME TypeInv, VersionInv, [Next]_vars PROVE VersionInv'
<1>1. ASSUME UNCHANGED <<ver, tx, locks, pc, run>> PROVE VersionInv'
  BY <1>1 DEF VersionInv, UniqueVersions, VerSeen, SourceLock
<1>2. /\ UNCHANGED vars => VersionInv'
      /\ \A r \in Refs : ChangeCatalog(r) => VersionInv'
      /\ \A j \in Jobs : CreateJob(j) => VersionInv'
  BY <1>1 DEF vars, ChangeCatalog, CreateJob
<1>3. ASSUME NEW w \in Workers,
             ClaimJob(w) \/ Restart(w) \/ \E j \in Jobs : SelectJob(w, j)
      PROVE  VersionInv'
  <2>1. /\ UNCHANGED <<locks, ver, tx>> /\ pc'[w] \notin Ingesting
        /\ \A x \in Workers \ {w} : pc'[x] = pc[x] /\ run'[x] = run[x]
    BY <1>3 DEF ClaimJob, Restart, SelectJob, Goto, TypeInv, TypeOK, Ingesting
  <2> QED BY <2>1, VersionsStay
<1>4. ASSUME NEW w \in Workers, EndStep(w) PROVE VersionInv'
  BY <1>4, EndStepEnds, CommitUnique DEF Ingesting
<1>5. ASSUME NEW w \in Workers, DeathStep(w) PROVE VersionInv'
  BY <1>5, DeathStepEnds, VersionsStay DEF EmptyTx, Ingesting
<1> QED BY <1>2, <1>3, <1>4, <1>5, RunStepUnique, StepCases

(* Workers that ingest the same content at the same time do not give it    *)
(* two versions: the row lock of the source outlives the rows that wait    *)
(* for their commit.                                                       *)
THEOREM VersionsAreUnique == Spec => []UniqueVersions
<1>1. Init => TypeInv /\ VersionInv
  BY InitTypeInv, VersionInit
<1>2. TypeInv /\ VersionInv /\ [Next]_vars => (TypeInv /\ VersionInv)'
  BY NextTypeInv, NextUnique
<1>3. VersionInv => UniqueVersions
  BY DEF VersionInv
<1> QED BY <1>1, <1>2, <1>3, PTL DEF Spec

-----------------------------------------------------------------------------
(* What a step of a run does to the state rows and to its locals           *)

LEMMA UpsertRow ==
  ASSUME TypeInv, NEW w \in Workers, NEW r \in Refs, NEW st,
         UpsertState(w, r, st)
  PROVE  /\ tx'[w].state[r] = st
         /\ \A q \in Refs \ {r} : tx'[w].state[q] = tx[w].state[q]
BY DEF UpsertState, TypeInv, TypeOK, Transactions

(* The row of an item in hand, by the place of the run                     *)
LEMMA UpsertedRefs ==
  ASSUME TypeInv, NEW w \in Workers
  PROVE  /\ pc[w] \in {"fetch", "failure"} =>
              run[w].cur.ref \in Refs /\ run[w].cur \in Descriptors
         /\ More(w) => /\ run[w].next \in 1 .. Len(run[w].items)
                       /\ Item(w).ref \in Refs
         /\ run[w].dead \subseteq Refs
         /\ \A d \in run[w].descs : d.ref \in Refs
         /\ run[w].items \in Seq(Items) /\ run[w].next \in Nat \ {0}
<1> run[w] \in Runs
  BY DEF TypeInv, TypeOK
<1>1. More(w) => Item(w) \in Items
  BY ItemType DEF TypeInv
<1>2. pc[w] \in {"fetch", "failure"} => run[w].cur \in Descriptors
  BY DEF TypeInv, Shape
<1> QED BY <1>1, <1>2 DEF Runs, Items, Descriptors, More

(* A step other than the commit writes no committed row.  In its           *)
(* transaction it marks at most one row.                                   *)
LEMMA RunStepStates ==
  ASSUME TypeInv, NEW w \in Workers, RunStep(w), ~CommitItems(w)
  PROVE  /\ state' = state
         /\ \A r \in Refs :
              \/ tx'[w].state[r] = tx[w].state[r]
              \/ tx'[w].state[r].status \in {"failed", "success"}
              \/ r \in run[w].dead /\ tx'[w].state[r].status = "deleted"
<1> USE DEF TypeInv, TypeOK, Transactions
<1>1. CASE ListDescriptors(w) \/ \E d \in run[w].descs : Decide(w, d)
  BY <1>1 DEF ListDescriptors, Decide
<1>2. CASE FetchItem(w) \/ FetchFails(w) \/ SourceRaises(w)
  BY <1>2 DEF FetchItem, FetchFails, SourceRaises
<1>3. CASE EndOfListing(w) \/ FindDeleted(w) \/ BeginIngest(w)
  BY <1>3 DEF EndOfListing, FindDeleted, BeginIngest
<1>4. CASE UpsertSource(w) \/ PutRaw(w) \/ PutMd(w) \/ PutArtifact(w)
  BY <1>4 DEF UpsertSource, PutRaw, PutMd, PutBlob, PutArtifact
<1>5. CASE PutFails(w) \/ EmbedFails(w) \/ InsertVersion(w)
  BY <1>5, SMTT(60) DEF PutFails, EmbedFails, InsertVersion
<1>6. CASE EmbedBatch(w) \/ IndexFts(w)
  BY <1>6 DEF EmbedBatch, IndexFts
<1> HIDE DEF TypeInv, TypeOK, Transactions
<1>7. CASE MarkFailure(w)
  BY <1>7, UpsertRow, UpsertedRefs DEF MarkFailure
<1>8. CASE MarkSuccess(w)
  BY <1>8, UpsertRow, UpsertedRefs DEF MarkSuccess
<1>9. ASSUME NEW r \in run[w].dead, MarkDeleted(w, r)
      PROVE  /\ state' = state
             /\ tx'[w].state[r].status = "deleted"
             /\ \A q \in Refs \ {r} : tx'[w].state[q] = tx[w].state[q]
  BY <1>9, UpsertRow, UpsertedRefs DEF MarkDeleted
<1> QED BY SMTT(30), <1>1, <1>2, <1>3, <1>4, <1>5, <1>6, <1>7, <1>8, <1>9
        DEF RunStep

LEMMA RunStepSeen ==
  ASSUME TypeInv, NEW w \in Workers, RunStep(w), ~ListDescriptors(w),
         ~FindDeleted(w)
  PROVE  /\ run'[w].seen = run[w].seen /\ run'[w].complete = run[w].complete
         /\ run'[w].dead \subseteq run[w].dead
<1> run \in [Workers -> Runs]
  BY DEF TypeInv, TypeOK
<1> {"seen", "complete", "dead"} \subseteq DOMAIN run[w]
  BY DEF Runs
<1>1. CASE \E d \in run[w].descs : Decide(w, d)
  BY <1>1 DEF Decide
<1>2. CASE FetchItem(w) \/ FetchFails(w) \/ MarkFailure(w) \/ SourceRaises(w)
  BY <1>2 DEF FetchItem, FetchFails, MarkFailure, SourceRaises
<1>3. CASE \/ EndOfListing(w) \/ BeginIngest(w)
           \/ \E r \in run[w].dead : MarkDeleted(w, r)
  BY <1>3 DEF EndOfListing, MarkDeleted, BeginIngest
<1>4. CASE UpsertSource(w) \/ PutRaw(w) \/ PutMd(w) \/ PutArtifact(w)
  BY <1>4 DEF UpsertSource, PutRaw, PutMd, PutBlob, PutArtifact
<1>5. CASE InsertVersion(w) \/ PutFails(w) \/ EmbedFails(w)
  BY <1>5 DEF InsertVersion, PutFails, EmbedFails
<1>6. CASE EmbedBatch(w) \/ IndexFts(w) \/ CommitItems(w) \/ MarkSuccess(w)
  BY <1>6 DEF EmbedBatch, IndexFts, CommitItems, MarkSuccess
<1> QED BY <1>1, <1>2, <1>3, <1>4, <1>5, <1>6 DEF RunStep

-----------------------------------------------------------------------------
(* No tombstone on an item that never left                                 *)

(* The item is in its catalogue and always was.                            *)
Untouched(r) == Live(r) /\ catalog[r].stamp = 1

(* A complete listing has seen every such item, so no run takes it for     *)
(* deleted, and no row, committed or not, says it is.                      *)
TombInv ==
  \A r \in Refs :
    /\ catalog[r].stamp > 0
    /\ Untouched(r) =>
         /\ state[r].status # "deleted"
         /\ \A w \in Workers :
              /\ tx[w].state[r].status # "deleted"
              /\ r \notin run[w].dead
              /\ TypeOf[r] \in run[w].complete => r \in run[w].seen

LEMMA TombInit == ASSUME Init PROVE TombInv
BY DEF Init, TombInv, Untouched, Live, NoState, EmptyTx, Unwritten, NewRun

(* A step that writes no tombstone and neither lists nor finds an item     *)
(* missing                                                                 *)
LEMMA TombsStay ==
  ASSUME TombInv, catalog' = catalog,
         \A r \in Refs : state'[r].status = "deleted" =>
           \/ state[r].status = "deleted"
           \/ \E w \in Workers : tx[w].state[r].status = "deleted",
         \A w \in Workers : \A r \in Refs :
           /\ tx'[w].state[r].status = "deleted" =>
                tx[w].state[r].status = "deleted" \/ r \in run[w].dead
           /\ r \in run'[w].dead => r \in run[w].dead
           /\ TypeOf[r] \in run'[w].complete /\ r \notin run'[w].seen =>
                TypeOf[r] \in run[w].complete /\ r \notin run[w].seen
  PROVE  TombInv'
<1> SUFFICES ASSUME NEW r \in Refs
             PROVE  /\ (catalog[r].stamp > 0)'
                    /\ Untouched(r)' =>
                         /\ state'[r].status # "deleted"
                         /\ \A w \in Workers :
                              /\ tx'[w].state[r].status # "deleted"
                              /\ r \notin run'[w].dead
                              /\ TypeOf[r] \in run'[w].complete =>
                                   r \in run'[w].seen
  BY DEF TombInv
<1>1. Untouched(r)' <=> Untouched(r)
  BY DEF Untouched, Live
<1> QED BY <1>1 DEF TombInv

LEMMA ListTombs ==
  ASSUME TypeInv, TombInv, NEW w \in Workers, ListDescriptors(w)
  PROVE  TombInv'
<1>1. PICK refs \in SUBSET ListingOf(Head(run[w].types)), whole \in BOOLEAN :
        /\ whole => refs = ListingOf(Head(run[w].types))
        /\ run' = [run EXCEPT
             ![w].types = Tail(@),
             ![w].descs = {Descriptor(r) : r \in refs},
             ![w].seen = {r \in @ : TypeOf[r] # Head(run[w].types)} \cup refs,
             ![w].complete = IF whole THEN @ \cup {Head(run[w].types)}
                                      ELSE @ \ {Head(run[w].types)}]
  BY ZenonT(60) DEF ListDescriptors
<1> DEFINE t == Head(run[w].types)
<1>2. /\ run'[w].seen = {r \in run[w].seen : TypeOf[r] # t} \cup refs
      /\ run'[w].complete = IF whole THEN run[w].complete \cup {t}
                                     ELSE run[w].complete \ {t}
      /\ run'[w].dead = run[w].dead
      /\ \A x \in Workers \ {w} : run'[x] = run[x]
  BY <1>1, ZenonT(60) DEF TypeInv, TypeOK, Runs
<1>3. UNCHANGED <<catalog, state, tx>>
  BY DEF ListDescriptors
<1>4. ASSUME NEW r \in Refs, Untouched(r), TypeOf[r] \in run'[w].complete
      PROVE  r \in run'[w].seen
  <2>1. CASE TypeOf[r] = t
    <3>1. whole
      BY <1>2, <1>4, <2>1
    <3>2. r \in refs
      BY <1>1, <1>4, <2>1, <3>1 DEF ListingOf, Untouched
    <3> QED BY <1>2, <3>2
  <2>2. CASE TypeOf[r] # t
    BY <1>2, <1>4, <2>2 DEF TombInv
  <2> QED BY <2>1, <2>2
<1>5. \A r \in Refs : Untouched(r)' <=> Untouched(r)
  BY <1>3 DEF Untouched, Live
<1> QED BY <1>2, <1>3, <1>4, <1>5 DEF TombInv

LEMMA FindTombs ==
  ASSUME TypeInv, TombInv, NEW w \in Workers, FindDeleted(w)
  PROVE  TombInv'
<1>1. /\ run'[w].seen = run[w].seen /\ run'[w].complete = run[w].complete
      /\ run'[w].dead = DeletedRefs(w, Head(run[w].types))
      /\ \A x \in Workers \ {w} : run'[x] = run[x]
  BY DEF FindDeleted, TypeInv, TypeOK, Runs
<1>2. UNCHANGED <<catalog, state, tx>>
  BY DEF FindDeleted
<1>3. \A r \in Refs : Untouched(r) => r \notin run'[w].dead
  BY <1>1 DEF DeletedRefs, TombInv
<1>4. \A r \in Refs : Untouched(r)' <=> Untouched(r)
  BY <1>2 DEF Untouched, Live
<1> QED BY <1>1, <1>2, <1>3, <1>4 DEF TombInv

(* A commit only makes rows of its transaction visible.                    *)
LEMMA CommitTombs ==
  ASSUME TombInv, NEW w \in Workers, Commit(w), catalog' = catalog,
         tx'[w] = EmptyTx,
         run'[w].dead = {} \/ run'[w].dead = run[w].dead,
         \/ run'[w].complete = {}
         \/ run'[w].complete = run[w].complete /\ run'[w].seen = run[w].seen,
         \A x \in Workers \ {w} : run'[x] = run[x] /\ tx'[x] = tx[x]
  PROVE  TombInv'
<1>1. \A r \in Refs : state'[r] = state[r] \/ state'[r] = tx[w].state[r]
  BY DEF Commit, StateAfter
<1>2. \A r \in Refs : tx'[w].state[r].status # "deleted"
  BY DEF EmptyTx, Unwritten
<1> QED BY <1>1, <1>2, TombsStay

LEMMA RunStepTombs ==
  ASSUME TypeInv, TombInv, NEW w \in Workers, RunStep(w) PROVE TombInv'
<1>1. CASE ListDescriptors(w)
  BY <1>1, ListTombs
<1>2. CASE FindDeleted(w)
  BY <1>2, FindTombs
<1>3. CASE CommitItems(w)
  <2>1. run'[w] = [run[w] EXCEPT !.next = 1] /\ run[w] \in Runs
    BY <1>3, CommitItemsEnds DEF TypeInv, TypeOK
  <2>2. /\ run'[w].dead = run[w].dead /\ run'[w].seen = run[w].seen
        /\ run'[w].complete = run[w].complete
    BY <2>1 DEF Runs
  <2> QED BY <1>3, <2>2, CommitItemsEnds, CommitTombs
<1>4. CASE ~ListDescriptors(w) /\ ~FindDeleted(w) /\ ~CommitItems(w)
  BY <1>4, RunStepStays, RunStepStates, RunStepSeen, TombsStay
<1> QED BY <1>1, <1>2, <1>3, <1>4

LEMMA NextTombs == ASSUME TypeInv, TombInv, [Next]_vars PROVE TombInv'
<1>1. /\ UNCHANGED vars => TombInv'
      /\ \A j \in Jobs : CreateJob(j) => TombInv'
      /\ \A w \in Workers : Restart(w) => TombInv'
      /\ \A w \in Workers, j \in Jobs : SelectJob(w, j) => TombInv'
  BY TombsStay DEF vars, CreateJob, Restart, SelectJob
<1>2. ASSUME NEW r \in Refs, ChangeCatalog(r) PROVE TombInv'
  <2>1. UNCHANGED <<state, tx, run>>
    BY <1>2 DEF ChangeCatalog
  <2>2. \A q \in Refs \ {r} : catalog'[q] = catalog[q]
    BY <1>2 DEF ChangeCatalog, TypeInv, TypeOK
  <2>3. catalog'[r].stamp = catalog[r].stamp + 1 /\ catalog[r].stamp \in Nat
    BY <1>2 DEF ChangeCatalog, TypeInv, TypeOK
  <2>4. catalog'[r].stamp > 1 /\ ~Untouched(r)'
    BY <2>3 DEF TombInv, Untouched
  <2>5. \A q \in Refs \ {r} : Untouched(q)' <=> Untouched(q)
    BY <2>2 DEF Untouched, Live
  <2> QED BY <2>1, <2>2, <2>3, <2>4, <2>5 DEF TombInv
<1>3. ASSUME NEW w \in Workers, ClaimJob(w) PROVE TombInv'
  <2>1. /\ UNCHANGED <<catalog, state, tx>>
        /\ \A x \in Workers \ {w} : run'[x] = run[x]
        /\ run'[w].dead = {} /\ run'[w].complete = {}
    BY <1>3 DEF ClaimJob, NewRun, TypeInv, TypeOK
  <2> QED BY <2>1, TombsStay
<1>4. ASSUME NEW w \in Workers, EndStep(w) PROVE TombInv'
  <2>1. run'[w].dead = {} /\ run'[w].complete = {}
    BY <1>4, EndStepEnds DEF NewRun
  <2> QED BY <1>4, <2>1, EndStepEnds, CommitTombs
<1>5. ASSUME NEW w \in Workers, DeathStep(w) PROVE TombInv'
  <2>1. /\ run'[w].dead = {} /\ run'[w].complete = {}
        /\ \A r \in Refs : tx'[w].state[r].status # "deleted"
    BY <1>5, DeathStepEnds DEF NewRun, EmptyTx, Unwritten
  <2> QED BY <1>5, <2>1, DeathStepEnds, TombsStay
<1> HIDE DEF TombInv
<1> QED BY <1>1, <1>2, <1>3, <1>4, <1>5, RunStepTombs, StepCases

(* An item that never left its catalogue is not marked as deleted by any   *)
(* run, whatever failed, was cut off at the limit or ran concurrently.     *)
THEOREM LiveItemsKeepTheirState == Spec => []NeverTombstonedWhileLive
<1>1. Init => TypeInv /\ TombInv
  BY InitTypeInv, TombInit
<1>2. TypeInv /\ TombInv /\ [Next]_vars => (TypeInv /\ TombInv)'
  BY NextTypeInv, NextTombs
<1>3. TombInv => NeverTombstonedWhileLive
  BY DEF TombInv, Untouched, NeverTombstonedWhileLive
<1> QED BY <1>1, <1>2, <1>3, PTL DEF Spec

-----------------------------------------------------------------------------
(* What a job that is done has recorded                                    *)

Recorded(w, r) == StateAfter(w)[r].status # "none"

(* The run still has the item in front of it: listed, being fetched, or    *)
(* fetched and not marked yet.                                             *)
Outstanding(w, r) ==
  \/ \E d \in run[w].descs : d.ref = r
  \/ pc[w] \in {"fetch", "failure"} /\ run[w].cur.ref = r
  \/ \E i \in 1 .. Len(run[w].items) :
       run[w].items[i].ref = r /\ (pc[w] = "mark" => run[w].next <= i)

Covered(w) ==
  /\ pc[w] # "fail" =>
       \A r \in run[w].seen : Recorded(w, r) \/ Outstanding(w, r)
  /\ pc[w] \notin {"sync", "fetch", "failure", "fail"} => run[w].descs = {}

DoneInv ==
  \A w \in Workers :
    /\ \A r \in Refs : tx[w].state[r].status # "none"
    /\ Covered(w)

LEMMA DoneInit == ASSUME Init PROVE DoneInv
BY DEF Init, DoneInv, Covered, EmptyTx, Unwritten, NewRun

(* Rows that became visible to a worker stay visible to it.                *)
LEMMA RecordedStays ==
  ASSUME NEW w \in Workers, NEW r \in Refs, Recorded(w, r),
         tx'[w].state[r].status # "none",
         state[r].status # "none" => state'[r].status # "none",
         \/ tx'[w].state[r] = tx[w].state[r]
         \/ tx'[w].state[r].status # "unwritten"
         \/ state'[r] = StateAfter(w)[r]
  PROVE  Recorded(w, r)'
BY DEF Recorded, StateAfter

(* A worker that does not move, whoever else commits                       *)
LEMMA BystanderCovered ==
  ASSUME TypeInv, DoneInv, NEW w \in Workers, pc'[w] = pc[w], run'[w] = run[w],
         tx'[w] = tx[w],
         \A r \in Refs : state[r].status # "none" => state'[r].status # "none"
  PROVE  Covered(w)'
<1>1. run[w].seen \subseteq Refs
  BY DEF TypeInv, TypeOK, Runs
<1>2. \A r \in Refs : Recorded(w, r) => Recorded(w, r)'
  BY RecordedStays DEF DoneInv
<1>3. \A r \in Refs : Outstanding(w, r) => Outstanding(w, r)'
  BY DEF Outstanding
<1> QED BY <1>1, <1>2, <1>3 DEF DoneInv, Covered

LEMMA CommitKeepsRows ==
  ASSUME DoneInv, NEW w \in Workers, Commit(w)
  PROVE  \A r \in Refs : state[r].status # "none" => state'[r].status # "none"
BY DEF DoneInv, Commit, StateAfter

LEMMA NewRunCovered ==
  ASSUME NEW w \in Workers, run'[w].seen = {}, run'[w].descs = {}
  PROVE  Covered(w)'
BY DEF Covered

(* What is left to show of a step of a run other than the commit           *)
LEMMA RunStepCovered ==
  ASSUME TypeInv, DoneInv, NEW w \in Workers, RunStep(w), ~CommitItems(w),
         Covered(w)'
  PROVE  DoneInv'
<1>1. \A x \in Workers \ {w} : Covered(x)'
  BY RunStepStays, RunStepStates, BystanderCovered
<1>2. \A r \in Refs : tx'[w].state[r].status # "none"
  BY RunStepStates DEF DoneInv
<1> QED BY <1>1, <1>2, RunStepStays DEF DoneInv

LEMMA RecordedByStep ==
  ASSUME TypeInv, DoneInv, NEW w \in Workers, RunStep(w), ~CommitItems(w),
         NEW r \in Refs, Recorded(w, r)
  PROVE  Recorded(w, r)'
<1>1. tx'[w].state[r].status # "none"
  BY RunStepStates DEF DoneInv
<1> QED BY <1>1, RunStepStates, RecordedStays

LEMMA KeptCovered ==
  ASSUME TypeInv, DoneInv, NEW w \in Workers, RunStep(w), ~CommitItems(w),
         pc[w] # "fail", run'[w].seen = run[w].seen,
         \A r \in Refs :
           Outstanding(w, r) => Recorded(w, r)' \/ Outstanding(w, r)',
         pc'[w] \notin {"sync", "fetch", "failure", "fail"} =>
           run'[w].descs = {}
  PROVE  DoneInv'
<1>1. run[w].seen \subseteq Refs
  BY DEF TypeInv, TypeOK, Runs
<1>2. Covered(w)'
  BY <1>1, RecordedByStep DEF DoneInv, Covered
<1> QED BY <1>2, RunStepCovered

LEMMA ListCovers ==
  ASSUME TypeInv, DoneInv, NEW w \in Workers, ListDescriptors(w)
  PROVE  DoneInv'
<1>1. PICK refs \in SUBSET ListingOf(Head(run[w].types)), whole \in BOOLEAN :
        run' = [run EXCEPT
          ![w].types = Tail(@),
          ![w].descs = {Descriptor(r) : r \in refs},
          ![w].seen = {r \in @ : TypeOf[r] # Head(run[w].types)} \cup refs,
          ![w].complete = IF whole THEN @ \cup {Head(run[w].types)}
                                   ELSE @ \ {Head(run[w].types)}]
  BY DEF ListDescriptors
<1>2. /\ run'[w].descs = {Descriptor(r) : r \in refs}
      /\ run'[w].seen \subseteq run[w].seen \cup refs
      /\ run'[w].items = run[w].items
  BY <1>1, ZenonT(60) DEF TypeInv, TypeOK, Runs
<1>3. /\ pc[w] = "sync" /\ run[w].descs = {} /\ UNCHANGED <<pc, state, tx>>
      /\ RunStep(w) /\ ~CommitItems(w)
  BY DEF ListDescriptors, RunStep, CommitItems
<1>4. ASSUME NEW r \in refs PROVE Outstanding(w, r)'
  <2>1. Descriptor(r) \in run'[w].descs
    BY <1>2
  <2>2. Descriptor(r).ref = r
    BY DEF Descriptor
  <2> QED BY <2>1, <2>2 DEF Outstanding
<1>5. run[w].seen \subseteq Refs
  BY DEF TypeInv, TypeOK, Runs
<1>6. \A r \in Refs : Recorded(w, r) => Recorded(w, r)'
  BY <1>3 DEF Recorded, StateAfter
<1>7. \A r \in Refs : Outstanding(w, r) => Outstanding(w, r)'
  BY <1>2, <1>3 DEF Outstanding
<1>8. Covered(w)'
  BY <1>2, <1>3, <1>4, <1>5, <1>6, <1>7 DEF DoneInv, Covered
<1> QED BY <1>3, <1>8, RunStepCovered

LEMMA DecideCovers ==
  ASSUME TypeInv, DoneInv, NEW w \in Workers, NEW d \in run[w].descs,
         Decide(w, d)
  PROVE  DoneInv'
<1>1. /\ run'[w].descs = run[w].descs \ {d} /\ run'[w].seen = run[w].seen
      /\ run'[w].items = run[w].items
      /\ \/ pc'[w] = "fetch" /\ run'[w].cur = d
         \/ /\ pc'[w] = "sync" /\ run'[w].cur = run[w].cur
            /\ ~ShouldFetch(d, StateAfter(w)[d.ref])
      /\ pc[w] = "sync" /\ state' = state /\ tx' = tx
  BY DEF Decide, Goto, TypeInv, TypeOK, Runs
<1>2. RunStep(w) /\ ~CommitItems(w)
  BY <1>1 DEF RunStep, CommitItems
<1>3. Recorded(w, d.ref)' \/ Outstanding(w, d.ref)'
  <2>1. CASE pc'[w] = "fetch" /\ run'[w].cur = d
    BY <2>1 DEF Outstanding
  <2>2. CASE ~ShouldFetch(d, StateAfter(w)[d.ref])
    BY <1>1, <2>2 DEF ShouldFetch, Recorded, StateAfter
  <2> QED BY <1>1, <2>1, <2>2
<1>4. ASSUME NEW r \in Refs, Outstanding(w, r)
      PROVE  Recorded(w, r)' \/ Outstanding(w, r)'
  <2>1. CASE r = d.ref
    BY <1>3, <2>1
  <2>2. CASE \E e \in run[w].descs : e.ref = r /\ r # d.ref
    BY <1>1, <2>2 DEF Outstanding
  <2>3. CASE \E i \in 1 .. Len(run[w].items) : run[w].items[i].ref = r
    BY <1>1, <2>3 DEF Outstanding
  <2> QED BY <1>1, <1>4, <2>1, <2>2, <2>3 DEF Outstanding
<1> QED BY <1>1, <1>2, <1>4, KeptCovered

LEMMA FetchCovers ==
  ASSUME TypeInv, DoneInv, NEW w \in Workers, FetchItem(w) PROVE DoneInv'
<1> DEFINE d == run[w].cur
<1> DEFINE item == [ref |-> d.ref, stamp |-> d.stamp, hint |-> d.hint,
                    content |-> catalog[d.ref].content]
<1>1. /\ run'[w].items = Append(run[w].items, item)
      /\ run'[w].descs = run[w].descs /\ run'[w].seen = run[w].seen
      /\ pc[w] = "fetch" /\ pc'[w] = "sync"
  BY DEF FetchItem, Goto, TypeInv, TypeOK, Runs
<1>2. RunStep(w) /\ ~CommitItems(w)
  BY <1>1 DEF RunStep, CommitItems
<1>3. /\ run[w].items \in Seq(Items)
      /\ item.ref = d.ref
  BY UpsertedRefs
<1> HIDE DEF item, d
<1>4. /\ Len(run'[w].items) = Len(run[w].items) + 1
      /\ Len(run[w].items) \in Nat
      /\ run'[w].items[Len(run[w].items) + 1] = item
      /\ \A i \in 1 .. Len(run[w].items) : run'[w].items[i] = run[w].items[i]
  BY <1>1, <1>3
<1>5. ASSUME NEW r \in Refs, Outstanding(w, r) PROVE Outstanding(w, r)'
  <2>1. CASE d.ref = r
    BY SMTT(30), <1>1, <1>3, <1>4, <2>1 DEF Outstanding
  <2>2. CASE \E e \in run[w].descs : e.ref = r
    BY <1>1, <2>2 DEF Outstanding
  <2>3. CASE \E i \in 1 .. Len(run[w].items) : run[w].items[i].ref = r
    BY <1>1, <1>4, <2>3 DEF Outstanding
  <2> QED BY <1>5, <2>1, <2>2, <2>3 DEF Outstanding, d
<1> QED BY <1>1, <1>2, <1>5, KeptCovered

LEMMA FetchFailsCovers ==
  ASSUME TypeInv, DoneInv, NEW w \in Workers, FetchFails(w) PROVE DoneInv'
<1>1. run' = run /\ pc[w] = "fetch" /\ pc'[w] = "failure"
  BY DEF FetchFails, Goto, TypeInv, TypeOK
<1>2. RunStep(w) /\ ~CommitItems(w)
  BY <1>1 DEF RunStep, CommitItems
<1>3. \A r \in Refs : Outstanding(w, r) => Outstanding(w, r)'
  BY <1>1 DEF Outstanding
<1> QED BY <1>1, <1>2, <1>3, KeptCovered

LEMMA MarkFailureCovers ==
  ASSUME TypeInv, DoneInv, NEW w \in Workers, MarkFailure(w) PROVE DoneInv'
<1>1. /\ run'[w].descs = run[w].descs /\ run'[w].seen = run[w].seen
      /\ run'[w].items = run[w].items
      /\ pc[w] = "failure" /\ pc'[w] = "sync"
  BY DEF MarkFailure, Goto, TypeInv, TypeOK, Runs
<1>2. RunStep(w) /\ ~CommitItems(w)
  BY <1>1 DEF RunStep, CommitItems
<1>3. ASSUME NEW r \in Refs, r = run[w].cur.ref PROVE Recorded(w, r)'
  <2>1. tx'[w].state[r].status = "failed"
    BY <1>3, UpsertRow DEF MarkFailure
  <2> QED BY <2>1 DEF Recorded, StateAfter
<1>4. \A r \in Refs :
        Outstanding(w, r) => Recorded(w, r)' \/ Outstanding(w, r)'
  BY <1>1, <1>3 DEF Outstanding
<1> QED BY <1>1, <1>2, <1>4, KeptCovered

LEMMA TombstoneCovers ==
  ASSUME TypeInv, DoneInv, NEW w \in Workers,
         \/ EndOfListing(w) \/ FindDeleted(w) \/ BeginIngest(w)
         \/ \E r \in run[w].dead : MarkDeleted(w, r)
  PROVE  DoneInv'
<1> run \in [Workers -> Runs]
  BY DEF TypeInv, TypeOK
<1> {"seen", "descs", "items"} \subseteq DOMAIN run[w]
  BY DEF Runs
<1>1. /\ run'[w].descs = run[w].descs /\ run'[w].seen = run[w].seen
      /\ run'[w].items = run[w].items
  BY DEF EndOfListing, FindDeleted, MarkDeleted, BeginIngest
<1>2. pc[w] \in {"sync", "tombstone"} /\ pc'[w] \in {"tombstone", "ingest"}
  BY DEF EndOfListing, FindDeleted, MarkDeleted, BeginIngest, Goto,
         TypeInv, TypeOK
<1>3. run[w].descs = {}
  BY <1>2 DEF EndOfListing, FindDeleted, MarkDeleted, BeginIngest, DoneInv,
              Covered
<1>4. RunStep(w) /\ ~CommitItems(w)
  BY <1>2 DEF RunStep, CommitItems
<1>5. \A r \in Refs : Outstanding(w, r) => Outstanding(w, r)'
  BY <1>1, <1>2 DEF Outstanding
<1> QED BY <1>1, <1>2, <1>3, <1>4, <1>5, KeptCovered

(* The steps of ingest_source_items before its commit                      *)
ItemStep(w) ==
  \/ UpsertSource(w) \/ PutRaw(w) \/ PutMd(w) \/ InsertVersion(w)
  \/ PutArtifact(w) \/ EmbedBatch(w) \/ IndexFts(w)

LEMMA ItemStepCovers ==
  ASSUME TypeInv, DoneInv, NEW w \in Workers, ItemStep(w) PROVE DoneInv'
<1> run \in [Workers -> Runs]
  BY DEF TypeInv, TypeOK
<1> {"seen", "descs", "items"} \subseteq DOMAIN run[w]
  BY DEF Runs
<1>1. /\ run'[w].descs = run[w].descs /\ run'[w].seen = run[w].seen
      /\ run'[w].items = run[w].items
  BY DEF ItemStep, UpsertSource, PutRaw, PutMd, PutBlob, InsertVersion,
         PutArtifact, EmbedBatch, IndexFts
<1>2. /\ pc[w] \in Ingesting \cup {"ingest"}
      /\ pc'[w] \in Ingesting \cup {"ingest"}
  <2> USE DEF Goto, Ingesting, TypeInv, TypeOK
  <2>1. CASE UpsertSource(w) \/ InsertVersion(w)
    BY <2>1 DEF UpsertSource, InsertVersion
  <2>2. CASE PutRaw(w) \/ PutMd(w) \/ PutArtifact(w)
    BY <2>2 DEF PutRaw, PutMd, PutBlob, PutArtifact
  <2>3. CASE EmbedBatch(w) \/ IndexFts(w)
    BY <2>3 DEF EmbedBatch, IndexFts
  <2> QED BY <2>1, <2>2, <2>3 DEF ItemStep
<1>3. RunStep(w) /\ ~CommitItems(w)
  BY DEF RunStep, ItemStep, CommitItems, UpsertSource, PutRaw, PutMd, PutBlob,
         InsertVersion, PutArtifact, EmbedBatch, IndexFts
<1>4. \A r \in Refs : Outstanding(w, r) => Outstanding(w, r)'
  BY <1>1, <1>2 DEF Outstanding, Ingesting
<1>5. run'[w].descs = {}
  BY <1>1, <1>2 DEF DoneInv, Covered, Ingesting
<1> QED BY <1>1, <1>2, <1>3, <1>4, <1>5, KeptCovered DEF Ingesting

(* A run that gives up leaves it to the status error.                      *)
LEMMA GiveUpCovers ==
  ASSUME TypeInv, DoneInv, NEW w \in Workers,
         SourceRaises(w) \/ PutFails(w) \/ EmbedFails(w)
  PROVE  DoneInv'
<1>1. pc'[w] = "fail"
  BY DEF SourceRaises, PutFails, EmbedFails, Goto, TypeInv, TypeOK
<1>2. RunStep(w) /\ ~CommitItems(w)
  BY <1>1 DEF RunStep, CommitItems, Goto, TypeInv, TypeOK
<1>3. Covered(w)'
  BY <1>1 DEF Covered
<1> QED BY <1>2, <1>3, RunStepCovered

LEMMA MarkSuccessCovers ==
  ASSUME TypeInv, DoneInv, NEW w \in Workers, MarkSuccess(w) PROVE DoneInv'
<1>1. /\ run'[w].descs = run[w].descs /\ run'[w].seen = run[w].seen
      /\ run'[w].items = run[w].items /\ run'[w].next = run[w].next + 1
      /\ pc[w] = "mark" /\ pc'[w] = "mark" /\ More(w)
  BY DEF MarkSuccess, TypeInv, TypeOK, Runs
<1>2. RunStep(w) /\ ~CommitItems(w)
  BY <1>1 DEF RunStep, CommitItems
<1>3. ASSUME NEW r \in Refs, r = Item(w).ref PROVE Recorded(w, r)'
  <2>1. tx'[w].state[r].status = "success"
    BY <1>3, UpsertRow DEF MarkSuccess
  <2> QED BY <2>1 DEF Recorded, StateAfter
<1>4. run[w].descs = {}
  BY <1>1 DEF DoneInv, Covered
<1>5. ASSUME NEW r \in Refs, Outstanding(w, r)
      PROVE  Recorded(w, r)' \/ Outstanding(w, r)'
  <2>1. PICK i \in 1 .. Len(run[w].items) :
          run[w].items[i].ref = r /\ run[w].next <= i
    BY <1>1, <1>4, <1>5 DEF Outstanding
  <2>2. CASE i = run[w].next
    BY <1>3, <2>1, <2>2 DEF Item
  <2>3. CASE i # run[w].next
    <3>1. run[w].next + 1 <= i
      BY <2>1, <2>3, UpsertedRefs
    <3> QED BY <1>1, <2>1, <3>1 DEF Outstanding
  <2> QED BY <2>2, <2>3
<1> QED BY <1>1, <1>2, <1>4, <1>5, KeptCovered

LEMMA CommitCovers ==
  ASSUME TypeInv, DoneInv, NEW w \in Workers, CommitItems(w) PROVE DoneInv'
<1> {"seen", "descs", "items", "next"} \subseteq DOMAIN run[w]
  BY DEF TypeInv, TypeOK, Runs
<1>1. pc[w] = "ingest" /\ pc'[w] = "mark" /\ tx'[w] = EmptyTx
  BY CommitItemsEnds
<1>2. /\ run'[w].seen = run[w].seen /\ run'[w].descs = run[w].descs
      /\ run'[w].items = run[w].items /\ run'[w].next = 1
  BY CommitItemsEnds
<1>3. \A r \in Refs : tx'[w].state[r].status = "unwritten"
  BY <1>1 DEF EmptyTx, Unwritten
<1>4. state' = StateAfter(w)
  BY CommitItemsEnds DEF Commit
<1>5. \A r \in Refs : Recorded(w, r) => Recorded(w, r)'
  BY <1>3, <1>4 DEF Recorded, StateAfter
<1>6. \A r \in Refs : Outstanding(w, r) => Outstanding(w, r)'
  BY <1>1, <1>2 DEF Outstanding
<1>7. run[w].seen \subseteq Refs
  BY DEF TypeInv, TypeOK, Runs
<1>8. Covered(w)'
  BY <1>1, <1>2, <1>5, <1>6, <1>7 DEF DoneInv, Covered
<1>9. ASSUME NEW x \in Workers \ {w}
      PROVE  Covered(x)' /\ \A r \in Refs : tx'[x].state[r].status # "none"
  <2>1. pc'[x] = pc[x] /\ run'[x] = run[x] /\ tx'[x] = tx[x]
    BY CommitItemsEnds
  <2>2. \A r \in Refs : state[r].status # "none" => state'[r].status # "none"
    BY CommitItemsEnds, CommitKeepsRows
  <2>3. Covered(x)'
    BY <2>1, <2>2, BystanderCovered
  <2> QED BY <2>1, <2>3 DEF DoneInv
<1> QED BY <1>3, <1>8, <1>9 DEF DoneInv

LEMMA RunStepDone ==
  ASSUME TypeInv, DoneInv, NEW w \in Workers, RunStep(w) PROVE DoneInv'
BY ListCovers, DecideCovers, FetchCovers, FetchFailsCovers, MarkFailureCovers,
   TombstoneCovers, ItemStepCovers, GiveUpCovers, MarkSuccessCovers,
   CommitCovers
   DEF RunStep, ItemStep

LEMMA NextDone == ASSUME TypeInv, DoneInv, [Next]_vars PROVE DoneInv'
<1>1. ASSUME UNCHANGED <<state, tx, pc, run>> PROVE DoneInv'
  BY <1>1, BystanderCovered DEF DoneInv
<1>2. /\ UNCHANGED vars => DoneInv'
      /\ \A r \in Refs : ChangeCatalog(r) => DoneInv'
      /\ \A j \in Jobs : CreateJob(j) => DoneInv'
  BY <1>1 DEF vars, ChangeCatalog, CreateJob
<1>3. ASSUME NEW w \in Workers,
             Restart(w) \/ \E j \in Jobs : SelectJob(w, j)
      PROVE  DoneInv'
  <2>1. /\ UNCHANGED <<state, tx, run>>
        /\ pc[w] \in {"dead", "idle"} /\ pc'[w] \in {"idle", "selected"}
        /\ \A x \in Workers \ {w} : pc'[x] = pc[x]
    BY <1>3 DEF Restart, SelectJob, Goto, TypeInv, TypeOK
  <2>2. \A r \in Refs : /\ Recorded(w, r) => Recorded(w, r)'
                        /\ Outstanding(w, r) => Outstanding(w, r)'
    BY <2>1 DEF Recorded, StateAfter, Outstanding
  <2>3. run[w].seen \subseteq Refs
    BY DEF TypeInv, TypeOK, Runs
  <2>4. Covered(w)'
    BY <2>1, <2>2, <2>3 DEF DoneInv, Covered
  <2>5. \A x \in Workers \ {w} : Covered(x)'
    BY <2>1, BystanderCovered
  <2> QED BY <2>1, <2>4, <2>5 DEF DoneInv
<1>4. ASSUME NEW w \in Workers, ClaimJob(w) PROVE DoneInv'
  <2>1. /\ UNCHANGED <<state, tx>>
        /\ run'[w].seen = {} /\ run'[w].descs = {}
        /\ \A x \in Workers \ {w} : pc'[x] = pc[x] /\ run'[x] = run[x]
    BY <1>4 DEF ClaimJob, NewRun, Goto, TypeInv, TypeOK
  <2>2. \A x \in Workers \ {w} : Covered(x)'
    BY <2>1, BystanderCovered
  <2> QED BY <2>1, <2>2, NewRunCovered DEF DoneInv
<1>5. ASSUME NEW w \in Workers, EndStep(w) \/ DeathStep(w) PROVE DoneInv'
  <2>1. /\ run'[w].seen = {} /\ run'[w].descs = {}
        /\ \A r \in Refs : tx'[w].state[r].status = "unwritten"
    BY <1>5, EndStepEnds, DeathStepEnds DEF NewRun, EmptyTx, Unwritten
  <2>2. \A r \in Refs : state[r].status # "none" => state'[r].status # "none"
    BY <1>5, EndStepEnds, DeathStepEnds, CommitKeepsRows
  <2>3. \A x \in Workers \ {w} :
          pc'[x] = pc[x] /\ run'[x] = run[x] /\ tx'[x] = tx[x]
    BY <1>5, EndStepEnds, DeathStepEnds
  <2>4. \A x \in Workers \ {w} : Covered(x)'
    BY <2>2, <2>3, BystanderCovered
  <2> QED BY <2>1, <2>3, <2>4, NewRunCovered DEF DoneInv
<1> HIDE DEF DoneInv
<1> QED BY <1>2, <1>3, <1>4, <1>5, RunStepDone, StepCases

DoneStep ==
  \A w \in Workers : pc[w] = "mark" /\ pc'[w] = "idle" =>
    \A r \in run[w].seen : state'[r].status # "none"

LEMMA StepIsRecorded ==
  ASSUME TypeInv, DoneInv, [Next]_vars PROVE DoneStep
<1> SUFFICES ASSUME NEW w \in Workers, pc[w] = "mark", pc'[w] = "idle"
             PROVE  \A r \in run[w].seen : state'[r].status # "none"
  BY DEF DoneStep
<1> DEFINE goal == \A r \in run[w].seen : state'[r].status # "none"
<1>1. EndStep(w) => goal
  <2> SUFFICES ASSUME EndStep(w), NEW r \in run[w].seen
               PROVE  state'[r].status # "none"
    OBVIOUS
  <2>1. r \in Refs
    BY DEF TypeInv, TypeOK, Runs
  <2>2. ~Outstanding(w, r)
    <3>1. ~More(w) /\ run[w].descs = {}
      BY EndStepEnds DEF DoneInv, Covered
    <3>2. \A i \in 1 .. Len(run[w].items) : ~(run[w].next <= i)
      BY <3>1, UpsertedRefs DEF More
    <3> QED BY <3>1, <3>2 DEF Outstanding
  <2>3. Recorded(w, r)
    BY <2>2 DEF DoneInv, Covered
  <2>4. state' = StateAfter(w)
    BY EndStepEnds DEF Commit
  <2> QED BY <2>1, <2>3, <2>4 DEF Recorded
<1> HIDE DEF goal
<1>2. UNCHANGED vars \/ (\E r \in Refs : ChangeCatalog(r))
        \/ (\E j \in Jobs : CreateJob(j)) => goal
  BY DEF vars, ChangeCatalog, CreateJob
<1>3. ASSUME NEW x \in Workers, ClaimJob(x) PROVE goal
  BY <1>3 DEF ClaimJob, Goto, TypeInv, TypeOK
<1>4. ASSUME NEW x \in Workers, NEW j \in Jobs, SelectJob(x, j) PROVE goal
  BY <1>4 DEF SelectJob, Goto, TypeInv, TypeOK
<1>5. ASSUME NEW x \in Workers, RunStep(x) PROVE goal
  BY <1>5, RunStepStays
<1>6. ASSUME NEW x \in Workers, EndStep(x) PROVE goal
  BY <1>1, <1>6, EndStepEnds
<1>7. ASSUME NEW x \in Workers, DeathStep(x) PROVE goal
  BY <1>7, DeathStepEnds
<1>8. ASSUME NEW x \in Workers, Restart(x) PROVE goal
  BY <1>8 DEF Restart, Goto, TypeInv, TypeOK
<1>9. goal
  BY <1>2, <1>3, <1>4, <1>5, <1>6, <1>7, <1>8, StepCases
<1> QED BY <1>9 DEF goal

(* When a job reports done, every item its listings named has a state row: *)
(* it was skipped because it had one, failed to be fetched, or was marked. *)
THEOREM DoneMeansRecorded == Spec => DoneIsRecorded
<1>1. Init => TypeInv /\ DoneInv
  BY InitTypeInv, DoneInit
<1>2. TypeInv /\ DoneInv /\ [Next]_vars => (TypeInv /\ DoneInv)'
  BY NextTypeInv, NextDone
<1>3. TypeInv /\ DoneInv /\ [Next]_vars => [DoneStep]_vars
  BY StepIsRecorded
<1>4. [][DoneStep]_vars => DoneIsRecorded
  BY PTL DEF DoneStep, DoneIsRecorded
<1> QED BY <1>1, <1>2, <1>3, <1>4, PTL DEF Spec

-----------------------------------------------------------------------------
(* The pipeline implements SearchMirror                                    *)

Tombstone == [status |-> "deleted", stamp |-> 0, hint |-> NoHint]

SomeIndexed(r) == \E c \in Contents : Indexed(<<r, c>>)

(* What a worker has marked and not committed: tombstones are empty, items *)
(* are confirmed only at the end of a run, after its first commit, when    *)
(* nothing else is pending, and each has a searchable version.             *)
MarkInv ==
  \A w \in Workers :
    /\ \A r \in Refs :
         /\ tx[w].state[r].status
              \in {"unwritten", "failed", "success", "deleted"}
         /\ tx[w].state[r].status = "deleted" => tx[w].state[r] = Tombstone
         /\ tx[w].state[r].status = "success" =>
              pc[w] = "mark" /\ SomeIndexed(r)
    /\ pc[w] = "mark" =>
         /\ tx[w].ver = {} /\ tx[w].vec = {} /\ tx[w].fts = {}
         /\ \A r \in Refs : tx[w].state[r].status \in {"unwritten", "success"}

LEMMA MarkInit == ASSUME Init PROVE MarkInv
BY DEF Init, MarkInv, EmptyTx, Unwritten

(* A transaction that has just begun                                       *)
LEMMA EmptyMarks ==
  ASSUME NEW w \in Workers, tx[w] = EmptyTx
  PROVE  /\ tx[w].ver = {} /\ tx[w].vec = {} /\ tx[w].fts = {}
         /\ \A r \in Refs : tx[w].state[r].status = "unwritten"
BY DEF EmptyTx, Unwritten

LEMMA SomeStable ==
  ASSUME Grows, NEW r, SomeIndexed(r) PROVE SomeIndexed(r)'
BY IndexedStable DEF SomeIndexed

(* One worker moves, from a stage or to a stage where nothing is confirmed *)
(* or with a transaction that is empty, and no row is taken away.          *)
LEMMA MarksStay ==
  ASSUME MarkInv, Grows, NEW w \in Workers,
         \A x \in Workers \ {w} : pc'[x] = pc[x] /\ tx'[x] = tx[x],
         \/ tx'[w] = EmptyTx
         \/ /\ pc[w] # "mark" /\ pc'[w] # "mark"
            /\ \A r \in Refs : \/ tx'[w].state[r] = tx[w].state[r]
                               \/ tx'[w].state[r].status = "failed"
                               \/ tx'[w].state[r] = Tombstone
  PROVE  MarkInv'
<1>1. \A r \in Refs : SomeIndexed(r) => SomeIndexed(r)'
  BY SomeStable
<1>2. \A x \in Workers \ {w} : \A r \in Refs :
        tx'[x].state[r].status = "success" => pc'[x] = "mark" /\ SomeIndexed(r)'
  BY <1>1 DEF MarkInv
<1>3. CASE tx'[w] = EmptyTx
  <2>1. /\ tx'[w].ver = {} /\ tx'[w].vec = {} /\ tx'[w].fts = {}
        /\ \A r \in Refs : tx'[w].state[r].status = "unwritten"
    BY <1>3 DEF EmptyTx, Unwritten
  <2> QED BY <1>2, <2>1 DEF MarkInv
<1>4. CASE /\ pc[w] # "mark" /\ pc'[w] # "mark"
           /\ \A r \in Refs : \/ tx'[w].state[r] = tx[w].state[r]
                              \/ tx'[w].state[r].status = "failed"
                              \/ tx'[w].state[r] = Tombstone
  <2>1. \A r \in Refs :
          /\ tx'[w].state[r].status \in {"unwritten", "failed", "deleted"}
          /\ tx'[w].state[r].status = "deleted" =>
               tx'[w].state[r] = Tombstone
    BY <1>4 DEF MarkInv, Tombstone
  <2> QED BY <1>2, <1>4, <2>1 DEF MarkInv
<1> QED BY <1>3, <1>4

(* What a step of a run other than its commit marks                        *)
LEMMA RunStepMarks ==
  ASSUME TypeInv, NEW w \in Workers, RunStep(w), ~CommitItems(w), ~MarkSuccess(w)
  PROVE  /\ UNCHANGED tables
         /\ pc[w] # "mark" /\ pc'[w] # "mark"
         /\ \A r \in Refs : \/ tx'[w].state[r] = tx[w].state[r]
                            \/ tx'[w].state[r].status = "failed"
                            \/ tx'[w].state[r] = Tombstone
<1> USE DEF TypeInv, TypeOK, Transactions, Goto
<1>1. CASE ListDescriptors(w) \/ \E d \in run[w].descs : Decide(w, d)
  BY <1>1 DEF ListDescriptors, Decide
<1>2. CASE FetchItem(w) \/ FetchFails(w) \/ SourceRaises(w)
  BY <1>2 DEF FetchItem, FetchFails, SourceRaises
<1>3. CASE EndOfListing(w) \/ FindDeleted(w) \/ BeginIngest(w)
  BY <1>3 DEF EndOfListing, FindDeleted, BeginIngest
<1>4. CASE UpsertSource(w) \/ PutRaw(w) \/ PutMd(w) \/ PutArtifact(w)
  BY <1>4 DEF UpsertSource, PutRaw, PutMd, PutBlob, PutArtifact
<1>5. CASE PutFails(w) \/ EmbedFails(w) \/ InsertVersion(w)
  BY <1>5, SMTT(60) DEF PutFails, EmbedFails, InsertVersion
<1>6. CASE EmbedBatch(w)
  BY <1>6 DEF EmbedBatch
<1>9. CASE IndexFts(w)
  BY <1>9 DEF IndexFts
<1> HIDE DEF TypeInv, TypeOK, Transactions, Goto
<1>7. CASE MarkFailure(w)
  <2>1. UNCHANGED tables /\ pc[w] # "mark" /\ pc'[w] # "mark"
    BY <1>7 DEF MarkFailure, Goto, TypeInv, TypeOK
  <2> QED BY <1>7, <2>1, UpsertRow, UpsertedRefs DEF MarkFailure
<1>8. ASSUME NEW r \in run[w].dead, MarkDeleted(w, r)
      PROVE  /\ UNCHANGED tables /\ pc[w] # "mark" /\ pc'[w] # "mark"
             /\ tx'[w].state[r] = Tombstone
             /\ \A q \in Refs \ {r} : tx'[w].state[q] = tx[w].state[q]
  <2>1. r \in Refs
    BY UpsertedRefs
  <2> QED BY <1>8, <2>1, UpsertRow DEF MarkDeleted, Tombstone
<1> QED BY SMTT(30), <1>1, <1>2, <1>3, <1>4, <1>5, <1>6, <1>7, <1>8, <1>9
        DEF RunStep

LEMMA MarkSuccessMarks ==
  ASSUME TypeInv, SkipInv, MarkInv, NEW w \in Workers, MarkSuccess(w)
  PROVE  MarkInv'
<1>1. /\ Item(w).ref \in Refs /\ Key(Item(w)) \in Keys
      /\ run[w].next \in 1 .. Len(run[w].items)
  <2>1. More(w) /\ Item(w) \in Items
    BY ItemType DEF MarkSuccess, TypeInv
  <2> QED BY <2>1, UpsertedRefs DEF Items, Key, Keys
<1>2. pc[w] = "mark" /\ UNCHANGED <<tables, pc>>
  BY DEF MarkSuccess
<1>3. SomeIndexed(Item(w).ref)
  <2>1. Indexed(Key(Item(w)))
    BY <1>1, <1>2 DEF SkipInv, WorkerInv, Item
  <2>2. Key(Item(w)) = <<Item(w).ref, Item(w).content>> /\ Item(w).content \in Contents
    BY <1>1 DEF Key, Keys
  <2> QED BY <2>1, <2>2 DEF SomeIndexed
<1>4. /\ tx'[w].state[Item(w).ref].status = "success"
      /\ \A q \in Refs \ {Item(w).ref} : tx'[w].state[q] = tx[w].state[q]
  BY <1>1, UpsertRow DEF MarkSuccess
<1>5. /\ tx'[w].ver = tx[w].ver /\ tx'[w].vec = tx[w].vec
      /\ tx'[w].fts = tx[w].fts
      /\ \A x \in Workers \ {w} : tx'[x] = tx[x]
  BY DEF MarkSuccess, UpsertState, TypeInv, TypeOK, Transactions
<1>6. \A r \in Refs : SomeIndexed(r) => SomeIndexed(r)'
  BY <1>2 DEF SomeIndexed, Indexed
<1>7. \A r \in Refs :
        /\ tx'[w].state[r].status \in {"unwritten", "success"}
        /\ tx'[w].state[r].status = "success" => SomeIndexed(r)'
  BY <1>2, <1>3, <1>4, <1>6 DEF MarkInv
<1>8. \A x \in Workers \ {w} : \A r \in Refs :
        tx'[x].state[r].status = "success" => pc'[x] = "mark" /\ SomeIndexed(r)'
  BY <1>2, <1>5, <1>6 DEF MarkInv
<1> QED BY <1>2, <1>5, <1>7, <1>8 DEF MarkInv

LEMMA CommitGrows == ASSUME NEW w \in Workers, Commit(w) PROVE Grows
BY DEF Commit, VerSeen, VecSeen, FtsSeen, Grows

LEMMA NextMarks ==
  ASSUME TypeInv, SkipInv, MarkInv, [Next]_vars PROVE MarkInv'
<1>1. ASSUME UNCHANGED <<tables, tx, pc>> PROVE MarkInv'
  <2>1. \A r \in Refs : SomeIndexed(r)' <=> SomeIndexed(r)
    BY <1>1 DEF SomeIndexed, Indexed
  <2> QED BY <1>1, <2>1 DEF MarkInv
<1>2. /\ UNCHANGED vars => MarkInv'
      /\ \A r \in Refs : ChangeCatalog(r) => MarkInv'
      /\ \A j \in Jobs : CreateJob(j) => MarkInv'
  BY <1>1 DEF vars, ChangeCatalog, CreateJob
<1>3. ASSUME NEW w \in Workers,
             Restart(w) \/ ClaimJob(w) \/ \E j \in Jobs : SelectJob(w, j)
      PROVE  MarkInv'
  <2>1. /\ UNCHANGED <<tables, tx>> /\ pc[w] # "mark" /\ pc'[w] # "mark"
        /\ \A x \in Workers \ {w} : pc'[x] = pc[x]
    BY <1>3 DEF Restart, ClaimJob, SelectJob, Goto, TypeInv, TypeOK
  <2>2. Grows
    BY <2>1 DEF Grows
  <2> QED BY <2>1, <2>2, MarksStay
<1>4. ASSUME NEW w \in Workers, RunStep(w) PROVE MarkInv'
  <2>1. CASE CommitItems(w)
    <3>1. /\ Grows /\ tx'[w] = EmptyTx
          /\ \A x \in Workers \ {w} : pc'[x] = pc[x] /\ tx'[x] = tx[x]
      BY <2>1, CommitItemsEnds, CommitGrows
    <3> QED BY <3>1, MarksStay
  <2>2. CASE MarkSuccess(w)
    BY <2>2, MarkSuccessMarks
  <2>3. CASE ~CommitItems(w) /\ ~MarkSuccess(w)
    <3>1. Grows
      BY <1>4, <2>3, RunStepMarks DEF Grows
    <3> QED BY <1>4, <2>3, <3>1, RunStepMarks, RunStepStays, MarksStay
  <2> QED BY <2>1, <2>2, <2>3
<1>5. ASSUME NEW w \in Workers, EndStep(w) PROVE MarkInv'
  BY <1>5, EndStepEnds, CommitGrows, MarksStay
<1>6. ASSUME NEW w \in Workers, DeathStep(w) PROVE MarkInv'
  <2>1. Grows
    BY <1>6, DeathStepEnds DEF Grows
  <2> QED BY <1>6, <2>1, DeathStepEnds, MarksStay
<1> HIDE DEF MarkInv
<1> QED BY <1>2, <1>3, <1>4, <1>5, <1>6, StepCases

-----------------------------------------------------------------------------
(* The refinement: initial states, then steps                              *)

LEMMA MirrorInit == ASSUME Init PROVE Mirror!Init
<1>1. catalog \in [Refs -> [content : Contents \cup {NoContent}, stamp : {1}]]
  BY DEF Init
<1>2. SearchIndex = {}
  BY DEF Init, SearchIndex, Indexed
<1> QED BY <1>1, <1>2 DEF Init, NoState, Mirror!Init, Mirror!Unknown

LEMMA IndexGrows == ASSUME Grows PROVE SearchIndex \subseteq SearchIndex'
BY IndexedStable DEF SearchIndex

LEMMA IndexStays == ASSUME UNCHANGED tables PROVE SearchIndex' = SearchIndex
BY DEF SearchIndex, Indexed

(* An indexed pair is in the index.                                        *)
LEMMA IndexedKey ==
  ASSUME TypeInv, NEW r, NEW c, Indexed(<<r, c>>)
  PROVE  <<r, c>> \in SearchIndex
<1>1. PICK v \in ver : v.key = <<r, c>>
  BY DEF Indexed
<1>2. v \in Versions
  BY <1>1 DEF TypeInv, TypeOK
<1> QED BY <1>1, <1>2 DEF Versions, SearchIndex

LEMMA CommittedRows ==
  ASSUME TypeInv, NEW w \in Workers, Commit(w)
  PROVE  \A r \in Refs : state'[r] = IF tx[w].state[r].status = "unwritten"
                                       THEN state[r] ELSE tx[w].state[r]
BY DEF Commit, StateAfter

(* A committed row was written.                                            *)
RowsInv == \A r \in Refs : state[r].status # "unwritten"

LEMMA CommittedTypes ==
  ASSUME TypeInv, RowsInv, NEW w \in Workers, Commit(w)
  PROVE  RowsInv' /\ state' \in [Refs -> Mirror!Rows]
<1>1. state' = [r \in Refs |-> IF tx[w].state[r].status = "unwritten"
                                 THEN state[r] ELSE tx[w].state[r]]
  BY DEF Commit, StateAfter
<1>2. ASSUME NEW r \in Refs
      PROVE  state'[r] \in SyncStates /\ state'[r].status # "unwritten"
  <2>1. state[r] \in SyncStates /\ tx[w].state[r] \in SyncStates
    BY DEF TypeInv, TypeOK, Transactions
  <2> QED BY <1>1, <2>1 DEF RowsInv
<1>3. \A r \in Refs : state'[r] \in Mirror!Rows
  BY <1>2 DEF SyncStates, Mirror!Rows
<1> QED BY <1>1, <1>2, <1>3 DEF RowsInv

LEMMA NextRows == ASSUME TypeInv, RowsInv, [Next]_vars PROVE RowsInv'
<1>1. state' = state => RowsInv'
  BY DEF RowsInv
<1>2. \A w \in Workers : Commit(w) => RowsInv'
  BY CommittedTypes
<1> HIDE DEF RowsInv
<1>3. /\ UNCHANGED vars => RowsInv'
      /\ \A r \in Refs : ChangeCatalog(r) => RowsInv'
      /\ \A j \in Jobs : CreateJob(j) => RowsInv'
      /\ \A w \in Workers, j \in Jobs : SelectJob(w, j) => RowsInv'
      /\ \A w \in Workers : ClaimJob(w) => RowsInv'
      /\ \A w \in Workers : Restart(w) => RowsInv'
  BY <1>1 DEF vars, ChangeCatalog, CreateJob, SelectJob, ClaimJob, Restart
<1>4. \A w \in Workers : RunStep(w) => RowsInv'
  BY <1>1, <1>2, CommitItemsEnds, RunStepStates
<1>5. \A w \in Workers : EndStep(w) => RowsInv'
  BY <1>2, EndStepEnds
<1>6. \A w \in Workers : DeathStep(w) => RowsInv'
  BY <1>1, DeathStepEnds
<1> QED BY <1>3, <1>4, <1>5, <1>6, StepCases

(* A commit of a run that has nothing marked as synchronised               *)
LEMMA PublishStep ==
  ASSUME TypeInv, RowsInv, TombInv, MarkInv, NEW w \in Workers, Commit(w),
         catalog' = catalog, pc[w] # "mark"
  PROVE  Mirror!Publish
<1>1. /\ SearchIndex \subseteq SearchIndex'
      /\ SearchIndex' \subseteq Refs \X Contents
  BY CommitGrows, IndexGrows DEF SearchIndex, Keys
<1>2. ASSUME NEW r \in Refs
      PROVE  \/ state'[r] = state[r]
             \/ state'[r].status = "failed"
             \/ state'[r] = Mirror!Tombstone /\ ~Mirror!Untouched(r)
  <2>1. CASE tx[w].state[r].status = "unwritten"
    BY <2>1, CommittedRows
  <2>2. CASE tx[w].state[r].status = "failed"
    BY <2>2, CommittedRows
  <2>3. CASE tx[w].state[r].status = "deleted"
    <3>1. tx[w].state[r] = Tombstone /\ ~Untouched(r)
      BY <2>3 DEF MarkInv, TombInv
    <3> QED BY <2>3, <3>1, CommittedRows
            DEF Tombstone, Untouched, Live, Mirror!Tombstone, Mirror!Untouched
  <2>4. tx[w].state[r].status \in {"unwritten", "failed", "deleted"}
    BY DEF MarkInv
  <2> QED BY <2>1, <2>2, <2>3, <2>4
<1> QED BY <1>1, <1>2, CommittedTypes DEF Mirror!Publish

(* The commit of a run that has marked every item                          *)
LEMMA ConfirmStep ==
  ASSUME TypeInv, RowsInv, SkipInv, MarkInv, NEW w \in Workers, Commit(w),
         catalog' = catalog, pc[w] = "mark"
  PROVE  Mirror!Confirm
<1>1. UNCHANGED <<ver, vec, fts>>
  BY DEF Commit, VerSeen, VecSeen, FtsSeen, MarkInv
<1>2. SearchIndex' = SearchIndex
  BY <1>1 DEF SearchIndex, Indexed
<1>3. ASSUME NEW r \in Refs
      PROVE  \/ state'[r] = state[r]
             \/ /\ state'[r].status = "success"
                /\ \E c \in Contents : <<r, c>> \in SearchIndex
                /\ state'[r].stamp <= catalog[r].stamp
                /\ state'[r].stamp = catalog[r].stamp =>
                     <<r, catalog[r].content>> \in SearchIndex
  <2>1. CASE tx[w].state[r].status = "unwritten"
    BY <2>1, CommittedRows
  <2>2. CASE tx[w].state[r].status = "success"
    <3>1. state'[r] = tx[w].state[r]
      BY <2>2, CommittedRows
    <3>2. RowSafe(r, tx[w].state[r])
      BY DEF SkipInv, WorkerInv
    <3>3. /\ tx[w].state[r].stamp <= catalog[r].stamp
          /\ tx[w].state[r].stamp = catalog[r].stamp =>
               <<r, catalog[r].content>> \in SearchIndex
      BY <2>2, <3>2, IndexedKey DEF RowSafe
    <3>4. \E c \in Contents : <<r, c>> \in SearchIndex
      BY <2>2, IndexedKey DEF MarkInv, SomeIndexed
    <3> QED BY <2>2, <3>1, <3>3, <3>4
  <2>3. tx[w].state[r].status \in {"unwritten", "success"}
    BY DEF MarkInv
  <2> QED BY <2>1, <2>2, <2>3
<1> QED BY <1>2, <1>3, CommittedTypes DEF Mirror!Confirm

LEMMA MirrorStep ==
  ASSUME TypeInv, RowsInv, SkipInv, TombInv, MarkInv, [Next]_vars
  PROVE  [Mirror!Next]_Mirror!vars
<1> DEFINE Goal == Mirror!Next \/ UNCHANGED Mirror!vars
<1>1. ASSUME UNCHANGED <<catalog, tables>> PROVE Goal
  BY <1>1, IndexStays DEF Mirror!vars
<1>2. ASSUME NEW w \in Workers, Commit(w), catalog' = catalog PROVE Goal
  <2>1. Mirror!Publish \/ Mirror!Confirm
    BY <1>2, PublishStep, ConfirmStep
  <2> QED BY <2>1 DEF Mirror!Next
<1>3. ASSUME NEW r \in Refs, ChangeCatalog(r) PROVE Goal
  <2>1. PICK c \in (Contents \cup {NoContent}) \ {catalog[r].content} :
          catalog' = [catalog EXCEPT ![r] = [content |-> c,
                                             stamp |-> catalog[r].stamp + 1]]
    BY <1>3 DEF ChangeCatalog
  <2>2. state' = state /\ SearchIndex' = SearchIndex
    BY <1>3, IndexStays DEF ChangeCatalog
  <2>3. Mirror!Change(r, c)
    BY <2>1, <2>2 DEF Mirror!Change
  <2> QED BY <2>1, <2>3 DEF Mirror!Next
<1> HIDE DEF Goal
<1>4. UNCHANGED vars => Goal
  BY <1>1 DEF vars
<1>5. \A j \in Jobs : CreateJob(j) => Goal
  BY <1>1 DEF CreateJob
<1>6. ASSUME NEW w \in Workers,
             Restart(w) \/ ClaimJob(w) \/ \E j \in Jobs : SelectJob(w, j)
      PROVE  Goal
  BY <1>1, <1>6 DEF Restart, ClaimJob, SelectJob
<1>7. ASSUME NEW w \in Workers, RunStep(w) PROVE Goal
  <2>1. CASE CommitItems(w)
    BY <1>2, <2>1, CommitItemsEnds
  <2>2. CASE MarkSuccess(w)
    BY <1>1, <2>2 DEF MarkSuccess
  <2>3. CASE ~CommitItems(w) /\ ~MarkSuccess(w)
    BY <1>1, <1>7, <2>3, RunStepMarks, RunStepStays
  <2> QED BY <2>1, <2>2, <2>3
<1>8. ASSUME NEW w \in Workers, EndStep(w) PROVE Goal
  BY <1>2, <1>8, EndStepEnds
<1>9. ASSUME NEW w \in Workers, DeathStep(w) PROVE Goal
  BY <1>1, <1>9, DeathStepEnds
<1>10. Goal
  BY <1>3, <1>4, <1>5, <1>6, <1>7, <1>8, <1>9, StepCases
<1> QED BY <1>10 DEF Goal

(* IngestPipeline implements SearchMirror: whatever the workers do, crash  *)
(* or abort, what becomes visible is a first commit that makes versions    *)
(* searchable or a second that confirms searchable ones.                   *)
THEOREM PipelineMirrors == Spec => Mirrored
<1> DEFINE Inv == TypeInv /\ RowsInv /\ SkipInv /\ TombInv /\ MarkInv
<1>1. Init => Inv
  <2>1. Init => RowsInv
    BY DEF Init, RowsInv, NoState
  <2> QED BY <2>1, InitTypeInv, SkipInit, TombInit, MarkInit
<1>2. Inv /\ [Next]_vars => Inv'
  BY NextTypeInv, NextRows, NextSkip, NextTombs, NextMarks
<1>3. Init => Mirror!Init
  BY MirrorInit
<1>4. Inv /\ [Next]_vars => [Mirror!Next]_Mirror!vars
  BY MirrorStep
<1> QED BY <1>1, <1>2, <1>3, <1>4, PTL DEF Spec, Mirrored, Mirror!Spec

-----------------------------------------------------------------------------
(* What follows from SearchMirror alone                                    *)

(* What the rows say is true of the index.                                 *)
RowsAreTrue ==
  \A r \in Refs :
    /\ state[r].status = "deleted" => state[r].stamp = 0
    /\ state[r].status = "success" =>
         /\ state[r].stamp <= catalog[r].stamp
         /\ state[r].stamp = catalog[r].stamp =>
              <<r, catalog[r].content>> \in SearchIndex

MirrorInv ==
  /\ catalog \in [Refs -> [content : Contents \cup {NoContent},
                           stamp : Nat \ {0}]]
  /\ state \in [Refs -> Mirror!Rows]
  /\ RowsAreTrue

LEMMA MirrorInvInit == ASSUME Mirror!Init PROVE MirrorInv
<1>1. Mirror!Unknown \in Mirror!Rows /\ Mirror!Unknown.status = "none"
  BY DEF Mirror!Unknown, Mirror!Rows
<1>2. \A r \in Refs : state[r] = Mirror!Unknown
  BY DEF Mirror!Init
<1>3. RowsAreTrue
  BY <1>1, <1>2 DEF RowsAreTrue
<1>4. state \in [Refs -> Mirror!Rows]
  BY <1>1 DEF Mirror!Init
<1> QED BY <1>3, <1>4 DEF Mirror!Init, MirrorInv

LEMMA MirrorInvChange ==
  ASSUME MirrorInv, NEW r \in Refs, NEW c \in Contents \cup {NoContent},
         Mirror!Change(r, c)
  PROVE  MirrorInv'
<1>1. /\ state' = state /\ SearchIndex' = SearchIndex
      /\ catalog' = [catalog EXCEPT ![r] = [content |-> c,
                                           stamp |-> catalog[r].stamp + 1]]
  BY DEF Mirror!Change
<1>2. /\ catalog[r].stamp \in Nat
      /\ state[r].stamp \in Nat
  BY DEF MirrorInv, Mirror!Rows
<1>3. /\ catalog'[r].stamp = catalog[r].stamp + 1
      /\ \A q \in Refs \ {r} : catalog'[q] = catalog[q]
  BY <1>1 DEF MirrorInv
<1>4. RowsAreTrue'
  <2>1. state[r].status = "success" => state[r].stamp <= catalog[r].stamp
    BY DEF MirrorInv, RowsAreTrue
  <2>2. state[r].status = "success" =>
          /\ state[r].stamp <= catalog'[r].stamp
          /\ state[r].stamp # catalog'[r].stamp
    BY <1>2, <1>3, <2>1
  <2>3. RowsAreTrue
    BY DEF MirrorInv
  <2>4. ASSUME NEW q \in Refs
        PROVE  /\ state'[q].status = "deleted" => state'[q].stamp = 0
               /\ state'[q].status = "success" =>
                    /\ state'[q].stamp <= catalog'[q].stamp
                    /\ state'[q].stamp = catalog'[q].stamp =>
                         <<q, catalog'[q].content>> \in SearchIndex'
    <3>1. CASE q = r
      BY <1>1, <2>2, <2>3, <3>1 DEF RowsAreTrue
    <3>2. CASE q # r
      BY <1>1, <1>3, <2>3, <3>2 DEF RowsAreTrue
    <3> QED BY <3>1, <3>2
  <2> QED BY <2>4 DEF RowsAreTrue
<1>5. catalog' \in [Refs -> [content : Contents \cup {NoContent},
                            stamp : Nat \ {0}]]
  BY <1>1, <1>2 DEF MirrorInv
<1> QED BY <1>1, <1>4, <1>5 DEF MirrorInv

LEMMA MirrorInvPublish ==
  ASSUME MirrorInv, Mirror!Publish PROVE MirrorInv'
<1>1. /\ catalog' = catalog /\ SearchIndex \subseteq SearchIndex'
      /\ state' \in [Refs -> Mirror!Rows]
      /\ \A r \in Refs : \/ state'[r] = state[r]
                         \/ state'[r].status = "failed"
                         \/ state'[r] = Mirror!Tombstone
  BY DEF Mirror!Publish
<1>2. Mirror!Tombstone.status = "deleted" /\ Mirror!Tombstone.stamp = 0
  BY DEF Mirror!Tombstone
<1>3. RowsAreTrue'
  BY <1>1, <1>2 DEF MirrorInv, RowsAreTrue
<1> QED BY <1>1, <1>3 DEF MirrorInv

LEMMA MirrorInvConfirm ==
  ASSUME MirrorInv, Mirror!Confirm PROVE MirrorInv'
<1>1. /\ catalog' = catalog /\ SearchIndex' = SearchIndex
      /\ state' \in [Refs -> Mirror!Rows]
  BY DEF Mirror!Confirm
<1>2. RowsAreTrue'
  BY <1>1 DEF Mirror!Confirm, MirrorInv, RowsAreTrue
<1> QED BY <1>1, <1>2 DEF MirrorInv

LEMMA MirrorInvNext ==
  ASSUME MirrorInv, [Mirror!Next]_Mirror!vars PROVE MirrorInv'
<1>1. CASE UNCHANGED Mirror!vars
  BY <1>1 DEF Mirror!vars, MirrorInv, RowsAreTrue
<1>2. CASE Mirror!Next
  BY <1>2, MirrorInvChange, MirrorInvPublish, MirrorInvConfirm DEF Mirror!Next
<1> QED BY <1>1, <1>2

LEMMA TrueRowsSkipSafely == ASSUME MirrorInv PROVE SkipIsSafe
<1> SUFFICES ASSUME NEW r \in Refs, state[r].status # "failed",
                    ~ShouldFetch(Descriptor(r), state[r])
             PROVE  Indexed(<<r, catalog[r].content>>)
  BY DEF SkipIsSafe
<1>1. /\ state[r] \in Mirror!Rows /\ catalog[r].stamp \in Nat \ {0}
      /\ state[r].stamp \in Nat
  BY DEF MirrorInv, Mirror!Rows
<1>2. state[r].status # "none" /\ ~(catalog[r].stamp > state[r].stamp)
  BY DEF ShouldFetch, Descriptor
<1>3. /\ state[r].status = "deleted" => state[r].stamp = 0
      /\ state[r].status = "success" =>
           /\ state[r].stamp <= catalog[r].stamp
           /\ state[r].stamp = catalog[r].stamp =>
                <<r, catalog[r].content>> \in SearchIndex
  BY DEF MirrorInv, RowsAreTrue
<1>4. state[r].status = "success"
  <2>1. state[r].status # "deleted"
    BY <1>1, <1>2, <1>3
  <2> QED BY <1>1, <1>2, <2>1 DEF Mirror!Rows
<1>5. state[r].stamp = catalog[r].stamp
  BY <1>1, <1>2, <1>3, <1>4
<1> QED BY <1>3, <1>4, <1>5 DEF SearchIndex

(* Whatever implements SearchMirror skips only items that are searchable   *)
(* with the content they have: nothing else of the pipeline is needed.     *)
THEOREM MirrorsSkipSafely == Mirrored => []SkipIsSafe
<1>1. Mirror!Init => MirrorInv
  BY MirrorInvInit
<1>2. MirrorInv /\ [Mirror!Next]_Mirror!vars => MirrorInv'
  BY MirrorInvNext
<1>3. MirrorInv => SkipIsSafe
  BY TrueRowsSkipSafely
<1> QED BY <1>1, <1>2, <1>3, PTL DEF Mirrored, Mirror!Spec
=============================================================================
