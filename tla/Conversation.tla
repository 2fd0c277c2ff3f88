----------------------------- MODULE Conversation -----------------------------
(***************************************************************************)
(* One conversation of POST /v1/query (post_query in api/routes.py) over   *)
(* the tables of ConversationRepository.  Every repository call commits by *)
(* itself, requests run in threads of their own, and each may fail or die  *)
(* between two commits.                                                    *)
(***************************************************************************)
EXTENDS AgentPipeline, Sequences, FiniteSets

CONSTANTS
  Configs,           \* settings and load; one is chosen in the initial state
  SummaryThreshold,  \* CONVERSATION_SUMMARY_THRESHOLD_TURNS
  MaxDepth,          \* MAX_CLARIFICATION_DEPTH
  MaxScan,           \* max_scan of count_recent_consecutive_clarifications
  Threshold,         \* CONFIDENCE_FALLBACK_THRESHOLD, in thousandths
  Confidences        \* confidences the analysis may have, in thousandths

(* rewrite: USE_LLM_QUERY_REWRITE;  loop: USE_CLARIFICATION_LOOP           *)
(* generation: USE_LLM_GENERATION                                          *)
(* audited: whether the log call before the rewriter passes arguments its  *)
(*   function takes, as it does not at this commit                         *)
(* requests, parallel: bounds, on all requests and on those at a time      *)
ConfigType == [rewrite : BOOLEAN, loop : BOOLEAN, generation : BOOLEAN,
               audited : BOOLEAN, requests : Nat, parallel : Nat]

ASSUME ConversationAssumption ==
  /\ Configs \subseteq ConfigType
  /\ SummaryThreshold \in Nat /\ MaxDepth \in Nat /\ MaxScan \in Nat
  /\ Threshold \in Int /\ Confidences \subseteq Int

VARIABLES
  config,
  status,       \* conversations.status, "absent" without a row
  aged,         \* last_active_at is older than CONVERSATION_TTL_MINUTES
  turns,        \* conversation_turns in the order of turn_index
  resolutions,  \* query_resolutions in the order of created_at
  summaries,    \* conversation_summaries by version: covers_turn_index_to
  traced,       \* requests with rows in retrieval_trace_items
  pc,           \* per request: where it is
  local,        \* per request: its local variables
  reply         \* per request: what the client got

tables == <<status, aged, turns, resolutions, summaries, traced>>
vars == <<config, tables, pc, local, reply>>

Requests == 1..config.requests
Errors   == {"conflict", "failed", "internal"}
Answers  == Results \ {"raised"}

Busy == {r \in Requests : pc[r] \notin {"new", "done"}}

(* The columns the requests go by                                          *)
Statuses       == {"absent", "active", "archived"}
TurnRows       == [role : {"user", "assistant"}, req : Requests,
                   kind : Answers \cup {"question"}]
ResolutionRows == [req : Requests, needed : BOOLEAN]
SummaryRows    == Nat

NoLocal == [idx |-> 0, covers |-> 0, asked |-> 0, needed |-> FALSE,
            depth |-> 0, result |-> "none"]

Init ==
  /\ config \in Configs
  /\ status = "absent" /\ aged = FALSE
  /\ turns = <<>> /\ resolutions = <<>> /\ summaries = <<>> /\ traced = {}
  /\ pc = [r \in Requests |-> "new"]
  /\ local = [r \in Requests |-> NoLocal]
  /\ reply = [r \in Requests |-> "none"]

-----------------------------------------------------------------------------
(* Steps of a request                                                      *)

Goto(r, from, to) == pc[r] = from /\ pc' = [pc EXCEPT ![r] = to]

(* The request ends with reply a and forgets its variables.                *)
End(r, a) ==
  /\ pc' = [pc EXCEPT ![r] = "done"]
  /\ local' = [local EXCEPT ![r] = NoLocal]
  /\ reply' = [reply EXCEPT ![r] = a]
  /\ UNCHANGED config

Fail(r, a) == End(r, a) /\ UNCHANGED tables

(* The user is away for longer than the TTL.                               *)
Age ==
  /\ Busy = {} /\ status # "absent" /\ ~aged
  /\ \E r \in Requests : pc[r] = "new"
  /\ aged' = TRUE
  /\ UNCHANGED <<config, status, turns, resolutions, summaries, traced, pc,
                 local, reply>>

(* The checks of the headers, the audit of the request, get_conversation   *)
Arrive(r) ==
  /\ \A q \in 1..(r - 1) : pc[q] # "new"
  /\ Cardinality(Busy) < config.parallel
  /\ Goto(r, "new", CASE status = "absent" -> "create"
                      [] status # "absent" /\ aged -> "archive"
                      [] OTHER -> "touch")
  /\ UNCHANGED <<config, tables, local, reply>>

Create(r) ==
  /\ pc[r] = "create"
  /\ \/ /\ status = "absent" /\ status' = "active" /\ aged' = FALSE
        /\ Goto(r, "create", "index")
        /\ UNCHANGED <<config, turns, resolutions, summaries, traced, local,
                       reply>>
     \/ status # "absent" /\ Fail(r, "conflict")

(* Faulty variant: a status that is not in the enumeration                 *)
FaultyArchive(r) ==
  /\ Goto(r, "archive", "touch")
  /\ status' = "expired" /\ aged' = FALSE
  /\ UNCHANGED <<config, turns, resolutions, summaries, traced, local, reply>>

(* mark_conversation_archived, which is also the last activity             *)
Archive(r) ==
  /\ Goto(r, "archive", "touch")
  /\ status' = "archived" /\ aged' = FALSE
  /\ UNCHANGED <<config, turns, resolutions, summaries, traced, local, reply>>

Touch(r) ==
  /\ Goto(r, "touch", "index")
  /\ aged' = FALSE
  /\ UNCHANGED <<config, status, turns, resolutions, summaries, traced, local,
                 reply>>

(* get_next_turn_index                                                     *)
NextTurnIndex == Len(turns) + 1

(* Faulty variant: the index of the last turn                              *)
FaultyReadIndex(r, from, to) ==
  /\ Goto(r, from, to)
  /\ local' = [local EXCEPT ![r].idx = IF turns = <<>> THEN 1 ELSE Len(turns)]
  /\ UNCHANGED <<config, tables, reply>>

ReadIndex(r, from, to) ==
  /\ Goto(r, from, to)
  /\ local' = [local EXCEPT ![r].idx = NextTurnIndex]
  /\ UNCHANGED <<config, tables, reply>>

(* Faulty variant: a taken index is written over.                          *)
FaultyStored(i, turn) ==
  /\ i <= NextTurnIndex
  /\ turns' = [j \in 1..(IF i > Len(turns) THEN i ELSE Len(turns)) |->
                 IF j = i THEN turn ELSE turns[j]]

(* uq_conversation_turns_conversation_turn_index                           *)
Stored(i, turn) == i = NextTurnIndex /\ turns' = Append(turns, turn)

(* create_turn of the user's turn                                          *)
InsertUser(r) ==
  LET turn == [role |-> "user", req |-> r, kind |-> "question"] IN
  /\ pc[r] = "insertUser"
  /\ \/ /\ Stored(local[r].idx, turn)
        /\ Goto(r, "insertUser", "summary")
        /\ UNCHANGED <<config, status, aged, resolutions, summaries, traced,
                       local, reply>>
     \/ ~(local[r].idx = NextTurnIndex) /\ Fail(r, "conflict")

Covered == IF summaries = <<>> THEN 0 ELSE summaries[Len(summaries)]

(* Faulty variant: list_turns in ascending order: the summary covers the   *)
(* oldest turns only.                                                      *)
FaultySummary(r) ==
  LET needed == Len(turns) >= SummaryThreshold /\ SummaryThreshold > Covered
  IN /\ Goto(r, "summary", IF needed THEN "summarize" ELSE "pending")
     /\ local' = [local EXCEPT ![r].covers =
                    IF needed THEN SummaryThreshold ELSE 0]
     /\ UNCHANGED <<config, tables, reply>>

(* list_turns and get_latest_summary: is a new summary due?                *)
Summary(r) ==
  LET needed == Len(turns) >= SummaryThreshold /\ Len(turns) > Covered
  IN /\ Goto(r, "summary", IF needed THEN "summarize" ELSE "pending")
     /\ local' = [local EXCEPT ![r].covers = IF needed THEN Len(turns) ELSE 0]
     /\ UNCHANGED <<config, tables, reply>>

(* summarize, then the version after the latest, to be inserted            *)
Summarize(r) ==
  /\ Goto(r, "summarize", "insertSummary")
  /\ local' = [local EXCEPT ![r].idx = Len(summaries) + 1]
  /\ UNCHANGED <<config, tables, reply>>

(* create_summary, under the primary key of conversation_summaries         *)
InsertSummary(r) ==
  /\ pc[r] = "insertSummary"
  /\ \/ /\ local[r].idx = Len(summaries) + 1
        /\ summaries' = Append(summaries, local[r].covers)
        /\ Goto(r, "insertSummary", "pending")
        /\ UNCHANGED <<config, status, aged, turns, resolutions, traced, local,
                       reply>>
     \/ local[r].idx # Len(summaries) + 1 /\ Fail(r, "conflict")

Newest == resolutions[Len(resolutions)]

(* get_latest_query_resolution: asked is the request whose question the    *)
(* rewriter is told to be pending.                                         *)
Pending(r) ==
  /\ Goto(r, "pending", IF config.rewrite THEN "rewrite" ELSE "retrieve")
  /\ local' = [local EXCEPT
       ![r].asked = IF resolutions # <<>> /\ Newest.needed
                      THEN Newest.req ELSE 0]
  /\ UNCHANGED <<config, tables, reply>>

(* log_event(db, ...) is the function of core/logging.py, which takes one  *)
(* positional argument.                                                    *)
LogRaises(r) ==
  /\ pc[r] = "rewrite" /\ ~config.audited
  /\ Fail(r, "internal")

(* The rewriter answers; low: confidence < REWRITE_CONFIDENCE_THRESHOLD.   *)
(* create_query_resolution commits its answer with the question.           *)
Rewrite(r, needed, low) ==
  /\ config.audited
  /\ Goto(r, "rewrite", IF config.loop THEN "count" ELSE "retrieve")
  /\ local' = [local EXCEPT ![r].needed = needed,
                            ![r].result = IF needed /\ low THEN "ask" ELSE "none"]
  /\ resolutions' = Append(resolutions, [req |-> r, needed |-> needed])
  /\ UNCHANGED <<config, status, aged, turns, summaries, traced, reply>>

(* Faulty variant: the resolution just written is not counted.             *)
FaultyStreak == 0

(* count_recent_consecutive_clarifications                                 *)
Streak ==
  CHOOSE n \in 0..Len(resolutions) :
    /\ n <= MaxScan
    /\ \A i \in 0..(n - 1) : resolutions[Len(resolutions) - i].needed
    /\ \/ n = MaxScan \/ n = Len(resolutions)
       \/ ~resolutions[Len(resolutions) - n].needed

Depth(r) == Streak + (IF local[r].needed THEN 1 ELSE 0)

(* Faulty variant: a confident rewriting is not asked about.               *)
FaultyResult(r, depth, confidence) ==
  PipelineResult([needed |-> local[r].needed /\ local[r].result = "ask",
                  depth |-> depth,
                  maxDepth |-> MaxDepth, confidence |-> confidence,
                  threshold |-> IF config.generation THEN Threshold ELSE -1])

Result(r, depth, confidence) ==
  PipelineResult([needed |-> local[r].needed, depth |-> depth,
                  maxDepth |-> MaxDepth, confidence |-> confidence,
                  threshold |-> IF config.generation THEN Threshold ELSE -1])

(* Faulty variant: the clarification is returned without being stored.     *)
FaultyCount(r) ==
  /\ pc[r] = "count"
  /\ LET ask == local[r].result = "ask" IN
     /\ pc' = [pc EXCEPT ![r] = IF ask THEN "respond" ELSE "retrieve"]
     /\ local' = [local EXCEPT
          ![r].depth = Depth(r),
          ![r].result = IF ask THEN Result(r, Depth(r), 0) ELSE "none"]
  /\ UNCHANGED <<config, tables, reply>>

(* The clarification loop: a question with low confidence is put to the    *)
(* user, or given up, before anything is retrieved.                        *)
Count(r) ==
  /\ pc[r] = "count"
  /\ LET ask == local[r].result = "ask" IN
     /\ pc' = [pc EXCEPT ![r] = IF ask THEN "answerIndex" ELSE "retrieve"]
     /\ local' = [local EXCEPT
          ![r].depth = Depth(r),
          ![r].result = IF ask THEN Result(r, Depth(r), 0) ELSE "none"]
  /\ UNCHANGED <<config, tables, reply>>

(* Embedding, candidates, boosting by the traces of the conversation,      *)
(* generation, and the final run of the pipeline, whose confidence is the  *)
(* score of the first chunk; a boosted score may exceed 1.                 *)
Answer(r, c) ==
  /\ pc[r] = "retrieve"
  /\ c > 1000 => traced # {}
  /\ LET confidence == IF config.generation THEN c ELSE 1000
         result == Result(r, local[r].depth, confidence) IN
     \/ result = "raised" /\ Fail(r, "failed")
     \/ /\ result # "raised"
        /\ Goto(r, "retrieve", "trace")
        /\ local' = [local EXCEPT ![r].result = result]
        /\ UNCHANGED <<config, tables, reply>>

(* create_retrieval_trace_items, whatever the pipeline made of the answer  *)
Trace(r) ==
  /\ Goto(r, "trace", "answerIndex")
  /\ \/ traced' = traced \cup {r}
     \/ UNCHANGED traced               \* no candidates
  /\ UNCHANGED <<config, status, aged, turns, resolutions, summaries, local,
                 reply>>

(* create_turn of the assistant's turn                                     *)
InsertAnswer(r) ==
  LET turn == [role |-> "assistant", req |-> r, kind |-> local[r].result] IN
  /\ pc[r] = "insertAnswer"
  /\ \/ /\ Stored(local[r].idx, turn)
        /\ Goto(r, "insertAnswer", "respond")
        /\ UNCHANGED <<config, status, aged, resolutions, summaries, traced,
                       local, reply>>
     \/ ~(local[r].idx = NextTurnIndex) /\ Fail(r, "conflict")

Respond(r) == pc[r] = "respond" /\ End(r, local[r].result) /\ UNCHANGED tables

(* A call of another service fails, or the process dies.                   *)
Break(r) == r \in Busy /\ Fail(r, "failed")

Step(r) ==
  \/ Arrive(r) \/ Create(r) \/ Archive(r) \/ Touch(r)
  \/ ReadIndex(r, "index", "insertUser") \/ InsertUser(r)
  \/ Summary(r) \/ Summarize(r) \/ InsertSummary(r)
  \/ Pending(r) \/ LogRaises(r)
  \/ \E needed, low \in BOOLEAN : Rewrite(r, needed, low)
  \/ Count(r) \/ \E c \in Confidences : Answer(r, c)
  \/ Trace(r)
  \/ ReadIndex(r, "answerIndex", "insertAnswer") \/ InsertAnswer(r)
  \/ Respond(r)

Next == Age \/ \E r \in Requests : Step(r) \/ Break(r)

Spec == Init /\ [][Next]_vars

-----------------------------------------------------------------------------
Steps == {"new", "create", "archive", "touch", "index", "insertUser",
          "summary", "summarize", "insertSummary", "pending", "rewrite",
          "count", "retrieve", "trace", "answerIndex", "insertAnswer",
          "respond", "done"}

TypeOK ==
  /\ config \in Configs
  /\ status \in Statuses /\ aged \in BOOLEAN
  /\ turns \in Seq(TurnRows)
  /\ resolutions \in Seq(ResolutionRows)
  /\ summaries \in Seq(SummaryRows)
  /\ traced \subseteq Requests
  /\ pc \in [Requests -> Steps]
  /\ local \in [Requests -> [idx : Nat, covers : Nat, asked : Requests \cup {0},
                             needed : BOOLEAN, depth : Nat,
                             result : Answers \cup {"none", "ask"}]]
  /\ reply \in [Requests -> Answers \cup Errors \cup {"none"}]

Has(role, r) == \E i \in 1..Len(turns) : turns[i].role = role /\ turns[i].req = r

(* Whatever overlaps, every answer in the history comes after its own      *)
(* question, and no question or answer is there twice: the history that    *)
(* later requests are rewritten with pairs them.                           *)
AnswersFollowQuestions ==
  \A i \in 1..Len(turns) :
    /\ turns[i].role = "assistant" =>
         \E j \in 1..(i - 1) : turns[j].role = "user" /\ turns[j].req = turns[i].req
    /\ \A j \in 1..(i - 1) : turns[j].role = turns[i].role => turns[j].req # turns[i].req

(* A client that got an answer, a clarification or a fallback finds it in  *)
(* the history; only a request that failed leaves its question alone.      *)
RepliesAreStored ==
  \A r \in Requests :
    /\ reply[r] \in Answers =>
         \E i \in 1..Len(turns) : turns[i] = [role |-> "assistant", req |-> r,
                                              kind |-> reply[r]]
    /\ pc[r] = "done" /\ Has("user", r) /\ ~Has("assistant", r) =>
         reply[r] \in Errors

(* Only overlapping requests collide on a turn index or a summary version, *)
(* and not all of those that did can have lost.                            *)
ConflictsNeedOverlap ==
  \A r \in Requests :
    reply[r] = "conflict" =>
      /\ config.parallel > 1
      /\ \E q \in Requests \ {r} : pc[q] # "new" /\ reply[q] # "conflict"

Shown(r) == [role |-> "assistant", req |-> r, kind |-> "clarification"]
              \in {turns[i] : i \in 1..Len(turns)}

(* Requests that come one after another ask the user back at most          *)
(* MaxDepth - 1 times in a row, once less than the depth says, because the *)
(* streak counts the resolution just written and adds one for it.          *)
ClarificationsBounded ==
  config.loop /\ config.parallel = 1 =>
    \A i, j \in 1..Len(resolutions) :
      (\A k \in i..j : resolutions[k].needed) =>
        Cardinality({k \in i..j : Shown(resolutions[k].req)}) <= MaxDepth - 1

(* The rewriter is told of a pending question only if that question was    *)
(* put to the user, or given up for its depth, or its request has failed   *)
(* or still runs.                                                          *)
PendingWasAsked ==
  \A r \in Requests :
    LET q == local[r].asked IN
      q # 0 => \/ Shown(q) \/ reply[q] \in Errors \cup {"depth_exceeded"}
               \/ q \in Busy

(* A request that is through has its question covered by some summary once *)
(* there are enough turns; one after another, each summary covers more     *)
(* than the one before.                                                    *)
SummaryKeepsUp ==
  /\ \A i \in 1..Len(turns) :
       /\ SummaryThreshold <= i
       /\ turns[i].role = "user" /\ reply[turns[i].req] \in Answers
       => \E v \in 1..Len(summaries) : summaries[v] >= i
  /\ config.parallel = 1 =>
       \A v \in 2..Len(summaries) : summaries[v - 1] < summaries[v]

(* The rewriting contract (docs/contracts/query_rewriter_sp3.md): with the *)
(* flag on the rewriter is invoked; its failures are what ends a request.  *)
RewriterInvoked ==
  \A r \in Requests : config.rewrite => reply[r] # "internal"
=============================================================================
