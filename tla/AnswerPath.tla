------------------------------ MODULE AnswerPath ------------------------------
(***************************************************************************)
(* How POST /v1/query comes from a question to an answer with sources      *)
(* (post_query in api/routes.py, from the embedding on): candidates,       *)
(* ranking, context, generation, verification and the agent pipeline, for  *)
(* the questions of one conversation, while documents are being indexed.   *)
(***************************************************************************)
EXTENDS ContextAssembly, AgentPipeline

CONSTANTS
  Corpora,       \* what is in the tables chunks, chunk_vectors, chunk_fts
  Late,          \* documents that may be committed later
  Configs,       \* settings and requests' top_k
  Queries,       \* what is asked
  Tenant,        \* the tenant who asks
  LexLimit,      \* k_lex and
  VecLimit,      \* k_vec of _fetch_candidates
  Threshold,     \* CONFIDENCE_FALLBACK_THRESHOLD, in thousandths
  NumCtx,        \* LLM_NUM_CTX
  PromptWords,   \* words of the prompt without the chunks,
  HeadWords,     \* and of the heading of each chunk
  TraceWindow,   \* the 20 of _apply_memory_boosting
  MaxRequests    \* bound: requests of the conversation

(* expansion: "none" and "window" without the engine, or its mode          *)
Expansions == {"none", "window", "base", "neighbor", "doc_neighbor"}

ConfigType == [topK : Nat \ {0}, expansion : Expansions, generation : BOOLEAN,
               memory : BOOLEAN, maxTokens : Nat]

SettingsOK ==
  /\ CapsOK /\ Configs \subseteq ConfigType
  /\ LexLimit \in Nat \ {0} /\ VecLimit \in Nat \ {0}
  /\ NumCtx \in Nat /\ PromptWords \in Nat /\ HeadWords \in Nat
  /\ Threshold \in Nat /\ TraceWindow \in Nat \ {0} /\ MaxRequests \in Nat
  /\ \A c \in Configs : c.maxTokens <= NumCtx

(* A row of the table chunks, with what chunk_vectors and chunk_fts have   *)
RowType ==
  [id : Nat, doc : Nat, ord : Nat, tenant : STRING, words : Nat, emb : Nat,
   lex : [Queries -> Nat], vec : [Queries -> Int]]

(* chunk_id is the primary key, and _insert_chunks numbers the chunks of a *)
(* document.                                                               *)
CorporaOK ==
  \A C \in Corpora :
    /\ IsFiniteSet(C) /\ C \subseteq RowType
    /\ \A r, s \in C :
         r.id = s.id \/ (r.doc = s.doc /\ r.ord = s.ord) => r = s

VARIABLES
  config, chunks,  \* one initial choice
  committed,       \* the documents that are indexed
  requests,
  stage,           \* where the request is
  query,
  lexical,         \* chunk ids found by their words
  nearest,         \* chunk ids found by their vectors
  ranked,          \* tenant_safe_ranked
  context,         \* chosen
  output,          \* what the language model returned
  reply,           \* what the client got: a result and a verdict
  traces           \* retrieval_trace_items of the conversation, newest first

answerVars == <<config, chunks, committed, requests, stage, query, lexical,
                nearest, ranked, context, output, reply, traces>>

Nothing == [result |-> "none", verdict |-> "none", confidence |-> 0]

AnswerInit ==
  /\ config \in Configs /\ chunks \in Corpora
  /\ committed \in {D \in SUBSET {r.doc : r \in chunks} :
                      {r.doc : r \in chunks} \ D \subseteq Late}
  /\ requests = 0 /\ stage = "idle" /\ query \in Queries
  /\ lexical = {} /\ nearest = {} /\ ranked = {} /\ context = {}
  /\ output = "none" /\ reply = Nothing /\ traces = <<>>

(* The worker commits a document with its chunks, vectors and words.       *)
Index(doc) ==
  /\ stage # "idle" /\ doc \notin committed
  /\ committed' = committed \cup {doc}
  /\ UNCHANGED <<config, chunks, requests, stage, query, lexical, nearest,
                 ranked, context, output, reply, traces>>

(* tenant_id = :tenant_id, in every statement of TenantRepository          *)
OfTenant(rows) == {r \in rows : r.tenant = Tenant}

Visible == OfTenant({r \in chunks : r.doc \in committed})

-----------------------------------------------------------------------------
Receive(q) ==
  /\ stage = "idle" /\ requests < MaxRequests
  /\ requests' = requests + 1 /\ query' = q /\ stage' = "lexical"
  /\ lexical' = {} /\ nearest' = {} /\ ranked' = {} /\ context' = {}
  /\ output' = "none" /\ reply' = Nothing
  /\ UNCHANGED <<config, chunks, committed, traces>>

Refuse(result) ==
  /\ stage' = "idle"
  /\ reply' = [Nothing EXCEPT !.result = result]
  /\ UNCHANGED <<config, chunks, committed, requests, query, lexical, nearest,
                 ranked, context, output, traces>>

(* fetch_lexical_candidate_scores                                          *)
FetchLexical ==
  LET score(r) == r.lex[query] IN
  /\ stage = "lexical" /\ stage' = "vector"
  /\ \E S \in Limited({r \in Visible : score(r) > 0}, LexLimit, score) :
       lexical' = {r.id : r \in S}
  /\ UNCHANGED <<config, chunks, committed, requests, query, nearest, ranked,
                 context, output, reply, traces>>

(* fetch_vector_candidates_by_similarity                                   *)
FetchVector ==
  LET score(r) == r.vec[query] IN
  /\ stage = "vector" /\ stage' = "rank"
  /\ \E S \in Limited(Visible, VecLimit, score) : nearest' = {r.id : r \in S}
  /\ UNCHANGED <<config, chunks, committed, requests, query, lexical, ranked,
                 context, output, reply, traces>>

(* hydrate_candidates, hybrid_rank, rerank, hybrid_rank and the boosts     *)
RankCandidates ==
  /\ stage = "rank" /\ stage' = "expand"
  /\ LET rows == {r \in Visible : r.id \in lexical \cup nearest}
     IN ranked' = Boosted(HybridRank(rows, lexical, query), traces)
  /\ UNCHANGED <<config, chunks, committed, requests, query, lexical, nearest,
                 context, output, reply, traces>>

(* The chunks for the context, whose statements read the tables again      *)
ExpandContext ==
  /\ stage = "expand" /\ stage' = "budget"
  /\ context' = CASE config.expansion = "none" ->
                       FirstBy(ranked, config.topK, Before)
                  [] config.expansion = "window" ->
                       ExpandNeighbors(Visible, ranked, config.topK)
                  [] OTHER ->
                       Expand(config.expansion, Visible, ranked,
                              config.maxTokens)
  /\ UNCHANGED <<config, chunks, committed, requests, query, lexical, nearest,
                 ranked, output, reply, traces>>

(* apply_context_budget                                                    *)
CutContext ==
  /\ stage = "budget" /\ stage' = "generate"
  /\ context' = ApplyBudget(context, config.maxTokens)
  /\ UNCHANGED <<config, chunks, committed, requests, query, lexical, nearest,
                 ranked, output, reply, traces>>

(* _assert_prompt_within_num_ctx                                           *)
PromptTokens ==
  LET words == PromptWords
                 + MapThenSumSet(LAMBDA c : HeadWords + c.row.words, context)
  IN (133 * words) \div 100

TooLong == PromptTokens > Largest({1, NumCtx - Margin})

Generates == context # {} /\ config.generation

(* What the language model may return: an error, no JSON or a refusal;     *)
(* JSON that is no object; an object with an answer that is empty, or has  *)
(* sentences that the chunks do not support, or none.                      *)
Outputs == {"refusal", "not_object", "empty", "unsupported", "supported"}

PromptTooLong ==
  /\ stage = "generate" /\ Generates /\ TooLong
  /\ Refuse("too_long")

(* parsed.get of a list                                                    *)
OutputRaises ==
  /\ stage = "generate" /\ Generates /\ ~TooLong
  /\ Refuse("internal")

Generate ==
  /\ stage = "generate" /\ ~(Generates /\ TooLong)
  /\ stage' = "analyse"
  /\ output' \in IF Generates THEN Outputs \ {"not_object"} ELSE {"none"}
  /\ UNCHANGED <<config, chunks, committed, requests, query, lexical, nearest,
                 ranked, context, reply, traces>>

(* Faulty variant: only an empty answer is refused.                        *)
FaultyVerdict ==
  IF context # {} /\ (config.generation => output \notin {"refusal", "empty"})
    THEN "PASS" ELSE "FAIL"

(* only_sources: verify_answer, and the refusals                           *)
Verdict ==
  IF context # {} /\ (config.generation => output = "supported")
    THEN "PASS" ELSE "FAIL"

(* The order of the context, of which the first gives the confidence       *)
InContext(a, b) ==
  LET base == Base(ranked)
      docs == IF config.expansion = "doc_neighbor" THEN ChosenDocs(base) ELSE {}
      d == a.row.doc
      e == b.row.doc
  IN IF config.expansion = "none" THEN Before(a, b)
     ELSE \/ d = e /\ InText(a, b)
          \/ d # e /\ d \in docs /\ (e \in docs => DocBefore(base, d, e))
          \/ d # e /\ d \notin docs /\ e \notin docs /\ d < e

Confidence ==
  IF ~config.generation THEN 1000
  ELSE IF context = {} THEN 0
  ELSE (CHOOSE c \in context :
          \A d \in context \ {c} : InContext(c, d)).score

Analysed ==
  [needed |-> FALSE, depth |-> 0, maxDepth |-> 0, confidence |-> Confidence,
   threshold |-> IF config.generation THEN Threshold ELSE -1,
   verdict |-> Verdict]

(* The rows written for this request, the last one first                   *)
TraceRows ==
  [i \in 1..Cardinality(ranked) |->
     LET c == CHOOSE c \in ranked :
                Rank(c, ranked, Before) = Cardinality(ranked) + 1 - i
     IN [id |-> c.row.id, used |-> c.row.id \in Ids(context)]]

Newest(s) == SubSeq(s, 1, Smallest({TraceWindow, Len(s)}))

(* AgentPipeline.run, and what follows if it does not raise                *)
Analyse ==
  /\ stage = "analyse" /\ stage' = "idle"
  /\ reply' = [result |-> PipelineResult(Analysed),
               verdict |-> PipelineVerdict(Analysed),
               confidence |-> Confidence]
  /\ traces' = IF config.memory /\ reply'.result # "raised"
                 THEN Newest(TraceRows \o traces) ELSE traces
  /\ UNCHANGED <<config, chunks, committed, requests, query, lexical, nearest,
                 ranked, context, output>>

(* The call of the embeddings service fails.                               *)
EmbeddingFails == stage = "lexical" /\ Refuse("no_embedding")

AnswerNext ==
  \/ \E q \in Queries : Receive(q)
  \/ EmbeddingFails \/ FetchLexical \/ FetchVector \/ RankCandidates
  \/ ExpandContext \/ CutContext
  \/ PromptTooLong \/ OutputRaises \/ Generate \/ Analyse
  \/ \E doc \in Late : Index(doc)

AnswerSpec == AnswerInit /\ [][AnswerNext]_answerVars
-----------------------------------------------------------------------------
(* The chunks the context starts from                                      *)
Start ==
  IF config.expansion \in {"none", "window"}
    THEN FirstBy(ranked, config.topK, Before) ELSE Base(ranked)

(* Whatever is indexed meanwhile, a chunk of the context belongs to the    *)
(* tenant and was among the best retrieved, or lies in the window around   *)
(* one of these in its document, and there are no more of the latter than  *)
(* the caps allow.                                                         *)
ContextIsJustified ==
  stage = "budget" =>
    LET extra == {c \in context : c.row.id \notin Ids(Start)} IN
    /\ \A c \in context : c.row.tenant = Tenant
    /\ \A c \in extra : \E s \in Start :
         /\ c.row.doc = s.row.doc
         /\ c.row.ord \in s.row.ord - NeighborWindow .. s.row.ord + NeighborWindow
    /\ Cardinality(extra) <=
         CASE config.expansion \in {"none", "base"} -> 0
           [] config.expansion = "window" -> HardCap
           [] OTHER -> ExtraTotal

(* A chunk that was retrieved stays in the context once, with the score it *)
(* was retrieved with, also if it is a neighbour of a better one.          *)
RetrievedKeepScores ==
  stage \in {"budget", "generate"} =>
    \A c \in context, s \in Start : c.row.id = s.row.id => c.score = s.score

(* The context is within MAX_CONTEXT_TOKENS, with the marker of a chunk    *)
(* that was truncated and with every estimate rounded.                     *)
ContextFits ==
  stage = "generate" => TokensOf(context) <= config.maxTokens

(* However much is dropped for the budget, a context has a chunk with the  *)
(* best score of all that were retrieved, truncated if it must be, unless  *)
(* top_k is more than the cap of the expansion.                            *)
BestIsKept ==
  stage = "generate" /\ context # {}
    /\ (config.expansion = "window" => config.topK <= Cap(config.topK)) =>
       \E c \in context : \A s \in ranked : c.score >= s.score

(* An answer passes only with sources, above the threshold, and, if it was *)
(* generated, with every sentence supported by them.                       *)
PassIsSupported ==
  reply.verdict = "PASS" =>
    /\ context # {} /\ reply.result = "answer"
    /\ config.generation =>
         /\ output = "supported"
         /\ \E c \in context : c.score \in Threshold..1000

(* Assertion of AnalysisAgentOutput: "confidence must be in [0, 1]"        *)
ConfidenceInRange == reply.confidence \in 0..1000
=============================================================================
