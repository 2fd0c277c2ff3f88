---------------------------- MODULE ContextAssembly ----------------------------
(***************************************************************************)
(* From ranked candidates to the chunks of the prompt: expand_neighbors    *)
(* and apply_context_budget (services/query_pipeline.py), and the modes of *)
(* ContextExpansionEngine (services/context_expansion.py).                 *)
(***************************************************************************)
EXTENDS Ranking, FiniteSetsExt

CONSTANTS
  DefaultTopK,   \* DEFAULT_TOP_K
  HardCap,       \* the 12 of expand_neighbors
  NeighborWindow,  \* NEIGHBOR_WINDOW, EXPAND_NEIGHBORS_WINDOW
  BaseChunks,    \* CONTEXT_EXPANSION_TOPK_BASE, within its hard cap
  MaxDocs,       \* CONTEXT_EXPANSION_MAX_DOCS
  ExtraTotal,    \* EXPAND_MAX_EXTRA_TOTAL
  ExtraPerDoc,   \* EXPAND_MAX_EXTRA_PER_DOC
  MinGain,       \* CONTEXT_EXPANSION_MIN_GAIN, in thousandths
  Margin         \* TOKEN_BUDGET_SAFETY_MARGIN

CapsOK ==
  /\ DefaultTopK \in Nat \ {0} /\ HardCap \in Nat \ {0}
  /\ NeighborWindow \in Nat \ {0}
  /\ BaseChunks \in Nat \ {0} /\ MaxDocs \in Nat \ {0}
  /\ ExtraTotal \in Nat /\ ExtraPerDoc \in Nat /\ MinGain \in Nat
  /\ Margin \in Nat

Ids(S) == {c.row.id : c \in S}

(* document_id, ordinal, chunk_id                                          *)
InText(a, b) ==
  \/ a.row.doc < b.row.doc
  \/ a.row.doc = b.row.doc /\ a.row.ord < b.row.ord
  \/ a.row.doc = b.row.doc /\ a.row.ord = b.row.ord /\ a.row.id < b.row.id

Distance(a, b) == IF a.ord < b.ord THEN b.ord - a.ord ELSE a.ord - b.ord

(* Faulty variant: the window is one chunk wider.                          *)
FaultyNear(r, s) == r.doc = s.doc /\ Distance(r, s) <= NeighborWindow + 1

(* Is chunk r in the window around chunk s?                                *)
Near(r, s) == r.doc = s.doc /\ Distance(r, s) <= NeighborWindow

(* A neighbour has a share of the score of the chunk it was fetched for.   *)
Neighbor(r, anchor) ==
  [row |-> r, hybrid |-> 0, score |-> (anchor.score * 92) \div 100]

(* Faulty variant: a chunk that was retrieved may come again as a          *)
(* neighbour.                                                              *)
FaultyNew(rows, base) == rows

(* Those that are not in the context yet                                   *)
New(rows, base) == {r \in rows : r.id \notin Ids(base)}

-----------------------------------------------------------------------------
(* expand_neighbors                                                        *)

(* The base chunk of the document that is closest, of two the better       *)
ClosestOf(r, base) ==
  LET Lt(a, b) == \/ Distance(r, a.row) < Distance(r, b.row)
                  \/ Distance(r, a.row) = Distance(r, b.row) /\ Before(a, b)
  IN CHOOSE a \in base :
       /\ a.row.doc = r.doc
       /\ \A b \in base \ {a} : b.row.doc = r.doc => Lt(a, b)

(* fetch_neighbors: document after document, as they appear in the base    *)
FetchNeighbors(rows, base, n) ==
  LET found == {Neighbor(r, ClosestOf(r, base)) :
                  r \in {r \in New(rows, base) : \E a \in base : Near(r, a.row)}}
      docRank(c) == Smallest({Rank(a, base, Before) :
                                a \in {a \in base : a.row.doc = c.row.doc}})
      Lt(a, b) == \/ docRank(a) < docRank(b)
                  \/ docRank(a) = docRank(b) /\ InText(a, b)
  IN FirstBy(found, n, Lt)

Cap(topK) == Smallest({HardCap, 3 * Largest({topK, DefaultTopK})})

ExpandNeighbors(rows, ranked, topK) ==
  LET base == FirstBy(ranked, topK, Before)
      room == Largest({0, Cap(topK) - Cardinality(base)})
  IN FirstBy(base \cup FetchNeighbors(rows, base, room), Cap(topK), InText)

-----------------------------------------------------------------------------
(* ContextExpansionEngine.expand                                           *)

Base(ranked) == FirstBy(ranked, BaseChunks, Before)

(* Mode "neighbor": the windows of the base chunks, the best one first,    *)
(* until there are ExtraTotal more chunks                                  *)
AroundChunks(rows, base) ==
  LET anchor(r) == CHOOSE a \in base :
                     /\ Near(r, a.row)
                     /\ \A b \in base \ {a} : Near(r, b.row) => Before(a, b)
      Lt(r, s) == \/ Before(anchor(r), anchor(s))
                  \/ anchor(r) = anchor(s) /\ r.ord < s.ord
      found == {r \in New(rows, base) : \E a \in base : Near(r, a.row)}
  IN {Neighbor(r, anchor(r)) : r \in FirstBy(found, ExtraTotal, Lt)}

(* The best base chunk of a document                                       *)
AnchorOf(doc, base) ==
  CHOOSE a \in base :
    a.row.doc = doc /\ \A b \in base \ {a} :
      b.row.doc = doc =>
        a.score > b.score \/ (a.score = b.score /\ InText(a, b))

DocsOf(base) == {a.row.doc : a \in base}

(* The documents of the base by their first, then by their id              *)
DocBefore(base, d, e) ==
  LET s(doc) == AnchorOf(doc, base).score
  IN s(d) > s(e) \/ (s(d) = s(e) /\ d < e)

ChosenDocs(base) ==
  LET Lt(d, e) == DocBefore(base, d, e) IN FirstBy(DocsOf(base), MaxDocs, Lt)

(* Mode "doc_neighbor": the window of the best chunk of each of the best   *)
(* documents, ExtraPerDoc chunks of each and ExtraTotal of all.  Links add *)
(* nothing: no row of document_links names a document.                     *)
AroundDocs(rows, base) ==
  LET ofDoc(d) ==
        LET Lt(r, s) == r.ord < s.ord
        IN FirstBy({r \in New(rows, base) : Near(r, AnchorOf(d, base).row)},
                   ExtraPerDoc, Lt)
      Lt(r, s) == \/ DocBefore(base, r.doc, s.doc)
                  \/ r.doc = s.doc /\ r.ord < s.ord
      found == UNION {ofDoc(d) : d \in ChosenDocs(base)}
  IN {Neighbor(r, AnchorOf(r.doc, base)) : r \in FirstBy(found, ExtraTotal, Lt)}

(* Among several of one chunk the best                                     *)
Dedup(S) ==
  {c \in S : \A d \in S : d.row.id = c.row.id => d.score <= c.score}

(* _redundancy_filter: one of every embedding, the first                   *)
RedundancyFilter(S) ==
  {c \in S : \A d \in S \ {c} : d.row.emb = c.row.emb => Before(c, d)}

(* estimate_tokens, without tiktoken                                       *)
Tokens(words) == Largest({1, (133 * words + 50) \div 100})
TokensOf(S)   == MapThenSumSet(LAMBDA c : Tokens(c.row.words), S)

(* _budget_select: the best ones, until one adds too little or does not    *)
(* fit                                                                     *)
BudgetSelect(S, maxTokens) ==
  LET Lt(a, b)  == a.score > b.score \/ (a.score = b.score /\ InText(a, b))
      until(c)  == {d \in S : d = c \/ Lt(d, c)}
      penalty(c) == IF \E d \in until(c) \ {c} : d.row.emb = c.row.emb
                      THEN 80 ELSE 0
      fits(c)   == /\ c.score - penalty(c) >= MinGain
                   /\ TokensOf(until(c)) <= maxTokens
  IN {c \in S : \A d \in until(c) : fits(d)}

(* expand; "base" is the mode with EXPAND_NEIGHBORS_ENABLED off            *)
Expand(mode, rows, ranked, maxTokens) ==
  LET base == Base(ranked)
      more == CASE mode = "neighbor"     -> AroundChunks(rows, base)
                [] mode = "doc_neighbor" -> AroundDocs(rows, base)
  IN IF mode = "base" THEN BudgetSelect(base, maxTokens)
     ELSE BudgetSelect(RedundancyFilter(Dedup(base \cup more)), maxTokens)

-----------------------------------------------------------------------------
(* apply_context_budget                                                    *)

Effective(maxTokens) == Largest({0, maxTokens - Margin})

(* Faulty variant: as many words as tokens                                 *)
FaultyTruncated(words, tokens) ==
  1 + Smallest({words, Largest({1, tokens})})

(* _truncate_text_to_tokens: the number of words, the marker is one; where *)
(* nothing fits the marker is cut and marked once more.                    *)
Truncated(words, tokens) ==
  IF tokens <= 0 THEN 2
  ELSE 1 + Smallest({words, Largest({1, (100 * tokens) \div 133})})

(* Faulty variant: the best chunks are dropped first.                      *)
FaultyKeptLonger(a, b) ==
  a.score < b.score \/ (a.score = b.score /\ a.row.id > b.row.id)

(* The chunk with the lowest score is dropped first, of two the one with   *)
(* the lower id.                                                           *)
KeptLonger(a, b) ==
  a.score > b.score \/ (a.score = b.score /\ a.row.id > b.row.id)

ApplyBudget(S, maxTokens) ==
  LET B == Effective(maxTokens)
      kept == {c \in S : TokensOf({d \in S : d = c \/ KeptLonger(d, c)}) <= B}
      best == CHOOSE c \in S : \A d \in S \ {c} : Before(c, d)
  IN IF S = {} THEN {}
     ELSE IF kept # {} THEN kept
     ELSE {[best EXCEPT !.row.words = Truncated(@, B)]}
=============================================================================
