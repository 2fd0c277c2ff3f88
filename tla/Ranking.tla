------------------------------- MODULE Ranking -------------------------------
(***************************************************************************)
(* Ranking of the candidates of a query (services/retrieval.py, and        *)
(* _apply_memory_boosting in api/routes.py).  Scores are in thousandths.   *)
(*                                                                         *)
(* A chunk is a record of its id, its document doc and place ord in it,    *)
(* its tenant, its words, its embedding emb (chunks too similar to be both *)
(* in a context have the same), and its scores lex[q], vec[q] for query q. *)
(* A candidate is [row, hybrid, score]: the chunk and its two scores.      *)
(***************************************************************************)
EXTENDS Integers, Sequences, FiniteSets

(* The first n of S in the order Lt                                        *)
FirstBy(S, n, Lt(_, _)) == {x \in S : Cardinality({y \in S : Lt(y, x)}) < n}
Rank(x, S, Lt(_, _))    == Cardinality({y \in S : Lt(y, x)}) + 1

Largest(S)  == CHOOSE x \in S : \A y \in S : y <= x
Smallest(S) == CHOOSE x \in S : \A y \in S : x <= y

(* What ORDER BY score DESC LIMIT n may return: equal scores are cut at    *)
(* the limit in any way.                                                   *)
Limited(S, n, score(_)) ==
  {T \in SUBSET S :
     /\ Cardinality(T) = IF n < Cardinality(S) THEN n ELSE Cardinality(S)
     /\ \A a \in T, b \in S \ T : score(a) >= score(b)}

(* min_max_normalize                                                       *)
Normalized(v, V) ==
  IF Largest(V) = Smallest(V) THEN 1000
  ELSE ((v - Smallest(V)) * 1000) \div (Largest(V) - Smallest(V))

(* hybrid_rank of the chunks rows, of which those in lexical were found by *)
(* their words.  Whatever the reranker made of the order before is lost.   *)
HybridRank(rows, lexical, q) ==
  LET lex(r) == IF r.id \in lexical THEN r.lex[q] ELSE 0
      Lex == {lex(r) : r \in rows}
      Vec == {r.vec[q] : r \in rows}
      hybrid(r) == (700 * Normalized(r.vec[q], Vec)
                      + 300 * Normalized(lex(r), Lex)) \div 1000
  IN {[row |-> r, hybrid |-> hybrid(r), score |-> hybrid(r)] : r \in rows}

(* -final_score, chunk_id                                                  *)
Before(a, b) ==
  a.score > b.score \/ (a.score = b.score /\ a.row.id < b.row.id)

(* The weight of the i-th newest row of retrieval_trace_items              *)
Recency(i) == Largest({36, 120 - 24 * (i - 1)})

(* The boost of a chunk that earlier requests of the conversation used     *)
Boost(id, traces) ==
  LET uses == {i \in 1..Len(traces) : traces[i].id = id /\ traces[i].used}
  IN IF uses = {} THEN 0 ELSE Largest({Recency(i) : i \in uses})

(* _apply_memory_boosting                                                  *)
Boosted(S, traces) ==
  {[c EXCEPT !.score = @ + Boost(c.row.id, traces)] : c \in S}
=============================================================================
