----------------------------- MODULE MCQueryPath -----------------------------
(***************************************************************************)
(* The parts between a document and an answer for TLC: how a document is   *)
(* cut into chunks, how a request is let through, and how it is answered   *)
(* from chunks.  Which of them runs is chosen among Parts in the initial   *)
(* state, the variables of the others stay as they are.                    *)
(***************************************************************************)
EXTENDS RateLimiter, AnswerPath, Chunking, TLC

CONSTANT Parts

VARIABLE part

-----------------------------------------------------------------------------
(* AnswerPath: two documents of the tenant, the second of which may be     *)
(* indexed during a request, and a foreign one that answers best.  One     *)
(* chunk, or all, may be long, and some may be copies of others.           *)
Row(id, tenant, words, emb, lex, vec) ==
  [id |-> id, doc |-> id \div 10, ord |-> id % 10, tenant |-> tenant,
   words |-> words, emb |-> emb, lex |-> lex, vec |-> vec]

Corpus(long, same) ==
  LET words(id) == IF long \in {0, id} THEN 12 ELSE 3
  IN {Row(11, "t", words(11), 1, <<0, 2>>, <<400, 900>>),
      Row(12, "t", words(12), IF same THEN 1 ELSE 2, <<2, 2>>, <<400, 800>>),
      Row(13, "t", words(13), 3, <<0, 1>>, <<600, 200>>),
      Row(14, "t", words(14), 4, <<1, 0>>, <<300, 100>>),
      Row(21, "t", words(21), 5, <<2, 0>>, <<900, 700>>),
      Row(22, "t", words(22), IF same THEN 3 ELSE 6, <<0, 2>>, <<500, 100>>),
      Row(31, "u", words(31), 7, <<3, 3>>, <<999, 999>>)}

MCCorpora == {Corpus(long, same) : long \in {0, 11, 21, 99}, same \in BOOLEAN}

MCConfigs ==
  [topK : {1, 4},
   expansion : {"none", "window", "base", "neighbor", "doc_neighbor"},
   generation : BOOLEAN, memory : BOOLEAN, maxTokens : {3, 14, 40}]

MCQueries == {1, 2}

-----------------------------------------------------------------------------
(* Chunking: every document of up to five lines of these                   *)
Line == [kind : {"fence", "heading"}, words : {1}]
          \cup [kind : {"rule"}, words : {1, 3}]
          \cup [kind : {"blank"}, words : {0}]
          \cup [kind : {"list", "row"}, words : {2}]
          \cup [kind : {"paragraph"}, words : {1, 6}]

MCDocuments == {SubSeq(d, 1, n) : d \in [1..5 -> Line], n \in 0..5}

Symmetry == Permutations(Threads)

ASSUME MCQueryPathAssumption ==
  SettingsOK /\ CorporaOK /\ SizesOK /\ LimitsOK

MCVars == <<part, vars, chunkingVars, answerVars>>

(* One initial state of a part that does not run                           *)
MCInit ==
  /\ part \in Parts
  /\ \/ part = "chunks" /\ lines \in Documents
     \/ part # "chunks" /\ lines = <<>>
  /\ \/ part = "answer"
     \/ /\ part # "answer"
        /\ config = CHOOSE c \in Configs : TRUE
        /\ chunks = CHOOSE c \in Corpora : TRUE
        /\ committed = {r.doc : r \in chunks} /\ query = 1
  /\ Init /\ AnswerInit /\ Unread

MCNext ==
  /\ \/ part = "answer" /\ AnswerNext /\ UNCHANGED <<chunkingVars, vars>>
     \/ part = "chunks" /\ ChunkingNext /\ UNCHANGED <<answerVars, vars>>
     \/ part = "limiter" /\ Next /\ UNCHANGED <<answerVars, chunkingVars>>
  /\ UNCHANGED part

MCSpec == MCInit /\ [][MCNext]_MCVars
=============================================================================
