------------------------- MODULE Conversation_proofs -------------------------
(* Theorems about Conversation: for every number of requests, whatever     *)
(* overlaps or fails, and for every setting of the service.                *)
EXTENDS Conversation, FiniteSetTheorems, WellFoundedInduction,
        TLAPS

USE DEF tables

(* The steps of a request, by what it has done                             *)
BeforeQuestion == {"new", "create", "archive", "touch", "index", "insertUser"}
Summarizing    == {"summarize", "insertSummary"}
Answering      == {"trace", "answerIndex", "insertAnswer", "respond"}
AfterRewrite   == {"count", "retrieve"} \cup Answering
AfterSummary   == {"pending", "rewrite"} \cup AfterRewrite
AfterQuestion  == {"summary"} \cup Summarizing \cup AfterSummary

-----------------------------------------------------------------------------
(* The streak of clarifications                                            *)

LEMMA LeastNumber ==
  ASSUME NEW T \in SUBSET Nat, T # {}
  PROVE  \E n \in T : \A m \in T : n <= m
<1> DEFINE Below(n) == 0..(n - 1)
<1> DEFINE sets == {Below(n) : n \in T}
<1>1. sets \subseteq FiniteSubsetsOf(Nat) /\ sets # {}
  <2>1. ASSUME NEW n \in T PROVE IsFiniteSet(Below(n)) /\ Below(n) \subseteq Nat
    <3>1. 0 \in Int /\ n - 1 \in Int
      OBVIOUS
    <3> QED BY <3>1, FS_Interval
  <2> HIDE DEF Below
  <2> QED BY <2>1 DEF FiniteSubsetsOf
<1>2. \E x \in sets : \A y \in sets : ~(<<y, x>> \in StrictSubsetOrdering(Nat))
  BY <1>1, FS_StrictSubsetOrderingWellFounded, WFMin
<1>3. PICK n \in T :
        \A m \in T : ~(<<Below(m), Below(n)>> \in StrictSubsetOrdering(Nat))
  BY <1>2
<1>4. ASSUME NEW m \in T PROVE n <= m
  <2>1. n \in Nat /\ m \in Nat
    OBVIOUS
  <2>2. CASE m < n
    <3>1. Below(m) \subseteq Below(n)
      BY <2>1, <2>2
    <3>2. m \in Below(n) /\ m \notin Below(m)
      BY <2>1, <2>2
    <3>3. Below(m) \in SUBSET Nat /\ Below(n) \in SUBSET Nat
      BY <2>1
    <3> HIDE DEF Below
    <3>4. <<Below(m), Below(n)>> \in StrictSubsetOrdering(Nat)
      BY <3>1, <3>2, <3>3 DEF StrictSubsetOrdering
    <3> QED BY <1>3, <3>4
  <2> QED BY <2>1, <2>2
<1> QED BY <1>4

StreakEnds(n) ==
  n = MaxScan \/ n = Len(resolutions) \/ ~resolutions[Len(resolutions) - n].needed

(* The streak is as long as the newest resolutions that asked, up to       *)
(* MaxScan.                                                                *)
LEMMA StreakExists ==
  ASSUME resolutions \in Seq(ResolutionRows)
  PROVE  /\ Streak \in 0..Len(resolutions) /\ Streak <= MaxScan
         /\ \A i \in 0..(Streak - 1) : resolutions[Len(resolutions) - i].needed
         /\ StreakEnds(Streak)
<1> DEFINE len == Len(resolutions)
<1> DEFINE ends == {n \in 0..len : StreakEnds(n)}
<1>1. len \in Nat /\ MaxScan \in Nat
  BY ConversationAssumption
<1>2. len \in ends /\ ends \in SUBSET Nat
  BY <1>1 DEF StreakEnds
<1>3. PICK n \in ends : \A m \in ends : n <= m
  BY <1>2, LeastNumber
<1>4. n \in 0..len /\ \A m \in 0..(n - 1) : m \in 0..len /\ ~StreakEnds(m)
  BY <1>1, <1>3
<1>5. n <= MaxScan
  <2>1. CASE MaxScan < n
    BY <1>1, <1>4, <2>1 DEF StreakEnds
  <2> QED BY <1>1, <1>4, <2>1
<1>6. \A i \in 0..(n - 1) : resolutions[len - i].needed
  BY <1>4 DEF StreakEnds
<1>7. \E k \in 0..len :
        /\ k <= MaxScan
        /\ \A i \in 0..(k - 1) : resolutions[len - i].needed
        /\ \/ k = MaxScan \/ k = len \/ ~resolutions[len - k].needed
  BY <1>3, <1>4, <1>5, <1>6 DEF StreakEnds
<1> QED BY <1>7 DEF Streak, StreakEnds

-----------------------------------------------------------------------------
(* Types                                                                   *)

(* What a request has in hand at each step: the result of a request is     *)
(* there from the answer on, and says what the question needs.             *)
Shape(r) ==
  /\ IF pc[r] = "done" THEN reply[r] \in Answers \cup Errors
                       ELSE reply[r] = "none"
  /\ pc[r] = "count" /\ local[r].result = "ask" => local[r].needed
  /\ pc[r] \in Answering =>
       /\ local[r].result \in Answers
       /\ local[r].needed =>
            local[r].result \in {"clarification", "depth_exceeded"}

TypeInv == TypeOK /\ \A r \in Requests : Shape(r)

Locals == [idx : Nat, covers : Nat, asked : Requests \cup {0},
           needed : BOOLEAN, depth : Nat, result : Answers \cup {"none", "ask"}]

LEMMA InitTypes == ASSUME Init PROVE TypeOK
<1>1. NoLocal \in Locals
  BY DEF NoLocal, Locals
<1>2. /\ pc \in [Requests -> Steps] /\ local \in [Requests -> Locals]
      /\ reply \in [Requests -> Answers \cup Errors \cup {"none"}]
  BY <1>1 DEF Init, Steps
<1>3. turns = <<>> /\ resolutions = <<>> /\ summaries = <<>> /\ traced = {}
  BY DEF Init
<1>4. config \in Configs /\ status \in Statuses /\ aged \in BOOLEAN
  BY DEF Init, Statuses
<1> QED BY <1>2, <1>3, <1>4 DEF TypeOK, Locals

LEMMA ConfigIsTyped ==
  ASSUME TypeOK
  PROVE  config \in ConfigType /\ Requests \subseteq Nat
BY ConversationAssumption DEF TypeOK, ConfigType, Requests

LEMMA PipelineEnds ==
  ASSUME NEW q, q.depth \in Int, q.maxDepth \in Int, q.needed \in BOOLEAN
  PROVE  /\ PipelineResult(q) \in Results
         /\ q.needed => PipelineResult(q) \in {"clarification",
                                               "depth_exceeded"}
         /\ PipelineResult(q) = "clarification" =>
              q.needed /\ q.depth <= q.maxDepth
<1>1. CASE DepthExceeded(q)
  BY <1>1 DEF PipelineResult, Results, DepthExceeded, Clarifies
<1>2. CASE Clarifies(q)
  BY <1>2 DEF PipelineResult, Results, DepthExceeded, Clarifies
<1>3. CASE ~DepthExceeded(q) /\ ~Clarifies(q)
  <2>1. ~q.needed
    BY <1>3 DEF DepthExceeded, Clarifies
  <2>2. PipelineResult(q) \in {"raised", "low_confidence", "answer"}
    BY <1>3 DEF PipelineResult
  <2> QED BY <2>1, <2>2 DEF Results
<1> QED BY <1>1, <1>2, <1>3

LEMMA ResultIsTyped ==
  ASSUME TypeOK, NEW r \in Requests, NEW d \in Nat, NEW c
  PROVE  /\ Result(r, d, c) \in Results
         /\ local[r].needed =>
              Result(r, d, c) \in {"clarification", "depth_exceeded"}
         /\ Result(r, d, c) = "clarification" =>
              local[r].needed /\ d <= MaxDepth
<1> DEFINE q == [needed |-> local[r].needed, depth |-> d, maxDepth |-> MaxDepth,
                 confidence |-> c,
                 threshold |-> IF config.generation THEN Threshold ELSE -1]
<1>1. q.needed = local[r].needed /\ q.depth = d /\ q.maxDepth = MaxDepth
  OBVIOUS
<1>2. local[r].needed \in BOOLEAN /\ MaxDepth \in Nat
  BY ConversationAssumption DEF TypeOK
<1>3. Result(r, d, c) = PipelineResult(q)
  BY DEF Result
<1> HIDE DEF q
<1>4. q.depth \in Int /\ q.maxDepth \in Int /\ q.needed \in BOOLEAN
  BY <1>1, <1>2
<1> QED BY <1>1, <1>3, <1>4, PipelineEnds

LEMMA DepthIsTyped ==
  ASSUME TypeOK, NEW r \in Requests PROVE Depth(r) \in Nat
<1>1. resolutions \in Seq(ResolutionRows)
  BY DEF TypeOK
<1>2. Streak \in Nat
  BY <1>1, StreakExists
<1>3. Depth(r) = Streak \/ Depth(r) = Streak + 1
  BY <1>2 DEF Depth
<1> QED BY <1>2, <1>3

(* The variables of a step                                                 *)
LEMMA TypeStep ==
  ASSUME TypeOK, NEW r \in Requests, config' = config,
         pc' = [pc EXCEPT ![r] = pc'[r]], pc'[r] \in Steps,
         local' = [local EXCEPT ![r] = local'[r]], local'[r] \in Locals,
         reply' = [reply EXCEPT ![r] = reply'[r]],
         reply'[r] \in Answers \cup Errors \cup {"none"},
         status' \in Statuses, aged' \in BOOLEAN, traced' \subseteq Requests,
         turns' \in Seq(TurnRows), resolutions' \in Seq(ResolutionRows),
         summaries' \in Seq(SummaryRows)
  PROVE  TypeOK'
<1>1. Requests' = Requests /\ TurnRows' = TurnRows
      /\ ResolutionRows' = ResolutionRows
  BY DEF Requests, TurnRows, ResolutionRows
<1>2. /\ pc' \in [Requests -> Steps] /\ local' \in [Requests -> Locals]
      /\ reply' \in [Requests -> Answers \cup Errors \cup {"none"}]
  BY DEF TypeOK, Locals
<1> QED BY <1>1, <1>2 DEF TypeOK, Locals

(* A step that leaves the tables alone                                     *)
LEMMA TypeQuiet ==
  ASSUME TypeOK, NEW r \in Requests, config' = config, UNCHANGED tables,
         pc' = [pc EXCEPT ![r] = pc'[r]], pc'[r] \in Steps,
         local' = [local EXCEPT ![r] = local'[r]], local'[r] \in Locals,
         reply' = [reply EXCEPT ![r] = reply'[r]],
         reply'[r] \in Answers \cup Errors \cup {"none"}
  PROVE  TypeOK'
BY TypeStep DEF TypeOK

(* Answering either fails or leaves a result to be traced.                 *)
LEMMA AnswerEnds ==
  ASSUME NEW r \in Requests, NEW c \in Confidences, Answer(r, c)
  PROVE  LET result == Result(r, local[r].depth,
                              IF config.generation THEN c ELSE 1000)
         IN /\ pc[r] = "retrieve"
            /\ \/ Fail(r, "failed")
               \/ /\ result # "raised"
                  /\ Goto(r, "retrieve", "trace")
                  /\ local' = [local EXCEPT ![r].result = result]
                  /\ UNCHANGED <<config, tables, reply>>
BY DEF Answer

(* A step of a request touches only its own variables and the tables.      *)
LEMMA StepMoves ==
  ASSUME TypeOK, NEW r \in Requests, Step(r) \/ Break(r)
  PROVE  /\ config' = config /\ Requests' = Requests
         /\ pc' = [pc EXCEPT ![r] = pc'[r]]
         /\ local' = [local EXCEPT ![r] = local'[r]]
         /\ reply' = [reply EXCEPT ![r] = reply'[r]]
<1> USE DEF Goto, Fail, End, TypeOK
<1>1. CASE Arrive(r) \/ Create(r) \/ Archive(r) \/ Touch(r)
  BY <1>1 DEF Arrive, Create, Archive, Touch, Requests
<1>2. CASE \/ ReadIndex(r, "index", "insertUser") \/ InsertUser(r)
           \/ ReadIndex(r, "answerIndex", "insertAnswer") \/ InsertAnswer(r)
  BY <1>2 DEF ReadIndex, InsertUser, InsertAnswer, Requests
<1>3. CASE Summary(r) \/ Summarize(r) \/ InsertSummary(r) \/ Pending(r)
  BY <1>3 DEF Summary, Summarize, InsertSummary, Pending, Requests
<1>4. CASE LogRaises(r) \/ \E needed, low \in BOOLEAN : Rewrite(r, needed, low)
  BY <1>4 DEF LogRaises, Rewrite, Requests
<1>5. CASE Count(r) \/ Trace(r) \/ Respond(r) \/ Break(r)
  BY <1>5 DEF Count, Trace, Respond, Break, Requests
<1>6. CASE \E c \in Confidences : Answer(r, c)
  <2>1. PICK c \in Confidences : Answer(r, c)
    BY <1>6
  <2> DEFINE result == Result(r, local[r].depth,
                              IF config.generation THEN c ELSE 1000)
  <2> HIDE DEF result
  <2>2. \/ Fail(r, "failed")
        \/ /\ Goto(r, "retrieve", "trace")
           /\ local' = [local EXCEPT ![r].result = result]
           /\ UNCHANGED <<config, tables, reply>>
    BY <2>1, AnswerEnds DEF result
  <2> QED BY <2>2 DEF Requests
<1> QED BY <1>1, <1>2, <1>3, <1>4, <1>5, <1>6 DEF Step

(* How a request fails, wherever it does                                   *)
LEMMA FailTypes ==
  ASSUME TypeOK, NEW r \in Requests, NEW a \in Errors, Fail(r, a)
  PROVE  TypeOK'
<1>1. NoLocal \in Locals
  BY DEF NoLocal, Locals
<1>2. /\ UNCHANGED <<config, tables>>
      /\ pc' = [pc EXCEPT ![r] = pc'[r]] /\ pc'[r] = "done"
      /\ local' = [local EXCEPT ![r] = local'[r]] /\ local'[r] = NoLocal
      /\ reply' = [reply EXCEPT ![r] = reply'[r]] /\ reply'[r] = a
  BY DEF Fail, End, TypeOK
<1> QED BY <1>1, <1>2, TypeQuiet DEF Steps

LEMMA LocalTyped == ASSUME TypeOK, NEW r \in Requests PROVE local[r] \in Locals
BY DEF TypeOK, Locals

LEMMA OpenTypes ==
  ASSUME TypeOK, NEW r \in Requests,
         Arrive(r) \/ Create(r) \/ Archive(r) \/ Touch(r)
  PROVE  TypeOK'
<1>1. CASE Create(r) /\ Fail(r, "conflict")
  BY <1>1, FailTypes DEF Errors
<1>2. CASE ~(Create(r) /\ Fail(r, "conflict"))
  <2>1. /\ UNCHANGED <<turns, resolutions, summaries, traced, local, reply>>
        /\ status' \in Statuses /\ aged' \in BOOLEAN /\ pc'[r] \in Steps
    BY <1>2 DEF Arrive, Create, Archive, Touch, Goto, Statuses, Steps, TypeOK
  <2>2. local'[r] \in Locals /\ reply'[r] \in Answers \cup Errors \cup {"none"}
    BY <2>1, LocalTyped DEF TypeOK
  <2> QED BY <2>1, <2>2, StepMoves, TypeStep DEF Step, TypeOK
<1> QED BY <1>1, <1>2

LEMMA IndexTypes ==
  ASSUME TypeOK, NEW r \in Requests,
         \/ ReadIndex(r, "index", "insertUser")
         \/ ReadIndex(r, "answerIndex", "insertAnswer")
  PROVE  TypeOK'
<1>1. /\ UNCHANGED <<tables, reply>> /\ pc'[r] \in Steps
      /\ local'[r] = [local[r] EXCEPT !.idx = NextTurnIndex]
  BY DEF ReadIndex, Goto, Steps, TypeOK
<1>2. NextTurnIndex \in Nat
  BY DEF NextTurnIndex, TypeOK
<1>3. local'[r] \in Locals
  BY <1>1, <1>2, LocalTyped DEF Locals
<1>4. reply'[r] \in Answers \cup Errors \cup {"none"}
  BY <1>1 DEF TypeOK
<1> QED BY <1>1, <1>3, <1>4, StepMoves, TypeQuiet DEF Step

LEMMA ConflictTypes ==
  ASSUME TypeOK, NEW r \in Requests, Fail(r, "conflict") PROVE TypeOK'
BY FailTypes DEF Errors

LEMMA InsertTypes ==
  ASSUME TypeOK, NEW r \in Requests, InsertUser(r) \/ InsertAnswer(r),
         ~Fail(r, "conflict"),
         InsertAnswer(r) => local[r].result \in Answers
  PROVE  TypeOK'
<1>1. /\ UNCHANGED <<status, aged, resolutions, summaries, traced, local, reply>>
      /\ pc'[r] \in {"summary", "respond"}
      /\ \E turn \in TurnRows : turns' = Append(turns, turn)
  <2>1. CASE InsertUser(r)
    <3> DEFINE turn == [role |-> "user", req |-> r, kind |-> "question"]
    <3>1. turn \in TurnRows
      BY DEF TurnRows
    <3>2. turns' = Append(turns, turn)
      BY <2>1 DEF InsertUser, Stored
    <3> QED BY <2>1, <3>1, <3>2 DEF InsertUser, Goto, TypeOK
  <2>2. CASE InsertAnswer(r)
    <3> DEFINE turn == [role |-> "assistant", req |-> r,
                        kind |-> local[r].result]
    <3>1. turn \in TurnRows
      BY <2>2 DEF TurnRows
    <3>2. turns' = Append(turns, turn)
      BY <2>2 DEF InsertAnswer, Stored
    <3> QED BY <2>2, <3>1, <3>2 DEF InsertAnswer, Goto, TypeOK
  <2> QED BY <2>1, <2>2
<1>2. turns' \in Seq(TurnRows)
  BY <1>1 DEF TypeOK
<1>3. local'[r] \in Locals /\ reply'[r] \in Answers \cup Errors \cup {"none"}
  BY <1>1, LocalTyped DEF TypeOK
<1> QED BY <1>1, <1>2, <1>3, StepMoves, TypeStep DEF Step, Steps, TypeOK

LEMMA SummaryTypes ==
  ASSUME TypeOK, NEW r \in Requests, Summary(r) \/ Summarize(r)
  PROVE  TypeOK'
<1>1. UNCHANGED <<tables, reply>> /\ pc'[r] \in Steps
  BY DEF Summary, Summarize, Goto, Steps, TypeOK
<1>2. \/ \E n \in Nat : local'[r] = [local[r] EXCEPT !.covers = n]
      \/ \E n \in Nat : local'[r] = [local[r] EXCEPT !.idx = n]
  <2>1. Len(turns) \in Nat /\ Len(summaries) + 1 \in Nat
    BY DEF TypeOK
  <2>2. CASE Summary(r)
    BY <2>1, <2>2 DEF Summary, TypeOK
  <2>3. CASE Summarize(r)
    BY <2>1, <2>3 DEF Summarize, TypeOK
  <2> QED BY <2>2, <2>3
<1>3. local'[r] \in Locals
  BY <1>2, LocalTyped DEF Locals
<1>4. reply'[r] \in Answers \cup Errors \cup {"none"}
  BY <1>1 DEF TypeOK
<1> QED BY <1>1, <1>3, <1>4, StepMoves, TypeQuiet DEF Step

LEMMA InsertSummaryTypes ==
  ASSUME TypeOK, NEW r \in Requests, InsertSummary(r), ~Fail(r, "conflict")
  PROVE  TypeOK'
<1>1. /\ UNCHANGED <<status, aged, turns, resolutions, traced, local, reply>>
      /\ pc'[r] = "pending" /\ summaries' = Append(summaries, local[r].covers)
  BY DEF InsertSummary, Goto, TypeOK
<1>2. local[r].covers \in SummaryRows
  BY LocalTyped DEF Locals, SummaryRows
<1>3. summaries' \in Seq(SummaryRows)
  BY <1>1, <1>2 DEF TypeOK
<1>4. local'[r] \in Locals /\ reply'[r] \in Answers \cup Errors \cup {"none"}
  BY <1>1, LocalTyped DEF TypeOK
<1> QED BY <1>1, <1>3, <1>4, StepMoves, TypeStep DEF Step, Steps, TypeOK

LEMMA PendingTypes ==
  ASSUME TypeOK, NEW r \in Requests, Pending(r) PROVE TypeOK'
<1>1. UNCHANGED <<tables, reply>> /\ pc'[r] \in Steps
  BY DEF Pending, Goto, Steps, TypeOK
<1>2. resolutions # <<>> => Newest.req \in Requests
  <2>1. resolutions # <<>> => Len(resolutions) \in 1..Len(resolutions)
    BY DEF TypeOK
  <2>2. resolutions # <<>> => Newest \in ResolutionRows
    BY <2>1 DEF Newest, TypeOK
  <2> QED BY <2>2 DEF ResolutionRows
<1>3. \E q \in Requests \cup {0} : local'[r] = [local[r] EXCEPT !.asked = q]
  BY <1>2 DEF Pending, TypeOK
<1>4. local'[r] \in Locals
  BY <1>3, LocalTyped DEF Locals
<1>5. reply'[r] \in Answers \cup Errors \cup {"none"}
  BY <1>1 DEF TypeOK
<1> QED BY <1>1, <1>4, <1>5, StepMoves, TypeQuiet DEF Step

LEMMA RewriteTypes ==
  ASSUME TypeOK, NEW r \in Requests, NEW needed \in BOOLEAN,
         NEW low \in BOOLEAN, Rewrite(r, needed, low)
  PROVE  TypeOK'
<1>1. /\ UNCHANGED <<status, aged, turns, summaries, traced, reply>>
      /\ pc'[r] \in Steps
      /\ resolutions' = Append(resolutions, [req |-> r, needed |-> needed])
  BY DEF Rewrite, Goto, Steps, TypeOK
<1>2. local'[r] = [local[r] EXCEPT
                     !.needed = needed,
                     !.result = IF needed /\ low THEN "ask" ELSE "none"]
  BY DEF Rewrite, TypeOK
<1>3. local'[r] \in Locals
  BY <1>2, LocalTyped DEF Locals
<1>4. resolutions' \in Seq(ResolutionRows)
  BY <1>1 DEF TypeOK, ResolutionRows
<1>5. reply'[r] \in Answers \cup Errors \cup {"none"}
  BY <1>1 DEF TypeOK
<1> QED BY <1>1, <1>3, <1>4, <1>5, StepMoves, TypeStep DEF Step, TypeOK

LEMMA CountTypes ==
  ASSUME TypeInv, NEW r \in Requests, Count(r)
  PROVE  TypeOK' /\ Shape(r)'
<1> TypeOK /\ Shape(r)
  BY DEF TypeInv
<1> DEFINE ask == local[r].result = "ask"
<1> DEFINE result == Result(r, Depth(r), 0)
<1>1. /\ UNCHANGED <<config, tables, reply>> /\ pc[r] = "count"
      /\ pc'[r] = IF ask THEN "answerIndex" ELSE "retrieve"
      /\ local'[r] = [local[r] EXCEPT !.depth = Depth(r),
                                      !.result = IF ask THEN result ELSE "none"]
  BY DEF Count, TypeOK
<1>2. ask => result \in {"clarification", "depth_exceeded"}
  BY <1>1, DepthIsTyped, ResultIsTyped DEF Shape
<1> HIDE DEF result
<1>3. local'[r] \in Locals
  BY <1>1, <1>2, LocalTyped, DepthIsTyped, ZenonT(60) DEF Locals, Answers, Results
<1>4. reply'[r] \in Answers \cup Errors \cup {"none"} /\ pc'[r] \in Steps
  BY <1>1 DEF TypeOK, Steps
<1>5. ask => local'[r].result = result
  BY <1>1, LocalTyped DEF Locals
<1>6. Shape(r)'
  BY <1>1, <1>2, <1>5 DEF Shape, Answering, Answers, Results
<1> QED BY <1>1, <1>3, <1>4, <1>6, StepMoves, TypeQuiet DEF Step

LEMMA AnswerTypes ==
  ASSUME TypeInv, NEW r \in Requests, NEW c \in Confidences, Answer(r, c),
         ~Fail(r, "failed")
  PROVE  TypeOK' /\ Shape(r)'
<1> TypeOK /\ Shape(r)
  BY DEF TypeInv
<1> DEFINE result == Result(r, local[r].depth,
                            IF config.generation THEN c ELSE 1000)
<1>1. local[r].depth \in Nat
  BY LocalTyped DEF Locals
<1>2. /\ result \in Results
      /\ local[r].needed => result \in {"clarification", "depth_exceeded"}
  BY <1>1, ResultIsTyped
<1>3. /\ result # "raised" /\ UNCHANGED <<config, tables, reply>>
      /\ Goto(r, "retrieve", "trace")
      /\ local' = [local EXCEPT ![r].result = result]
  BY AnswerEnds
<1> HIDE DEF result
<1>4. /\ local'[r] = [local[r] EXCEPT !.result = result]
      /\ pc[r] = "retrieve" /\ pc'[r] = "trace" /\ reply'[r] = reply[r]
  BY <1>3 DEF Goto, TypeOK
<1>5. local'[r] \in Locals
  BY <1>2, <1>3, <1>4, LocalTyped DEF Locals, Answers
<1>6. local'[r].result = result /\ local'[r].needed = local[r].needed
  BY <1>4, LocalTyped DEF Locals
<1>7. Shape(r)'
  BY <1>2, <1>3, <1>4, <1>6 DEF Shape, Answers
<1> QED BY <1>3, <1>4, <1>5, <1>7, StepMoves, TypeQuiet DEF Step, Steps, TypeOK

LEMMA EndTypes ==
  ASSUME TypeInv, NEW r \in Requests, Trace(r) \/ Respond(r)
  PROVE  TypeOK'
<1> TypeOK /\ Shape(r)
  BY DEF TypeInv
<1>1. CASE Trace(r)
  <2>1. /\ UNCHANGED <<config, status, aged, turns, resolutions, summaries,
                       local, reply>>
        /\ pc'[r] \in Steps /\ traced' \subseteq Requests
    BY <1>1 DEF Trace, Goto, Steps, TypeOK
  <2>2. local'[r] \in Locals /\ reply'[r] \in Answers \cup Errors \cup {"none"}
    BY <2>1, LocalTyped DEF TypeOK
  <2> QED BY <1>1, <2>1, <2>2, StepMoves, TypeStep DEF Step, TypeOK
<1>2. CASE Respond(r)
  <2>1. NoLocal \in Locals
    BY DEF NoLocal, Locals
  <2>2. /\ UNCHANGED tables /\ pc[r] = "respond" /\ pc'[r] = "done"
        /\ local'[r] = NoLocal /\ reply'[r] = local[r].result
    BY <1>2 DEF Respond, End, TypeOK
  <2>3. reply'[r] \in Answers
    BY <2>2 DEF Shape, Answering
  <2> QED BY <1>2, <2>1, <2>2, <2>3, StepMoves, TypeQuiet DEF Step, Steps
<1> QED BY <1>1, <1>2

LEMMA BreakTypes ==
  ASSUME TypeOK, NEW r \in Requests, LogRaises(r) \/ Break(r) PROVE TypeOK'
BY FailTypes DEF LogRaises, Break, Errors

LEMMA FailShape ==
  ASSUME TypeOK, NEW r \in Requests, NEW a \in Errors, Fail(r, a)
  PROVE  Shape(r)'
<1>1. pc'[r] = "done" /\ reply'[r] = a
  BY DEF Fail, End, TypeOK
<1> QED BY <1>1 DEF Shape, Answering, Errors, Answers

(* Steps that come before the answer                                       *)
LEMMA EarlyShape ==
  ASSUME TypeInv, NEW r \in Requests, reply' = reply, pc[r] # "done",
         pc'[r] \notin {"done", "count"} \cup Answering
  PROVE  Shape(r)'
BY DEF TypeInv, Shape, Answering

LEMMA StepShape ==
  ASSUME TypeInv, NEW r \in Requests, Step(r) \/ Break(r)
  PROVE  Shape(r)'
<1> TypeOK /\ Shape(r)
  BY DEF TypeInv
<1>1. CASE \E a \in Errors : Fail(r, a)
  BY <1>1, FailShape
<1> DEFINE fails == \E a \in Errors : Fail(r, a)
<1>2. Fail(r, "conflict") \/ Fail(r, "failed") \/ Fail(r, "internal") => fails
  BY DEF Errors
<1> HIDE DEF fails
<1>3. CASE ~fails /\ (Arrive(r) \/ Create(r) \/ Archive(r) \/ Touch(r))
  BY <1>2, <1>3, EarlyShape
     DEF Arrive, Create, Archive, Touch, Goto, TypeOK, Answering
<1>4. CASE ~fails /\ (ReadIndex(r, "index", "insertUser") \/ InsertUser(r))
  BY <1>2, <1>4, EarlyShape DEF ReadIndex, InsertUser, Goto, TypeOK, Answering
<1>5. CASE ~fails /\ (\/ Summary(r) \/ Summarize(r) \/ InsertSummary(r)
                      \/ Pending(r))
  BY <1>2, <1>5, EarlyShape
     DEF Summary, Summarize, InsertSummary, Pending, Goto, TypeOK, Answering
<1>6. CASE \E needed, low \in BOOLEAN : Rewrite(r, needed, low)
  <2>1. PICK needed \in BOOLEAN, low \in BOOLEAN : Rewrite(r, needed, low)
    BY <1>6
  <2>2. /\ pc[r] = "rewrite" /\ pc'[r] \in {"count", "retrieve"}
        /\ reply'[r] = reply[r]
        /\ local'[r] = [local[r] EXCEPT
                          !.needed = needed,
                          !.result = IF needed /\ low THEN "ask" ELSE "none"]
    BY <2>1 DEF Rewrite, Goto, TypeOK
  <2>3. local'[r].result = "ask" => local'[r].needed
    BY <2>2, LocalTyped DEF Locals
  <2> QED BY <2>2, <2>3 DEF Shape, Answering
<1>7. CASE Count(r)
  BY <1>7, CountTypes
<1>8. CASE ~fails /\ \E c \in Confidences : Answer(r, c)
  BY <1>2, <1>8, AnswerTypes
<1>9. CASE Trace(r) \/ ReadIndex(r, "answerIndex", "insertAnswer")
  <2>1. /\ pc[r] \in Answering /\ pc'[r] \in Answering /\ reply'[r] = reply[r]
        /\ local'[r].result = local[r].result
        /\ local'[r].needed = local[r].needed
    BY <1>9 DEF Trace, ReadIndex, Goto, TypeOK, Answering
  <2> QED BY <2>1 DEF Shape, Answering
<1>10. CASE ~fails /\ InsertAnswer(r)
  <2>1. /\ pc[r] \in Answering /\ pc'[r] \in Answering /\ reply'[r] = reply[r]
        /\ local'[r] = local[r]
    BY <1>2, <1>10 DEF InsertAnswer, Goto, TypeOK, Answering
  <2> QED BY <2>1 DEF Shape, Answering
<1>11. CASE Respond(r)
  <2>1. pc[r] = "respond" /\ pc'[r] = "done" /\ reply'[r] = local[r].result
    BY <1>11 DEF Respond, End, TypeOK
  <2> QED BY <2>1 DEF Shape, Answering
<1>12. LogRaises(r) \/ Break(r) => fails
  BY <1>2 DEF LogRaises, Break
<1> QED BY <1>1, <1>3, <1>4, <1>5, <1>6, <1>7, <1>8, <1>9, <1>10, <1>11, <1>12
        DEF Step, fails

LEMMA StepTypes ==
  ASSUME TypeInv, NEW r \in Requests, Step(r) \/ Break(r)
  PROVE  TypeOK'
<1> TypeOK /\ Shape(r)
  BY DEF TypeInv
<1>1. CASE Fail(r, "conflict")
  BY <1>1, ConflictTypes
<1>2. CASE Fail(r, "failed")
  BY <1>2, FailTypes DEF Errors
<1>3. CASE InsertAnswer(r) /\ ~Fail(r, "conflict")
  <2>1. local[r].result \in Answers
    BY <1>3 DEF InsertAnswer, Shape, Answering
  <2> QED BY <1>3, <2>1, InsertTypes
<1>4. CASE InsertUser(r) /\ ~Fail(r, "conflict")
  BY <1>4, InsertTypes DEF InsertUser, InsertAnswer
<1> QED BY <1>1, <1>2, <1>3, <1>4, OpenTypes, IndexTypes, SummaryTypes,
           InsertSummaryTypes, PendingTypes, RewriteTypes, CountTypes,
           AnswerTypes, EndTypes, BreakTypes DEF Step

LEMMA NextTypes == ASSUME TypeInv, [Next]_vars PROVE TypeInv'
<1> TypeOK
  BY DEF TypeInv
<1>1. CASE UNCHANGED vars
  <2>1. Requests' = Requests /\ TurnRows' = TurnRows
        /\ ResolutionRows' = ResolutionRows
    BY <1>1 DEF vars, Requests, TurnRows, ResolutionRows
  <2> QED BY <1>1, <2>1 DEF vars, TypeInv, TypeOK, Shape
<1>2. CASE Age
  <2>1. Requests' = Requests /\ TurnRows' = TurnRows
        /\ ResolutionRows' = ResolutionRows
    BY <1>2 DEF Age, Requests, TurnRows, ResolutionRows
  <2> QED BY <1>2, <2>1 DEF Age, TypeInv, TypeOK, Shape
<1>3. ASSUME NEW r \in Requests, Step(r) \/ Break(r) PROVE TypeInv'
  <2>1. \A q \in Requests \ {r} : Shape(q)'
    BY <1>3, StepMoves DEF TypeInv, Shape, TypeOK
  <2> QED BY <1>3, <2>1, StepMoves, StepShape, StepTypes DEF TypeInv
<1> QED BY <1>1, <1>2, <1>3 DEF Next

(* The tables and the variables of the requests keep their types.          *)
THEOREM TypeCorrect == Spec => []TypeOK
<1>1. Init => TypeInv
  BY InitTypes DEF Init, TypeInv, Shape, Answering
<1>2. TypeInv /\ [Next]_vars => TypeInv'
  BY NextTypes
<1>3. TypeInv => TypeOK
  BY DEF TypeInv
<1> QED BY <1>1, <1>2, <1>3, PTL DEF Spec

-----------------------------------------------------------------------------
(* The history                                                             *)

Fails(r)  == \E a \in Errors : Fail(r, a)
Stores(r) == (InsertUser(r) \/ InsertAnswer(r)) /\ ~Fails(r)

LEMMA FailEnds ==
  ASSUME TypeOK, NEW r \in Requests, Fails(r)
  PROVE  /\ UNCHANGED <<config, tables>>
         /\ pc'[r] = "done" /\ reply'[r] \in Errors /\ local'[r] = NoLocal
BY DEF Fails, Fail, End, TypeOK

LEMMA Failures ==
  ASSUME NEW r \in Requests,
         \/ Fail(r, "conflict") \/ Fail(r, "failed") \/ Fail(r, "internal")
         \/ LogRaises(r) \/ Break(r)
  PROVE  Fails(r)
BY DEF Fails, Errors, LogRaises, Break

(* A request that fails was busy.                                          *)
LEMMA FailsWhenBusy ==
  ASSUME TypeInv, NEW r \in Requests, Step(r) \/ Break(r)
  PROVE  pc[r] # "done"
<1> TypeOK
  BY DEF TypeInv
<1>1. CASE Arrive(r) \/ Create(r) \/ Archive(r) \/ Touch(r)
  BY <1>1 DEF Arrive, Create, Archive, Touch, Goto
<1>2. CASE \/ ReadIndex(r, "index", "insertUser") \/ InsertUser(r)
           \/ ReadIndex(r, "answerIndex", "insertAnswer") \/ InsertAnswer(r)
  BY <1>2 DEF ReadIndex, InsertUser, InsertAnswer, Goto
<1>3. CASE Summary(r) \/ Summarize(r) \/ InsertSummary(r) \/ Pending(r)
  BY <1>3 DEF Summary, Summarize, InsertSummary, Pending, Goto
<1>4. CASE LogRaises(r) \/ \E needed, low \in BOOLEAN : Rewrite(r, needed, low)
  BY <1>4 DEF LogRaises, Rewrite, Goto
<1>5. CASE Count(r) \/ Trace(r) \/ Respond(r) \/ Break(r)
  BY <1>5 DEF Count, Trace, Respond, Break, Busy, Goto
<1>6. CASE \E c \in Confidences : Answer(r, c)
  BY <1>6 DEF Answer
<1> QED BY <1>1, <1>2, <1>3, <1>4, <1>5, <1>6 DEF Step

(* Where a step that stores no turn takes a request                        *)
LEMMA TurnMoves ==
  ASSUME TypeInv, NEW r \in Requests, Step(r) \/ Break(r), ~Stores(r), ~Fails(r)
  PROVE  /\ turns' = turns
         /\ \/ /\ pc[r] \in BeforeQuestion /\ pc'[r] \in BeforeQuestion
               /\ reply'[r] = reply[r]
            \/ /\ pc[r] \in AfterQuestion \ {"respond"}
               /\ pc'[r] \in AfterQuestion \ {"respond"}
               /\ reply'[r] = reply[r]
            \/ pc[r] = "respond" /\ pc'[r] = "done" /\ reply'[r] = local[r].result
<1> TypeOK
  BY DEF TypeInv
<1> USE DEF Goto, TypeOK
<1> DEFINE early == pc[r] \in BeforeQuestion /\ pc'[r] \in BeforeQuestion
<1> DEFINE late == /\ pc[r] \in AfterQuestion \ {"respond"}
                   /\ pc'[r] \in AfterQuestion \ {"respond"}
<1>1. CASE Arrive(r) \/ Create(r) \/ Archive(r) \/ Touch(r)
  <2>1. turns' = turns /\ reply' = reply
    BY <1>1, Failures DEF Arrive, Create, Archive, Touch
  <2>2. early
    BY <1>1, Failures DEF Arrive, Create, Archive, Touch, BeforeQuestion
  <2> QED BY <2>1, <2>2
<1>2. CASE ReadIndex(r, "index", "insertUser")
  BY <1>2 DEF ReadIndex, BeforeQuestion
<1>3. CASE \/ Summary(r) \/ Summarize(r) \/ InsertSummary(r) \/ Pending(r)
           \/ ReadIndex(r, "answerIndex", "insertAnswer") \/ Trace(r)
  <2>1. turns' = turns /\ reply' = reply
    BY <1>3, Failures
       DEF Summary, Summarize, InsertSummary, Pending, ReadIndex, Trace
  <2>2. late
    BY <1>3, Failures
       DEF Summary, Summarize, InsertSummary, Pending, ReadIndex, Trace,
           AfterQuestion, Summarizing, AfterSummary, AfterRewrite, Answering
  <2> QED BY <2>1, <2>2
<1>4. CASE Count(r) \/ \E needed, low \in BOOLEAN : Rewrite(r, needed, low)
  BY <1>4 DEF Count, Rewrite, AfterQuestion, AfterSummary, AfterRewrite,
              Answering
<1>5. ASSUME NEW c \in Confidences, Answer(r, c)
      PROVE  turns' = turns /\ reply' = reply /\ late
  <2>1. Goto(r, "retrieve", "trace") /\ UNCHANGED <<tables, reply>>
    BY <1>5, AnswerEnds, Failures
  <2> QED BY <2>1 DEF AfterQuestion, AfterSummary, AfterRewrite, Answering
<1>6. CASE Respond(r)
  BY <1>6 DEF Respond, End
<1>7. ~(InsertUser(r) \/ InsertAnswer(r)) /\ ~LogRaises(r) /\ ~Break(r)
  BY Failures DEF Stores
<1> QED BY <1>1, <1>2, <1>3, <1>4, <1>5, <1>6, <1>7 DEF Step

(* The answer of r in the history                                          *)
Appears(r, kind) ==
  \E i \in 1..Len(turns) :
    turns[i] = [role |-> "assistant", req |-> r, kind |-> kind]

(* A request has a turn in the history from the step on that stores it,    *)
(* and none before; its answer is the one it replies with.                 *)
HistoryInv ==
  /\ AnswersFollowQuestions
  /\ \A i \in 1..Len(turns) :
       /\ turns[i].role = "user" =>
            pc[turns[i].req] \in AfterQuestion \cup {"done"}
       /\ turns[i].role = "assistant" => pc[turns[i].req] \in {"respond", "done"}
  /\ \A r \in Requests :
       /\ pc[r] \in AfterQuestion => Has("user", r)
       /\ pc[r] = "respond" => Appears(r, local[r].result)
       /\ reply[r] \in Answers => Appears(r, reply[r])

LEMMA HistoryInit == ASSUME Init PROVE HistoryInv
<1>1. turns = <<>> /\ Len(turns) = 0
  BY DEF Init
<1>2. \A r \in Requests : pc[r] = "new" /\ reply[r] = "none"
  BY DEF Init
<1> QED BY <1>1, <1>2 DEF HistoryInv, AnswersFollowQuestions, AfterQuestion,
           Summarizing, AfterSummary, AfterRewrite, Answering, Answers, Results

LEMMA TurnsTyped ==
  ASSUME TypeOK, NEW i \in 1..Len(turns) PROVE turns[i].req \in Requests
<1>1. turns[i] \in TurnRows
  BY DEF TypeOK
<1> QED BY <1>1 DEF TurnRows

(* A step that stores no turn, and does not take the request past the      *)
(* steps that do                                                           *)
LEMMA HistoryKept ==
  ASSUME TypeInv, HistoryInv, NEW r \in Requests, Requests' = Requests,
         turns' = turns,
         \A q \in Requests \ {r} :
           pc'[q] = pc[q] /\ local'[q] = local[q] /\ reply'[q] = reply[q],
         pc[r] \in AfterQuestion => pc'[r] \in AfterQuestion \cup {"done"},
         pc[r] = "done" => pc'[r] = "done",
         pc[r] = "respond" => pc'[r] = "done",
         pc[r] \in BeforeQuestion => pc'[r] \notin AfterQuestion,
         pc'[r] # "respond",
         reply'[r] \in Answers => Appears(r, reply[r])'
  PROVE  HistoryInv'
<1> TypeOK
  BY DEF TypeInv
<1>1. AnswersFollowQuestions'
  BY DEF HistoryInv, AnswersFollowQuestions
<1>2. ASSUME NEW i \in 1..Len(turns)'
      PROVE  /\ turns'[i].role = "user" =>
                  pc'[turns'[i].req] \in AfterQuestion \cup {"done"}
             /\ turns'[i].role = "assistant" =>
                  pc'[turns'[i].req] \in {"respond", "done"}
  <2>1. i \in 1..Len(turns) /\ turns[i].req \in Requests
    BY <1>2, TurnsTyped
  <2> QED BY <2>1 DEF HistoryInv
<1>3. \A q \in Requests : pc'[q] \in AfterQuestion => Has("user", q)'
  <2>1. pc[r] \in BeforeQuestion \cup AfterQuestion \cup {"done"}
    BY DEF TypeOK, Steps, BeforeQuestion, AfterQuestion, Summarizing,
           AfterSummary, AfterRewrite, Answering
  <2>2. "done" \notin AfterQuestion
    BY DEF AfterQuestion, Summarizing, AfterSummary, AfterRewrite, Answering
  <2> QED BY <2>1, <2>2 DEF HistoryInv, Has
<1>4. ASSUME NEW q \in Requests
      PROVE  /\ pc'[q] = "respond" => Appears(q, local[q].result)'
             /\ reply'[q] \in Answers => Appears(q, reply[q])'
  <2>1. \A kind : Appears(q, kind) => Appears(q, kind)'
    BY DEF Appears
  <2>2. CASE q # r
    BY <2>1, <2>2 DEF HistoryInv
  <2> QED BY <2>2
<1> QED BY <1>1, <1>2, <1>3, <1>4 DEF HistoryInv

LEMMA InsertUserStores ==
  ASSUME TypeOK, NEW r \in Requests, InsertUser(r), ~Fails(r)
  PROVE  /\ turns' = Append(turns, [role |-> "user", req |-> r,
                                    kind |-> "question"])
         /\ pc[r] = "insertUser" /\ pc'[r] = "summary"
         /\ UNCHANGED <<config, status, resolutions, summaries, local, reply>>
         /\ local[r].idx = NextTurnIndex
BY Failures DEF InsertUser, Stored, Goto, TypeOK

LEMMA InsertAnswerStores ==
  ASSUME TypeOK, NEW r \in Requests, InsertAnswer(r), ~Fails(r)
  PROVE  /\ turns' = Append(turns, [role |-> "assistant", req |-> r,
                                    kind |-> local[r].result])
         /\ pc[r] = "insertAnswer" /\ pc'[r] = "respond"
         /\ UNCHANGED <<config, status, resolutions, summaries, local, reply>>
         /\ local[r].idx = NextTurnIndex
BY Failures DEF InsertAnswer, Stored, Goto, TypeOK

LEMMA AppendTurn ==
  ASSUME TypeOK, NEW turn, turns' = Append(turns, turn)
  PROVE  /\ Len(turns) \in Nat /\ Len(turns)' = Len(turns) + 1
         /\ \A i \in 1..Len(turns) : turns'[i] = turns[i]
         /\ turns'[Len(turns) + 1] = turn
         /\ \A i \in 1..Len(turns)' : i \in 1..Len(turns) \/ i = Len(turns) + 1
BY DEF TypeOK

LEMMA HistoryStored ==
  ASSUME TypeInv, HistoryInv, NEW r \in Requests, Step(r) \/ Break(r), Stores(r)
  PROVE  HistoryInv'
<1> TypeOK
  BY DEF TypeInv
<1> DEFINE turn == IF pc[r] = "insertUser"
                     THEN [role |-> "user", req |-> r, kind |-> "question"]
                     ELSE [role |-> "assistant", req |-> r,
                           kind |-> local[r].result]
<1> DEFINE last == Len(turns) + 1
<1>1. /\ turns' = Append(turns, turn) /\ local' = local /\ reply' = reply
      /\ \/ pc[r] = "insertUser" /\ pc'[r] = "summary"
         \/ pc[r] = "insertAnswer" /\ pc'[r] = "respond"
  BY InsertUserStores, InsertAnswerStores DEF Stores
<1>2. turn.req = r /\ turn.role = IF pc[r] = "insertUser" THEN "user"
                                                          ELSE "assistant"
  OBVIOUS
<1>3. pc[r] = "insertAnswer" =>
        turn = [role |-> "assistant", req |-> r, kind |-> local[r].result]
  OBVIOUS
<1> HIDE DEF turn
<1>4. /\ Len(turns) \in Nat /\ Len(turns)' = last
      /\ \A i \in 1..Len(turns) : turns'[i] = turns[i]
      /\ turns'[last] = turn
      /\ \A i \in 1..Len(turns)' : i \in 1..Len(turns) \/ i = last
  BY <1>1, AppendTurn
<1>5. \A i \in 1..Len(turns) : turns[i].req = r =>
        /\ turns[i].role # "assistant"
        /\ turns[i].role = "user" => pc[r] # "insertUser"
  BY <1>1 DEF HistoryInv, AfterQuestion, Summarizing, AfterSummary,
              AfterRewrite, Answering
<1>6. pc[r] = "insertAnswer" => Has("user", r)
  BY DEF HistoryInv, AfterQuestion, AfterSummary, AfterRewrite, Answering
<1>7. AnswersFollowQuestions'
  <2> SUFFICES ASSUME NEW i \in 1..Len(turns)'
      PROVE  /\ turns'[i].role = "assistant" =>
                  \E j \in 1..(i - 1) : /\ turns'[j].role = "user"
                                        /\ turns'[j].req = turns'[i].req
             /\ \A j \in 1..(i - 1) : turns'[j].role = turns'[i].role =>
                                        turns'[j].req # turns'[i].req
    BY DEF AnswersFollowQuestions
  <2>1. CASE i \in 1..Len(turns)
    <3>1. \A j \in 1..(i - 1) : turns'[j] = turns[j]
      BY <1>4, <2>1
    <3> QED BY <1>4, <2>1, <3>1 DEF HistoryInv, AnswersFollowQuestions
  <2>2. CASE i = last
    <3>1. 1..(i - 1) = 1..Len(turns) /\ turns'[i] = turn
      BY <1>4, <2>2
    <3>2. \A j \in 1..Len(turns) : turns[j].role = turn.role =>
                                     turns[j].req # turn.req
      BY <1>1, <1>2, <1>5
    <3>3. turn.role = "assistant" =>
            \E j \in 1..Len(turns) : turns[j].role = "user" /\ turns[j].req = r
      BY <1>1, <1>2, <1>6 DEF Has
    <3> QED BY <1>2, <1>4, <3>1, <3>2, <3>3
  <2> QED BY <1>4, <2>1, <2>2
<1>8. ASSUME NEW i \in 1..Len(turns)'
      PROVE  /\ turns'[i].role = "user" =>
                  pc'[turns'[i].req] \in AfterQuestion \cup {"done"}
             /\ turns'[i].role = "assistant" =>
                  pc'[turns'[i].req] \in {"respond", "done"}
  <2>1. CASE i \in 1..Len(turns)
    <3>1. turns'[i] = turns[i] /\ turns[i].req \in Requests
      BY <1>4, <2>1, TurnsTyped
    <3>2. CASE turns[i].req = r
      BY <1>1, <1>5, <2>1, <3>1, <3>2
         DEF AfterQuestion, AfterSummary, AfterRewrite, Answering
    <3>3. CASE turns[i].req # r
      BY <2>1, <3>1, <3>3, StepMoves DEF HistoryInv, TypeOK
    <3> QED BY <3>2, <3>3
  <2>2. CASE i = last
    BY <1>1, <1>2, <1>4, <2>2 DEF AfterQuestion
  <2> QED BY <1>4, <2>1, <2>2
<1>9. ASSUME NEW q \in Requests
      PROVE  /\ pc'[q] \in AfterQuestion => Has("user", q)'
             /\ pc'[q] = "respond" => Appears(q, local[q].result)'
             /\ reply'[q] \in Answers => Appears(q, reply[q])'
  <2>1. Has("user", q) => Has("user", q)'
    BY <1>4 DEF Has
  <2>2. \A kind : Appears(q, kind) => Appears(q, kind)'
    BY <1>4 DEF Appears
  <2>3. CASE q # r
    BY <1>1, <2>1, <2>2, <2>3, StepMoves DEF HistoryInv, TypeOK
  <2>4. CASE q = r
    <3>1. reply[r] = "none"
      BY <1>1 DEF TypeInv, Shape
    <3>2. last \in 1..Len(turns)'
      BY <1>4
    <3>3. Has("user", r)'
      BY <1>1, <1>2, <1>4, <1>6, <2>1, <2>4, <3>2 DEF Has
    <3>4. pc'[r] = "respond" => Appears(r, local[r].result)'
      BY <1>1, <1>3, <1>4, <3>2 DEF Appears
    <3>5. "none" \notin Answers
      BY DEF Answers, Results
    <3> QED BY <1>1, <2>4, <3>1, <3>3, <3>4, <3>5
  <2> QED BY <2>3, <2>4
<1> QED BY <1>7, <1>8, <1>9, StepMoves DEF HistoryInv

LEMMA Stages ==
  /\ "done" \notin BeforeQuestion \cup AfterQuestion
  /\ "respond" \in AfterQuestion /\ "respond" \notin BeforeQuestion
  /\ Steps = BeforeQuestion \cup AfterQuestion \cup {"done"}
  /\ BeforeQuestion \cap AfterQuestion = {}
  /\ Errors \cap Answers = {} /\ "none" \notin Answers \cup Errors
BY DEF BeforeQuestion, AfterQuestion, Summarizing, AfterSummary, AfterRewrite,
       Answering, Steps, Errors, Answers, Results

LEMMA StepHistory ==
  ASSUME TypeInv, HistoryInv, NEW r \in Requests, Step(r) \/ Break(r)
  PROVE  HistoryInv'
<1> TypeOK
  BY DEF TypeInv
<1>1. /\ Requests' = Requests
      /\ \A q \in Requests \ {r} :
           pc'[q] = pc[q] /\ local'[q] = local[q] /\ reply'[q] = reply[q]
  BY StepMoves DEF TypeOK
<1>2. reply[r] \notin Answers /\ pc[r] # "done"
  BY Stages, FailsWhenBusy DEF TypeInv, Shape
<1>3. CASE Stores(r)
  BY <1>3, HistoryStored
<1>4. CASE Fails(r)
  BY <1>1, <1>2, <1>4, FailEnds, HistoryKept, Stages
<1>5. CASE ~Stores(r) /\ ~Fails(r) /\ pc[r] # "respond"
  BY <1>1, <1>2, <1>5, TurnMoves, HistoryKept, Stages
<1>6. CASE ~Stores(r) /\ ~Fails(r) /\ pc[r] = "respond"
  <2>1. /\ turns' = turns /\ pc'[r] = "done" /\ reply'[r] = local[r].result
    BY <1>6, Stages, TurnMoves
  <2>2. Appears(r, local[r].result)
    BY <1>6 DEF HistoryInv
  <2>3. Appears(r, reply[r])'
    BY <2>1, <2>2 DEF Appears
  <2> QED BY <1>1, <1>2, <1>6, <2>1, <2>3, HistoryKept, Stages
<1> QED BY <1>3, <1>4, <1>5, <1>6

LEMMA QuietHistory ==
  ASSUME HistoryInv, UNCHANGED <<config, turns, pc, local, reply>>
  PROVE  HistoryInv'
<1>1. Requests' = Requests
  BY DEF Requests
<1> QED BY <1>1 DEF HistoryInv, AnswersFollowQuestions, Has, Appears

LEMMA NextHistory == ASSUME TypeInv, HistoryInv, [Next]_vars PROVE HistoryInv'
<1>1. UNCHANGED vars \/ Age => HistoryInv'
  BY QuietHistory DEF vars, Age
<1> QED BY <1>1, StepHistory DEF Next

LEMMA HistoryInvariant == Spec => [](TypeInv /\ HistoryInv)
<1>1. Init => TypeInv /\ HistoryInv
  BY InitTypes, HistoryInit DEF Init, TypeInv, Shape, Answering
<1>2. TypeInv /\ HistoryInv /\ [Next]_vars => (TypeInv /\ HistoryInv)'
  BY NextTypes, NextHistory
<1> QED BY <1>1, <1>2, PTL DEF Spec

(* In the history every answer comes after its question, and none of them  *)
(* is there twice, however the requests of the conversation overlap.       *)
THEOREM HistoryIsPaired == Spec => []AnswersFollowQuestions
<1>1. HistoryInv => AnswersFollowQuestions
  BY DEF HistoryInv
<1> QED BY <1>1, HistoryInvariant, PTL

(* What a client was told is in the history, and a question without an     *)
(* answer is that of a request which failed.                               *)
THEOREM RepliesStayStored == Spec => []RepliesAreStored
<1>1. ASSUME TypeInv, HistoryInv PROVE RepliesAreStored
  <2> SUFFICES ASSUME NEW r \in Requests
      PROVE  /\ reply[r] \in Answers =>
                  \E i \in 1..Len(turns) :
                    turns[i] = [role |-> "assistant", req |-> r,
                                kind |-> reply[r]]
             /\ pc[r] = "done" /\ Has("user", r) /\ ~Has("assistant", r) =>
                  reply[r] \in Errors
    BY DEF RepliesAreStored
  <2>1. reply[r] \in Answers => Appears(r, reply[r])
    BY <1>1 DEF HistoryInv
  <2>2. Appears(r, reply[r]) => Has("assistant", r)
    BY DEF Appears, Has
  <2>3. pc[r] = "done" => reply[r] \in Answers \cup Errors
    BY <1>1 DEF TypeInv, Shape
  <2> QED BY <2>1, <2>2, <2>3 DEF Appears
<1> QED BY <1>1, HistoryInvariant, PTL

-----------------------------------------------------------------------------
(* Conflicts                                                               *)

(* The next statement of r finds its key taken.                            *)
Collides(r) ==
  \/ pc[r] = "create" /\ status # "absent"
  \/ pc[r] \in {"insertUser", "insertAnswer"} /\ local[r].idx # NextTurnIndex
  \/ pc[r] = "insertSummary" /\ local[r].idx # Len(summaries) + 1

(* The last request that wrote a key has not lost a conflict and is not    *)
(* about to.                                                               *)
Leads(r) == pc[r] # "new" /\ reply[r] # "conflict" /\ ~Collides(r)

OverlapInv ==
  /\ \A r \in Requests :
       /\ pc[r] \notin {"new", "create", "done"} => status # "absent"
       /\ reply[r] = "conflict" => status # "absent" /\ config.parallel > 1
  /\ status # "absent" => \E r \in Requests : Leads(r)
  /\ config.parallel <= 1 =>
       \A r \in Busy : ~Collides(r) /\ \A q \in Busy : q = r

LEMMA OverlapInit == ASSUME Init PROVE OverlapInv
BY DEF Init, OverlapInv, Busy

LEMMA FreshIndex ==
  ASSUME TypeOK, NEW r \in Requests,
         \/ ReadIndex(r, "index", "insertUser")
         \/ ReadIndex(r, "answerIndex", "insertAnswer") \/ Summarize(r)
  PROVE  /\ UNCHANGED tables /\ ~Collides(r)'
         /\ pc[r] \in {"index", "answerIndex", "summarize"}
         /\ pc'[r] \in {"insertUser", "insertAnswer", "insertSummary"}
<1>1. CASE Summarize(r)
  <2>1. /\ UNCHANGED tables /\ pc[r] = "summarize" /\ pc'[r] = "insertSummary"
        /\ local'[r] = [local[r] EXCEPT !.idx = Len(summaries) + 1]
    BY <1>1 DEF Summarize, Goto, TypeOK
  <2>2. local'[r].idx = Len(summaries) + 1
    BY <2>1, LocalTyped DEF Locals
  <2> QED BY <2>1, <2>2 DEF Collides
<1>2. CASE ~Summarize(r)
  <2>1. /\ UNCHANGED tables /\ pc[r] \in {"index", "answerIndex"}
        /\ pc'[r] \in {"insertUser", "insertAnswer"}
        /\ local'[r] = [local[r] EXCEPT !.idx = NextTurnIndex]
    BY <1>2 DEF ReadIndex, Goto, TypeOK
  <2>2. local'[r].idx = NextTurnIndex
    BY <2>1, LocalTyped DEF Locals
  <2> QED BY <2>1, <2>2 DEF Collides, NextTurnIndex
<1> QED BY <1>1, <1>2

CollidingSteps == {"create", "insertUser", "insertAnswer", "insertSummary"}

(* After a step that does not fail, no key that the request is about to    *)
(* write is taken.                                                         *)
LEMMA StepLeads ==
  ASSUME TypeInv, OverlapInv, NEW r \in Requests, Step(r) \/ Break(r), ~Fails(r)
  PROVE  /\ Leads(r)'
         /\ status # "absent" => status' # "absent"
         /\ pc'[r] \notin {"new", "create", "done"} => status' # "absent"
<1> TypeOK /\ Shape(r) /\ pc[r] # "done"
  BY FailsWhenBusy DEF TypeInv
<1>1. reply'[r] = reply[r] \/ reply'[r] \in Answers
  <2>1. Stores(r) => reply'[r] = reply[r]
    BY InsertUserStores, InsertAnswerStores DEF Stores
  <2>2. pc[r] = "respond" => local[r].result \in Answers
    BY DEF Shape, Answering
  <2> QED BY <2>1, <2>2, TurnMoves
<1>2. reply'[r] # "conflict"
  BY <1>1, Stages DEF Shape, Errors
<1> DEFINE moved == /\ pc'[r] # "new" /\ ~Collides(r)'
                    /\ status # "absent" => status' # "absent"
                    /\ pc'[r] \notin {"new", "create", "done"} =>
                         status' # "absent"
<1>3. pc[r] \notin {"new", "create"} => status # "absent"
  BY DEF OverlapInv
<1>4. CASE Arrive(r)
  <2>1. UNCHANGED tables /\ pc'[r] \in {"create", "archive", "touch"}
        /\ (pc'[r] = "create" <=> status = "absent")
    BY <1>4 DEF Arrive, Goto, TypeOK
  <2>2. moved
    BY <2>1 DEF Collides
  <2> QED BY <1>2, <2>2 DEF Leads
<1>5. CASE Create(r) \/ Archive(r) \/ Touch(r)
  <2>1. pc'[r] \in {"index", "touch"} /\ status' # "absent"
    BY <1>3, <1>5, Failures DEF Create, Archive, Touch, Goto, TypeOK
  <2>2. moved
    BY <2>1 DEF Collides
  <2> QED BY <1>2, <2>2 DEF Leads
<1>6. CASE \/ ReadIndex(r, "index", "insertUser") \/ Summarize(r)
           \/ ReadIndex(r, "answerIndex", "insertAnswer")
  <2>1. moved
    BY <1>3, <1>6, FreshIndex
  <2> QED BY <1>2, <2>1 DEF Leads
<1>7. CASE \/ InsertUser(r) \/ InsertAnswer(r) \/ Summary(r) \/ InsertSummary(r)
           \/ Pending(r) \/ Count(r) \/ Trace(r) \/ Respond(r)
  <2>1. /\ status' = status /\ pc[r] \notin {"new", "create"}
        /\ pc'[r] \notin CollidingSteps \cup {"new"}
    <3>1. CASE InsertUser(r) \/ InsertAnswer(r) \/ InsertSummary(r)
      BY <3>1, Failures DEF InsertUser, InsertAnswer, InsertSummary, Goto,
         TypeOK, CollidingSteps
    <3>2. CASE Summary(r) \/ Pending(r) \/ Count(r) \/ Trace(r) \/ Respond(r)
      BY <3>2 DEF Summary, Pending, Count, Trace, Respond, End, Goto, TypeOK,
         CollidingSteps
    <3> QED BY <1>7, <3>1, <3>2
  <2>2. moved
    BY <1>3, <2>1 DEF Collides, CollidingSteps
  <2> QED BY <1>2, <2>2 DEF Leads
<1>8. CASE \/ \E needed, low \in BOOLEAN : Rewrite(r, needed, low)
           \/ \E c \in Confidences : Answer(r, c)
  <2>1. /\ status' = status /\ pc[r] \notin {"new", "create"}
        /\ pc'[r] \notin CollidingSteps \cup {"new"}
    <3>1. CASE \E needed, low \in BOOLEAN : Rewrite(r, needed, low)
      BY <3>1 DEF Rewrite, Goto, TypeOK, CollidingSteps
    <3>2. CASE \E c \in Confidences : Answer(r, c)
      BY <3>2, AnswerEnds, Failures DEF Goto, TypeOK, CollidingSteps
    <3> QED BY <1>8, <3>1, <3>2
  <2>2. moved
    BY <1>3, <2>1 DEF Collides, CollidingSteps
  <2> QED BY <1>2, <2>2 DEF Leads
<1>9. ~LogRaises(r) /\ ~Break(r)
  BY Failures
<1> QED BY <1>4, <1>5, <1>6, <1>7, <1>8, <1>9 DEF Step

LEMMA ConflictCollides ==
  ASSUME TypeInv, OverlapInv, NEW r \in Requests, Step(r) \/ Break(r), Fails(r),
         reply'[r] = "conflict"
  PROVE  Collides(r) /\ status # "absent" /\ r \in Busy
<1> TypeOK /\ Shape(r)
  BY DEF TypeInv
<1>1. reply[r] # "conflict" /\ pc'[r] = "done"
  BY FailsWhenBusy, FailEnds DEF Shape
<1>2. CASE Create(r) \/ InsertUser(r) \/ InsertAnswer(r) \/ InsertSummary(r)
  <2>1. Collides(r)
    BY <1>1, <1>2 DEF Create, InsertUser, InsertAnswer, InsertSummary, Goto,
       TypeOK, Collides
  <2> QED BY <2>1 DEF Collides, OverlapInv, Busy
<1>3. CASE \/ Arrive(r) \/ Archive(r) \/ Touch(r) \/ Summary(r) \/ Summarize(r)
           \/ ReadIndex(r, "index", "insertUser") \/ Pending(r)
           \/ ReadIndex(r, "answerIndex", "insertAnswer") \/ Trace(r)
  BY <1>1, <1>3 DEF Arrive, Archive, Touch, Summary, Summarize, ReadIndex,
     Pending, Trace, Goto, TypeOK
<1>4. CASE Count(r) \/ \E needed, low \in BOOLEAN : Rewrite(r, needed, low)
  BY <1>1, <1>4 DEF Count, Rewrite, TypeOK
<1>5. CASE \E c \in Confidences : Answer(r, c)
  BY <1>1, <1>5, AnswerEnds DEF Goto, Fail, End, TypeOK
<1>6. CASE LogRaises(r) \/ Break(r)
  BY <1>1, <1>6 DEF LogRaises, Break, Fail, End, TypeOK
<1>7. CASE Respond(r)
  <2>1. local[r].result \in Answers /\ reply'[r] = local[r].result
    BY <1>7 DEF Respond, End, Shape, Answering, TypeOK
  <2> QED BY <2>1, Stages DEF Errors
<1> QED BY <1>2, <1>3, <1>4, <1>5, <1>6, <1>7 DEF Step

LEMMA NewArrives ==
  ASSUME NEW r \in Requests, Step(r) \/ Break(r), pc[r] = "new"
  PROVE  Arrive(r)
<1>1. ~(Create(r) \/ Archive(r) \/ Touch(r) \/ InsertUser(r) \/ InsertAnswer(r))
  BY DEF Create, Archive, Touch, InsertUser, InsertAnswer, Goto
<1>2. ~(\/ ReadIndex(r, "index", "insertUser") \/ Summary(r) \/ Summarize(r)
        \/ ReadIndex(r, "answerIndex", "insertAnswer") \/ InsertSummary(r)
        \/ Pending(r) \/ LogRaises(r))
  BY DEF ReadIndex, Summary, Summarize, InsertSummary, Pending, LogRaises, Goto
<1>3. ~(Count(r) \/ Trace(r) \/ Respond(r) \/ Break(r))
  BY DEF Count, Trace, Respond, Break, Busy, Goto
<1>4. /\ ~\E needed, low \in BOOLEAN : Rewrite(r, needed, low)
      /\ ~\E c \in Confidences : Answer(r, c)
  BY DEF Rewrite, Answer, Goto
<1> QED BY <1>1, <1>2, <1>3, <1>4 DEF Step

(* Without overlap a request is let in only when none is busy.             *)
LEMMA ArrivesAlone ==
  ASSUME TypeOK, NEW r \in Requests, Arrive(r), config.parallel <= 1
  PROVE  Busy = {}
<1>1. config.requests \in Nat /\ config.parallel \in Nat
  BY ConfigIsTyped DEF ConfigType
<1>2. IsFiniteSet(Busy)
  <2>1. 1 \in Int /\ config.requests \in Int
    BY <1>1
  <2>2. IsFiniteSet(Requests)
    BY <2>1, FS_Interval DEF Requests
  <2>3. Busy \subseteq Requests
    BY DEF Busy
  <2> QED BY <2>2, <2>3, FS_Subset
<1>3. Cardinality(Busy) \in Nat /\ Cardinality(Busy) < config.parallel
  BY <1>2, FS_CardinalityType DEF Arrive
<1>4. Cardinality(Busy) = 0
  BY <1>1, <1>3
<1> QED BY <1>2, <1>4, FS_EmptySet

(* Without overlap the request that steps is the only one in progress.     *)
LEMMA StepsAlone ==
  ASSUME TypeInv, OverlapInv, NEW r \in Requests, Step(r) \/ Break(r),
         config.parallel <= 1
  PROVE  \A q \in Requests \ {r} : pc[q] \in {"new", "done"} /\ pc'[q] = pc[q]
<1> TypeOK
  BY DEF TypeInv
<1>1. \A q \in Requests \ {r} : pc'[q] = pc[q]
  BY StepMoves DEF TypeOK
<1>2. CASE pc[r] = "new"
  BY <1>1, <1>2, NewArrives, ArrivesAlone DEF Busy
<1>3. CASE pc[r] # "new"
  <2>1. r \in Busy
    BY <1>3, FailsWhenBusy DEF Busy
  <2> QED BY <1>1, <2>1 DEF OverlapInv, Busy
<1> QED BY <1>2, <1>3

LEMMA StepOverlap ==
  ASSUME TypeInv, OverlapInv, NEW r \in Requests, Step(r) \/ Break(r)
  PROVE  OverlapInv'
<1> TypeOK /\ Shape(r) /\ pc[r] # "done"
  BY FailsWhenBusy DEF TypeInv
<1>1. /\ Requests' = Requests /\ config' = config
      /\ \A q \in Requests \ {r} :
           pc'[q] = pc[q] /\ local'[q] = local[q] /\ reply'[q] = reply[q]
  BY StepMoves DEF TypeOK
<1> DEFINE conflict == Fails(r) /\ reply'[r] = "conflict"
<1>2. /\ status # "absent" => status' # "absent"
      /\ pc'[r] \notin {"new", "create", "done"} => status' # "absent"
      /\ ~conflict => Leads(r)'
      /\ Fails(r) => pc'[r] = "done" /\ UNCHANGED tables
      /\ ~Fails(r) => reply'[r] # "conflict" /\ ~Collides(r)'
  <2>1. CASE Fails(r)
    <3>1. pc'[r] = "done" /\ UNCHANGED tables
      BY <2>1, FailEnds
    <3> QED BY <2>1, <3>1 DEF Leads, Collides
  <2>2. CASE ~Fails(r)
    BY <2>2, StepLeads DEF Leads
  <2> QED BY <2>1, <2>2
<1>3. conflict => Collides(r) /\ status # "absent" /\ r \in Busy
  BY ConflictCollides
<1>4. conflict => config.parallel > 1
  <2>1. config.parallel \in Nat
    BY ConfigIsTyped DEF ConfigType
  <2> QED BY <1>3, <2>1 DEF OverlapInv
<1>5. \A q \in Requests :
        /\ pc'[q] \notin {"new", "create", "done"} => status' # "absent"
        /\ reply'[q] = "conflict" => status' # "absent" /\ config.parallel > 1
  BY <1>1, <1>2, <1>3, <1>4 DEF OverlapInv
<1>6. status' # "absent" => \E q \in Requests : Leads(q)'
  <2>1. CASE ~conflict
    BY <1>2, <2>1
  <2>2. CASE conflict
    <3>1. PICK q \in Requests : Leads(q)
      BY <1>3, <2>2 DEF OverlapInv
    <3>2. q # r /\ UNCHANGED tables
      BY <1>2, <1>3, <2>2, <3>1 DEF Leads
    <3>3. Leads(q)'
      BY <1>1, <3>1, <3>2 DEF Leads, Collides, NextTurnIndex
    <3> QED BY <3>3
  <2> QED BY <2>1, <2>2
<1>7. ASSUME config.parallel <= 1, NEW q \in Busy'
      PROVE  ~Collides(q)' /\ \A p \in Busy' : p = q
  <2>1. \A p \in Requests \ {r} : pc'[p] \in {"new", "done"}
    BY <1>7, StepsAlone
  <2>2. q = r /\ \A p \in Busy' : p = r
    BY <1>1, <1>7, <2>1 DEF Busy
  <2>3. ~Fails(r)
    BY <1>2, <1>7, <2>2 DEF Busy
  <2> QED BY <1>2, <2>2, <2>3
<1> QED BY <1>1, <1>5, <1>6, <1>7 DEF OverlapInv

LEMMA QuietOverlap ==
  ASSUME OverlapInv,
         UNCHANGED <<config, status, turns, summaries, pc, local, reply>>
  PROVE  OverlapInv'
BY DEF OverlapInv, Requests, Busy, Collides, Leads, NextTurnIndex

LEMMA NextOverlap == ASSUME TypeInv, OverlapInv, [Next]_vars PROVE OverlapInv'
<1>1. UNCHANGED vars \/ Age => OverlapInv'
  BY QuietOverlap DEF vars, Age
<1> QED BY <1>1, StepOverlap DEF Next

LEMMA OverlapInvariant == Spec => [](TypeInv /\ HistoryInv /\ OverlapInv)
<1>1. Init => OverlapInv
  BY OverlapInit
<1>2. TypeInv /\ OverlapInv /\ [Next]_vars => OverlapInv'
  BY NextOverlap
<1> QED BY <1>1, <1>2, HistoryInvariant, PTL DEF Spec

(* A request loses a turn index, a summary version or the row of the       *)
(* conversation only to one it overlaps with, and never all of them do.    *)
THEOREM OnlyOverlapsConflict == Spec => []ConflictsNeedOverlap
<1>1. ASSUME OverlapInv PROVE ConflictsNeedOverlap
  BY <1>1 DEF OverlapInv, Leads, ConflictsNeedOverlap
<1> QED BY <1>1, OverlapInvariant, PTL

-----------------------------------------------------------------------------
(* Summaries                                                               *)

Due(i) == SummaryThreshold <= i /\ turns[i].role = "user"

Summarized(i) == \E v \in 1..Len(summaries) : i <= summaries[v]

Increasing == \A v \in 2..Len(summaries) : summaries[v - 1] < summaries[v]

(* From the check on, a question that is due is in a summary or will be in *)
(* the one the request is about to store; without overlap that one covers  *)
(* more than the latest.                                                   *)
SummaryInv ==
  /\ \A i \in 1..Len(turns) : Due(i) =>
       /\ \/ pc[turns[i].req] \in AfterSummary
          \/ reply[turns[i].req] \in Answers
          => Summarized(i)
       /\ pc[turns[i].req] \in Summarizing => i <= local[turns[i].req].covers
  /\ config.parallel <= 1 =>
       /\ Increasing
       /\ \A r \in Requests : pc[r] \in Summarizing => Covered < local[r].covers

LEMMA SummaryMoves ==
  ASSUME TypeInv, NEW r \in Requests, Step(r) \/ Break(r), ~Fails(r)
  PROVE  \/ Summary(r) \/ Summarize(r) \/ InsertSummary(r)
         \/ /\ summaries' = summaries /\ pc'[r] \notin Summarizing
            /\ pc[r] \in BeforeQuestion \cup AfterSummary
<1> TypeOK
  BY DEF TypeInv
<1> USE DEF Goto, TypeOK, Summarizing, BeforeQuestion, AfterSummary,
            AfterRewrite, Answering
<1>1. CASE Arrive(r) \/ Create(r) \/ Archive(r) \/ Touch(r)
  BY <1>1, Failures DEF Arrive, Create, Archive, Touch
<1>2. CASE ReadIndex(r, "index", "insertUser") \/ InsertUser(r)
  BY <1>2, Failures DEF ReadIndex, InsertUser
<1>3. CASE ReadIndex(r, "answerIndex", "insertAnswer") \/ InsertAnswer(r)
  BY <1>3, Failures DEF ReadIndex, InsertAnswer
<1>4. CASE Pending(r) \/ \E needed, low \in BOOLEAN : Rewrite(r, needed, low)
  BY <1>4 DEF Pending, Rewrite
<1>5. CASE Count(r) \/ Trace(r)
  BY <1>5 DEF Count, Trace
<1>6. CASE Respond(r)
  BY <1>6 DEF Respond, End
<1>7. CASE \E c \in Confidences : Answer(r, c)
  BY <1>7, AnswerEnds, Failures
<1>8. ~LogRaises(r) /\ ~Break(r)
  BY Failures
<1> QED BY <1>1, <1>2, <1>3, <1>4, <1>5, <1>6, <1>7, <1>8 DEF Step

LEMMA SummaryDecides ==
  ASSUME TypeOK, NEW r \in Requests, Summary(r)
  PROVE  /\ UNCHANGED <<turns, summaries, reply>> /\ pc[r] = "summary"
         /\ \/ /\ pc'[r] = "summarize" /\ local'[r].covers = Len(turns)
               /\ Len(turns) > Covered
            \/ /\ pc'[r] = "pending"
               /\ Len(turns) < SummaryThreshold \/ Len(turns) <= Covered
<1> DEFINE needed == Len(turns) >= SummaryThreshold /\ Len(turns) > Covered
<1>1. /\ UNCHANGED <<turns, summaries, reply>> /\ pc[r] = "summary"
      /\ pc'[r] = IF needed THEN "summarize" ELSE "pending"
      /\ local'[r] = [local[r] EXCEPT !.covers = IF needed THEN Len(turns) ELSE 0]
  BY DEF Summary, Goto, TypeOK
<1>2. local'[r].covers = IF needed THEN Len(turns) ELSE 0
  BY <1>1, LocalTyped DEF Locals
<1>3. Len(turns) \in Nat /\ SummaryThreshold \in Nat /\ Covered \in Nat
  <2>1. summaries # <<>> => Len(summaries) \in 1..Len(summaries)
    BY DEF TypeOK
  <2>2. summaries # <<>> => summaries[Len(summaries)] \in Nat
    BY <2>1 DEF TypeOK, SummaryRows
  <2> QED BY <2>2, ConversationAssumption DEF TypeOK, Covered
<1> QED BY <1>1, <1>2, <1>3

LEMMA SummarizeKeeps ==
  ASSUME TypeOK, NEW r \in Requests, Summarize(r)
  PROVE  /\ UNCHANGED <<turns, summaries, reply>>
         /\ pc[r] = "summarize" /\ pc'[r] = "insertSummary"
         /\ local'[r].covers = local[r].covers
<1>1. /\ UNCHANGED <<turns, summaries, reply>>
      /\ pc[r] = "summarize" /\ pc'[r] = "insertSummary"
      /\ local'[r] = [local[r] EXCEPT !.idx = Len(summaries) + 1]
  BY DEF Summarize, Goto, TypeOK
<1> QED BY <1>1, LocalTyped DEF Locals

LEMMA SummaryStored ==
  ASSUME TypeOK, NEW r \in Requests, InsertSummary(r), ~Fails(r)
  PROVE  /\ UNCHANGED <<turns, reply>>
         /\ pc[r] = "insertSummary" /\ pc'[r] = "pending"
         /\ Len(summaries) \in Nat /\ Len(summaries)' = Len(summaries) + 1
         /\ \A v \in 1..Len(summaries) : summaries'[v] = summaries[v]
         /\ summaries'[Len(summaries) + 1] = local[r].covers
<1>1. /\ UNCHANGED <<turns, reply>>
      /\ pc[r] = "insertSummary" /\ pc'[r] = "pending"
      /\ summaries' = Append(summaries, local[r].covers)
  BY Failures DEF InsertSummary, Goto, TypeOK
<1>2. summaries \in Seq(Nat) /\ local[r].covers \in Nat
  BY LocalTyped DEF TypeOK, SummaryRows, Locals
<1> QED BY <1>1, <1>2

LEMMA SummariesGrow ==
  ASSUME TypeInv, NEW r \in Requests, Step(r) \/ Break(r), NEW i,
         Summarized(i)
  PROVE  Summarized(i)'
<1> TypeOK
  BY DEF TypeInv
<1>1. CASE summaries' = summaries
  BY <1>1 DEF Summarized
<1>2. CASE InsertSummary(r) /\ ~Fails(r)
  BY <1>2, SummaryStored DEF Summarized
<1>3. summaries' = summaries \/ (InsertSummary(r) /\ ~Fails(r))
  BY FailEnds, SummaryMoves, SummaryDecides, SummarizeKeeps
<1> QED BY <1>1, <1>2, <1>3

(* A due question of the request that steps                                *)
LEMMA SummaryOfOwn ==
  ASSUME TypeInv, HistoryInv, SummaryInv,
         NEW r \in Requests, Step(r) \/ Break(r),
         NEW i \in 1..Len(turns), Due(i), turns[i].req = r
  PROVE  /\ pc'[r] \in AfterSummary \/ reply'[r] \in Answers => Summarized(i)'
         /\ pc'[r] \in Summarizing => i <= local'[r].covers
<1> TypeOK
  BY DEF TypeInv
<1> i \in Nat /\ Len(turns) \in Nat /\ i <= Len(turns) /\ SummaryThreshold \in Nat
  BY ConversationAssumption DEF TypeOK
<1> "pending" \notin Summarizing /\ "done" \notin Summarizing \cup AfterSummary
  BY DEF Summarizing, AfterSummary, AfterRewrite, Answering
<1>1. CASE Fails(r)
  BY <1>1, FailEnds, Stages
<1>2. CASE Summary(r) /\ ~Fails(r)
  <2>1. CASE pc'[r] = "summarize"
    <3>1. reply'[r] \notin Answers /\ "summarize" \notin AfterSummary
      BY <1>2, SummaryDecides, Stages
         DEF TypeInv, Shape, AfterSummary, AfterRewrite, Answering
    <3> QED BY <1>2, <2>1, <3>1, SummaryDecides
  <2>2. CASE pc'[r] = "pending"
    <3>1. Len(turns) <= Covered /\ summaries' = summaries
      BY <1>2, <2>2, SummaryDecides DEF Due
    <3>2. summaries # <<>>
      BY <3>1 DEF Covered
    <3>3. Len(summaries) \in 1..Len(summaries)
      BY <3>2 DEF TypeOK
    <3>4. summaries[Len(summaries)] \in Nat
      BY <3>3 DEF TypeOK, SummaryRows
    <3>5. Summarized(i)'
      BY <3>1, <3>2, <3>3, <3>4 DEF Summarized, Covered
    <3> QED BY <2>2, <3>5
  <2> QED BY <1>2, <2>1, <2>2, SummaryDecides
<1>3. CASE Summarize(r) /\ ~Fails(r)
  <2>1. reply'[r] \notin Answers /\ "insertSummary" \notin AfterSummary
    BY <1>3, SummarizeKeeps, Stages
       DEF TypeInv, Shape, AfterSummary, AfterRewrite, Answering
  <2> QED BY <1>3, <2>1, SummarizeKeeps DEF SummaryInv, Summarizing
<1>4. CASE InsertSummary(r) /\ ~Fails(r)
  <2>1. i <= local[r].covers
    BY <1>4, SummaryStored DEF SummaryInv, Summarizing
  <2>2. Len(summaries) + 1 \in 1..Len(summaries)'
    BY <1>4, SummaryStored
  <2>3. Summarized(i)'
    BY <1>4, <2>1, <2>2, SummaryStored DEF Summarized
  <2> QED BY <1>4, <2>3, SummaryStored
<1>5. CASE ~Fails(r) /\ ~(Summary(r) \/ Summarize(r) \/ InsertSummary(r))
  <2>1. pc'[r] \notin Summarizing /\ pc[r] \in BeforeQuestion \cup AfterSummary
    BY <1>5, SummaryMoves
  <2>2. pc[r] \notin BeforeQuestion
    BY Stages DEF HistoryInv, Due
  <2>3. Summarized(i)
    BY <2>1, <2>2 DEF SummaryInv
  <2> QED BY <2>1, <2>3, SummariesGrow
<1> QED BY <1>1, <1>2, <1>3, <1>4, <1>5

(* The turns after a step are those before and possibly one of its own.    *)
LEMMA TurnsGrow ==
  ASSUME TypeInv, NEW r \in Requests, Step(r) \/ Break(r)
  PROVE  /\ \A i \in 1..Len(turns) : i \in 1..Len(turns)' /\ turns'[i] = turns[i]
         /\ \A i \in 1..Len(turns)' :
              \/ i \in 1..Len(turns)
              \/ /\ turns'[i].req = r
                 /\ turns'[i].role = "user" =>
                      pc'[r] = "summary" /\ reply'[r] = "none"
<1> TypeOK
  BY DEF TypeInv
<1>1. CASE turns' = turns
  BY <1>1
<1>2. CASE InsertUser(r) /\ ~Fails(r)
  <2> DEFINE turn == [role |-> "user", req |-> r, kind |-> "question"]
  <2>1. turns' = Append(turns, turn) /\ pc'[r] = "summary" /\ reply' = reply
        /\ pc[r] = "insertUser"
    BY <1>2, InsertUserStores
  <2>2. reply[r] = "none" /\ turn.req = r
    BY <2>1 DEF TypeInv, Shape
  <2> HIDE DEF turn
  <2> QED BY <2>1, <2>2, AppendTurn
<1>3. CASE InsertAnswer(r) /\ ~Fails(r)
  <2> DEFINE turn == [role |-> "assistant", req |-> r, kind |-> local[r].result]
  <2>1. turns' = Append(turns, turn)
    BY <1>3, InsertAnswerStores
  <2>2. turn.req = r /\ turn.role # "user"
    OBVIOUS
  <2> HIDE DEF turn
  <2> QED BY <2>1, <2>2, AppendTurn
<1>4. turns' = turns \/ Stores(r)
  BY FailEnds, TurnMoves
<1> QED BY <1>1, <1>2, <1>3, <1>4 DEF Stores

LEMMA StepCovers ==
  ASSUME TypeInv, SummaryInv, NEW r \in Requests, Step(r) \/ Break(r),
         config.parallel <= 1, pc'[r] \in Summarizing
  PROVE  Covered' < local'[r].covers
<1> TypeOK
  BY DEF TypeInv
<1>1. ~Fails(r)
  BY FailEnds DEF Summarizing
<1>2. CASE Summary(r)
  <2>1. Covered' = Covered
    BY <1>2, SummaryDecides DEF Covered
  <2> QED BY <1>2, <2>1, SummaryDecides DEF Summarizing
<1>3. CASE Summarize(r)
  <2>1. Covered' = Covered
    BY <1>3, SummarizeKeeps DEF Covered
  <2> QED BY <1>3, <2>1, SummarizeKeeps DEF SummaryInv, Summarizing
<1>4. ~InsertSummary(r)
  BY <1>1, SummaryStored DEF Summarizing
<1> QED BY <1>1, <1>2, <1>3, <1>4, SummaryMoves

LEMMA StepIncreases ==
  ASSUME TypeInv, SummaryInv, NEW r \in Requests, Step(r) \/ Break(r),
         config.parallel <= 1
  PROVE  Increasing'
<1> TypeOK /\ Increasing
  BY DEF TypeInv, SummaryInv
<1>1. CASE summaries' = summaries
  BY <1>1 DEF Increasing
<1>2. CASE InsertSummary(r) /\ ~Fails(r)
  <2>1. Covered < local[r].covers
    BY <1>2, SummaryStored DEF SummaryInv, Summarizing
  <2> SUFFICES ASSUME NEW v \in 2..Len(summaries)'
      PROVE  summaries'[v - 1] < summaries'[v]
    BY DEF Increasing
  <2>2. CASE v \in 2..Len(summaries)
    <3>1. v \in 1..Len(summaries) /\ v - 1 \in 1..Len(summaries)
      BY <2>2, SummaryStored, <1>2
    <3> QED BY <1>2, <2>2, <3>1, SummaryStored DEF Increasing
  <2>3. CASE v = Len(summaries) + 1
    <3>1. v - 1 = Len(summaries) /\ Len(summaries) \in 1..Len(summaries)
      BY <1>2, <2>3, SummaryStored
    <3>2. summaries # <<>>
      BY <3>1
    <3> QED BY <1>2, <2>1, <2>3, <3>1, <3>2, SummaryStored DEF Covered
  <2>4. v \in 2..Len(summaries) \/ v = Len(summaries) + 1
    BY <1>2, SummaryStored
  <2> QED BY <2>2, <2>3, <2>4
<1>3. summaries' = summaries \/ (InsertSummary(r) /\ ~Fails(r))
  BY FailEnds, SummaryMoves, SummaryDecides, SummarizeKeeps
<1> QED BY <1>1, <1>2, <1>3

LEMMA StepSummary ==
  ASSUME TypeInv, HistoryInv, OverlapInv, SummaryInv,
         NEW r \in Requests, Step(r) \/ Break(r)
  PROVE  SummaryInv'
<1> TypeOK
  BY DEF TypeInv
<1>1. /\ Requests' = Requests /\ config' = config
      /\ \A q \in Requests \ {r} :
           pc'[q] = pc[q] /\ local'[q] = local[q] /\ reply'[q] = reply[q]
  BY StepMoves DEF TypeOK
<1>2. ASSUME NEW i \in 1..Len(turns)', Due(i)'
      PROVE  /\ \/ pc'[turns'[i].req] \in AfterSummary
                \/ reply'[turns'[i].req] \in Answers
                => Summarized(i)'
             /\ pc'[turns'[i].req] \in Summarizing =>
                  i <= local'[turns'[i].req].covers
  <2>1. CASE i \in 1..Len(turns)
    <3>1. turns'[i] = turns[i] /\ Due(i) /\ turns[i].req \in Requests
      BY <1>2, <2>1, TurnsGrow, TurnsTyped DEF Due
    <3>2. CASE turns[i].req = r
      BY <2>1, <3>1, <3>2, SummaryOfOwn
    <3>3. CASE turns[i].req # r
      <4>1. Summarized(i) => Summarized(i)'
        BY SummariesGrow
      <4> QED BY <1>1, <2>1, <3>1, <3>3, <4>1 DEF SummaryInv
    <3> QED BY <3>2, <3>3
  <2>2. CASE i \notin 1..Len(turns)
    <3>1. turns'[i].req = r /\ pc'[r] = "summary" /\ reply'[r] = "none"
      BY <1>2, <2>2, TurnsGrow DEF Due
    <3> QED BY <3>1, Stages
            DEF Summarizing, AfterSummary, AfterRewrite, Answering
  <2> QED BY <2>1, <2>2
<1>3. ASSUME config.parallel <= 1
      PROVE  /\ Increasing'
             /\ \A q \in Requests :
                  pc'[q] \in Summarizing => Covered' < local'[q].covers
  <2>1. \A q \in Requests \ {r} : pc'[q] \notin Summarizing
    BY <1>3, StepsAlone DEF Summarizing
  <2> QED BY <1>3, <2>1, StepCovers, StepIncreases
<1> QED BY <1>1, <1>2, <1>3 DEF SummaryInv

LEMMA NextSummary ==
  ASSUME TypeInv, HistoryInv, OverlapInv, SummaryInv, [Next]_vars
  PROVE  SummaryInv'
<1>1. CASE UNCHANGED vars \/ Age
  <2>1. UNCHANGED <<config, turns, summaries, pc, local, reply>>
    BY <1>1 DEF vars, Age
  <2> QED BY <2>1 DEF SummaryInv, Requests, Due, Summarized, Increasing, Covered
<1> QED BY <1>1, StepSummary DEF Next

(* Once there are enough turns, a question that was answered is covered by *)
(* a stored summary, however the requests overlap; and requests one after  *)
(* another never store a summary that covers no more than the one before.  *)
THEOREM SummariesKeepUp == Spec => []SummaryKeepsUp
<1>1. Init => SummaryInv
  <2> SUFFICES ASSUME Init PROVE SummaryInv
    OBVIOUS
  <2>1. Len(turns) = 0 /\ Len(summaries) = 0 /\ \A r \in Requests : pc[r] = "new"
    BY DEF Init
  <2> QED BY <2>1 DEF SummaryInv, Increasing, Summarizing
<1>2. TypeInv /\ HistoryInv /\ OverlapInv /\ SummaryInv /\ [Next]_vars
        => SummaryInv'
  BY NextSummary
<1>3. ASSUME TypeInv, SummaryInv PROVE SummaryKeepsUp
  <2>1. ASSUME NEW i \in 1..Len(turns), Due(i), reply[turns[i].req] \in Answers
        PROVE  \E v \in 1..Len(summaries) : summaries[v] >= i
    <3>1. PICK v \in 1..Len(summaries) : i <= summaries[v]
      BY <1>3, <2>1 DEF SummaryInv, Summarized
    <3>2. summaries[v] \in Nat /\ i \in Nat
      BY <1>3 DEF TypeInv, TypeOK, SummaryRows
    <3> QED BY <3>1, <3>2
  <2>2. config.parallel = 1 => Increasing
    BY <1>3 DEF SummaryInv
  <2> QED BY <2>1, <2>2 DEF SummaryKeepsUp, Due, Increasing
<1> QED BY <1>1, <1>2, <1>3, OverlapInvariant, PTL DEF Spec

-----------------------------------------------------------------------------
(* Pending questions                                                       *)

AskedBy(q) == \E i \in 1..Len(resolutions) :
                resolutions[i].req = q /\ resolutions[i].needed

(* The question of q was put, given up or lost, or q is not through yet.   *)
Settled(q) ==
  Shown(q) \/ reply[q] \in Errors \cup {"depth_exceeded"} \/ q \in Busy

(* A request has one resolution, from the rewriting on, and goes by what   *)
(* that says; the question it asks for is settled with the request.        *)
QuestionInv ==
  /\ \A i \in 1..Len(resolutions) :
       /\ pc[resolutions[i].req] \in AfterRewrite \cup {"done"}
       /\ pc[resolutions[i].req] \in AfterRewrite =>
            resolutions[i].needed = local[resolutions[i].req].needed
       /\ \A j \in 1..(i - 1) : resolutions[j].req # resolutions[i].req
       /\ resolutions[i].needed => Settled(resolutions[i].req)
  /\ \A r \in Requests : local[r].asked # 0 => AskedBy(local[r].asked)

LEMMA ResolutionsTyped ==
  ASSUME TypeOK, NEW i \in 1..Len(resolutions)
  PROVE  resolutions[i].req \in Requests /\ resolutions[i].needed \in BOOLEAN
<1>1. resolutions[i] \in ResolutionRows
  BY DEF TypeOK
<1> QED BY <1>1 DEF ResolutionRows

LEMMA ShownAppears ==
  ASSUME NEW r PROVE Shown(r) <=> Appears(r, "clarification")
BY DEF Shown, Appears

LEMMA ShownStays ==
  ASSUME TypeInv, NEW r \in Requests, Step(r) \/ Break(r), NEW q, Shown(q)
  PROVE  Shown(q)'
<1>1. Appears(q, "clarification")
  BY ShownAppears
<1>2. PICK i \in 1..Len(turns) :
        turns[i] = [role |-> "assistant", req |-> q, kind |-> "clarification"]
  BY <1>1 DEF Appears
<1>3. i \in 1..Len(turns)' /\ turns'[i] = turns[i]
  BY TurnsGrow
<1> QED BY <1>2, <1>3 DEF Shown

LEMMA RewriteStores ==
  ASSUME TypeOK, NEW r \in Requests, NEW needed \in BOOLEAN,
         NEW low \in BOOLEAN, Rewrite(r, needed, low)
  PROVE  /\ pc[r] = "rewrite"
         /\ pc'[r] = IF config.loop THEN "count" ELSE "retrieve"
         /\ UNCHANGED <<config, turns, reply>>
         /\ local'[r].needed = needed
         /\ local'[r].asked = local[r].asked /\ local'[r].depth = local[r].depth
         /\ local'[r].result = IF needed /\ low THEN "ask" ELSE "none"
         /\ Len(resolutions) \in Nat /\ Len(resolutions)' = Len(resolutions) + 1
         /\ \A i \in 1..Len(resolutions) : resolutions'[i] = resolutions[i]
         /\ resolutions'[Len(resolutions) + 1].req = r
         /\ resolutions'[Len(resolutions) + 1].needed = needed
<1>1. /\ pc[r] = "rewrite" /\ UNCHANGED <<config, turns, reply>>
      /\ pc'[r] = IF config.loop THEN "count" ELSE "retrieve"
      /\ local'[r] = [local[r] EXCEPT
                        !.needed = needed,
                        !.result = IF needed /\ low THEN "ask" ELSE "none"]
      /\ resolutions' = Append(resolutions, [req |-> r, needed |-> needed])
  BY DEF Rewrite, Goto, TypeOK
<1>2. /\ local'[r].needed = needed
      /\ local'[r].asked = local[r].asked /\ local'[r].depth = local[r].depth
      /\ local'[r].result = IF needed /\ low THEN "ask" ELSE "none"
  BY <1>1, LocalTyped DEF Locals
<1> DEFINE row == [req |-> r, needed |-> needed]
<1>3. row.req = r /\ row.needed = needed
  OBVIOUS
<1>4. resolutions \in Seq(ResolutionRows) /\ resolutions' = Append(resolutions, row)
  BY <1>1 DEF TypeOK
<1> HIDE DEF row
<1>5. /\ Len(resolutions) \in Nat /\ Len(resolutions)' = Len(resolutions) + 1
      /\ \A i \in 1..Len(resolutions) : resolutions'[i] = resolutions[i]
      /\ resolutions'[Len(resolutions) + 1] = row
  BY <1>4
<1> QED BY <1>1, <1>2, <1>3, <1>5

Rewrites(r) == \E needed, low \in BOOLEAN : Rewrite(r, needed, low)

LEMMA AnswerKeeps ==
  ASSUME TypeOK, NEW r \in Requests, \E c \in Confidences : Answer(r, c),
         ~Fails(r)
  PROVE  /\ Goto(r, "retrieve", "trace") /\ UNCHANGED <<config, tables, reply>>
         /\ local'[r].needed = local[r].needed
         /\ local'[r].asked = local[r].asked
         /\ \E c \in Confidences :
              local'[r].result = Result(r, local[r].depth,
                                        IF config.generation THEN c ELSE 1000)
<1>1. PICK c \in Confidences : Answer(r, c)
  OBVIOUS
<1> DEFINE result == Result(r, local[r].depth,
                            IF config.generation THEN c ELSE 1000)
<1>2. /\ Goto(r, "retrieve", "trace") /\ UNCHANGED <<config, tables, reply>>
      /\ local' = [local EXCEPT ![r].result = result]
  BY <1>1, AnswerEnds, Failures
<1> HIDE DEF result
<1>3. local'[r] = [local[r] EXCEPT !.result = result]
  BY <1>2 DEF TypeOK
<1>4. /\ local'[r].result = result /\ local'[r].needed = local[r].needed
      /\ local'[r].asked = local[r].asked
  BY <1>3, LocalTyped DEF Locals
<1> QED BY <1>2, <1>4 DEF result

(* What a step does with the resolution of its request                     *)
LEMMA RewriteMoves ==
  ASSUME TypeInv, NEW r \in Requests, Step(r) \/ Break(r), ~Fails(r)
  PROVE  \/ Rewrites(r) \/ Respond(r)
         \/ /\ resolutions' = resolutions
            /\ pc[r] \in AfterRewrite => /\ pc'[r] \in AfterRewrite
                                         /\ local'[r].needed = local[r].needed
<1> TypeOK
  BY DEF TypeInv
<1> USE DEF Goto, TypeOK, AfterRewrite, Answering
<1>1. CASE Arrive(r) \/ Create(r) \/ Archive(r) \/ Touch(r)
  BY <1>1, Failures DEF Arrive, Create, Archive, Touch
<1>2. CASE ReadIndex(r, "index", "insertUser") \/ InsertUser(r)
  BY <1>2, Failures DEF ReadIndex, InsertUser
<1>3. CASE ReadIndex(r, "answerIndex", "insertAnswer") \/ InsertAnswer(r)
  BY <1>3, Failures DEF ReadIndex, InsertAnswer
<1>4. CASE Summary(r) \/ Summarize(r) \/ InsertSummary(r) \/ Pending(r)
  BY <1>4, Failures DEF Summary, Summarize, InsertSummary, Pending
<1>5. CASE Count(r)
  <2>1. \E d, result : local'[r] = [local[r] EXCEPT !.depth = d,
                                                     !.result = result]
    BY <1>5 DEF Count
  <2>2. local'[r].needed = local[r].needed
    BY <2>1, LocalTyped DEF Locals
  <2> QED BY <1>5, <2>2 DEF Count
<1>6. CASE Trace(r)
  BY <1>6 DEF Trace
<1>7. CASE \E c \in Confidences : Answer(r, c)
  <2>1. /\ Goto(r, "retrieve", "trace") /\ UNCHANGED tables
        /\ local'[r].needed = local[r].needed
    BY <1>7, AnswerKeeps
  <2> QED BY <2>1
<1>8. ~LogRaises(r) /\ ~Break(r)
  BY Failures
<1> QED BY <1>1, <1>2, <1>3, <1>4, <1>5, <1>6, <1>7, <1>8 DEF Step, Rewrites

(* What a step does with the pending question of its request               *)
LEMMA AskedMoves ==
  ASSUME TypeInv, NEW r \in Requests, Step(r) \/ Break(r)
  PROVE  \/ local'[r].asked = local[r].asked \/ local'[r].asked = 0
         \/ /\ UNCHANGED resolutions
            /\ resolutions # <<>> /\ Newest.needed
            /\ local'[r].asked = Newest.req
<1> TypeOK
  BY DEF TypeInv
<1>1. CASE Fails(r) \/ Respond(r)
  BY <1>1, FailEnds DEF Respond, End, NoLocal, TypeOK
<1>2. CASE \/ Arrive(r) \/ Create(r) \/ Archive(r) \/ Touch(r)
           \/ InsertUser(r) \/ InsertAnswer(r) \/ InsertSummary(r) \/ Trace(r)
  BY <1>1, <1>2, Failures DEF Arrive, Create, Archive, Touch, InsertUser,
     InsertAnswer, InsertSummary, Trace
<1>3. CASE \/ ReadIndex(r, "index", "insertUser") \/ Summarize(r) \/ Summary(r)
           \/ ReadIndex(r, "answerIndex", "insertAnswer")
  <2>1. \/ \E n : local'[r] = [local[r] EXCEPT !.idx = n]
        \/ \E n : local'[r] = [local[r] EXCEPT !.covers = n]
    BY <1>3 DEF ReadIndex, Summarize, Summary, TypeOK
  <2> QED BY <2>1, LocalTyped DEF Locals
<1>4. CASE Pending(r)
  <2>1. /\ UNCHANGED resolutions
        /\ local'[r] = [local[r] EXCEPT
             !.asked = IF resolutions # <<>> /\ Newest.needed
                         THEN Newest.req ELSE 0]
    BY <1>4 DEF Pending, TypeOK
  <2>2. local'[r].asked = IF resolutions # <<>> /\ Newest.needed
                            THEN Newest.req ELSE 0
    BY <2>1, LocalTyped DEF Locals
  <2> QED BY <2>1, <2>2
<1>5. CASE Rewrites(r)
  BY <1>5, RewriteStores DEF Rewrites
<1>6. CASE Count(r)
  <2>1. \E d, result : local'[r] = [local[r] EXCEPT !.depth = d,
                                                     !.result = result]
    BY <1>6 DEF Count, TypeOK
  <2> QED BY <2>1, LocalTyped DEF Locals
<1>7. CASE ~Fails(r) /\ \E c \in Confidences : Answer(r, c)
  BY <1>7, AnswerKeeps
<1>8. LogRaises(r) \/ Break(r) => Fails(r)
  BY Failures
<1> QED BY <1>1, <1>2, <1>3, <1>4, <1>5, <1>6, <1>7, <1>8 DEF Step, Rewrites

(* The resolutions after a step are those before and possibly its own.     *)
LEMMA ResolutionsGrow ==
  ASSUME TypeInv, NEW r \in Requests, Step(r) \/ Break(r)
  PROVE  /\ Len(resolutions) \in Nat
         /\ \A i \in 1..Len(resolutions) :
              i \in 1..Len(resolutions)' /\ resolutions'[i] = resolutions[i]
         /\ \A i \in 1..Len(resolutions)' :
              \/ i \in 1..Len(resolutions)
              \/ /\ Rewrites(r) /\ i = Len(resolutions) + 1
                 /\ resolutions'[i].req = r
                 /\ resolutions'[i].needed = local'[r].needed
<1> TypeOK
  BY DEF TypeInv
<1>1. CASE resolutions' = resolutions
  BY <1>1 DEF TypeOK
<1>2. CASE Rewrites(r)
  <2>1. PICK needed \in BOOLEAN, low \in BOOLEAN : Rewrite(r, needed, low)
    BY <1>2 DEF Rewrites
  <2>2. /\ local'[r].needed = needed
        /\ Len(resolutions) \in Nat /\ Len(resolutions)' = Len(resolutions) + 1
        /\ \A i \in 1..Len(resolutions) : resolutions'[i] = resolutions[i]
        /\ resolutions'[Len(resolutions) + 1].req = r
        /\ resolutions'[Len(resolutions) + 1].needed = needed
    BY <2>1, RewriteStores
  <2> QED BY <1>2, <2>2
<1>3. Respond(r) => resolutions' = resolutions
  BY DEF Respond
<1> QED BY <1>1, <1>2, <1>3, FailEnds, RewriteMoves

LEMMA AskedByStays ==
  ASSUME TypeInv, NEW r \in Requests, Step(r) \/ Break(r), NEW q, AskedBy(q)
  PROVE  AskedBy(q)'
BY ResolutionsGrow DEF AskedBy

(* The question of a request that stops is settled then.                   *)
LEMMA SettledStays ==
  ASSUME TypeInv, HistoryInv, QuestionInv, NEW r \in Requests,
         Step(r) \/ Break(r), NEW q \in Requests, AskedBy(q)
  PROVE  Settled(q)'
<1> PICK i \in 1..Len(resolutions) : resolutions[i].req = q
                                     /\ resolutions[i].needed
  BY DEF AskedBy
<1>1. TypeOK /\ Settled(q)
  BY DEF TypeInv, QuestionInv
<1>2. pc[q] \in AfterRewrite \cup {"done"}
      /\ (pc[q] \in AfterRewrite => local[q].needed)
  BY DEF QuestionInv
<1>3. Shown(q) => Shown(q)'
  BY <1>1, ShownStays
<1>4. CASE q # r
  <2>1. pc'[q] = pc[q] /\ reply'[q] = reply[q] /\ Requests' = Requests
    BY <1>1, <1>4, StepMoves DEF TypeOK
  <2> QED BY <1>1, <1>3, <2>1 DEF Settled, Busy
<1>5. CASE q = r /\ Fails(r)
  BY <1>1, <1>5, FailEnds DEF Settled
<1>6. CASE q = r /\ ~Fails(r) /\ Respond(r)
  <2>1. pc[r] = "respond" /\ reply'[r] = local[r].result
    BY <1>1, <1>6 DEF Respond, End, TypeOK
  <2>2. local[r].result \in {"clarification", "depth_exceeded"}
    BY <1>2, <1>6, <2>1 DEF TypeInv, Shape, AfterRewrite, Answering
  <2>3. local[r].result = "clarification" => Shown(r)
    BY <2>1, ShownAppears DEF HistoryInv
  <2> QED BY <1>3, <1>6, <2>1, <2>2, <2>3 DEF Settled
<1>7. CASE q = r /\ ~Fails(r) /\ ~Respond(r)
  <2>1. pc[r] # "done" /\ pc[r] # "rewrite"
    BY <1>2, <1>7, FailsWhenBusy DEF AfterRewrite, Answering
  <2>2. ~Rewrites(r)
    BY <1>1, <2>1, RewriteStores DEF Rewrites
  <2>3. pc'[r] \in AfterRewrite
    BY <1>2, <1>7, <2>1, <2>2, RewriteMoves
  <2>4. r \in Busy' /\ Requests' = Requests
    BY <1>1, <2>3, StepMoves DEF Busy, AfterRewrite, Answering
  <2> QED BY <1>7, <2>4 DEF Settled
<1> QED BY <1>4, <1>5, <1>6, <1>7

LEMMA StepQuestion ==
  ASSUME TypeInv, HistoryInv, QuestionInv, NEW r \in Requests,
         Step(r) \/ Break(r)
  PROVE  QuestionInv'
<1> TypeOK
  BY DEF TypeInv
<1>1. /\ Requests' = Requests
      /\ \A q \in Requests \ {r} : pc'[q] = pc[q] /\ local'[q] = local[q]
  BY StepMoves DEF TypeOK
<1>2. Rewrites(r) => /\ pc[r] = "rewrite" /\ pc'[r] \in {"count", "retrieve"}
                     /\ "rewrite" \notin AfterRewrite \cup {"done"}
  BY RewriteStores DEF Rewrites, AfterRewrite, Answering
<1>3. Respond(r) \/ Fails(r) => pc'[r] = "done"
  BY FailEnds DEF Respond, End, TypeOK
<1>4. ASSUME NEW i \in 1..Len(resolutions)
      PROVE  LET q == resolutions[i].req IN
             /\ pc'[q] \in AfterRewrite \cup {"done"}
             /\ pc'[q] \in AfterRewrite =>
                  resolutions[i].needed = local'[q].needed
  <2>1. resolutions[i].req \in Requests
    BY ResolutionsTyped
  <2>2. CASE resolutions[i].req # r
    BY <1>1, <2>1, <2>2 DEF QuestionInv
  <2>3. CASE resolutions[i].req = r
    <3>1. pc[r] \in AfterRewrite /\ resolutions[i].needed = local[r].needed
      BY <2>3, FailsWhenBusy DEF QuestionInv
    <3>2. "done" \notin AfterRewrite
      BY DEF AfterRewrite, Answering
    <3> QED BY <1>2, <1>3, <2>3, <3>1, <3>2, RewriteMoves
  <2> QED BY <2>2, <2>3
<1>5. ASSUME NEW i \in 1..Len(resolutions)'
      PROVE  /\ pc'[resolutions'[i].req] \in AfterRewrite \cup {"done"}
             /\ pc'[resolutions'[i].req] \in AfterRewrite =>
                  resolutions'[i].needed = local'[resolutions'[i].req].needed
             /\ \A j \in 1..(i - 1) : resolutions'[j].req # resolutions'[i].req
             /\ resolutions'[i].needed => Settled(resolutions[i].req)'
  <2>1. CASE i \in 1..Len(resolutions)
    <3>1. resolutions'[i] = resolutions[i]
      BY <2>1, ResolutionsGrow
    <3>2. \A j \in 1..(i - 1) : resolutions'[j] = resolutions[j]
      BY <2>1, ResolutionsGrow
    <3>3. \A j \in 1..(i - 1) : resolutions[j].req # resolutions[i].req
      BY <2>1 DEF QuestionInv
    <3>4. resolutions[i].needed => Settled(resolutions[i].req)'
      <4>1. PICK q \in Requests : q = resolutions[i].req
        BY <2>1, ResolutionsTyped
      <4>2. resolutions[i].needed => Settled(q)'
        BY <2>1, <4>1, SettledStays DEF AskedBy
      <4> QED BY <3>1, <4>1, <4>2 DEF Settled, Shown
    <3> QED BY <1>4, <2>1, <3>1, <3>2, <3>3, <3>4
  <2>2. CASE i \notin 1..Len(resolutions)
    <3>1. /\ Rewrites(r) /\ resolutions'[i].req = r
          /\ i = Len(resolutions) + 1
          /\ resolutions'[i].needed = local'[r].needed
      BY <2>2, ResolutionsGrow
    <3>2. pc'[r] \in AfterRewrite /\ r \in Busy'
      BY <1>1, <1>2, <3>1 DEF AfterRewrite, Busy
    <3>3. \A j \in 1..(i - 1) : resolutions'[j].req # r
      <4>1. \A j \in 1..Len(resolutions) : resolutions[j].req # r
        BY <1>2, <3>1 DEF QuestionInv
      <4>2. 1..(i - 1) = 1..Len(resolutions)
        BY <3>1, ResolutionsGrow
      <4> QED BY <4>1, <4>2, ResolutionsGrow
    <3>4. Settled(resolutions[i].req)'
      BY <3>1, <3>2 DEF Settled
    <3> QED BY <3>1, <3>2, <3>3, <3>4
  <2> QED BY <2>1, <2>2
<1>6. ASSUME NEW q \in Requests, local'[q].asked # 0
      PROVE  AskedBy(local[q].asked)'
  <2>1. CASE local'[q].asked = local[q].asked
    <3>1. PICK p \in Requests : p = local[q].asked
      BY <1>6, <2>1, LocalTyped DEF Locals
    <3>2. AskedBy(p)
      BY <1>6, <2>1, <3>1 DEF QuestionInv
    <3>3. AskedBy(p)'
      BY <3>2, AskedByStays
    <3> QED BY <2>1, <3>1, <3>3 DEF AskedBy
  <2>2. CASE local'[q].asked # local[q].asked
    <3>1. /\ UNCHANGED resolutions /\ resolutions # <<>> /\ Newest.needed
          /\ local'[q].asked = Newest.req
      BY <1>1, <1>6, <2>2, AskedMoves
    <3>2. Len(resolutions) \in 1..Len(resolutions)
      BY <3>1 DEF TypeOK
    <3> QED BY <3>1, <3>2 DEF AskedBy, Newest
  <2> QED BY <2>1, <2>2
<1> QED BY <1>1, <1>5, <1>6 DEF QuestionInv

LEMMA NextQuestion ==
  ASSUME TypeInv, HistoryInv, QuestionInv, [Next]_vars PROVE QuestionInv'
<1>1. CASE UNCHANGED vars \/ Age
  <2>1. UNCHANGED <<config, turns, resolutions, pc, local, reply>>
    BY <1>1 DEF vars, Age
  <2> QED BY <2>1 DEF QuestionInv, Requests, Settled, Shown, AskedBy, Busy
<1> QED BY <1>1, StepQuestion DEF Next

LEMMA QuestionInvariant ==
  Spec => [](TypeInv /\ HistoryInv /\ OverlapInv /\ QuestionInv)
<1>1. Init => QuestionInv
  <2> SUFFICES ASSUME Init PROVE QuestionInv
    OBVIOUS
  <2>1. Len(resolutions) = 0 /\ \A r \in Requests : local[r].asked = 0
    BY DEF Init, NoLocal
  <2> QED BY <2>1 DEF QuestionInv
<1>2. TypeInv /\ HistoryInv /\ QuestionInv /\ [Next]_vars => QuestionInv'
  BY NextQuestion
<1> QED BY <1>1, <1>2, OverlapInvariant, PTL DEF Spec

(* The rewriter is told that a question is pending only if the user got    *)
(* it, or it was given up, or the request that asked failed or still runs. *)
THEOREM PendingQuestionsWereAsked == Spec => []PendingWasAsked
<1>1. ASSUME QuestionInv PROVE PendingWasAsked
  BY <1>1 DEF QuestionInv, AskedBy, Settled, PendingWasAsked
<1> QED BY <1>1, QuestionInvariant, PTL

-----------------------------------------------------------------------------
(* The bound on clarifications                                             *)

(* The k-th resolution ends no run of questions too long to be put.        *)
Within(k) ==
  \A i \in 1..k : (\A m \in i..k : resolutions[m].needed) => k - i + 2 <= MaxDepth

(* One after another, the request in progress wrote the last resolution    *)
(* and goes by the streak that ends there.                                 *)
BoundInv ==
  config.loop /\ config.parallel <= 1 =>
    \A k \in 1..Len(resolutions) :
      /\ Shown(resolutions[k].req) => Within(k)
      /\ pc[resolutions[k].req] \in AfterRewrite => k = Len(resolutions)
      /\ pc[resolutions[k].req] = "retrieve" =>
           local[resolutions[k].req].depth = Depth(resolutions[k].req)
      /\ /\ pc[resolutions[k].req] \in Answering
         /\ local[resolutions[k].req].result = "clarification"
         => Within(k)

(* The streak covers the whole run unless it stopped at MaxScan, and then  *)
(* it is too deep to ask.                                                  *)
LEMMA WithinHolds ==
  ASSUME TypeOK, MaxDepth \in 1..MaxScan, NEW r \in Requests, local[r].needed,
         Depth(r) <= MaxDepth
  PROVE  Within(Len(resolutions))
<1> DEFINE k == Len(resolutions)
<1>1. resolutions \in Seq(ResolutionRows) /\ k \in Nat
  BY DEF TypeOK
<1>2. /\ Streak \in 0..k /\ Streak <= MaxScan
      /\ StreakEnds(Streak)
  BY <1>1, StreakExists
<1>3. MaxScan \in Nat /\ MaxDepth \in Nat /\ MaxDepth <= MaxScan
  BY ConversationAssumption
<1>4. Streak + 1 <= MaxDepth
  BY DEF Depth
<1> SUFFICES ASSUME NEW i \in 1..k, \A m \in i..k : resolutions[m].needed
    PROVE  k - i + 2 <= MaxDepth
  BY DEF Within
<1>5. CASE k - i + 1 <= Streak
  BY <1>1, <1>2, <1>3, <1>4, <1>5
<1>6. CASE Streak < k - i + 1
  <2>1. k - Streak \in i..k
    BY <1>1, <1>2, <1>6
  <2>2. Streak # k /\ Streak # MaxScan
    BY <1>1, <1>2, <1>3, <1>4, <1>6
  <2> QED BY <1>2, <2>1, <2>2 DEF StreakEnds
<1> QED BY <1>1, <1>2, <1>5, <1>6

LEMMA NewlyShown ==
  ASSUME TypeInv, NEW r \in Requests, Step(r) \/ Break(r), NEW q, Shown(q)',
         ~Shown(q)
  PROVE  q = r /\ pc[r] = "insertAnswer" /\ local[r].result = "clarification"
<1> TypeOK
  BY DEF TypeInv
<1> DEFINE row == [role |-> "assistant", req |-> q, kind |-> "clarification"]
<1>1. \A i \in 1..Len(turns) : turns[i] # row
  BY DEF Shown
<1>2. PICK i \in 1..Len(turns)' : turns'[i] = row
  BY DEF Shown
<1>3. turns' # turns
  BY <1>1, <1>2
<1>4. CASE InsertUser(r) /\ ~Fails(r)
  <2> DEFINE turn == [role |-> "user", req |-> r, kind |-> "question"]
  <2>1. turns' = Append(turns, turn)
    BY <1>4, InsertUserStores
  <2>2. turn # row
    OBVIOUS
  <2> HIDE DEF turn, row
  <2> QED BY <1>1, <1>2, <2>1, <2>2, AppendTurn
<1>5. CASE InsertAnswer(r) /\ ~Fails(r)
  <2> DEFINE turn == [role |-> "assistant", req |-> r, kind |-> local[r].result]
  <2>1. turns' = Append(turns, turn) /\ pc[r] = "insertAnswer"
    BY <1>5, InsertAnswerStores
  <2>2. turn = row => q = r /\ local[r].result = "clarification"
    OBVIOUS
  <2> HIDE DEF turn, row
  <2> QED BY <1>1, <1>2, <2>1, <2>2, AppendTurn
<1> QED BY <1>3, <1>4, <1>5, FailEnds, TurnMoves DEF Stores

LEMMA CountSets ==
  ASSUME TypeInv, NEW r \in Requests, Count(r)
  PROVE  /\ UNCHANGED <<config, tables, reply>> /\ pc[r] = "count"
         /\ local'[r].depth = Depth(r) /\ local'[r].needed = local[r].needed
         /\ \/ pc'[r] = "retrieve"
            \/ pc'[r] = "answerIndex" /\ local'[r].result = Result(r, Depth(r), 0)
<1> TypeOK
  BY DEF TypeInv
<1> DEFINE ask == local[r].result = "ask"
<1> DEFINE result == IF ask THEN Result(r, Depth(r), 0) ELSE "none"
<1>1. /\ UNCHANGED <<config, tables, reply>> /\ pc[r] = "count"
      /\ pc'[r] = IF ask THEN "answerIndex" ELSE "retrieve"
      /\ local' = [local EXCEPT ![r].depth = Depth(r), ![r].result = result]
  BY DEF Count, TypeOK
<1> HIDE DEF result
<1>2. local'[r] = [local[r] EXCEPT !.depth = Depth(r), !.result = result]
  BY <1>1 DEF TypeOK
<1>3. /\ local'[r].depth = Depth(r) /\ local'[r].needed = local[r].needed
      /\ local'[r].result = result
  BY <1>2, LocalTyped DEF Locals
<1> QED BY <1>1, <1>3 DEF result

(* From the rewriting on                                                   *)
LEMMA AnsweringMoves ==
  ASSUME TypeInv, NEW r \in Requests, Step(r) \/ Break(r), ~Fails(r),
         pc[r] \in AfterRewrite
  PROVE  \/ Count(r) \/ (\E c \in Confidences : Answer(r, c)) \/ Respond(r)
         \/ /\ pc[r] \in Answering /\ pc'[r] \in Answering
            /\ local'[r].result = local[r].result
<1> TypeOK
  BY DEF TypeInv
<1> USE DEF AfterRewrite, Answering
<1>1. ~(Arrive(r) \/ Create(r) \/ Archive(r) \/ Touch(r) \/ InsertUser(r))
  BY DEF Arrive, Create, Archive, Touch, InsertUser, Goto
<1>2. ~(\/ ReadIndex(r, "index", "insertUser") \/ Summary(r) \/ Summarize(r)
        \/ InsertSummary(r) \/ Pending(r) \/ LogRaises(r))
  BY DEF ReadIndex, Summary, Summarize, InsertSummary, Pending, LogRaises, Goto
<1>3. ~\E needed, low \in BOOLEAN : Rewrite(r, needed, low)
  BY DEF Rewrite, Goto
<1>4. ~Break(r)
  BY Failures
<1>5. CASE Trace(r)
  BY <1>5 DEF Trace, Goto, TypeOK
<1>6. CASE ReadIndex(r, "answerIndex", "insertAnswer")
  <2>1. /\ pc[r] = "answerIndex" /\ pc'[r] = "insertAnswer"
        /\ local'[r] = [local[r] EXCEPT !.idx = NextTurnIndex]
    BY <1>6 DEF ReadIndex, Goto, TypeOK
  <2> QED BY <2>1, LocalTyped DEF Locals
<1>7. CASE InsertAnswer(r)
  BY <1>7, InsertAnswerStores
<1> QED BY <1>1, <1>2, <1>3, <1>4, <1>5, <1>6, <1>7 DEF Step

(* A request takes up or keeps the result of a clarification only within   *)
(* the bound.                                                              *)
LEMMA AsksWithin ==
  ASSUME TypeInv, QuestionInv, BoundInv, config.loop, config.parallel <= 1,
         MaxDepth \in 1..MaxScan,
         NEW r \in Requests, Step(r) \/ Break(r), ~Fails(r),
         NEW k \in 1..Len(resolutions), resolutions[k].req = r,
         pc[r] \in AfterRewrite, pc'[r] \in Answering,
         local'[r].result = "clarification"
  PROVE  Within(k)
<1> TypeOK /\ k = Len(resolutions)
  BY DEF TypeInv, BoundInv
<1>1. CASE Count(r)
  <2>1. Result(r, Depth(r), 0) = "clarification"
    BY <1>1, CountSets DEF Answering
  <2>2. local[r].needed /\ Depth(r) <= MaxDepth
    BY <2>1, ResultIsTyped, DepthIsTyped
  <2> QED BY <2>2, WithinHolds
<1>2. CASE \E c \in Confidences : Answer(r, c)
  <2>1. PICK c \in Confidences :
          local'[r].result = Result(r, local[r].depth,
                                    IF config.generation THEN c ELSE 1000)
    BY <1>2, AnswerKeeps
  <2>2. local[r].depth \in Nat
    BY LocalTyped DEF Locals
  <2>3. local[r].needed /\ local[r].depth <= MaxDepth
    BY <2>1, <2>2, ResultIsTyped
  <2>4. local[r].depth = Depth(r)
    BY <1>2, AnswerKeeps DEF BoundInv, Goto
  <2> QED BY <2>3, <2>4, WithinHolds
<1>3. CASE pc[r] \in Answering /\ local'[r].result = local[r].result
  BY <1>3 DEF BoundInv
<1>4. ~Respond(r)
  BY DEF Respond, End, TypeOK, Answering
<1> QED BY <1>1, <1>2, <1>3, <1>4, AnsweringMoves

LEMMA StepBound ==
  ASSUME TypeInv, HistoryInv, OverlapInv, QuestionInv, BoundInv,
         MaxDepth \in 1..MaxScan, NEW r \in Requests, Step(r) \/ Break(r)
  PROVE  BoundInv'
<1> TypeOK
  BY DEF TypeInv
<1>0. Requests' = Requests /\ config' = config
  BY StepMoves
<1> SUFFICES ASSUME config.loop, config.parallel <= 1,
                    NEW k \in 1..Len(resolutions)'
    PROVE  LET q == resolutions'[k].req IN
           /\ Shown(resolutions[k].req)' => Within(k)'
           /\ pc'[q] \in AfterRewrite => k = Len(resolutions)'
           /\ pc'[q] = "retrieve" =>
                local'[q].depth = Depth(resolutions[k].req)'
           /\ pc'[q] \in Answering /\ local'[q].result = "clarification"
                => Within(k)'
  BY <1>0 DEF BoundInv
<1>1. /\ \A q \in Requests \ {r} : pc'[q] \in {"new", "done"}
      /\ {"new", "done"} \cap AfterRewrite = {}
      /\ Answering \subseteq AfterRewrite /\ "retrieve" \in AfterRewrite
  BY StepsAlone DEF AfterRewrite, Answering
<1>2. CASE k \in 1..Len(resolutions)
  <2>1. /\ \A i \in 1..k : resolutions'[i] = resolutions[i]
        /\ resolutions'[k] = resolutions[k]
    BY <1>2, ResolutionsGrow
  <2>2. PICK q \in Requests : q = resolutions[k].req
    BY <1>2, ResolutionsTyped
  <2>3. Within(k) => Within(k)'
    <3>1. k \in Nat /\ \A i \in 1..k : i..k \subseteq 1..k
      BY <1>2
    <3>2. ASSUME NEW i \in 1..k
          PROVE  (\A m \in i..k : resolutions'[m].needed)
                   <=> (\A m \in i..k : resolutions[m].needed)
      BY <2>1, <3>1
    <3> QED BY <3>2 DEF Within
  <2>4. Shown(q) => Within(k)
    BY <1>2, <2>2 DEF BoundInv
  <2>5. Shown(q)' => Within(k)
    <3>1. ASSUME Shown(q)', ~Shown(q) PROVE Within(k)
      <4>1. q = r /\ pc[r] = "insertAnswer" /\ local[r].result = "clarification"
        BY <3>1, NewlyShown
      <4> QED BY <1>2, <2>2, <4>1 DEF BoundInv, Answering
    <3> QED BY <2>4, <3>1
  <2>6. CASE q # r
    <3>1. pc'[q] \notin AfterRewrite
      BY <1>1, <2>6
    <3> QED BY <1>1, <2>1, <2>2, <2>3, <2>5, <3>1 DEF Shown
  <2>7. CASE q = r /\ (Fails(r) \/ Respond(r))
    <3>1. pc'[q] = "done"
      BY <2>7, FailEnds DEF Respond, End, TypeOK
    <3> QED BY <1>1, <2>1, <2>2, <2>3, <2>5, <3>1 DEF Shown
  <2>8. CASE q = r /\ ~Fails(r) /\ ~Respond(r)
    <3>1. pc[r] \in AfterRewrite /\ k = Len(resolutions)
      BY <1>2, <2>2, <2>8, FailsWhenBusy DEF QuestionInv, BoundInv
    <3>2. resolutions' = resolutions
      <4>1. ~Rewrites(r)
        BY <3>1, RewriteStores DEF Rewrites, AfterRewrite, Answering
      <4> QED BY <2>8, <4>1, RewriteMoves
    <3>3. pc'[r] = "retrieve" => local'[r].depth = Depth(r)'
      <4>1. ASSUME pc'[r] = "retrieve" PROVE Count(r)
        <5>1. ~\E c \in Confidences : Answer(r, c)
          BY <2>8, <4>1, AnswerKeeps, SMTT(60) DEF Goto, TypeOK
        <5> QED BY <2>8, <3>1, <4>1, <5>1, AnsweringMoves DEF Answering
      <4>2. ASSUME Count(r) PROVE local'[r].depth = Depth(r)'
        <5>1. Depth(r)' = Depth(r)
          BY <3>2, <4>2, CountSets DEF Depth, Streak
        <5> QED BY <4>2, <5>1, CountSets
      <4> QED BY <4>1, <4>2
    <3>4. pc'[r] \in Answering /\ local'[r].result = "clarification" => Within(k)
      BY <1>2, <2>2, <2>8, <3>1, AsksWithin
    <3>5. Depth(resolutions[k].req)' = Depth(r)'
      BY <2>1, <2>2, <2>8
    <3> QED BY <2>1, <2>2, <2>3, <2>5, <2>8, <3>1, <3>2, <3>3, <3>4, <3>5
            DEF Shown
  <2> QED BY <2>6, <2>7, <2>8
<1>3. CASE k \notin 1..Len(resolutions)
  <2>1. Rewrites(r) /\ k = Len(resolutions) + 1 /\ resolutions'[k].req = r
    BY <1>3, ResolutionsGrow
  <2>2. PICK needed \in BOOLEAN, low \in BOOLEAN : Rewrite(r, needed, low)
    BY <2>1 DEF Rewrites
  <2>3. pc[r] = "rewrite" /\ pc'[r] = "count" /\ k = Len(resolutions)'
    BY <2>1, <2>2, RewriteStores
  <2>4. ~Shown(r)
    <3>1. ~Has("assistant", r)
      BY <2>3 DEF HistoryInv, Has
    <3>2. Appears(r, "clarification") => Has("assistant", r)
      BY DEF Appears, Has
    <3> QED BY <3>1, <3>2, ShownAppears
  <2>5. ~Shown(r)'
    BY <2>3, <2>4, NewlyShown
  <2> QED BY <2>1, <2>3, <2>5 DEF Shown, Answering
<1> QED BY <1>2, <1>3

LEMMA NextBound ==
  ASSUME TypeInv, HistoryInv, OverlapInv, QuestionInv, BoundInv,
         MaxDepth \in 1..MaxScan, [Next]_vars
  PROVE  BoundInv'
<1>1. CASE UNCHANGED vars \/ Age
  <2>1. UNCHANGED <<config, turns, resolutions, pc, local>>
    BY <1>1 DEF vars, Age
  <2> QED BY <2>1, ZenonT(60) DEF BoundInv, Shown, Within, Depth, Streak
<1> QED BY <1>1, StepBound DEF Next

(* The questions put in a run end within the bound.                        *)
LEMMA FewShown ==
  ASSUME TypeOK, BoundInv, MaxDepth \in 1..MaxScan, config.loop,
         config.parallel <= 1,
         NEW i \in 1..Len(resolutions), NEW j \in 1..Len(resolutions),
         \A m \in i..j : resolutions[m].needed
  PROVE  Cardinality({m \in i..j : Shown(resolutions[m].req)}) <= MaxDepth - 1
<1> DEFINE shown == {m \in i..j : Shown(resolutions[m].req)}
<1>1. i \in Nat /\ j \in Nat /\ MaxDepth \in Nat /\ 1 <= i /\ 1 <= MaxDepth
      /\ j <= Len(resolutions) /\ Len(resolutions) \in Nat
  BY ConversationAssumption DEF TypeOK
<1>2. CASE shown = {}
  <2>1. Cardinality(shown) = 0
    BY <1>2, FS_EmptySet
  <2> QED BY <1>1, <2>1
<1>3. CASE shown # {}
  <2> DEFINE gaps == {j - m : m \in shown}
  <2>1. gaps \in SUBSET Nat /\ gaps # {}
    BY <1>1, <1>3
  <2>2. PICK gap \in gaps : \A g \in gaps : gap <= g
    BY <2>1, LeastNumber
  <2>3. PICK k \in shown : gap = j - k
    OBVIOUS
  <2>4. k \in i..j /\ k \in 1..Len(resolutions) /\ Shown(resolutions[k].req)
    BY <1>1
  <2>5. shown \subseteq i..k
    <3> SUFFICES ASSUME NEW m \in shown PROVE m \in i..k
      OBVIOUS
    <3>1. j - k <= j - m /\ m \in i..j
      BY <2>2, <2>3
    <3> QED BY <1>1, <2>4, <3>1
  <2>6. Within(k) /\ \A m \in i..k : resolutions[m].needed
    BY <1>1, <2>4 DEF BoundInv
  <2>7. k - i + 2 <= MaxDepth
    BY <1>1, <2>4, <2>6 DEF Within
  <2> HIDE DEF shown
  <2>8. IsFiniteSet(i..k) /\ Cardinality(i..k) = k - i + 1
    <3>1. i \in Int /\ k \in Int /\ i <= k
      BY <1>1, <2>4
    <3> QED BY <3>1, FS_Interval
  <2>9. /\ IsFiniteSet(shown) /\ Cardinality(shown) <= Cardinality(i..k)
        /\ Cardinality(shown) \in Nat
    BY <2>5, <2>8, FS_Subset, FS_CardinalityType
  <2>10. k \in Nat
    BY <1>1, <2>4
  <2>11. Cardinality(shown) <= MaxDepth - 1
    BY <1>1, <2>7, <2>8, <2>9, <2>10
  <2> QED BY <2>11 DEF shown
<1> QED BY <1>2, <1>3

(* Requests one after another ask back less than MaxDepth times in a row,  *)
(* as long as the scan for the streak reaches that far.                    *)
THEOREM ClarificationsStop ==
  ASSUME MaxDepth \in 1..MaxScan
  PROVE  Spec => []ClarificationsBounded
<1>1. Init => BoundInv
  <2> SUFFICES ASSUME Init PROVE BoundInv
    OBVIOUS
  <2>1. Len(resolutions) = 0
    BY DEF Init
  <2> QED BY <2>1 DEF BoundInv
<1>2. TypeInv /\ HistoryInv /\ OverlapInv /\ QuestionInv /\ BoundInv
        /\ [Next]_vars => BoundInv'
  BY NextBound
<1>3. TypeInv /\ BoundInv => ClarificationsBounded
  BY ConfigIsTyped, FewShown DEF TypeInv, ClarificationsBounded, ConfigType
<1> QED BY <1>1, <1>2, <1>3, QuestionInvariant, PTL DEF Spec

=============================================================================
