---------------------------- MODULE AgentPipeline ----------------------------
(***************************************************************************)
(* AgentPipeline.run (services/agent_pipeline.py): rewrite, retrieval,     *)
(* analysis and answer, with the three early ends.  A request q has        *)
(*   needed, depth, maxDepth   clarification asked for, and how deep       *)
(*   confidence, threshold     of the analysis, in thousandths              *)
(*   verdict                   of the answer agent                         *)
(***************************************************************************)
EXTENDS Integers

Results == {"depth_exceeded", "clarification", "low_confidence", "answer",
            "raised"}

(* AnalysisAgentOutput.__post_init__                                       *)
ConfidenceOK(c) == c \in 0..1000

DepthExceeded(q) == q.needed /\ q.depth > q.maxDepth
Clarifies(q)     == q.needed /\ q.depth <= q.maxDepth

(* What the request ends with; an exception of a stage passes through run. *)
PipelineResult(q) ==
  CASE DepthExceeded(q)           -> "depth_exceeded"
    [] Clarifies(q)               -> "clarification"
    [] ~q.needed /\ ~ConfidenceOK(q.confidence) -> "raised"
    [] ~q.needed /\ ConfidenceOK(q.confidence) /\ q.confidence < q.threshold ->
         "low_confidence"
    [] OTHER                      -> "answer"

(* only_sources_verdict of the response                                    *)
PipelineVerdict(q) ==
  CASE PipelineResult(q) = "clarification" -> "PASS"
    [] PipelineResult(q) = "answer"        -> q.verdict
    [] OTHER                               -> "FAIL"
=============================================================================
