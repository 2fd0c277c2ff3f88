---------------------------- MODULE MCConversation ----------------------------
(* Instances of Conversation for TLC.                                      *)
EXTENDS Conversation

Base == [rewrite |-> TRUE, loop |-> TRUE, generation |-> TRUE,
         audited |-> TRUE, requests |-> 4, parallel |-> 1]

(* The service as it is, with rewriting on                                 *)
AsIs == {[Base EXCEPT !.audited = FALSE, !.loop = FALSE, !.requests = 1]}

(* One request after another, with and without the clarification loop, and *)
(* requests that overlap.                                                  *)
AllConfigs == AsIs \cup
  {Base,
   [Base EXCEPT !.loop = FALSE, !.requests = 2, !.parallel = 2],
   [Base EXCEPT !.requests = 2, !.parallel = 2],
   [Base EXCEPT !.rewrite = FALSE, !.loop = FALSE, !.generation = FALSE,
                !.requests = 3, !.parallel = 2]}

=============================================================================
