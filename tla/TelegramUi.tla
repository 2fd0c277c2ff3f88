------------------------------ MODULE TelegramUi ------------------------------
(***************************************************************************)
(* The Telegram bot of one user: the handlers of telegram_ui/service.py,   *)
(* several of which may run at a time, over the user's row in              *)
(* telegram_conversations (telegram_ui/fsm.py).                            *)
(*                                                                         *)
(* Every call of the store is one transaction and one step.  Between two   *)
(* of them a handler goes by the context it loaded at its beginning.       *)
(***************************************************************************)
EXTENDS Naturals

CONSTANTS
  Handlers,      \* updates being handled at a time
  Kinds,         \* the updates the user sends
  Outcomes,      \* what POST /v1/query comes back with
  MaxDepth,      \* max_clarification_depth
  Options,       \* the most options of a clarification
  KnownUser,     \* whether the user has a row to begin with
  Expiry,        \* whether the user is ever away for fsm_ttl_hours
  MaxUpdates,    \* bound: updates
  MaxOverlapping,\* bound: updates, when they may overlap
  MaxFaults      \* bound: failing transactions, crashes

AllKinds == {"text", "/start", "/new", "/debug", "look", "pick", "cancel"}
AllOutcomes == {"answer", "low", "clarify", "raise"}

ASSUME TelegramAssumption ==
  /\ Kinds \subseteq AllKinds
  /\ Outcomes \subseteq AllOutcomes
  /\ MaxDepth \in Nat /\ Options \in Nat \ {0}
  /\ KnownUser \in BOOLEAN /\ Expiry \in BOOLEAN
  /\ MaxUpdates \in Nat /\ MaxOverlapping \in Nat /\ MaxFaults \in Nat

VARIABLES
  sequential,  \* whether the user waits for each reply; one initial choice
  row,      \* the user's row
  old,      \* whether its updated_at is older than fsm_ttl_hours
  pc,       \* per handler: where it is
  task,     \* per handler: the update it handles
  ctx,      \* per handler: its ConversationContext
  fresh,    \* the next uuid4
  retired,  \* history: conversations the row no longer belongs to
  offered,  \* history: options on the keyboard of the row's clarification
  asked,    \* history: clarifications the row's conversation was asked for
  overridden,  \* history: a processing row lost that state to an update
               \* that does not hold the lock
  seen,     \* history: what the user has met
  updates, faults

vars == <<sequential, row, old, pc, task, ctx, fresh, retired, offered, asked,
          overridden, seen, updates, faults>>

States == {"IDLE", "AWAITING_QUESTION", "PROCESSING", "CLARIFICATION",
           "ANSWER", "ERROR", "DEBUG"}

Rows == [state : States, conv : Nat, depth : Nat, debug : BOOLEAN]
NoRow == [state |-> "none"]

Contexts == [state : States, conv : Nat, depth : Nat, debug : BOOLEAN,
             options : Nat]

Allowed ==
  [s \in States |->
     CASE s = "IDLE"              -> {"AWAITING_QUESTION"}
       [] s = "AWAITING_QUESTION" -> {"PROCESSING"}
       [] s = "PROCESSING"        -> {"CLARIFICATION", "ANSWER", "ERROR"}
       [] s = "CLARIFICATION"     -> {"PROCESSING", "AWAITING_QUESTION"}
       [] s = "ANSWER"            -> {"PROCESSING", "AWAITING_QUESTION", "DEBUG"}
       [] s = "DEBUG"             -> {"ANSWER"}
       [] s = "ERROR"             -> {"AWAITING_QUESTION"}]

-----------------------------------------------------------------------------
(* The store                                                               *)

NewContext == [state |-> "IDLE", conv |-> fresh, depth |-> 0, debug |-> FALSE,
               options |-> 0]

(* _row_to_context: pending_clarification is not a column.                 *)
RowToContext == [state |-> row.state, conv |-> row.conv, depth |-> row.depth,
                 debug |-> row.debug, options |-> 0]

(* The columns of a context                                                *)
Columns(c) == [state |-> c.state, conv |-> c.conv, depth |-> c.depth,
               debug |-> c.debug]

(* _load_for_update: a row that is missing is a context that is new.       *)
Loaded == IF row = NoRow THEN Columns(NewContext) ELSE row

(* An upsert; the new row belongs to conversation r.conv.                  *)
Upsert(r) ==
  /\ row' = r /\ old' = FALSE
  /\ fresh' = IF r.conv = fresh THEN fresh + 1 ELSE fresh
  /\ retired' = IF row = NoRow \/ row.conv = r.conv
                  THEN retired ELSE retired \cup {row.conv}
  /\ offered' = IF r.state = "CLARIFICATION" THEN offered ELSE 0
  /\ asked' = IF row # NoRow /\ row.conv = r.conv THEN asked ELSE 0

KeepRow == UNCHANGED <<row, old, fresh, retired, offered, asked, overridden>>

(* By the handler that holds the lock                                      *)
Store(r) == Upsert(r) /\ UNCHANGED overridden

(* By one that may not                                                     *)
Overwrite(r) ==
  /\ Upsert(r)
  /\ overridden' = (overridden \/ (r.state # "PROCESSING" /\
                     \E h \in Handlers : pc[h] \in {"begun", "query"}))

Goto(h, where) == pc' = [pc EXCEPT ![h] = where]
Done(h) == Goto(h, "idle")

Fault == faults < MaxFaults /\ faults' = faults + 1

-----------------------------------------------------------------------------
(* Time                                                                    *)

(* Nobody writes to the bot for fsm_ttl_hours.                             *)
Age ==
  /\ Expiry /\ row # NoRow /\ ~old
  /\ \A h \in Handlers : pc[h] = "idle"
  /\ old' = TRUE
  /\ UNCHANGED <<row, pc, task, ctx, fresh, retired, offered, asked, overridden,
                 seen, updates, faults>>

Delete ==
  /\ row' = NoRow /\ old' = FALSE /\ offered' = 0 /\ asked' = 0
  /\ retired' = retired \cup {row.conv}
  /\ UNCHANGED <<fresh, overridden>>

(* The background cleanup                                                  *)
RunCleanup ==
  /\ old /\ Delete
  /\ UNCHANGED <<pc, task, ctx, seen, updates, faults>>

-----------------------------------------------------------------------------
(* The beginning of every handler                                          *)

(* The user writes: at any time, or only when nothing is under way.        *)
MayWrite(h) ==
  IF sequential
    THEN h = CHOOSE g \in Handlers : TRUE
    ELSE updates < MaxOverlapping

(* maybe_run_cleanup may find that its interval is over.                   *)
Receive(h, kind) ==
  /\ pc[h] = "idle" /\ updates < MaxUpdates /\ MayWrite(h)
  /\ updates' = updates + 1
  /\ task' = [task EXCEPT ![h] = kind]
  /\ Goto(h, "get")
  /\ KeepRow \/ (old /\ Delete)
  /\ UNCHANGED <<ctx, seen, faults>>

(* get_or_create reads the row ...                                         *)
Get(h) ==
  /\ pc[h] = "get" /\ row # NoRow
  /\ ctx' = [ctx EXCEPT ![h] = RowToContext]
  /\ Goto(h, "act") /\ KeepRow
  /\ UNCHANGED <<task, seen, updates, faults>>

GetMissing(h) ==
  /\ pc[h] = "get" /\ row = NoRow
  /\ ctx' = [ctx EXCEPT ![h] = NewContext]
  /\ fresh' = fresh + 1
  /\ Goto(h, "create")
  /\ UNCHANGED <<row, old, retired, offered, asked, overridden, task, seen,
                 updates, faults>>

(* ... and writes one, in another transaction, if there was none.          *)
Create(h) ==
  /\ pc[h] = "create"
  /\ Overwrite(Columns(ctx[h]))
  /\ Goto(h, "act")
  /\ UNCHANGED <<task, ctx, seen, updates, faults>>

-----------------------------------------------------------------------------
(* Commands and callbacks                                                  *)

At(h, kind) == pc[h] = "act" /\ task[h] = kind

(* A state set without regard to the one in the row                        *)
SetState(s) == Store([Loaded EXCEPT !.state = s])
OverwriteState(s) == Overwrite([Loaded EXCEPT !.state = s])

Ending(h) == Done(h) /\ UNCHANGED <<task, ctx, seen, updates, faults>>

(* /start: from DEBUG by way of ANSWER; while PROCESSING it raises.        *)
StartCommand(h) ==
  /\ At(h, "/start")
  /\ IF ctx[h].state = "PROCESSING" THEN KeepRow
                                    ELSE OverwriteState("AWAITING_QUESTION")
  /\ Ending(h)

(* /new and the callback new_dialog                                        *)
NewDialog(h) ==
  /\ At(h, "/new")
  /\ Overwrite([state |-> "AWAITING_QUESTION", conv |-> fresh, depth |-> 0,
                debug |-> Loaded.debug])
  /\ Ending(h)

(* Faulty variant: the whole context is written back.                      *)
FaultyDebugCommand(h) ==
  /\ At(h, "/debug")
  /\ Overwrite([Columns(ctx[h]) EXCEPT !.debug = ~@])
  /\ Ending(h)

(* /debug of an administrator                                              *)
DebugCommand(h) ==
  /\ At(h, "/debug")
  /\ LET debug == ~ctx[h].debug
         s == CASE debug /\ ctx[h].state = "ANSWER" -> "DEBUG"
                [] ~debug /\ ctx[h].state = "DEBUG" -> "ANSWER"
                [] OTHER                            -> ctx[h].state
     IN Overwrite([Loaded EXCEPT !.debug = debug, !.state = s])
  /\ Ending(h)

(* /sources, /status, analysis_details, similar_topics                     *)
Look(h) == At(h, "look") /\ KeepRow /\ Ending(h)

(* clarification:cancel                                                    *)
CancelClarification(h) ==
  /\ At(h, "cancel")
  /\ IF "AWAITING_QUESTION" \in Allowed[ctx[h].state]
       THEN OverwriteState("AWAITING_QUESTION") ELSE KeepRow
  /\ Ending(h)

(* clarification:i for an option the keyboard has                          *)
Picked(h) == ctx[h].state = "CLARIFICATION" /\ ctx[h].options > 0

RefusePick(h) ==
  /\ At(h, "pick") /\ ~Picked(h)
  /\ seen' = IF row.state = "CLARIFICATION" /\ offered > 0
               THEN seen \cup {"offered option refused"} ELSE seen
  /\ KeepRow /\ Done(h)
  /\ UNCHANGED <<task, ctx, updates, faults>>

-----------------------------------------------------------------------------
(* Questions                                                               *)

Question(h) == At(h, "text") \/ (At(h, "pick") /\ Picked(h))

(* try_begin_processing                                                    *)
Refuse(h) ==
  /\ Question(h) /\ Loaded.state = "PROCESSING"
  /\ KeepRow /\ Ending(h)

(* Faulty variant: the state is taken from the context loaded before.      *)
FaultyBegin(h) ==
  /\ Question(h) /\ ctx[h].state # "PROCESSING"
  /\ SetState("PROCESSING")
  /\ Goto(h, "begun")
  /\ UNCHANGED <<task, ctx, seen, updates, faults>>

Begin(h) ==
  /\ Question(h) /\ Loaded.state # "PROCESSING"
  /\ SetState("PROCESSING")
  /\ Goto(h, "begun")
  /\ UNCHANGED <<task, ctx, seen, updates, faults>>

(* The first question of a user: IDLE to AWAITING_QUESTION, in the row too.*)
Welcome(h) ==
  /\ pc[h] = "begun" /\ ctx[h].state = "IDLE"
  /\ OverwriteState("AWAITING_QUESTION")
  /\ ctx' = [ctx EXCEPT ![h].state = "AWAITING_QUESTION"]
  /\ UNCHANGED <<pc, task, seen, updates, faults>>

(* finish_processing writes the row back as it is.                         *)
WriteBack == Store(Loaded)

(* The handler ends, the row stays PROCESSING.                             *)
LeaveLocked(h) ==
  /\ Done(h) /\ seen' = seen \cup {"question turned down"}
  /\ UNCHANGED <<task, ctx, updates, faults>>

(* No question is accepted in this state: finish_processing and a reply.   *)
TurnDown(h) ==
  /\ pc[h] = "begun" /\ task[h] = "text"
  /\ ctx[h].state \in {"PROCESSING", "CLARIFICATION", "ERROR"}
  /\ WriteBack /\ LeaveLocked(h)

(* _process_question: a transition that is not allowed raises.             *)
EnterFrom(h) ==
  /\ pc[h] = "begun"
  /\ "PROCESSING" \in Allowed[ctx[h].state]
  /\ task[h] = "text" => ctx[h].state \in {"AWAITING_QUESTION", "ANSWER"}
  /\ SetState("PROCESSING")
  /\ Goto(h, "query")
  /\ UNCHANGED <<task, seen, updates, faults>>

(* Faulty variant: the state is set in the row only.                       *)
FaultyEnter(h) == EnterFrom(h) /\ UNCHANGED ctx

Enter(h) ==
  EnterFrom(h) /\ ctx' = [ctx EXCEPT ![h].state = "PROCESSING"]

EnterRaises(h) ==
  /\ pc[h] = "begun" /\ ctx[h].state = "DEBUG"
  /\ KeepRow /\ LeaveLocked(h)

Answered(h, s) ==
  /\ SetState(s)
  /\ ctx' = [ctx EXCEPT ![h].state = s]
  /\ Goto(h, "finish")
  /\ UNCHANGED <<task, seen, updates, faults>>

(* Faulty variant: the answer is sent, its state is not stored.            *)
FaultyAnswer(h) ==
  /\ pc[h] = "query" /\ "answer" \in Outcomes
  /\ KeepRow
  /\ Goto(h, "finish")
  /\ UNCHANGED <<task, ctx, seen, updates, faults>>

Answer(h) == pc[h] = "query" /\ "answer" \in Outcomes /\ Answered(h, "ANSWER")

(* confidence < 0.3, or the client raises                                  *)
NoAnswer(h) ==
  pc[h] = "query" /\ {"low", "raise"} \cap Outcomes # {} /\ Answered(h, "ERROR")

(* The question back to the user, with a keyboard of n options             *)
Ask(h, n) ==
  /\ ctx' = [ctx EXCEPT ![h].state = "CLARIFICATION",
                        ![h].depth = @ + 1, ![h].options = n]
  /\ row' = [Loaded EXCEPT !.state = "CLARIFICATION",
                           !.depth = ctx[h].depth + 1]
  /\ old' = FALSE
  /\ fresh' = IF row = NoRow THEN fresh + 1 ELSE fresh
  /\ offered' = n /\ asked' = asked + 1
  /\ Goto(h, "finish")
  /\ UNCHANGED <<retired, overridden, task, seen, updates, faults>>

(* Faulty variant: one clarification too many.                             *)
FaultyClarify(h) ==
  /\ pc[h] = "query" /\ "clarify" \in Outcomes
  /\ ctx[h].depth <= MaxDepth
  /\ \E n \in 1 .. Options : Ask(h, n)

Clarify(h) ==
  /\ pc[h] = "query" /\ "clarify" \in Outcomes
  /\ ctx[h].depth < MaxDepth
  /\ \E n \in 1 .. Options : Ask(h, n)

GiveUp(h) ==
  /\ pc[h] = "query" /\ "clarify" \in Outcomes
  /\ ctx[h].depth >= MaxDepth
  /\ Answered(h, "ERROR")

(* The finally clause                                                      *)
Finish(h) == pc[h] = "finish" /\ WriteBack /\ Ending(h)

-----------------------------------------------------------------------------
(* Failures                                                                *)

(* A transaction of the store fails.  Storing the outcome of a query, the  *)
(* except clause asks for a transition from that outcome to ERROR, which   *)
(* raises again: only the finally clause is left.  Anywhere else the       *)
(* exception ends the handler.                                             *)
StoreFails(h) ==
  /\ pc[h] # "idle" /\ Fault
  /\ Goto(h, IF pc[h] = "query" THEN "finish" ELSE "idle")
  /\ KeepRow
  /\ UNCHANGED <<task, ctx, seen, updates>>

(* The process of the bot dies and is started again.                       *)
Crash ==
  /\ \E h \in Handlers : pc[h] # "idle"
  /\ Fault
  /\ pc' = [h \in Handlers |-> "idle"]
  /\ KeepRow
  /\ UNCHANGED <<task, ctx, seen, updates>>

-----------------------------------------------------------------------------
Init ==
  /\ sequential \in BOOLEAN
  /\ IF KnownUser
       THEN row = [state |-> "AWAITING_QUESTION", conv |-> 0, depth |-> 0,
                   debug |-> FALSE]
       ELSE row = NoRow
  /\ old = FALSE
  /\ pc = [h \in Handlers |-> "idle"]
  /\ task = [h \in Handlers |-> "look"]
  /\ ctx = [h \in Handlers |-> [state |-> "IDLE", conv |-> 0, depth |-> 0,
                                debug |-> FALSE, options |-> 0]]
  /\ fresh = 1 /\ retired = {} /\ offered = 0 /\ asked = 0
  /\ overridden = FALSE /\ seen = {}
  /\ updates = 0 /\ faults = 0

Handle(h) ==
  \/ Get(h) \/ GetMissing(h) \/ Create(h)
  \/ StartCommand(h) \/ NewDialog(h) \/ DebugCommand(h) \/ Look(h)
  \/ CancelClarification(h) \/ RefusePick(h)
  \/ Refuse(h) \/ Begin(h) \/ Welcome(h) \/ TurnDown(h)
  \/ Enter(h) \/ EnterRaises(h)
  \/ Answer(h) \/ NoAnswer(h) \/ Clarify(h) \/ GiveUp(h)
  \/ Finish(h)

Next ==
  /\ \/ \E h \in Handlers :
          \/ \E kind \in Kinds : Receive(h, kind)
          \/ Handle(h)
          \/ StoreFails(h)
     \/ Age \/ RunCleanup \/ Crash
  /\ UNCHANGED sequential

Spec == Init /\ [][Next]_vars

-----------------------------------------------------------------------------
Places == {"idle", "get", "create", "act", "begun", "query", "finish"}

TypeOK ==
  /\ sequential \in BOOLEAN
  /\ row \in Rows \cup {NoRow}
  /\ old \in BOOLEAN
  /\ pc \in [Handlers -> Places]
  /\ task \in [Handlers -> AllKinds]
  /\ ctx \in [Handlers -> Contexts]
  /\ \A h \in Handlers : pc[h] = "query" => ctx[h].state = "PROCESSING"
  /\ fresh \in Nat /\ retired \subseteq 0 .. fresh - 1
  /\ row # NoRow => row.conv < fresh
  /\ offered \in 0 .. Options /\ asked \in Nat
  /\ overridden \in BOOLEAN
  /\ seen \subseteq {"offered option refused", "question turned down"}
  /\ row = NoRow => ~old /\ offered = 0
  /\ updates \in 0 .. MaxUpdates /\ faults \in 0 .. MaxFaults

(* Two questions of a user are in process at a time only after an update   *)
(* that does not hold the lock took the row out of PROCESSING: /start,     *)
(* /new, /debug, cancel, or the first message of a user.  No other         *)
(* overlapping of texts, failure or crash gets past try_begin_processing.  *)
ProcessingExclusive ==
  overridden \/ \A g, h \in Handlers :
                  pc[g] = "query" /\ pc[h] = "query" => g = h

(* A dialog that was left with /new, or that expired, does not come back   *)
(* through a handler that had loaded it before.                            *)
ConversationNeverReturns == row # NoRow => row.conv \notin retired

(* Updates that are handled one after the other ask for at most            *)
(* max_clarification_depth clarifications in one conversation.             *)
DepthLimited == sequential => asked <= MaxDepth

(* Updates that are handled one after the other leave the row PROCESSING   *)
(* only if something failed or a question was turned down.                 *)
LockIsReleased ==
  /\ sequential /\ \A h \in Handlers : pc[h] = "idle"
  /\ faults = 0 /\ "question turned down" \notin seen
  => row.state # "PROCESSING"

(* Documentation: the state of the dialog is in PostgreSQL, so an option   *)
(* on the keyboard of a pending clarification can be chosen.               *)
OfferedOptionAccepted == "offered option refused" \notin seen
=============================================================================
