--------------------------- MODULE TelegramUi_proofs ---------------------------
(***************************************************************************)
(* Type correctness of TelegramUi, how far its processing lock goes, and   *)
(* what the bot promises about a dialog: it stays left once it is left,    *)
(* its clarifications are bounded and its lock is released.  All for any   *)
(* number of handlers, updates, expiries, failures and crashes.            *)
(***************************************************************************)
EXTENDS TelegramUi, TLAPS

(* The part of the type invariant that the store keeps                     *)
StoreOK ==
  /\ row \in Rows \cup {NoRow} /\ old \in BOOLEAN
  /\ fresh \in Nat
  /\ retired \subseteq 0 .. fresh - 1
  /\ row # NoRow => row.conv < fresh
  /\ offered \in 0 .. Options /\ asked \in Nat
  /\ overridden \in BOOLEAN
  /\ row = NoRow => ~old /\ offered = 0

(* What the store becomes; fresh only grows.                               *)
Stored == StoreOK' /\ fresh <= fresh'

-----------------------------------------------------------------------------
LEMMA Longer ==
  ASSUME NEW m \in Nat, NEW n \in Nat, m <= n
  PROVE  0 .. m - 1 \subseteq 0 .. n - 1
  OBVIOUS

LEMMA RowsType ==
  ASSUME NEW r \in Rows
  PROVE  /\ r # NoRow /\ r.state \in States /\ r.conv \in Nat
         /\ r.depth \in Nat /\ r.debug \in BOOLEAN
  <1>1. /\ r.state \in States /\ r.conv \in Nat
        /\ r.depth \in Nat /\ r.debug \in BOOLEAN
    BY DEF Rows
  <1>2. r.state # "none"
    BY <1>1 DEF States
  <1> QED
    BY <1>1, <1>2 DEF NoRow

(* What _load_for_update returns is a row, of a conversation that is drawn *)
(* or will be with it.                                                     *)
LEMMA LoadedType ==
  ASSUME StoreOK
  PROVE  /\ Loaded \in Rows /\ Loaded.conv <= fresh
         /\ row # NoRow => Loaded = row
         /\ row = NoRow => Loaded.state = "IDLE"
  <1>1. CASE row = NoRow
    <2>1. Loaded = [state |-> "IDLE", conv |-> fresh, depth |-> 0,
                    debug |-> FALSE]
      BY <1>1 DEF Loaded, Columns, NewContext
    <2>2. fresh \in Nat /\ "IDLE" \in States
      BY DEF StoreOK, States
    <2> QED
      BY <1>1, <2>1, <2>2 DEF Rows
  <1>2. CASE row # NoRow
    <2>1. row \in Rows /\ Loaded = row /\ row.conv < fresh /\ fresh \in Nat
      BY <1>2 DEF Loaded, StoreOK
    <2> QED
      BY <1>2, <2>1, RowsType
  <1> QED
    BY <1>1, <1>2

(* An upsert of such a row keeps the types of the store.                   *)
LEMMA UpsertType ==
  ASSUME StoreOK, NEW r \in Rows, r.conv <= fresh,
         Upsert(r), overridden' \in BOOLEAN
  PROVE  Stored /\ row' = r /\ ~old'
  <1>1. r # NoRow /\ r.conv \in Nat
    BY RowsType
  <1>2. row # NoRow => row.conv \in 0 .. fresh - 1
    BY RowsType DEF StoreOK
  <1>3. fresh' \in Nat /\ fresh <= fresh' /\ r.conv < fresh'
    BY <1>1 DEF Upsert, StoreOK
  <1>4. retired' \subseteq 0 .. fresh' - 1
    <2>1. retired' \subseteq 0 .. fresh - 1
      BY <1>2 DEF Upsert, StoreOK
    <2>2. fresh \in Nat
      BY DEF StoreOK
    <2> QED
      BY <1>3, <2>1, <2>2, Longer
  <1>5. offered' \in 0 .. Options /\ asked' \in Nat
    BY TelegramAssumption DEF Upsert, StoreOK, TelegramAssumption
  <1> QED
    BY <1>1, <1>3, <1>4, <1>5 DEF Upsert, StoreOK, Stored

LEMMA StoreType ==
  ASSUME StoreOK, NEW r \in Rows, r.conv <= fresh,
         Store(r) \/ Overwrite(r)
  PROVE  Stored /\ row' = r /\ ~old'
  <1>1. Upsert(r) /\ overridden' \in BOOLEAN
    BY DEF Store, Overwrite, StoreOK
  <1> QED
    BY <1>1, UpsertType

(* A transaction that only sets the state                                  *)
LEMMA SetStateType ==
  ASSUME StoreOK, NEW s \in States, SetState(s) \/ OverwriteState(s)
  PROVE  Stored /\ row' # NoRow /\ row'.state = s /\ ~old'
  <1> DEFINE r == [Loaded EXCEPT !.state = s]
  <1>1. r \in Rows /\ r.conv <= fresh /\ r.state = s
    BY LoadedType DEF Rows
  <1>2. Store(r) \/ Overwrite(r)
    BY DEF SetState, OverwriteState
  <1> HIDE DEF r
  <1> QED
    BY <1>1, <1>2, StoreType, RowsType

LEMMA WriteBackType ==
  ASSUME StoreOK, WriteBack
  PROVE  Stored /\ row' = Loaded /\ ~old'
  BY LoadedType, StoreType DEF WriteBack

LEMMA KeepRowType ==
  ASSUME StoreOK, KeepRow
  PROVE  Stored
  BY DEF KeepRow, Stored, StoreOK

LEMMA DeleteType ==
  ASSUME StoreOK, old, Delete
  PROVE  Stored /\ ~old'
  <1>1. row # NoRow /\ row.conv \in 0 .. fresh - 1
    BY RowsType DEF StoreOK
  <1>2. fresh \in Nat /\ fresh' = fresh
    BY DEF StoreOK, Delete
  <1>3. retired' \subseteq 0 .. fresh' - 1
    BY <1>1 DEF StoreOK, Delete
  <1>4. offered' \in 0 .. Options /\ asked' \in Nat
    BY TelegramAssumption DEF Delete, TelegramAssumption
  <1>5. row' = NoRow /\ old' = FALSE /\ offered' = 0
        /\ overridden' \in BOOLEAN
    BY DEF Delete, StoreOK
  <1>6. fresh' \in Nat /\ fresh <= fresh'
    BY <1>2
  <1> QED
    BY <1>3, <1>4, <1>5, <1>6, Zenon DEF StoreOK, Stored

(* The question back to the user                                           *)
LEMMA AskType ==
  ASSUME StoreOK, NEW h \in Handlers, NEW n \in 1 .. Options,
         ctx[h].depth \in Nat, Ask(h, n)
  PROVE  Stored /\ ~old'
  <1> DEFINE r == [Loaded EXCEPT !.state = "CLARIFICATION",
                                 !.depth = ctx[h].depth + 1]
  <1>1. Loaded \in Rows /\ Loaded.conv \in Nat /\ Loaded.conv <= fresh
    BY LoadedType, RowsType
  <1>2. row # NoRow => Loaded.conv < fresh
    BY LoadedType DEF StoreOK
  <1>3. r \in Rows /\ r.conv = Loaded.conv
    <2> DEFINE d == ctx[h].depth + 1
    <2>1. d \in Nat /\ "CLARIFICATION" \in States
      BY DEF States
    <2>2. r = [[Loaded EXCEPT !.state = "CLARIFICATION"] EXCEPT !.depth = d]
      OBVIOUS
    <2> HIDE DEF d
    <2>3. [Loaded EXCEPT !.state = "CLARIFICATION"] \in Rows
      BY <1>1, <2>1 DEF Rows
    <2>4. r \in Rows
      BY <2>1, <2>2, <2>3 DEF Rows
    <2> QED
      BY <1>1, <2>2, <2>4 DEF Rows
  <1>4. row' = r /\ old' = FALSE /\ retired' = retired
        /\ overridden' = overridden /\ offered' = n /\ asked' = asked + 1
        /\ fresh' = IF row = NoRow THEN fresh + 1 ELSE fresh
    BY DEF Ask
  <1> HIDE DEF r
  <1>5. fresh \in Nat /\ fresh' \in Nat /\ fresh <= fresh'
    BY <1>4 DEF StoreOK
  <1>6. r.conv < fresh'
    BY <1>1, <1>2, <1>3, <1>4, <1>5
  <1>7. retired' \subseteq 0 .. fresh' - 1
    BY <1>4, <1>5, Longer DEF StoreOK
  <1>8. offered' \in 0 .. Options /\ asked' \in Nat
    BY <1>4, TelegramAssumption DEF StoreOK, TelegramAssumption
  <1>9. row' \in Rows /\ row' # NoRow /\ row'.conv < fresh'
    BY <1>3, <1>4, <1>6, RowsType
  <1>10. old' = FALSE /\ overridden' \in BOOLEAN
    BY <1>4 DEF StoreOK
  <1> QED
    BY <1>5, <1>7, <1>8, <1>9, <1>10, Zenon DEF StoreOK, Stored

-----------------------------------------------------------------------------
(* The part the handlers keep                                              *)
HandlersOK ==
  /\ pc \in [Handlers -> Places]
  /\ task \in [Handlers -> AllKinds]
  /\ ctx \in [Handlers -> Contexts]
  /\ \A h \in Handlers : pc[h] = "query" => ctx[h].state = "PROCESSING"
  /\ \A h \in Handlers : ctx[h].conv < fresh

CountersOK ==
  /\ seen \subseteq {"offered option refused", "question turned down"}
  /\ updates \in 0 .. MaxUpdates /\ faults \in 0 .. MaxFaults

TypeInv == StoreOK /\ HandlersOK /\ CountersOK

LEMMA ContextsType ==
  ASSUME NEW c \in Contexts
  PROVE  /\ c.state \in States /\ c.conv \in Nat /\ c.depth \in Nat
         /\ c.debug \in BOOLEAN /\ c.options \in Nat
         /\ Columns(c) \in Rows /\ Columns(c).conv = c.conv
  BY DEF Contexts, Rows, Columns

(* A handler goes on to w with the context c.                              *)
LEMMA HandlerMoves ==
  ASSUME HandlersOK, fresh \in Nat, fresh' \in Nat, fresh <= fresh',
         NEW h \in Handlers, NEW w \in Places, NEW c \in Contexts,
         c.conv < fresh', w = "query" => c.state = "PROCESSING",
         pc' = [pc EXCEPT ![h] = w], ctx' = [ctx EXCEPT ![h] = c],
         task' \in [Handlers -> AllKinds]
  PROVE  HandlersOK'
  <1>1. pc' \in [Handlers -> Places] /\ ctx' \in [Handlers -> Contexts]
    BY DEF HandlersOK
  <1>2. ASSUME NEW g \in Handlers
        PROVE  /\ pc'[g] = "query" => ctx'[g].state = "PROCESSING"
               /\ ctx'[g].conv < fresh'
    <2>1. CASE g = h
      BY <2>1 DEF HandlersOK
    <2>2. CASE g # h
      <3>1. pc'[g] = pc[g] /\ ctx'[g] = ctx[g]
        BY <2>2 DEF HandlersOK
      <3>2. ctx[g].conv \in Nat /\ ctx[g].conv < fresh
        BY ContextsType DEF HandlersOK
      <3>3. pc[g] = "query" => ctx[g].state = "PROCESSING"
        BY DEF HandlersOK
      <3>4. ctx'[g].conv < fresh'
        BY <3>1, <3>2
      <3> QED
        BY <3>1, <3>3, <3>4
    <2> QED
      BY <2>1, <2>2
  <1> QED
    BY <1>1, <1>2 DEF HandlersOK

(* A handler goes on to w, with the context it has, not to its query.      *)
LEMMA HandlerGoes ==
  ASSUME HandlersOK, fresh \in Nat, fresh' \in Nat, fresh <= fresh',
         NEW h \in Handlers, NEW w \in Places \ {"query"}, Goto(h, w),
         UNCHANGED <<task, ctx>>
  PROVE  HandlersOK'
  <1>1. ctx[h] \in Contexts /\ ctx' = [ctx EXCEPT ![h] = ctx[h]]
    BY DEF HandlersOK
  <1>2. ctx[h].conv \in Nat /\ ctx[h].conv < fresh
    BY <1>1, ContextsType DEF HandlersOK
  <1>3. ctx[h].conv < fresh'
    BY <1>2
  <1>4. pc' = [pc EXCEPT ![h] = w] /\ task' \in [Handlers -> AllKinds]
    BY DEF Goto, HandlersOK
  <1> QED
    BY <1>1, <1>3, <1>4, HandlerMoves

LEMMA StoredFresh ==
  ASSUME StoreOK, Stored
  PROVE  fresh \in Nat /\ fresh' \in Nat /\ fresh <= fresh'
  BY DEF StoreOK, Stored

(* The end of a handler whose transaction left the store well-typed        *)
LEMMA EndingType ==
  ASSUME TypeInv, Stored, NEW h \in Handlers, Ending(h)
  PROVE  TypeInv'
  <1>1. HandlersOK'
    BY HandlerGoes, StoredFresh DEF TypeInv, Ending, Done, Places
  <1> QED
    BY <1>1 DEF TypeInv, Stored, Ending, CountersOK

(* The same, going on with the context it has                              *)
LEMMA GoingType ==
  ASSUME TypeInv, Stored, NEW h \in Handlers, NEW w \in Places \ {"query"},
         Goto(h, w), UNCHANGED <<task, ctx>>, CountersOK'
  PROVE  TypeInv'
  <1>1. HandlersOK'
    BY HandlerGoes, StoredFresh DEF TypeInv
  <1> QED
    BY <1>1 DEF TypeInv, Stored

(* The same, going on with another state in the context                    *)
LEMMA StateType ==
  ASSUME TypeInv, Stored, NEW h \in Handlers, NEW w \in Places,
         NEW s \in States, w = "query" => s = "PROCESSING",
         pc' = [pc EXCEPT ![h] = w],
         ctx' = [ctx EXCEPT ![h].state = s],
         UNCHANGED <<task, seen, updates, faults>>
  PROVE  TypeInv'
  <1> DEFINE c == [ctx[h] EXCEPT !.state = s]
  <1>1. ctx[h] \in Contexts /\ ctx[h].conv < fresh
    BY DEF TypeInv, HandlersOK
  <1>2. c \in Contexts /\ c.state = s /\ c.conv = ctx[h].conv
    BY <1>1 DEF Contexts
  <1>3. ctx' = [ctx EXCEPT ![h] = c] /\ task' \in [Handlers -> AllKinds]
    BY DEF TypeInv, HandlersOK
  <1> HIDE DEF c
  <1>4. ctx[h].conv \in Nat
    BY <1>1, ContextsType
  <1>5. fresh \in Nat /\ fresh' \in Nat /\ fresh <= fresh'
    BY StoredFresh DEF TypeInv
  <1>6. c.conv < fresh'
    BY <1>1, <1>2, <1>4, <1>5
  <1>7. HandlersOK'
    BY <1>2, <1>3, <1>5, <1>6, HandlerMoves DEF TypeInv
  <1> QED
    BY <1>7 DEF TypeInv, Stored, CountersOK

-----------------------------------------------------------------------------
(* The updates that take no lock                                           *)
LEMMA ReceiveType ==
  ASSUME TypeInv, NEW h \in Handlers, NEW kind \in Kinds, Receive(h, kind)
  PROVE  TypeInv'
  <1>1. Stored
    BY KeepRowType, DeleteType DEF Receive, TypeInv
  <1>2. task' \in [Handlers -> AllKinds]
    BY TelegramAssumption DEF Receive, TypeInv, HandlersOK, TelegramAssumption
  <1>3. ctx[h] \in Contexts /\ ctx[h].conv \in Nat /\ ctx[h].conv < fresh
        /\ ctx' = [ctx EXCEPT ![h] = ctx[h]]
    BY ContextsType DEF Receive, TypeInv, HandlersOK
  <1>4. fresh \in Nat /\ fresh' \in Nat /\ fresh <= fresh'
    BY <1>1, StoredFresh DEF TypeInv
  <1>5. ctx[h].conv < fresh'
    BY <1>3, <1>4
  <1>6. pc' = [pc EXCEPT ![h] = "get"] /\ "get" \in Places
    BY DEF Receive, Goto, Places
  <1>7. HandlersOK'
    BY <1>2, <1>3, <1>4, <1>5, <1>6, HandlerMoves DEF TypeInv
  <1>8. updates' \in 0 .. MaxUpdates
    <2>1. updates \in 0 .. MaxUpdates /\ MaxUpdates \in Nat
          /\ updates < MaxUpdates /\ updates' = updates + 1
      BY TelegramAssumption
         DEF Receive, TypeInv, CountersOK, TelegramAssumption
    <2> QED
      BY <2>1
  <1>9. UNCHANGED <<seen, faults>>
    BY DEF Receive
  <1> QED
    BY <1>1, <1>7, <1>8, <1>9, Zenon DEF TypeInv, Stored, CountersOK

LEMMA GetType ==
  ASSUME TypeInv, NEW h \in Handlers, Get(h)
  PROVE  TypeInv'
  <1>1. Stored /\ fresh' = fresh /\ fresh \in Nat
    BY KeepRowType DEF Get, TypeInv, KeepRow, StoreOK
  <1>2. row \in Rows /\ row.conv < fresh
    BY DEF Get, TypeInv, StoreOK
  <1> DEFINE c == RowToContext
  <1>3. c \in Contexts /\ c.conv < fresh'
    <2>1. /\ row.state \in States /\ row.conv \in Nat /\ row.depth \in Nat
          /\ row.debug \in BOOLEAN
      BY <1>2, RowsType
    <2>2. c \in Contexts /\ c.conv = row.conv
      BY <2>1 DEF RowToContext, Contexts
    <2> HIDE DEF c
    <2> QED
      BY <1>1, <1>2, <2>2
  <1>4. pc' = [pc EXCEPT ![h] = "act"] /\ ctx' = [ctx EXCEPT ![h] = c]
        /\ "act" \in Places /\ task' \in [Handlers -> AllKinds]
    BY DEF Get, Goto, Places, TypeInv, HandlersOK
  <1> HIDE DEF c
  <1>5. fresh \in Nat /\ fresh' \in Nat /\ fresh <= fresh'
    BY <1>1, StoredFresh DEF TypeInv
  <1>6. HandlersOK'
    BY <1>3, <1>4, <1>5, HandlerMoves DEF TypeInv
  <1> QED
    BY <1>1, <1>6 DEF TypeInv, Stored, CountersOK, Get

LEMMA GetMissingType ==
  ASSUME TypeInv, NEW h \in Handlers, GetMissing(h)
  PROVE  TypeInv'
  <1>1. fresh \in Nat /\ fresh' = fresh + 1
    BY DEF GetMissing, TypeInv, StoreOK
  <1>2. retired' \subseteq 0 .. fresh' - 1
    BY <1>1, Longer DEF GetMissing, TypeInv, StoreOK
  <1>3. row = NoRow /\ UNCHANGED <<row, old, offered, asked, overridden>>
    BY DEF GetMissing
  <1>4. fresh' \in Nat /\ fresh <= fresh'
    BY <1>1
  <1>5. Stored
    <2>1. StoreOK
      BY DEF TypeInv
    <2> QED
      BY <1>2, <1>3, <1>4, <2>1 DEF StoreOK, Stored
  <1> DEFINE c == NewContext
  <1>6. c \in Contexts /\ c.conv = fresh
    BY <1>1 DEF NewContext, Contexts, States
  <1>7. pc' = [pc EXCEPT ![h] = "create"] /\ ctx' = [ctx EXCEPT ![h] = c]
        /\ "create" \in Places /\ task' \in [Handlers -> AllKinds]
    BY DEF GetMissing, Goto, Places, TypeInv, HandlersOK
  <1> HIDE DEF c
  <1>8. c.conv < fresh'
    BY <1>1, <1>6
  <1>9. HandlersOK'
    BY <1>1, <1>4, <1>6, <1>7, <1>8, HandlerMoves DEF TypeInv
  <1> QED
    BY <1>5, <1>9 DEF TypeInv, Stored, CountersOK, GetMissing

LEMMA CreateType ==
  ASSUME TypeInv, NEW h \in Handlers, Create(h)
  PROVE  TypeInv'
  <1> DEFINE r == Columns(ctx[h])
  <1>1. ctx[h] \in Contexts /\ ctx[h].conv < fresh /\ fresh \in Nat
    BY DEF TypeInv, HandlersOK, StoreOK
  <1>2. r \in Rows /\ r.conv \in Nat /\ r.conv < fresh
    BY <1>1, ContextsType
  <1>3. Overwrite(r)
    BY DEF Create
  <1> HIDE DEF r
  <1>4. r.conv <= fresh
    BY <1>1, <1>2
  <1>5. Stored
    BY <1>2, <1>3, <1>4, StoreType DEF TypeInv
  <1>6. CountersOK' /\ "act" \in Places \ {"query"}
    BY DEF TypeInv, CountersOK, Create, Places
  <1> QED
    BY <1>5, <1>6, GoingType DEF Create

LEMMA NewDialogType ==
  ASSUME TypeInv, NEW h \in Handlers, NewDialog(h)
  PROVE  TypeInv'
  <1> DEFINE r == [state |-> "AWAITING_QUESTION", conv |-> fresh,
                   depth |-> 0, debug |-> Loaded.debug]
  <1>1. Loaded \in Rows /\ fresh \in Nat
    BY LoadedType DEF TypeInv, StoreOK
  <1>2. r \in Rows /\ r.conv = fresh
    BY <1>1, RowsType DEF Rows, States
  <1>3. Overwrite(r) /\ Ending(h)
    BY DEF NewDialog
  <1> HIDE DEF r
  <1>4. r.conv <= fresh
    BY <1>1, <1>2
  <1> QED
    BY <1>2, <1>3, <1>4, StoreType, EndingType DEF TypeInv

LEMMA DebugCommandType ==
  ASSUME TypeInv, NEW h \in Handlers, DebugCommand(h)
  PROVE  TypeInv'
  <1> DEFINE debug == ~ctx[h].debug
             s == CASE debug /\ ctx[h].state = "ANSWER" -> "DEBUG"
                    [] ~debug /\ ctx[h].state = "DEBUG" -> "ANSWER"
                    [] OTHER                            -> ctx[h].state
             r == [Loaded EXCEPT !.debug = debug, !.state = s]
  <1>1. Overwrite(r) /\ Ending(h)
    BY DEF DebugCommand
  <1>2. ctx[h].state \in States
    BY ContextsType DEF TypeInv, HandlersOK
  <1>3. s \in States
    BY <1>2 DEF States
  <1>4. debug \in BOOLEAN
    OBVIOUS
  <1> HIDE DEF debug, s
  <1>5. Loaded \in Rows /\ Loaded.conv <= fresh
    BY LoadedType DEF TypeInv
  <1>6. r \in Rows /\ r.conv <= fresh
    BY <1>3, <1>4, <1>5 DEF Rows
  <1> HIDE DEF r
  <1> QED
    BY <1>1, <1>6, StoreType, EndingType DEF TypeInv

LEMMA StateCommandType ==
  ASSUME TypeInv, NEW h \in Handlers,
         StartCommand(h) \/ CancelClarification(h)
  PROVE  TypeInv'
  <1>1. (KeepRow \/ OverwriteState("AWAITING_QUESTION")) /\ Ending(h)
    BY DEF StartCommand, CancelClarification
  <1>2. "AWAITING_QUESTION" \in States
    BY DEF States
  <1>3. Stored
    BY <1>1, <1>2, KeepRowType, SetStateType DEF TypeInv
  <1> QED
    BY <1>1, <1>3, EndingType

LEMMA LookType ==
  ASSUME TypeInv, NEW h \in Handlers, Look(h) \/ Refuse(h)
  PROVE  TypeInv'
  BY KeepRowType, EndingType DEF Look, Refuse, TypeInv

LEMMA RefusePickType ==
  ASSUME TypeInv, NEW h \in Handlers, RefusePick(h)
  PROVE  TypeInv'
  <1>1. Stored
    BY KeepRowType DEF RefusePick, TypeInv
  <1>2. CountersOK' /\ "idle" \in Places \ {"query"}
    BY DEF RefusePick, TypeInv, CountersOK, Places
  <1> QED
    BY <1>1, <1>2, GoingType DEF RefusePick, Done

-----------------------------------------------------------------------------
(* Questions                                                               *)
LEMMA BeginType ==
  ASSUME TypeInv, NEW h \in Handlers, Begin(h)
  PROVE  TypeInv'
  <1>1. "PROCESSING" \in States /\ "begun" \in Places \ {"query"}
    BY DEF States, Places
  <1>2. Stored
    BY <1>1, SetStateType DEF Begin, TypeInv
  <1>3. CountersOK'
    BY DEF Begin, TypeInv, CountersOK
  <1> QED
    BY <1>1, <1>2, <1>3, GoingType DEF Begin

LEMMA WelcomeType ==
  ASSUME TypeInv, NEW h \in Handlers, Welcome(h)
  PROVE  TypeInv'
  <1>1. "AWAITING_QUESTION" \in States /\ "begun" \in Places
    BY DEF States, Places
  <1>2. Stored
    BY <1>1, SetStateType DEF Welcome, TypeInv
  <1>3. pc' = [pc EXCEPT ![h] = "begun"]
    BY DEF Welcome, TypeInv, HandlersOK
  <1> QED
    BY <1>1, <1>2, <1>3, StateType DEF Welcome

LEMMA TurnDownType ==
  ASSUME TypeInv, NEW h \in Handlers, TurnDown(h) \/ EnterRaises(h)
  PROVE  TypeInv'
  <1>1. LeaveLocked(h) /\ (WriteBack \/ KeepRow)
    BY DEF TurnDown, EnterRaises
  <1>2. Stored
    BY <1>1, WriteBackType, KeepRowType DEF TypeInv
  <1>3. CountersOK' /\ "idle" \in Places \ {"query"}
    BY <1>1 DEF LeaveLocked, TypeInv, CountersOK, Places
  <1> QED
    BY <1>1, <1>2, <1>3, GoingType DEF LeaveLocked, Done

LEMMA EnterType ==
  ASSUME TypeInv, NEW h \in Handlers, Enter(h)
  PROVE  TypeInv'
  <1>1. "PROCESSING" \in States /\ "query" \in Places
    BY DEF States, Places
  <1>2. Stored
    BY <1>1, SetStateType DEF Enter, EnterFrom, TypeInv
  <1> QED
    BY <1>1, <1>2, StateType DEF Enter, EnterFrom, Goto

LEMMA AnsweredType ==
  ASSUME TypeInv, NEW h \in Handlers, NEW s \in States, Answered(h, s)
  PROVE  TypeInv'
  <1>1. Stored
    BY SetStateType DEF Answered, TypeInv
  <1>2. "finish" \in Places
    BY DEF Places
  <1> QED
    BY <1>1, <1>2, StateType DEF Answered, Goto

LEMMA ClarifyType ==
  ASSUME TypeInv, NEW h \in Handlers, Clarify(h)
  PROVE  TypeInv'
  <1>1. PICK n \in 1 .. Options : Ask(h, n)
    BY DEF Clarify
  <1>2. ctx[h] \in Contexts /\ ctx[h].conv < fresh /\ ctx \in [Handlers -> Contexts]
    BY DEF TypeInv, HandlersOK
  <1>3. /\ ctx[h].conv \in Nat /\ ctx[h].depth \in Nat
        /\ n \in Nat /\ "CLARIFICATION" \in States
    BY <1>2, ContextsType, TelegramAssumption DEF States, TelegramAssumption
  <1>4. Stored
    BY <1>1, <1>3, AskType DEF TypeInv
  <1> DEFINE d == ctx[h].depth + 1
             c == [[[ctx[h] EXCEPT !.state = "CLARIFICATION"]
                            EXCEPT !.depth = d]
                            EXCEPT !.options = n]
  <1>5. d \in Nat
    BY <1>3
  <1>6. ctx' = [ctx EXCEPT ![h] = c]
    BY <1>1, <1>2 DEF Ask
  <1> HIDE DEF d
  <1>7. c \in Contexts /\ c.conv = ctx[h].conv
    BY <1>2, <1>3, <1>5 DEF Contexts
  <1> HIDE DEF c
  <1>8. fresh \in Nat /\ fresh' \in Nat /\ fresh <= fresh'
    BY <1>4, StoredFresh DEF TypeInv
  <1>9. c.conv < fresh'
    BY <1>2, <1>3, <1>7, <1>8
  <1>10. pc' = [pc EXCEPT ![h] = "finish"] /\ "finish" \in Places
         /\ task' \in [Handlers -> AllKinds]
    BY <1>1 DEF Ask, Goto, Places, TypeInv, HandlersOK
  <1>11. HandlersOK'
    BY <1>6, <1>7, <1>8, <1>9, <1>10, HandlerMoves DEF TypeInv
  <1> QED
    BY <1>1, <1>4, <1>11 DEF TypeInv, Stored, CountersOK, Ask

LEMMA FinishType ==
  ASSUME TypeInv, NEW h \in Handlers, Finish(h)
  PROVE  TypeInv'
  BY WriteBackType, EndingType DEF Finish, TypeInv

(* Failures and time                                                       *)
LEMMA FaultType ==
  ASSUME CountersOK, Fault, UNCHANGED <<seen, updates>>
  PROVE  CountersOK'
  <1>1. faults \in 0 .. MaxFaults /\ MaxFaults \in Nat
        /\ faults < MaxFaults /\ faults' = faults + 1
    BY TelegramAssumption DEF Fault, CountersOK, TelegramAssumption
  <1>2. faults' \in 0 .. MaxFaults
    BY <1>1
  <1> QED
    BY <1>2 DEF CountersOK

LEMMA StoreFailsType ==
  ASSUME TypeInv, NEW h \in Handlers, StoreFails(h)
  PROVE  TypeInv'
  <1> DEFINE w == IF pc[h] = "query" THEN "finish" ELSE "idle"
  <1>1. w \in Places \ {"query"} /\ Goto(h, w)
    BY DEF StoreFails, Places
  <1>2. Stored /\ CountersOK'
    BY KeepRowType, FaultType DEF StoreFails, TypeInv
  <1> HIDE DEF w
  <1> QED
    BY <1>1, <1>2, GoingType DEF StoreFails

LEMMA CrashType ==
  ASSUME TypeInv, Crash
  PROVE  TypeInv'
  <1>1. Stored /\ CountersOK' /\ fresh' = fresh
    BY KeepRowType, FaultType DEF Crash, KeepRow, TypeInv
  <1>2. HandlersOK'
    BY <1>1 DEF Crash, TypeInv, HandlersOK, Places
  <1> QED
    BY <1>1, <1>2 DEF TypeInv, Stored

LEMMA TimeType ==
  ASSUME TypeInv, Age \/ RunCleanup
  PROVE  TypeInv'
  <1>1. Stored
    <2>1. StoreOK
      BY DEF TypeInv
    <2>2. CASE Age
      <3>1. /\ row # NoRow /\ old' = TRUE /\ fresh \in Nat /\ fresh' = fresh
            /\ UNCHANGED <<row, retired, offered, asked, overridden>>
        BY <2>1, <2>2 DEF Age, StoreOK
      <3>2. fresh <= fresh'
        BY <3>1
      <3>3. row' \in Rows \cup {NoRow} /\ row' # NoRow
        BY <2>1, <3>1 DEF StoreOK
      <3>4. row'.conv < fresh' /\ retired' \subseteq 0 .. fresh' - 1
        BY <2>1, <3>1 DEF StoreOK
      <3> QED
        BY <2>1, <3>1, <3>2, <3>3, <3>4, Zenon DEF StoreOK, Stored
    <2>3. CASE RunCleanup
      BY <2>1, <2>3, DeleteType DEF RunCleanup
    <2> QED
      BY <2>2, <2>3
  <1>2. UNCHANGED <<pc, task, ctx, seen, updates, faults, fresh>>
    BY DEF Age, RunCleanup, Delete
  <1> QED
    BY <1>1, <1>2 DEF TypeInv, Stored, HandlersOK, CountersOK

LEMMA HandleType ==
  ASSUME TypeInv, NEW h \in Handlers, Handle(h)
  PROVE  TypeInv'
  <1>1. CASE Get(h) \/ GetMissing(h) \/ Create(h)
    BY <1>1, GetType, GetMissingType, CreateType
  <1>2. CASE StartCommand(h) \/ CancelClarification(h) \/ NewDialog(h)
             \/ DebugCommand(h) \/ Look(h) \/ RefusePick(h)
    BY <1>2, StateCommandType, NewDialogType, DebugCommandType, LookType,
       RefusePickType
  <1>3. CASE Refuse(h) \/ Begin(h) \/ Welcome(h) \/ TurnDown(h) \/ Enter(h)
             \/ EnterRaises(h)
    BY <1>3, LookType, BeginType, WelcomeType, TurnDownType, EnterType
  <1>4. CASE Answer(h) \/ NoAnswer(h) \/ GiveUp(h)
    <2>1. "ANSWER" \in States /\ "ERROR" \in States
      BY DEF States
    <2> QED
      BY <1>4, <2>1, AnsweredType DEF Answer, NoAnswer, GiveUp
  <1>5. CASE Clarify(h) \/ Finish(h)
    BY <1>5, ClarifyType, FinishType
  <1> QED
    BY <1>1, <1>2, <1>3, <1>4, <1>5 DEF Handle

LEMMA InitType == Init => TypeInv
  <1> SUFFICES ASSUME Init PROVE TypeInv
    OBVIOUS
  <1> DEFINE first == [state |-> "AWAITING_QUESTION", conv |-> 0, depth |-> 0,
                       debug |-> FALSE]
  <1>1. first \in Rows /\ first.conv = 0
    BY DEF Rows, States
  <1>2. row = first \/ row = NoRow
    BY DEF Init
  <1> HIDE DEF first
  <1>3. row \in Rows \cup {NoRow} /\ (row # NoRow => row.conv < 1)
    BY <1>1, <1>2
  <1>4. offered \in 0 .. Options
    BY TelegramAssumption DEF Init, TelegramAssumption
  <1>5. old = FALSE /\ fresh = 1 /\ retired = {} /\ offered = 0 /\ asked = 0
        /\ overridden = FALSE
    BY DEF Init
  <1>6. StoreOK
    BY <1>3, <1>4, <1>5 DEF StoreOK
  <1>7. HandlersOK
    BY DEF Init, HandlersOK, Places, AllKinds, Contexts, States
  <1>8. CountersOK
    BY TelegramAssumption DEF Init, CountersOK, TelegramAssumption
  <1> QED
    BY <1>6, <1>7, <1>8 DEF TypeInv

LEMMA StepType ==
  ASSUME TypeInv, [Next]_vars
  PROVE  TypeInv'
  <1>1. CASE Next
    <2>1. ASSUME NEW h \in Handlers, NEW kind \in Kinds, Receive(h, kind)
          PROVE  TypeInv'
      BY <2>1, ReceiveType
    <2>2. ASSUME NEW h \in Handlers, Handle(h) \/ StoreFails(h)
          PROVE  TypeInv'
      BY <2>2, HandleType, StoreFailsType
    <2> QED
      BY <1>1, <2>1, <2>2, TimeType, CrashType DEF Next
  <1>2. CASE UNCHANGED vars
    BY <1>2 DEF vars, TypeInv, StoreOK, HandlersOK, CountersOK
  <1> QED
    BY <1>1, <1>2

LEMMA TypeInvariant == Spec => []TypeInv
  BY InitType, StepType, PTL DEF Spec

(* Whatever updates overlap, whatever fails: the row is a row or missing,  *)
(* its conversation and those of the contexts were drawn before it, and a  *)
(* handler that queries the service has a context in PROCESSING.           *)
THEOREM TelegramTypes == Spec => []TypeOK
  <1> DEFINE Mode == sequential \in BOOLEAN
  <1>1. TypeInv /\ Mode => TypeOK
    BY DEF TypeInv, StoreOK, HandlersOK, CountersOK, TypeOK
  <1>2. Init => Mode
    BY DEF Init
  <1>3. Mode /\ [Next]_vars => Mode'
    BY DEF Next, vars
  <1> QED
    BY <1>1, <1>2, <1>3, TypeInvariant, PTL DEF Spec

-----------------------------------------------------------------------------
(* The lock.  Unless overridden, whoever got past try_begin_processing     *)
(* finds the row PROCESSING, which keeps everybody else out; and the row   *)
(* does not expire under him, since it was written after he came.          *)
Holders == {h \in Handlers : pc[h] \in {"begun", "query"}}

LockInv ==
  /\ Holders # {} => ~old
  /\ ~overridden /\ Holders # {} => row.state = "PROCESSING"
  /\ ~overridden => \A g, h \in Holders : g = h

LEMMA HoldersMove ==
  ASSUME HandlersOK, NEW h \in Handlers, NEW w \in Places,
         pc' = [pc EXCEPT ![h] = w]
  PROVE  /\ Holders' \subseteq Holders \cup {h}
         /\ w \notin {"begun", "query"} => Holders' = Holders \ {h}
         /\ h \in Holders => Holders' \subseteq Holders
  BY DEF Holders, HandlersOK

(* Nobody comes, and the row is left as it is.                             *)
LEMMA LockKept ==
  ASSUME LockInv, Holders' \subseteq Holders, old' => old,
         ~overridden' => ~overridden,
         row' = row \/ row'.state = row.state
  PROVE  LockInv'
  <1>1. Holders' # {} => Holders # {}
    OBVIOUS
  <1> QED
    BY <1>1, Zenon DEF LockInv

LEMMA LockKeptRow ==
  ASSUME LockInv, Holders' \subseteq Holders, KeepRow
  PROVE  LockInv'
  BY LockKept DEF KeepRow

(* The row is deleted only when nobody holds the lock.                     *)
LEMMA LockDelete ==
  ASSUME LockInv, Holders' \subseteq Holders, old, Delete
  PROVE  LockInv'
  <1>1. Holders' = {}
    BY DEF LockInv
  <1> QED
    BY <1>1 DEF LockInv

LEMMA LockWriteBack ==
  ASSUME StoreOK, LockInv, Holders' \subseteq Holders, WriteBack
  PROVE  LockInv'
  <1>1. row' = Loaded /\ ~old' /\ overridden' = overridden
    BY WriteBackType DEF WriteBack, Store
  <1>2. row.state = "PROCESSING" => row' = row
    BY <1>1, LoadedType DEF NoRow
  <1>3. Holders' # {} => Holders # {}
    OBVIOUS
  <1> QED
    BY <1>1, <1>2, <1>3, Zenon DEF LockInv

(* An update that does not hold the lock overrides it, or leaves it.       *)
LEMMA LockOverwrite ==
  ASSUME StoreOK, LockInv, Holders' \subseteq Holders,
         NEW r \in Rows, r.conv <= fresh, Overwrite(r)
  PROVE  LockInv'
  <1>1. row' = r /\ ~old'
    BY StoreType
  <1>2. overridden' = (overridden \/ (r.state # "PROCESSING" /\ Holders # {}))
    BY DEF Overwrite, Holders
  <1>3. ~overridden' => ~overridden /\ (r.state = "PROCESSING" \/ Holders = {})
    BY <1>2
  <1> QED
    BY <1>1, <1>3, Zenon DEF LockInv

LEMMA LockOverwriteState ==
  ASSUME StoreOK, LockInv, Holders' \subseteq Holders,
         NEW s \in States, OverwriteState(s)
  PROVE  LockInv'
  <1> DEFINE r == [Loaded EXCEPT !.state = s]
  <1>1. r \in Rows /\ r.conv <= fresh
    BY LoadedType DEF Rows
  <1>2. Overwrite(r)
    BY DEF OverwriteState
  <1> HIDE DEF r
  <1> QED
    BY <1>1, <1>2, LockOverwrite

(* The holder goes on, PROCESSING.                                         *)
LEMMA LockProcessing ==
  ASSUME StoreOK, LockInv, Holders' \subseteq Holders, SetState("PROCESSING")
  PROVE  LockInv'
  <1>1. "PROCESSING" \in States
    BY DEF States
  <1>2. row'.state = "PROCESSING" /\ ~old' /\ overridden' = overridden
    BY <1>1, SetStateType DEF SetState, Store
  <1> QED
    BY <1>2, Zenon DEF LockInv

(* The holder leaves: nobody holds the lock then, unless overridden.       *)
LEMMA LockLeft ==
  ASSUME LockInv, NEW h \in Holders, Holders' = Holders \ {h},
         ~old', overridden' = overridden
  PROVE  LockInv'
  <1>1. ~overridden => Holders' = {}
    BY DEF LockInv
  <1> QED
    BY <1>1, Zenon DEF LockInv

-----------------------------------------------------------------------------
(* A handler that ends, or goes where no lock is held                      *)
LEMMA GoesWithout ==
  ASSUME HandlersOK, NEW h \in Handlers,
         NEW w \in Places \ {"begun", "query"}, Goto(h, w)
  PROVE  Holders' = Holders \ {h}
  BY HoldersMove DEF Goto

LEMMA EndsWithout ==
  ASSUME HandlersOK, NEW h \in Handlers, Done(h)
  PROVE  Holders' = Holders \ {h}
  BY GoesWithout DEF Done, Places

LEMMA ReceiveLock ==
  ASSUME TypeInv, LockInv, NEW h \in Handlers, NEW kind \in Kinds,
         Receive(h, kind)
  PROVE  LockInv'
  <1>1. "get" \in Places \ {"begun", "query"}
    BY DEF Places
  <1>2. Holders' \subseteq Holders
    BY <1>1, GoesWithout DEF Receive, TypeInv
  <1> QED
    BY <1>2, LockKeptRow, LockDelete DEF Receive

LEMMA GetLock ==
  ASSUME TypeInv, LockInv, NEW h \in Handlers, Get(h) \/ GetMissing(h)
  PROVE  LockInv'
  <1>1. "act" \in Places \ {"begun", "query"}
        /\ "create" \in Places \ {"begun", "query"}
    BY DEF Places
  <1>2. Holders' \subseteq Holders
    BY <1>1, GoesWithout DEF Get, GetMissing, TypeInv
  <1>3. UNCHANGED <<row, old, overridden>>
    BY DEF Get, GetMissing, KeepRow
  <1> QED
    BY <1>2, <1>3, LockKept

LEMMA CreateLock ==
  ASSUME TypeInv, LockInv, NEW h \in Handlers, Create(h)
  PROVE  LockInv'
  <1> DEFINE r == Columns(ctx[h])
  <1>1. ctx[h] \in Contexts /\ ctx[h].conv < fresh /\ fresh \in Nat
    BY DEF TypeInv, HandlersOK, StoreOK
  <1>2. r \in Rows /\ r.conv = ctx[h].conv /\ r.conv \in Nat
    BY <1>1, ContextsType
  <1>3. Overwrite(r)
    BY DEF Create
  <1> HIDE DEF r
  <1>4. r.conv <= fresh
    BY <1>1, <1>2
  <1>5. "act" \in Places \ {"begun", "query"}
    BY DEF Places
  <1>6. Holders' \subseteq Holders
    BY <1>5, GoesWithout DEF Create, TypeInv
  <1> QED
    BY <1>2, <1>3, <1>4, <1>6, LockOverwrite DEF TypeInv

LEMMA CommandLock ==
  ASSUME TypeInv, LockInv, NEW h \in Handlers,
         \/ StartCommand(h) \/ CancelClarification(h) \/ NewDialog(h)
         \/ DebugCommand(h) \/ Look(h) \/ RefusePick(h) \/ Refuse(h)
  PROVE  LockInv'
  <1>1. Done(h)
    BY DEF StartCommand, CancelClarification, NewDialog, DebugCommand, Look,
           RefusePick, Refuse, Ending
  <1>2. Holders' \subseteq Holders
    BY <1>1, EndsWithout DEF TypeInv
  <1>3. Loaded \in Rows /\ Loaded.conv <= fresh /\ fresh \in Nat
    BY LoadedType DEF TypeInv, StoreOK
  <1>4. CASE StartCommand(h) \/ CancelClarification(h)
    <2>1. "AWAITING_QUESTION" \in States
      BY DEF States
    <2>2. KeepRow \/ OverwriteState("AWAITING_QUESTION")
      BY <1>4 DEF StartCommand, CancelClarification
    <2> QED
      BY <1>2, <2>1, <2>2, LockKeptRow, LockOverwriteState DEF TypeInv
  <1>5. CASE NewDialog(h)
    <2> DEFINE r == [state |-> "AWAITING_QUESTION", conv |-> fresh,
                     depth |-> 0, debug |-> Loaded.debug]
    <2>1. r \in Rows /\ r.conv = fresh
      BY <1>3, RowsType DEF Rows, States
    <2>2. Overwrite(r)
      BY <1>5 DEF NewDialog
    <2> HIDE DEF r
    <2>3. r.conv <= fresh
      BY <1>3, <2>1
    <2> QED
      BY <1>2, <2>1, <2>2, <2>3, LockOverwrite DEF TypeInv
  <1>6. CASE DebugCommand(h)
    <2> DEFINE debug == ~ctx[h].debug
               s == CASE debug /\ ctx[h].state = "ANSWER" -> "DEBUG"
                      [] ~debug /\ ctx[h].state = "DEBUG" -> "ANSWER"
                      [] OTHER                            -> ctx[h].state
               r == [Loaded EXCEPT !.debug = debug, !.state = s]
    <2>1. Overwrite(r)
      BY <1>6 DEF DebugCommand
    <2>2. ctx[h].state \in States
      BY ContextsType DEF TypeInv, HandlersOK
    <2>3. s \in States /\ debug \in BOOLEAN
      BY <2>2 DEF States
    <2> HIDE DEF debug, s
    <2>4. r \in Rows /\ r.conv <= fresh
      BY <1>3, <2>3 DEF Rows
    <2> HIDE DEF r
    <2> QED
      BY <1>2, <2>1, <2>4, LockOverwrite DEF TypeInv
  <1>7. CASE Look(h) \/ RefusePick(h) \/ Refuse(h)
    BY <1>2, <1>7, LockKeptRow DEF Look, RefusePick, Refuse
  <1> QED
    BY <1>4, <1>5, <1>6, <1>7

(* try_begin_processing: no row that is PROCESSING, no other holder        *)
LEMMA BeginLock ==
  ASSUME TypeInv, LockInv, NEW h \in Handlers, Begin(h)
  PROVE  LockInv'
  <1>1. "PROCESSING" \in States /\ "begun" \in Places
    BY DEF States, Places
  <1>2. row'.state = "PROCESSING" /\ ~old' /\ overridden' = overridden
    BY <1>1, SetStateType DEF Begin, SetState, Store, TypeInv
  <1>3. row.state # "PROCESSING"
    BY LoadedType DEF Begin, TypeInv, NoRow
  <1>4. ~overridden => Holders = {}
    BY <1>3 DEF LockInv
  <1>5. Holders' \subseteq Holders \cup {h}
    BY <1>1, HoldersMove DEF Begin, Goto, TypeInv
  <1>6. ~overridden' => \A f, g \in Holders' : f = g
    BY <1>2, <1>4, <1>5
  <1> QED
    BY <1>2, <1>6, Zenon DEF LockInv

LEMMA HolderLock ==
  ASSUME TypeInv, LockInv, NEW h \in Handlers,
         Welcome(h) \/ TurnDown(h) \/ Enter(h) \/ EnterRaises(h)
  PROVE  LockInv'
  <1>1. CASE Welcome(h)
    <2>1. Holders' \subseteq Holders /\ "AWAITING_QUESTION" \in States
      BY <1>1 DEF Welcome, Holders, States
    <2> QED
      BY <1>1, <2>1, LockOverwriteState DEF Welcome, TypeInv
  <1>2. CASE TurnDown(h) \/ EnterRaises(h)
    <2>1. Holders' \subseteq Holders
      BY <1>2, EndsWithout DEF TurnDown, EnterRaises, LeaveLocked, TypeInv
    <2> QED
      BY <1>2, <2>1, LockWriteBack, LockKeptRow
         DEF TurnDown, EnterRaises, TypeInv
  <1>3. CASE Enter(h)
    <2>1. h \in Holders /\ "query" \in Places
      BY <1>3 DEF Enter, EnterFrom, Holders, Places
    <2>2. Holders' \subseteq Holders
      BY <1>3, <2>1, HoldersMove DEF Enter, EnterFrom, Goto, TypeInv
    <2> QED
      BY <1>3, <2>2, LockProcessing DEF Enter, EnterFrom, TypeInv
  <1> QED
    BY <1>1, <1>2, <1>3

LEMMA OutcomeLock ==
  ASSUME TypeInv, LockInv, NEW h \in Handlers,
         Answer(h) \/ NoAnswer(h) \/ Clarify(h) \/ GiveUp(h)
  PROVE  LockInv'
  <1>1. h \in Holders
    BY DEF Answer, NoAnswer, Clarify, GiveUp, Holders
  <1>2. "finish" \in Places \ {"begun", "query"}
        /\ "ANSWER" \in States /\ "ERROR" \in States
    BY DEF Places, States
  <1>3. ASSUME NEW s \in States, Answered(h, s)
        PROVE  LockInv'
    <2>1. ~old' /\ overridden' = overridden
      BY <1>3, SetStateType DEF Answered, SetState, Store, TypeInv
    <2>2. Holders' = Holders \ {h}
      BY <1>2, <1>3, GoesWithout DEF Answered, TypeInv
    <2> QED
      BY <1>1, <2>1, <2>2, LockLeft
  <1>4. ASSUME NEW n \in 1 .. Options, Ask(h, n)
        PROVE  LockInv'
    <2>1. ~old' /\ overridden' = overridden
      BY <1>4 DEF Ask
    <2>2. Holders' = Holders \ {h}
      BY <1>2, <1>4, GoesWithout DEF Ask, TypeInv
    <2> QED
      BY <1>1, <2>1, <2>2, LockLeft
  <1> QED
    BY <1>2, <1>3, <1>4 DEF Answer, NoAnswer, Clarify, GiveUp

LEMMA FinishLock ==
  ASSUME TypeInv, LockInv, NEW h \in Handlers, Finish(h)
  PROVE  LockInv'
  <1>1. Holders' \subseteq Holders
    BY EndsWithout DEF Finish, Ending, TypeInv
  <1> QED
    BY <1>1, LockWriteBack DEF Finish, TypeInv

LEMMA FailureLock ==
  ASSUME TypeInv, LockInv,
         Crash \/ \E h \in Handlers : StoreFails(h)
  PROVE  LockInv'
  <1>1. CASE Crash
    BY <1>1, LockKeptRow DEF Crash, Holders
  <1>2. ASSUME NEW h \in Handlers, StoreFails(h)
        PROVE  LockInv'
    <2> DEFINE w == IF pc[h] = "query" THEN "finish" ELSE "idle"
    <2>1. w \in Places \ {"begun", "query"} /\ Goto(h, w)
      BY <1>2 DEF StoreFails, Places
    <2> HIDE DEF w
    <2>2. Holders' \subseteq Holders
      BY <2>1, GoesWithout DEF TypeInv
    <2> QED
      BY <1>2, <2>2, LockKeptRow DEF StoreFails
  <1> QED
    BY <1>1, <1>2

(* A user is away only when no handler of his is running.                  *)
LEMMA TimeLock ==
  ASSUME TypeInv, LockInv, Age \/ RunCleanup
  PROVE  LockInv'
  <1>1. CASE Age
    <2>1. Holders' = {}
      BY <1>1 DEF Age, Holders
    <2> QED
      BY <2>1 DEF LockInv
  <1>2. CASE RunCleanup
    <2>1. Holders' = Holders
      BY <1>2 DEF RunCleanup, Holders
    <2> QED
      BY <1>2, <2>1, LockDelete DEF RunCleanup
  <1> QED
    BY <1>1, <1>2

LEMMA StepLock ==
  ASSUME TypeInv, LockInv, [Next]_vars
  PROVE  LockInv'
  <1>1. CASE Next
    <2>1. ASSUME NEW h \in Handlers, Handle(h)
          PROVE  LockInv'
      BY <2>1, GetLock, CreateLock, CommandLock, BeginLock, HolderLock,
         OutcomeLock, FinishLock DEF Handle
    <2> QED
      BY <1>1, <2>1, ReceiveLock, FailureLock, TimeLock DEF Next
  <1>2. CASE UNCHANGED vars
    BY <1>2 DEF vars, LockInv, Holders
  <1> QED
    BY <1>1, <1>2

(* However texts and picks of a user overlap, and wherever the store fails *)
(* or the bot dies: unless an update that does not hold the lock took the  *)
(* row out of PROCESSING, one question is in process at a time.            *)
THEOREM TelegramLock == Spec => []ProcessingExclusive
  <1>1. Init => LockInv
    BY DEF Init, LockInv, Holders
  <1>2. LockInv => ProcessingExclusive
    BY DEF LockInv, Holders, ProcessingExclusive
  <1>3. TypeInv /\ LockInv /\ [Next]_vars => LockInv'
    BY StepLock
  <1> QED
    BY <1>1, <1>2, <1>3, TypeInvariant, PTL DEF Spec

-----------------------------------------------------------------------------

(* What a step makes of the row, of the conversations it had before and of *)
(* the clarifications of the present one                                   *)
Still == UNCHANGED <<row, retired, asked>>

Gone ==
  /\ row # NoRow /\ row' = NoRow
  /\ asked' = 0 /\ retired' = retired \cup {row.conv}

Kept ==
  /\ row' # NoRow /\ retired' = retired
  /\ IF row = NoRow
       THEN row'.conv = fresh /\ asked' = 0
       ELSE /\ row'.conv = row.conv /\ row'.depth = row.depth
            /\ asked' = asked

Renewed ==
  /\ row' # NoRow /\ row'.conv = fresh /\ asked' = 0
  /\ retired' = IF row = NoRow THEN retired ELSE retired \cup {row.conv}

-----------------------------------------------------------------------------
(* The row                                                                 *)

LEMMA LoadedConv ==
  ASSUME StoreOK
  PROVE  Loaded.conv = IF row = NoRow THEN fresh ELSE row.conv
BY DEF Loaded, Columns, NewContext

LEMMA UpsertKeeps ==
  ASSUME StoreOK, NEW r \in Rows, Upsert(r),
         r.conv = Loaded.conv, r.depth = Loaded.depth
  PROVE  Kept /\ row' = r
  <1>1. r # NoRow /\ row' = r
    BY RowsType DEF Upsert
  <1>2. CASE row = NoRow
    <2>1. r.conv = fresh /\ asked' = 0 /\ retired' = retired
      BY <1>2, LoadedConv DEF Upsert
    <2> QED
      BY <1>1, <1>2, <2>1 DEF Kept
  <1>3. CASE row # NoRow
    <2>1. r.conv = row.conv /\ r.depth = row.depth
      BY <1>3, LoadedType
    <2>2. asked' = asked /\ retired' = retired
      BY <1>3, <2>1 DEF Upsert
    <2> QED
      BY <1>1, <1>3, <2>1, <2>2 DEF Kept
  <1> QED
    BY <1>2, <1>3

LEMMA SetStateKeeps ==
  ASSUME StoreOK, NEW s \in States, SetState(s) \/ OverwriteState(s)
  PROVE  Kept /\ row'.state = s
  <1> DEFINE r == [Loaded EXCEPT !.state = s]
  <1>1. /\ r \in Rows /\ r.state = s
        /\ r.conv = Loaded.conv /\ r.depth = Loaded.depth
    BY LoadedType DEF Rows
  <1>2. Upsert(r)
    BY DEF SetState, OverwriteState, Store, Overwrite
  <1> HIDE DEF r
  <1> QED
    BY <1>1, <1>2, UpsertKeeps

LEMMA WriteBackKeeps ==
  ASSUME StoreOK, WriteBack
  PROVE  Kept /\ row' = Loaded
  BY LoadedType, UpsertKeeps DEF WriteBack, Store

LEMMA DebugKeeps ==
  ASSUME TypeInv, NEW h \in Handlers, DebugCommand(h)
  PROVE  /\ Kept
         /\ row'.state = ctx[h].state
              \/ {row'.state, ctx[h].state} = {"ANSWER", "DEBUG"}
  <1> DEFINE debug == ~ctx[h].debug
             s == CASE debug /\ ctx[h].state = "ANSWER" -> "DEBUG"
                    [] ~debug /\ ctx[h].state = "DEBUG" -> "ANSWER"
                    [] OTHER                            -> ctx[h].state
             r == [Loaded EXCEPT !.debug = debug, !.state = s]
  <1>1. Upsert(r)
    BY DEF DebugCommand, Overwrite
  <1>2. ctx[h].state \in States
    BY ContextsType DEF TypeInv, HandlersOK
  <1>3. /\ s \in States /\ debug \in BOOLEAN
        /\ s = ctx[h].state \/ {s, ctx[h].state} = {"ANSWER", "DEBUG"}
    BY <1>2 DEF States
  <1> HIDE DEF debug, s
  <1>4. Loaded \in Rows
    BY LoadedType DEF TypeInv
  <1>5. /\ r \in Rows /\ r.state = s
        /\ r.conv = Loaded.conv /\ r.depth = Loaded.depth
    BY <1>3, <1>4 DEF Rows
  <1> HIDE DEF r
  <1> QED
    BY <1>1, <1>3, <1>5, UpsertKeeps DEF TypeInv

LEMMA NewDialogRenews ==
  ASSUME TypeInv, NEW h \in Handlers, NewDialog(h)
  PROVE  Renewed /\ row'.state = "AWAITING_QUESTION"
  <1> DEFINE r == [state |-> "AWAITING_QUESTION", conv |-> fresh,
                   depth |-> 0, debug |-> Loaded.debug]
  <1>1. Loaded \in Rows /\ fresh \in Nat
    BY LoadedType DEF TypeInv, StoreOK
  <1>2. r \in Rows /\ r.conv = fresh /\ r.state = "AWAITING_QUESTION"
    BY <1>1, RowsType DEF Rows, States
  <1>3. Upsert(r)
    BY DEF NewDialog, Overwrite
  <1> HIDE DEF r
  <1>4. r # NoRow /\ row' = r
    BY <1>2, <1>3, RowsType DEF Upsert
  <1>5. row # NoRow => row.conv # fresh
    <2>1. row # NoRow => row.conv \in Nat /\ row.conv < fresh
      BY RowsType DEF TypeInv, StoreOK
    <2> QED
      BY <1>1, <2>1
  <1>6. asked' = 0
        /\ retired' = IF row = NoRow THEN retired ELSE retired \cup {row.conv}
    BY <1>2, <1>3, <1>5 DEF Upsert
  <1> QED
    BY <1>2, <1>4, <1>6 DEF Renewed

LEMMA AskKeeps ==
  ASSUME TypeInv, NEW h \in Handlers, NEW n \in 1 .. Options, Ask(h, n)
  PROVE  /\ row' # NoRow /\ retired' = retired /\ asked' = asked + 1
         /\ row'.conv = IF row = NoRow THEN fresh ELSE row.conv
         /\ row'.depth = ctx[h].depth + 1 /\ row'.state = "CLARIFICATION"
         /\ pc'[h] = "finish"
  <1> DEFINE d == ctx[h].depth + 1
  <1>1. Loaded \in Rows /\ d \in Nat /\ "CLARIFICATION" \in States
    BY LoadedType, ContextsType DEF TypeInv, HandlersOK, States
  <1> HIDE DEF d
  <1> DEFINE r == [Loaded EXCEPT !.state = "CLARIFICATION", !.depth = d]
  <1>2. /\ r \in Rows /\ r.conv = Loaded.conv /\ r.depth = d
        /\ r.state = "CLARIFICATION"
    BY <1>1 DEF Rows
  <1>3. row' = r
    BY DEF Ask, d
  <1> HIDE DEF r
  <1>4. row' # NoRow
    BY <1>2, <1>3, RowsType
  <1>5. row'.conv = IF row = NoRow THEN fresh ELSE row.conv
    BY <1>2, <1>3, LoadedConv DEF TypeInv
  <1>6. /\ retired' = retired /\ asked' = asked + 1
        /\ pc'[h] = "finish"
    BY DEF Ask, Goto, TypeInv, HandlersOK
  <1> QED
    BY <1>2, <1>3, <1>4, <1>5, <1>6 DEF d

Acts(h) ==
  (\E kind \in Kinds : Receive(h, kind)) \/ Handle(h) \/ StoreFails(h)

(* Creating a row and asking back apart, a handler leaves the row alone,   *)
(* lets it go, changes its state or gives it a conversation of its own.    *)
LEMMA RowEffect ==
  ASSUME TypeInv, NEW h \in Handlers, Acts(h), ~Create(h), ~Clarify(h)
  PROVE  Still \/ Gone \/ Kept \/ Renewed
  <1> StoreOK
    BY DEF TypeInv
  <1> {"AWAITING_QUESTION", "PROCESSING", "ANSWER", "ERROR"} \subseteq States
    BY DEF States
  <1>1. KeepRow => Still
    BY DEF KeepRow, Still
  <1>2. ASSUME NEW kind \in Kinds, Receive(h, kind)
        PROVE  Still \/ Gone
    BY <1>1, <1>2 DEF Receive, Delete, Gone, StoreOK
  <1>3. CASE Get(h) \/ GetMissing(h) \/ Look(h) \/ RefusePick(h) \/ Refuse(h)
             \/ EnterRaises(h) \/ StoreFails(h)
    BY <1>1, <1>3 DEF Get, GetMissing, Look, RefusePick, Refuse, EnterRaises,
       StoreFails, Still
  <1>4. CASE StartCommand(h) \/ CancelClarification(h)
    BY <1>1, <1>4, SetStateKeeps DEF StartCommand, CancelClarification
  <1>5. CASE NewDialog(h) \/ DebugCommand(h)
    BY <1>5, NewDialogRenews, DebugKeeps
  <1>6. CASE Begin(h) \/ Welcome(h) \/ Enter(h)
    BY <1>6, SetStateKeeps DEF Begin, Welcome, Enter, EnterFrom
  <1>7. CASE TurnDown(h) \/ Finish(h)
    BY <1>7, WriteBackKeeps DEF TurnDown, Finish
  <1>8. CASE Answer(h) \/ NoAnswer(h) \/ GiveUp(h)
    BY <1>8, SetStateKeeps DEF Answer, NoAnswer, GiveUp, Answered
  <1> QED
    BY <1>2, <1>3, <1>4, <1>5, <1>6, <1>7, <1>8 DEF Acts, Handle

-----------------------------------------------------------------------------
(* The handlers                                                            *)

Asking == {"act", "begun", "query"}

LEMMA OthersStay ==
  ASSUME TypeInv, NEW h \in Handlers, Acts(h)
  PROVE  \A g \in Handlers \ {h} : pc'[g] = pc[g] /\ ctx'[g] = ctx[g]
  <1> pc \in [Handlers -> Places] /\ ctx \in [Handlers -> Contexts]
    BY DEF TypeInv, HandlersOK
  <1>1. CASE (\E kind \in Kinds : Receive(h, kind)) \/ StoreFails(h)
    BY <1>1 DEF Receive, StoreFails, Goto
  <1>2. CASE Get(h) \/ GetMissing(h) \/ Create(h)
    BY <1>2 DEF Get, GetMissing, Create, Goto
  <1>3. CASE \/ StartCommand(h) \/ NewDialog(h) \/ DebugCommand(h) \/ Look(h)
             \/ CancelClarification(h) \/ RefusePick(h) \/ Refuse(h)
             \/ TurnDown(h) \/ EnterRaises(h) \/ Finish(h)
    <2>1. Done(h) /\ ctx' = ctx
      BY <1>3 DEF StartCommand, NewDialog, DebugCommand, Look, Ending,
         CancelClarification, RefusePick, Refuse, TurnDown, EnterRaises,
         LeaveLocked, Finish
    <2> QED
      BY <2>1 DEF Done, Goto
  <1>4. CASE Begin(h) \/ Welcome(h) \/ Enter(h)
    BY <1>4 DEF Begin, Welcome, Enter, EnterFrom, Goto
  <1>5. CASE Answer(h) \/ NoAnswer(h) \/ GiveUp(h)
    BY <1>5 DEF Answer, NoAnswer, GiveUp, Answered, Goto
  <1>6. CASE Clarify(h)
    BY <1>6 DEF Clarify, Ask, Goto
  <1> QED
    BY <1>1, <1>2, <1>3, <1>4, <1>5, <1>6 DEF Acts, Handle

(* Where a handler goes                                                    *)
LEMMA HandlerSteps ==
  ASSUME TypeInv, NEW h \in Handlers, Acts(h)
  PROVE  /\ pc'[h] = "create" => GetMissing(h)
         /\ pc'[h] \in Asking =>
              \/ Get(h) \/ Create(h)
              \/ pc[h] \in Asking /\ ctx'[h].depth = ctx[h].depth
         /\ pc[h] = "idle" => \E kind \in Kinds : Receive(h, kind)
  <1> pc \in [Handlers -> Places] /\ ctx \in [Handlers -> Contexts]
    BY DEF TypeInv, HandlersOK
  <1> DEFINE stays == pc[h] \in Asking /\ ctx'[h].depth = ctx[h].depth
  <1>1. CASE (\E kind \in Kinds : Receive(h, kind)) \/ StoreFails(h)
    BY <1>1 DEF Receive, StoreFails, Goto, Asking
  <1>2. CASE Get(h) \/ GetMissing(h) \/ Create(h)
    BY <1>2 DEF Get, GetMissing, Create, Goto, Asking
  <1>3. CASE \/ StartCommand(h) \/ NewDialog(h) \/ DebugCommand(h) \/ Look(h)
             \/ CancelClarification(h) \/ RefusePick(h) \/ Refuse(h)
             \/ TurnDown(h) \/ EnterRaises(h) \/ Finish(h)
    <2>1. Done(h)
      BY <1>3 DEF StartCommand, NewDialog, DebugCommand, Look, Ending,
         CancelClarification, RefusePick, Refuse, TurnDown, EnterRaises,
         LeaveLocked, Finish
    <2>2. pc[h] \in {"act", "begun", "finish"}
      BY <1>3 DEF StartCommand, NewDialog, DebugCommand, Look, At, Question,
         CancelClarification, RefusePick, Refuse, TurnDown, EnterRaises, Finish
    <2> QED
      BY <2>1, <2>2 DEF Done, Goto, Asking
  <1>4. CASE Begin(h)
    BY <1>4 DEF Begin, Question, At, Goto, Asking
  <1>5. ASSUME NEW s, ctx' = [ctx EXCEPT ![h].state = s]
        PROVE  ctx'[h].depth = ctx[h].depth
    BY <1>5 DEF Contexts
  <1>6. CASE Welcome(h) \/ Enter(h)
    <2>1. pc[h] = "begun" /\ pc'[h] \in {"begun", "query"}
      BY <1>6 DEF Welcome, Enter, EnterFrom, Goto
    <2>2. ctx'[h].depth = ctx[h].depth
      BY <1>5, <1>6 DEF Welcome, Enter
    <2> QED
      BY <2>1, <2>2 DEF Asking
  <1>7. CASE Answer(h) \/ NoAnswer(h) \/ GiveUp(h) \/ Clarify(h)
    BY <1>7 DEF Answer, NoAnswer, GiveUp, Answered, Clarify, Ask, Goto, Asking
  <1> QED
    BY <1>1, <1>2, <1>3, <1>4, <1>6, <1>7 DEF Acts, Handle

-----------------------------------------------------------------------------
(* Dialogs that were left.  A conversation that waits to be created is     *)
(* nobody else's, and the row's was never left.                            *)
Creators == {h \in Handlers : pc[h] = "create"}

DialogInv ==
  /\ row # NoRow => row.conv \notin retired
  /\ \A h \in Creators : /\ ctx[h].conv \notin retired
                         /\ row # NoRow => row.conv # ctx[h].conv
  /\ \A g, h \in Creators : ctx[g].conv = ctx[h].conv => g = h

LEMMA DrawnBefore ==
  ASSUME TypeInv
  PROVE  /\ fresh \in Nat /\ fresh \notin retired
         /\ row # NoRow => row.conv # fresh
         /\ \A h \in Handlers : ctx[h].conv # fresh
  <1>1. fresh \in Nat /\ retired \subseteq 0 .. fresh - 1
    BY DEF TypeInv, StoreOK
  <1>2. row # NoRow => row.conv \in Nat /\ row.conv < fresh
    BY RowsType DEF TypeInv, StoreOK
  <1>3. \A h \in Handlers : ctx[h].conv \in Nat /\ ctx[h].conv < fresh
    BY ContextsType DEF TypeInv, HandlersOK
  <1> QED
    BY <1>1, <1>2, <1>3

(* No handler begins to create a row.                                      *)
LEMMA DialogKept ==
  ASSUME TypeInv, DialogInv, Still \/ Gone \/ Kept \/ Renewed,
         Creators' \subseteq Creators,
         \A h \in Creators' : ctx'[h].conv = ctx[h].conv
  PROVE  DialogInv'
  <1> Creators \subseteq Handlers
    BY DEF Creators
  <1>1. \A g, h \in Creators' : ctx'[g].conv = ctx'[h].conv => g = h
    BY DEF DialogInv
  <1>2. CASE Still
    BY <1>1, <1>2 DEF Still, DialogInv
  <1>3. CASE Gone
    BY <1>1, <1>3 DEF Gone, DialogInv
  <1>4. CASE Kept
    BY <1>1, <1>4, DrawnBefore DEF Kept, DialogInv
  <1>5. CASE Renewed
    <2>1. row'.conv \notin retired'
      BY <1>5, DrawnBefore DEF Renewed
    <2>2. \A h \in Creators : ctx[h].conv \notin retired'
      BY <1>5 DEF Renewed, DialogInv
    <2>3. \A h \in Creators : row'.conv # ctx[h].conv
      BY <1>5, DrawnBefore DEF Renewed
    <2> QED
      BY <1>1, <2>1, <2>2, <2>3 DEF DialogInv
  <1> QED
    BY <1>2, <1>3, <1>4, <1>5

LEMMA CreatorsKept ==
  ASSUME TypeInv, NEW h \in Handlers, Acts(h), ~GetMissing(h)
  PROVE  /\ Creators' \subseteq Creators \ {h}
         /\ \A g \in Creators' : ctx'[g].conv = ctx[g].conv
  BY OthersStay, HandlerSteps DEF Creators

LEMMA AskDialog ==
  ASSUME TypeInv, DialogInv, NEW h \in Handlers, Clarify(h)
  PROVE  DialogInv'
  <1>1. PICK n \in 1 .. Options : Ask(h, n)
    BY DEF Clarify
  <1>2. /\ row' # NoRow /\ retired' = retired
        /\ row'.conv = IF row = NoRow THEN fresh ELSE row.conv
    BY <1>1, AskKeeps
  <1>3. /\ Creators' \subseteq Creators
        /\ \A g \in Creators' : ctx'[g].conv = ctx[g].conv
    <2>1. Acts(h) /\ ~GetMissing(h)
      BY DEF Acts, Handle, Clarify, GetMissing
    <2> QED
      BY <2>1, CreatorsKept
  <1> Creators \subseteq Handlers
    BY DEF Creators
  <1>4. row'.conv \notin retired' /\ \A g \in Creators : row'.conv # ctx[g].conv
    BY <1>2, DrawnBefore DEF DialogInv
  <1> QED
    BY <1>2, <1>3, <1>4 DEF DialogInv

(* A row is created for a conversation that was nobody's; another one that *)
(* was there by then is left.                                              *)
LEMMA CreateDialog ==
  ASSUME TypeInv, DialogInv, NEW h \in Handlers, Create(h)
  PROVE  /\ DialogInv' /\ asked' = 0
         /\ row' = Columns(ctx[h]) /\ row' # NoRow
  <1> DEFINE r == Columns(ctx[h])
  <1>1. ctx[h] \in Contexts /\ h \in Creators
    BY DEF TypeInv, HandlersOK, Create, Creators
  <1>2. r \in Rows /\ r # NoRow /\ r.conv = ctx[h].conv
    BY <1>1, ContextsType, RowsType
  <1>3. Upsert(r)
    BY DEF Create, Overwrite
  <1> HIDE DEF r
  <1>4. r.conv \notin retired /\ (row # NoRow => row.conv # r.conv)
    BY <1>1, <1>2 DEF DialogInv
  <1>5. /\ row' = r /\ asked' = 0
        /\ retired' = IF row = NoRow THEN retired ELSE retired \cup {row.conv}
    BY <1>3, <1>4 DEF Upsert
  <1>6. /\ Creators' \subseteq Creators \ {h}
        /\ \A g \in Creators' : ctx'[g].conv = ctx[g].conv
    <2>1. Acts(h) /\ ~GetMissing(h)
      BY DEF Acts, Handle, Create, GetMissing
    <2> QED
      BY <2>1, CreatorsKept
  <1>7. row'.conv \notin retired'
    BY <1>4, <1>5
  <1>8. \A g \in Creators' : ctx'[g].conv \notin retired'
                             /\ row'.conv # ctx'[g].conv
    BY <1>1, <1>2, <1>5, <1>6 DEF DialogInv
  <1>9. \A f, g \in Creators' : ctx'[f].conv = ctx'[g].conv => f = g
    BY <1>6 DEF DialogInv
  <1> QED
    BY <1>2, <1>5, <1>7, <1>8, <1>9 DEF DialogInv, r

LEMMA GetMissingDialog ==
  ASSUME TypeInv, DialogInv, NEW h \in Handlers, GetMissing(h)
  PROVE  DialogInv'
  <1>1. UNCHANGED <<row, retired>> /\ row = NoRow
    BY DEF GetMissing
  <1>2. ctx'[h].conv = fresh
    BY DEF GetMissing, NewContext, TypeInv, HandlersOK
  <1>3. /\ Creators' \subseteq Creators \cup {h}
        /\ \A g \in Creators' \ {h} : ctx'[g].conv = ctx[g].conv
    BY OthersStay DEF Creators, Acts, Handle
  <1> Creators \subseteq Handlers
    BY DEF Creators
  <1> QED
    BY <1>1, <1>2, <1>3, DrawnBefore DEF DialogInv

LEMMA StepDialog ==
  ASSUME TypeInv, DialogInv, [Next]_vars
  PROVE  DialogInv'
  <1>1. ASSUME NEW h \in Handlers, Acts(h) PROVE DialogInv'
    <2>1. CASE ~GetMissing(h) /\ ~Create(h) /\ ~Clarify(h)
      BY <1>1, <2>1, RowEffect, CreatorsKept, DialogKept
    <2> QED
      BY <1>1, <2>1, GetMissingDialog, CreateDialog, AskDialog
  <1>2. CASE Age \/ Crash \/ UNCHANGED vars
    <2>1. Still /\ Creators' \subseteq Creators /\ ctx' = ctx
      BY <1>2 DEF Age, Crash, vars, KeepRow, Still, Creators
    <2> QED
      BY <2>1, DialogKept
  <1>3. CASE RunCleanup
    <2>1. Gone /\ Creators' \subseteq Creators /\ ctx' = ctx
      BY <1>3 DEF RunCleanup, Delete, Gone, Creators, TypeInv, StoreOK
    <2> QED
      BY <2>1, DialogKept
  <1> QED
    BY <1>1, <1>2, <1>3 DEF Next, Acts

LEMMA DialogInvariant == Spec => [](TypeInv /\ DialogInv)
  <1>1. Init => DialogInv
    BY DEF Init, DialogInv, Creators
  <1>2. TypeInv /\ DialogInv /\ [Next]_vars => DialogInv'
    BY StepDialog
  <1> QED
    BY <1>1, <1>2, TypeInvariant, PTL DEF Spec

(* Whatever handlers overlap: a conversation the user left with /new, or   *)
(* that expired, is never again that of the row.                           *)
THEOREM DialogsStayLeft == Spec => []ConversationNeverReturns
  <1>1. DialogInv => ConversationNeverReturns
    BY DEF DialogInv, ConversationNeverReturns
  <1> QED
    BY <1>1, DialogInvariant, PTL

-----------------------------------------------------------------------------
(* Updates one after the other                                             *)
AloneInv ==
  sequential => \A h \in Handlers :
                  pc[h] # "idle" => h = CHOOSE g \in Handlers : TRUE

LEMMA StepAlone ==
  ASSUME TypeInv, AloneInv, [Next]_vars
  PROVE  AloneInv'
  <1>1. sequential' = sequential
    BY DEF Next, vars
  <1>2. ASSUME sequential, NEW h \in Handlers, Acts(h) PROVE AloneInv'
    <2>1. h = CHOOSE g \in Handlers : TRUE
      <3>1. CASE pc[h] = "idle"
        BY <1>2, <3>1, HandlerSteps DEF Receive, MayWrite
      <3>2. CASE pc[h] # "idle"
        BY <1>2, <3>2 DEF AloneInv
      <3> QED
        BY <3>1, <3>2
    <2> QED
      BY <1>1, <1>2, <2>1, OthersStay DEF AloneInv
  <1>3. CASE Age \/ RunCleanup \/ Crash \/ UNCHANGED vars
    BY <1>1, <1>3 DEF Age, RunCleanup, Crash, vars, AloneInv
  <1> QED
    BY <1>1, <1>2, <1>3 DEF Next, Acts, AloneInv

(* The handler that acts is the only one then.                             *)
LEMMA ActsAlone ==
  ASSUME TypeInv, AloneInv, sequential, NEW h \in Handlers, Acts(h)
  PROVE  \A g \in Handlers \ {h} : pc[g] = "idle" /\ pc'[g] = "idle"
  <1>1. h = CHOOSE g \in Handlers : TRUE
    <2>1. CASE pc[h] = "idle"
      BY <2>1, HandlerSteps DEF Receive, MayWrite
    <2>2. CASE pc[h] # "idle"
      BY <2>2 DEF AloneInv
    <2> QED
      BY <2>1, <2>2
  <1> QED
    BY <1>1, OthersStay DEF AloneInv

-----------------------------------------------------------------------------
(* The clarifications of a conversation are counted by its row, and by the *)
(* context of the handler that may ask for the next.                       *)
DepthInv ==
  /\ row = NoRow => asked = 0
  /\ sequential =>
       /\ asked <= MaxDepth
       /\ row # NoRow => asked <= row.depth
       /\ \A h \in Handlers : pc[h] \in Asking => asked <= ctx[h].depth

LEMMA RowDepth ==
  ASSUME TypeInv
  PROVE  /\ asked \in Nat /\ MaxDepth \in Nat
         /\ row # NoRow => row.depth \in Nat
         /\ \A h \in Handlers : ctx[h].depth \in Nat
  BY RowsType, ContextsType, TelegramAssumption
     DEF TypeInv, StoreOK, HandlersOK, TelegramAssumption

(* Nobody comes to ask, and nothing is asked.                              *)
LEMMA DepthKept ==
  ASSUME TypeInv, TypeInv', DepthInv, Still \/ Gone \/ Kept \/ Renewed,
         sequential' = sequential,
         \A h \in Handlers : pc'[h] \in Asking =>
           pc[h] \in Asking /\ ctx'[h].depth = ctx[h].depth
  PROVE  DepthInv'
  <1>1. /\ asked \in Nat /\ MaxDepth \in Nat
        /\ row' # NoRow => row'.depth \in Nat
        /\ \A h \in Handlers : ctx'[h].depth \in Nat
    <2>1. row' # NoRow => row'.depth \in Nat
      BY RowsType DEF TypeInv, StoreOK
    <2>2. \A h \in Handlers : ctx'[h].depth \in Nat
      BY ContextsType DEF TypeInv, HandlersOK
    <2> QED
      BY <2>1, <2>2, RowDepth
  <1>2. CASE asked' = 0
    BY <1>1, <1>2 DEF DepthInv
  <1>3. CASE Still
    BY <1>3 DEF Still, DepthInv
  <1>4. CASE Kept /\ row # NoRow
    BY <1>4 DEF Kept, DepthInv
  <1> QED
    BY <1>2, <1>3, <1>4 DEF Gone, Kept, Renewed

LEMMA AskDepth ==
  ASSUME TypeInv, AloneInv, DepthInv, NEW h \in Handlers, Clarify(h),
         sequential' = sequential
  PROVE  DepthInv'
  <1>1. PICK n \in 1 .. Options : Ask(h, n)
    BY DEF Clarify
  <1>2. /\ row' # NoRow /\ asked' = asked + 1
        /\ row'.depth = ctx[h].depth + 1 /\ pc'[h] = "finish"
    BY <1>1, AskKeeps
  <1>3. CASE sequential
    <2>1. asked <= ctx[h].depth /\ ctx[h].depth < MaxDepth
      BY <1>3 DEF Clarify, DepthInv, Asking
    <2>2. asked' <= MaxDepth /\ asked' <= row'.depth
      BY <1>2, <2>1, RowDepth
    <2>3. \A g \in Handlers : pc'[g] \notin Asking
      BY <1>2, <1>3, ActsAlone DEF Acts, Handle, Asking
    <2> QED
      BY <1>2, <2>2, <2>3 DEF DepthInv
  <1> QED
    BY <1>2, <1>3 DEF DepthInv

LEMMA GetDepth ==
  ASSUME TypeInv, AloneInv, DepthInv, NEW h \in Handlers, Get(h),
         sequential' = sequential
  PROVE  DepthInv'
  <1>1. UNCHANGED <<row, asked>> /\ row # NoRow
    BY DEF Get, KeepRow
  <1>2. ctx'[h].depth = row.depth
    BY DEF Get, RowToContext, TypeInv, HandlersOK
  <1>3. sequential => \A g \in Handlers : pc'[g] \in Asking => g = h
    BY ActsAlone DEF Acts, Handle, Asking
  <1> QED
    BY <1>1, <1>2, <1>3 DEF DepthInv

LEMMA CreateDepth ==
  ASSUME TypeInv, TypeInv', AloneInv, DialogInv, DepthInv, NEW h \in Handlers,
         Create(h), sequential' = sequential
  PROVE  DepthInv'
  <1>1. asked' = 0 /\ row' # NoRow
    BY CreateDialog
  <1>2. row'.depth \in Nat /\ \A g \in Handlers : ctx'[g].depth \in Nat
    BY <1>1, RowsType, ContextsType DEF TypeInv, StoreOK, HandlersOK
  <1> QED
    BY <1>1, <1>2, RowDepth DEF DepthInv

LEMMA StepDepth ==
  ASSUME TypeInv, AloneInv, DialogInv, DepthInv, [Next]_vars
  PROVE  DepthInv'
  <1>1. sequential' = sequential
    BY DEF Next, vars
  <1>2. TypeInv'
    BY StepType
  <1>3. ASSUME NEW h \in Handlers, Acts(h) PROVE DepthInv'
    <2>1. CASE ~Get(h) /\ ~Create(h) /\ ~Clarify(h)
      <3>1. \A g \in Handlers : pc'[g] \in Asking =>
              pc[g] \in Asking /\ ctx'[g].depth = ctx[g].depth
        BY <1>3, <2>1, HandlerSteps, OthersStay
      <3> QED
        BY <1>1, <1>2, <1>3, <2>1, <3>1, RowEffect, DepthKept
    <2> QED
      BY <1>1, <1>2, <1>3, <2>1, GetDepth, CreateDepth, AskDepth
  <1>4. CASE Age \/ Crash \/ RunCleanup \/ UNCHANGED vars
    <2>1. Still \/ Gone
      BY <1>4 DEF Age, Crash, RunCleanup, Delete, vars, KeepRow, Still, Gone,
         TypeInv, StoreOK
    <2>2. ctx' = ctx /\ \A h \in Handlers : pc'[h] \in {pc[h], "idle"}
      BY <1>4 DEF Age, Crash, RunCleanup, vars
    <2> QED
      BY <1>1, <1>2, <2>1, <2>2, DepthKept DEF Asking
  <1> QED
    BY <1>3, <1>4 DEF Next, Acts

(* Updates handled one after the other never ask for more clarifications   *)
(* in a conversation than the limit, whatever fails in between.            *)
THEOREM ClarificationsLimited == Spec => []DepthLimited
  <1>1. Init => AloneInv /\ DepthInv
    <2> SUFFICES ASSUME Init PROVE AloneInv /\ DepthInv
      OBVIOUS
    <2>1. asked = 0 /\ \A h \in Handlers : pc[h] = "idle"
      BY DEF Init
    <2>2. row # NoRow => row.depth = 0
      BY DEF Init
    <2>3. MaxDepth \in Nat
      BY TelegramAssumption DEF TelegramAssumption
    <2> QED
      BY <2>1, <2>2, <2>3 DEF AloneInv, DepthInv, Asking
  <1>2. TypeInv /\ DialogInv /\ AloneInv /\ DepthInv /\ [Next]_vars
          => AloneInv' /\ DepthInv'
    BY StepAlone, StepDepth
  <1>3. DepthInv => DepthLimited
    BY DEF DepthInv, DepthLimited
  <1> QED
    BY <1>1, <1>2, <1>3, DialogInvariant, PTL DEF Spec

-----------------------------------------------------------------------------
(* The lock is released                                                    *)

(* Nothing failed, no question was turned down.                            *)
Smooth == sequential /\ faults = 0 /\ "question turned down" \notin seen

(* Then a row that is PROCESSING has a handler at work on its question, and*)
(* no handler acts on a context that says so.                              *)
ReleaseInv ==
  Smooth =>
    /\ row # NoRow /\ row.state = "PROCESSING" => Holders # {}
    /\ \A h \in Handlers :
         pc[h] \in {"create", "act"} => ctx[h].state # "PROCESSING"

(* A step without a failure                                                *)
LEMMA FaultCounts == ASSUME CountersOK, Fault PROVE faults' # 0
  <1>1. faults \in 0 .. MaxFaults /\ MaxFaults \in Nat /\ faults' = faults + 1
    BY TelegramAssumption DEF Fault, CountersOK, TelegramAssumption
  <1> QED
    BY <1>1

LEMMA SmoothBefore ==
  ASSUME TypeInv, [Next]_vars, Smooth'
  PROVE  Smooth /\ ~Crash /\ \A h \in Handlers : ~StoreFails(h)
  <1> USE DEF Smooth
  <1>1. ~Crash /\ \A h \in Handlers : ~StoreFails(h)
    <2>1. ~Fault
      BY FaultCounts DEF TypeInv
    <2> QED
      BY <2>1 DEF Crash, StoreFails
  <1>2. CASE UNCHANGED vars \/ Age \/ RunCleanup
    BY <1>1, <1>2 DEF Age, RunCleanup, vars, Next
  <1>3. ASSUME NEW h \in Handlers,
               (\E kind \in Kinds : Receive(h, kind)) \/ Handle(h)
        PROVE  faults' = faults /\ seen \subseteq seen'
    <2>1. CASE \E kind \in Kinds : Receive(h, kind)
      <3>1. UNCHANGED <<seen, faults>>
        BY <2>1 DEF Receive
      <3> QED
        BY <3>1
    <2>2. CASE Get(h) \/ GetMissing(h) \/ Create(h)
      <3>1. UNCHANGED <<seen, faults>>
        BY <2>2 DEF Get, GetMissing, Create
      <3> QED
        BY <3>1
    <2>3. CASE \/ StartCommand(h) \/ NewDialog(h) \/ DebugCommand(h) \/ Look(h)
               \/ CancelClarification(h) \/ RefusePick(h) \/ Refuse(h)
               \/ TurnDown(h) \/ EnterRaises(h) \/ Finish(h)
      BY <2>3 DEF StartCommand, NewDialog, DebugCommand, Look, Ending,
         CancelClarification, RefusePick, Refuse, TurnDown, EnterRaises,
         LeaveLocked, Finish
    <2>4. CASE \/ Begin(h) \/ Welcome(h) \/ Enter(h) \/ Answer(h)
               \/ NoAnswer(h) \/ GiveUp(h) \/ Clarify(h)
      BY <2>4 DEF Begin, Welcome, Enter, EnterFrom, Answer, NoAnswer, GiveUp,
         Clarify, Answered, Ask
    <2> QED
      BY <1>3, <2>1, <2>2, <2>3, <2>4 DEF Handle
  <1>4. sequential' = sequential
    BY DEF Next, vars
  <1> QED
    BY <1>1, <1>2, <1>3, <1>4 DEF Next

(* No handler but the one that acts is at work, so the row is free unless  *)
(* that one holds it.                                                      *)
LEMMA FreeUnlessHeld ==
  ASSUME TypeInv, AloneInv, ReleaseInv, Smooth, NEW h \in Handlers, Acts(h),
         pc[h] \notin {"begun", "query"}
  PROVE  row # NoRow => row.state # "PROCESSING"
  <1>1. Holders = {}
    BY ActsAlone DEF Holders, Smooth
  <1> QED
    BY <1>1 DEF ReleaseInv

(* A step after which the row is free, or held by the handler that acts    *)
LEMMA ReleaseKept ==
  ASSUME TypeInv, AloneInv, Smooth, NEW h \in Handlers, Acts(h),
         row' # NoRow /\ row'.state = "PROCESSING" =>
           pc'[h] \in {"begun", "query"},
         pc'[h] \in {"create", "act"} => ctx'[h].state # "PROCESSING"
  PROVE  ReleaseInv'
  <1>1. \A g \in Handlers \ {h} : pc'[g] = "idle"
    BY ActsAlone DEF Smooth
  <1> QED
    BY <1>1 DEF ReleaseInv, Holders

LEMMA LoadedState ==
  ASSUME StoreOK, row # NoRow => row.state # "PROCESSING"
  PROVE  Loaded.state # "PROCESSING"
  BY LoadedType

LEMMA CommandRelease ==
  ASSUME TypeInv, AloneInv, ReleaseInv, Smooth, NEW h \in Handlers,
         \/ StartCommand(h) \/ NewDialog(h) \/ DebugCommand(h) \/ Look(h)
         \/ CancelClarification(h) \/ RefusePick(h) \/ Refuse(h) \/ Finish(h)
  PROVE  ReleaseInv'
  <1>1. Done(h) /\ pc[h] \in {"act", "finish"} /\ Acts(h)
    BY DEF StartCommand, NewDialog, DebugCommand, Look, Ending, At, Question,
       CancelClarification, RefusePick, Refuse, Finish, Acts, Handle
  <1>2. pc'[h] = "idle"
    BY <1>1 DEF Done, Goto, TypeInv, HandlersOK
  <1>3. row # NoRow => row.state # "PROCESSING"
    BY <1>1, FreeUnlessHeld
  <1>4. row' # NoRow => row'.state # "PROCESSING"
    <2>1. CASE Look(h) \/ RefusePick(h) \/ Refuse(h)
      BY <1>3, <2>1 DEF Look, RefusePick, Refuse, KeepRow
    <2>2. CASE StartCommand(h) \/ CancelClarification(h)
      <3>1. "AWAITING_QUESTION" \in States
        BY DEF States
      <3> QED
        BY <1>3, <2>2, <3>1, SetStateKeeps
           DEF StartCommand, CancelClarification, KeepRow, TypeInv
    <2>3. CASE NewDialog(h)
      BY <2>3, NewDialogRenews
    <2>4. CASE DebugCommand(h)
      <3>1. ctx[h].state # "PROCESSING"
        BY <2>4 DEF DebugCommand, At, ReleaseInv
      <3> QED
        BY <2>4, <3>1, DebugKeeps
    <2>5. CASE Finish(h)
      BY <1>3, <2>5, WriteBackKeeps, LoadedState DEF Finish, TypeInv
    <2> QED
      BY <2>1, <2>2, <2>3, <2>4, <2>5
  <1> QED
    BY <1>1, <1>2, <1>4, ReleaseKept

LEMMA OpenRelease ==
  ASSUME TypeInv, AloneInv, ReleaseInv, Smooth, NEW h \in Handlers,
         \/ (\E kind \in Kinds : Receive(h, kind))
         \/ Get(h) \/ GetMissing(h) \/ Create(h)
  PROVE  ReleaseInv'
  <1> pc \in [Handlers -> Places] /\ ctx \in [Handlers -> Contexts]
    BY DEF TypeInv, HandlersOK
  <1>1. Acts(h) /\ pc[h] \notin {"begun", "query"}
    BY DEF Acts, Handle, Receive, Get, GetMissing, Create
  <1>2. row # NoRow => row.state # "PROCESSING"
    BY <1>1, FreeUnlessHeld
  <1>3. CASE \E kind \in Kinds : Receive(h, kind)
    <2>1. pc'[h] = "get" /\ (row' = row \/ row' = NoRow)
      BY <1>3 DEF Receive, Goto, KeepRow, Delete
    <2> QED
      BY <1>1, <1>2, <2>1, ReleaseKept
  <1>4. CASE Get(h)
    <2>1. row' = row /\ row # NoRow /\ ctx'[h].state = row.state
      BY <1>4 DEF Get, KeepRow, RowToContext
    <2> QED
      BY <1>1, <1>2, <2>1, ReleaseKept
  <1>5. CASE GetMissing(h)
    <2>1. row' = NoRow /\ ctx'[h].state = "IDLE"
      BY <1>5 DEF GetMissing, NewContext
    <2> QED
      BY <1>1, <2>1, ReleaseKept
  <1>6. CASE Create(h)
    <2>1. row' = Columns(ctx[h]) /\ ctx' = ctx /\ pc[h] = "create"
      BY <1>6 DEF Create, Overwrite, Upsert
    <2>2. ctx[h].state # "PROCESSING" /\ row'.state = ctx[h].state
      BY <2>1 DEF ReleaseInv, Columns
    <2> QED
      BY <1>1, <2>1, <2>2, ReleaseKept
  <1> QED
    BY <1>3, <1>4, <1>5, <1>6

LEMMA QuestionRelease ==
  ASSUME TypeInv, AloneInv, ReleaseInv, Smooth, NEW h \in Handlers,
         \/ Begin(h) \/ Welcome(h) \/ Enter(h)
         \/ Answer(h) \/ NoAnswer(h) \/ GiveUp(h) \/ Clarify(h)
  PROVE  ReleaseInv'
  <1> pc \in [Handlers -> Places]
    BY DEF TypeInv, HandlersOK
  <1>1. Acts(h)
    BY DEF Acts, Handle
  <1>2. CASE Begin(h) \/ Welcome(h) \/ Enter(h)
    <2>1. pc'[h] \in {"begun", "query"}
      BY <1>2 DEF Begin, Welcome, Enter, EnterFrom, Goto
    <2> QED
      BY <1>1, <2>1, ReleaseKept
  <1>3. CASE Answer(h) \/ NoAnswer(h) \/ GiveUp(h)
    <2>1. pc'[h] = "finish" /\ (SetState("ANSWER") \/ SetState("ERROR"))
      BY <1>3 DEF Answer, NoAnswer, GiveUp, Answered, Goto
    <2>2. "ANSWER" \in States /\ "ERROR" \in States
      BY DEF States
    <2>3. row'.state \in {"ANSWER", "ERROR"}
      BY <2>1, <2>2, SetStateKeeps DEF TypeInv
    <2> QED
      BY <1>1, <2>1, <2>3, ReleaseKept
  <1>4. CASE Clarify(h)
    <2>1. pc'[h] = "finish" /\ row'.state = "CLARIFICATION"
      BY <1>4, AskKeeps DEF Clarify
    <2> QED
      BY <1>1, <2>1, ReleaseKept
  <1> QED
    BY <1>2, <1>3, <1>4

LEMMA StepRelease ==
  ASSUME TypeInv, AloneInv, ReleaseInv, [Next]_vars
  PROVE  ReleaseInv'
  <1> SUFFICES ASSUME Smooth' PROVE ReleaseInv'
    BY DEF ReleaseInv
  <1>1. Smooth /\ ~Crash /\ \A h \in Handlers : ~StoreFails(h)
    BY SmoothBefore
  <1>2. \A h \in Handlers : ~TurnDown(h) /\ ~EnterRaises(h)
    BY DEF TurnDown, EnterRaises, LeaveLocked, Smooth
  <1>3. CASE UNCHANGED vars \/ Age \/ RunCleanup
    <2>1. /\ pc' = pc /\ ctx' = ctx
          /\ row' = row \/ row' = NoRow
      BY <1>3 DEF vars, Age, RunCleanup, Delete
    <2> QED
      BY <1>1, <2>1 DEF ReleaseInv, Holders
  <1> QED
    BY <1>1, <1>2, <1>3, CommandRelease, OpenRelease, QuestionRelease
       DEF Next, Handle

(* Updates handled one after the other leave the row PROCESSING only after *)
(* a failure or a question that was turned down.                           *)
THEOREM LockComesBack == Spec => []LockIsReleased
  <1>1. Init => AloneInv /\ ReleaseInv
    BY DEF Init, AloneInv, ReleaseInv
  <1>2. TypeInv /\ AloneInv /\ ReleaseInv /\ [Next]_vars
          => AloneInv' /\ ReleaseInv'
    BY StepAlone, StepRelease
  <1>3. ReleaseInv => LockIsReleased
    <2>1. row = NoRow => row.state # "PROCESSING"
      BY DEF NoRow
    <2> QED
      BY <2>1 DEF ReleaseInv, Smooth, LockIsReleased, Holders
  <1> QED
    BY <1>1, <1>2, <1>3, TypeInvariant, PTL DEF Spec

=============================================================================
