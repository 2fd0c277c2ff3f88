-------------------------- MODULE RateLimiter_proofs --------------------------
(***************************************************************************)
(* The table of the limiter stays bounded, for any number of users and     *)
(* threads, any limits and any interleaving: only a call that lets its     *)
(* request through cleans up, and some call for each user too many will.   *)
(***************************************************************************)
EXTENDS RateLimiter, FiniteSetTheorems, TLAPS

Steps == {"idle", "prune", "pop", "check", "scan", "append", "cleanup"}

(* The part of the types that the argument needs                           *)
Types ==
  /\ deque \in [Users -> Deques \cup {0}]
  /\ times \in [Deques -> Seq(Int)]
  /\ pc \in [Threads -> Steps]
  /\ now \in [Threads -> Int] /\ clock \in Int
  /\ events \in [Threads -> Deques \cup {0}]
  /\ scanned \in [Threads -> Seq(Int)]
  /\ \A t \in Active : events[t] # 0

(* No two users share a deque.                                             *)
Separate ==
  \A u, v \in Users : deque[u] # 0 /\ deque[u] = deque[v] => u = v

(* The calls under way that hold the deque of u                            *)
Callers(u) == {t \in Active : events[t] = deque[u]}

(* A call under way has let a request of u through, and will clean up.     *)
Cleans(u) == \E t \in Callers(u) : pc[t] = "cleanup"

(* No call has let a request of u through yet, and none can be refused.    *)
Untouched(u) ==
  /\ times[deque[u]] = <<>> /\ Callers(u) # {}
  /\ \A t \in Callers(u) : /\ pc[t] \in {"prune", "check", "scan", "append"}
                           /\ pc[t] = "scan" => scanned[t] = <<>>

(* The users for which a cleanup is still to come                          *)
Owed == {u \in Stored : Cleans(u) \/ Untouched(u)}

(* Users nobody will clean up after are not too many.                      *)
Crowded == Cardinality(Stored \ Owed) <= MaxUsers

TableInv == Types /\ Separate /\ Crowded

-----------------------------------------------------------------------------
(* What LimitsOK says of the numbers and sets                              *)
LEMMA FiniteTables ==
  ASSUME LimitsOK
  PROVE  /\ IsFiniteSet(Users) /\ Cardinality(Users) \in Nat
         /\ IsFiniteSet(Threads) /\ Cardinality(Threads) \in Nat
         /\ Window \in Nat /\ UserLimit \in Nat \ {0}
         /\ BurstLimit \in Nat \ {0} /\ MaxUsers \in Nat
  BY FS_CardinalityType DEF LimitsOK

(* A set of users is as finite as their number.                            *)
LEMMA SomeUsers ==
  ASSUME LimitsOK, NEW S \in SUBSET Users
  PROVE  IsFiniteSet(S) /\ Cardinality(S) \in Nat
  BY FiniteTables, FS_Subset, FS_CardinalityType

(* A thread that is not in a call finds a deque that neither the table nor *)
(* another thread uses.                                                    *)
LEMMA UnusedDeque ==
  ASSUME LimitsOK, Types, NEW t \in Threads, pc[t] = "idle"
  PROVE  Unused # {}
  <1> SUFFICES ASSUME Unused = {} PROVE FALSE
    OBVIOUS
  <1> DEFINE U == {deque[u] : u \in Users}
             E == {events[s] : s \in Active}
             f == [u \in Users |-> deque[u]]
             g == [s \in Active |-> events[s]]
  <1>1. IsFiniteSet(U) /\ Cardinality(U) <= Cardinality(Users)
    <2>1. f \in Surjection(Users, U)
      BY DEF Surjection
    <2> QED
      BY <2>1, FS_Surjection, FiniteTables
  <1>2. /\ IsFiniteSet(Active) /\ Cardinality(Active) \in Nat
        /\ Cardinality(Active) < Cardinality(Threads)
    <2>1. Active \in SUBSET Threads /\ t \notin Active
      BY DEF Active
    <2> QED
      BY <2>1, FiniteTables, FS_Subset, FS_CardinalityType
  <1>3. IsFiniteSet(E) /\ Cardinality(E) <= Cardinality(Active)
    <2>1. g \in Surjection(Active, E)
      BY DEF Surjection
    <2> QED
      BY <2>1, <1>2, FS_Surjection
  <1>4. /\ IsFiniteSet(U \cup E)
        /\ Cardinality(U \cup E) <= Cardinality(U) + Cardinality(E)
    <2>1. /\ IsFiniteSet(U \cup E)
          /\ Cardinality(U \cup E)
               = Cardinality(U) + Cardinality(E) - Cardinality(U \cap E)
      BY <1>1, <1>3, FS_Union
    <2>2. U \cap E \in SUBSET U
      OBVIOUS
    <2>3. IsFiniteSet(U \cap E)
      BY <1>1, <2>2, FS_Subset
    <2> HIDE DEF U, E
    <2>4. Cardinality(U) \in Nat /\ Cardinality(E) \in Nat
          /\ Cardinality(U \cap E) \in Nat
      BY <1>1, <1>3, <2>3, FS_CardinalityType
    <2> QED
      BY <2>1, <2>4
  <1>5. Deques \in SUBSET (U \cup E)
    BY DEF Unused
  <1>6. Cardinality(Deques) = Cardinality(Users) + Cardinality(Threads)
    BY FS_Interval, FiniteTables DEF Deques
  <1> HIDE DEF U, E
  <1>7. Cardinality(Deques) <= Cardinality(U \cup E)
    BY <1>4, <1>5, FS_Subset
  <1>8. /\ Cardinality(U) \in Nat /\ Cardinality(E) \in Nat
        /\ Cardinality(U \cup E) \in Nat
    BY <1>1, <1>3, <1>4, FS_CardinalityType
  <1> QED
    BY <1>1, <1>2, <1>3, <1>4, <1>6, <1>7, <1>8, FiniteTables

(* The deque that Enter takes for a user without one                       *)
LEMMA TakenDeque ==
  ASSUME LimitsOK, Types, NEW t \in Threads, pc[t] = "idle"
  PROVE  LET d == CHOOSE d \in Unused : TRUE
         IN /\ d \in Deques /\ d # 0
            /\ \A u \in Users : deque[u] # d
            /\ \A s \in Active : events[s] # d
  <1> DEFINE d == CHOOSE d \in Unused : TRUE
  <1>1. d \in Unused
    BY UnusedDeque
  <1>2. 0 \notin Deques
    BY DEF Deques
  <1> HIDE DEF d
  <1>3. /\ d \in Deques /\ d # 0
        /\ \A u \in Users : deque[u] # d
        /\ \A s \in Active : events[s] # d
    BY <1>1, <1>2 DEF Unused
  <1> QED
    BY <1>3 DEF d

-----------------------------------------------------------------------------
(* What the end of a call leaves of the types, whatever it takes out of    *)
(* the table                                                               *)
LEMMA LeaveTypes ==
  ASSUME Types, NEW t \in Threads, NEW D \in [Users -> Deques \cup {0}],
         Leave(t, D), clock' \in Int
  PROVE  Types' /\ Active' = Active \ {t}
  <1>1. Active' = Active \ {t}
    BY DEF Leave, Go, Types, Active, Steps
  <1>2. times' \in [Deques -> Seq(Int)]
    <2>1. <<>> \in Seq(Int) /\ \A d \in Deques : times[d] \in Seq(Int)
      BY DEF Types
    <2> QED
      BY <2>1 DEF Leave
  <1>3. \A s \in Active' : events'[s] # 0
    BY <1>1 DEF Leave, Types, Active
  <1>4. scanned' \in [Threads -> Seq(Int)]
    <2>1. <<>> \in Seq(Int)
      OBVIOUS
    <2> QED
      BY <2>1 DEF Leave, Types
  <1> QED
    BY <1>1, <1>2, <1>3, <1>4 DEF Leave, Go, Types, Steps

(* A step from one place in the call to the next                           *)
LEMMA GoTypes ==
  ASSUME Types, NEW t \in Threads, pc[t] # "idle",
         NEW there \in Steps \ {"idle"}, Go(t, there),
         UNCHANGED <<clock, deque, user, now, events>>,
         times' \in [Deques -> Seq(Int)], scanned' \in [Threads -> Seq(Int)]
  PROVE  Types' /\ Active' = Active
  <1>1. Active' = Active
    BY DEF Go, Types, Active
  <1> QED
    BY <1>1 DEF Go, Types

(* A call under way has a deque and a time.                                *)
LEMMA TimesType ==
  ASSUME Types, NEW t \in Active
  PROVE  /\ t \in Threads /\ events[t] \in Deques
         /\ Times(t) \in Seq(Int) /\ now[t] \in Int
  BY DEF Types, Active, Times

(* The types hold, step by step.                                           *)
LEMMA TypesKept ==
  ASSUME LimitsOK, Types, [Next]_vars
  PROVE  Types'
  <1>1. CASE Tick
    BY <1>1 DEF Tick, Types, Active
  <1>2. ASSUME NEW t \in Threads, NEW u \in Users, Enter(t, u)
        PROVE  Types'
    <2>1. Active' = Active \cup {t}
      BY <1>2 DEF Enter, Active, Types
    <2>2. events'[t] \in Deques /\ events' = [events EXCEPT ![t] = events'[t]]
      BY <1>2, TakenDeque DEF Enter, Types
    <2>3. 0 \notin Deques
      BY DEF Deques
    <2>4. /\ deque' \in [Users -> Deques \cup {0}]
          /\ times' \in [Deques -> Seq(Int)]
      <3>1. <<>> \in Seq(Int)
        OBVIOUS
      <3> QED
        BY <1>2, <3>1, TakenDeque DEF Enter, Types
    <2>5. events' \in [Threads -> Deques \cup {0}]
      BY <2>2 DEF Types
    <2>6. \A s \in Active' : events'[s] # 0
      BY <2>1, <2>2, <2>3 DEF Types, Active
    <2> QED
      BY <1>2, <2>1, <2>4, <2>5, <2>6 DEF Enter, Types, Steps
  <1>3. ASSUME NEW t \in Threads, pc[t] # "idle",
               \/ Prune(t) \/ Pop(t) \/ Check(t) \/ Scan(t) \/ ScanRaises(t)
               \/ Register(t) \/ Cleanup(t)
        PROVE  Types'
    <2>1. /\ events[t] \in Deques /\ Times(t) \in Seq(Int) /\ now[t] \in Int
      BY <1>3, TimesType DEF Active, Types
    <2>2. ASSUME NEW D \in [Users -> Deques \cup {0}], Leave(t, D),
                 clock' = clock
          PROVE  Types'
      BY <2>1, <2>2, LeaveTypes DEF Types
    <2>3. deque \in [Users -> Deques \cup {0}]
      BY DEF Types
    <2>4. ASSUME NEW there \in Steps \ {"idle"}, Go(t, there),
                 UNCHANGED <<clock, deque, user, now, events>>,
                 \/ UNCHANGED times
                 \/ /\ Times(t) # <<>>
                    /\ times' = [times EXCEPT ![events[t]] = Tail(@)]
                 \/ times' = [times EXCEPT ![events[t]] = Append(@, now[t])],
                 \/ UNCHANGED scanned
                 \/ scanned' = [scanned EXCEPT ![t] = Times(t)]
                 \/ scanned' = [scanned EXCEPT ![t] = <<>>]
          PROVE  Types'
      <3>1. times' \in [Deques -> Seq(Int)]
        <4>1. Times(t) = times[events[t]] /\ Append(Times(t), now[t]) \in Seq(Int)
          BY <2>1 DEF Times
        <4>2. Times(t) # <<>> => Tail(Times(t)) \in Seq(Int)
          BY <2>1
        <4>3. \/ UNCHANGED times
              \/ \E s \in Seq(Int) : times' = [times EXCEPT ![events[t]] = s]
          BY <2>4, <4>1, <4>2
        <4> QED
          BY <2>1, <4>3 DEF Types
      <3>2. scanned' \in [Threads -> Seq(Int)]
        <4>1. <<>> \in Seq(Int)
          OBVIOUS
        <4> QED
          BY <2>1, <2>4, <4>1 DEF Types
      <3> QED
        BY <1>3, <2>4, <3>1, <3>2, GoTypes
    <2>5. CASE Prune(t)
      BY <2>4, <2>5 DEF Prune, Steps
    <2>6. CASE Pop(t)
      BY <2>2, <2>3, <2>4, <2>6 DEF Pop, Stay, Steps
    <2>7. CASE Check(t)
      BY <2>2, <2>3, <2>4, <2>7 DEF Check, Stay, Steps
    <2>8. CASE Scan(t)
      BY <2>2, <2>3, <2>4, <2>8 DEF Scan, Stay, Steps
    <2>9. CASE ScanRaises(t)
      BY <2>2, <2>3, <2>9 DEF ScanRaises
    <2>10. CASE Register(t)
      BY <2>4, <2>10 DEF Register, Steps
    <2>11. CASE Cleanup(t)
      <3>1. PICK gone \in SUBSET Stored :
              Leave(t, [u \in Users |-> IF u \in gone THEN 0 ELSE deque[u]])
        BY <2>11 DEF Cleanup
      <3>2. [u \in Users |-> IF u \in gone THEN 0 ELSE deque[u]]
              \in [Users -> Deques \cup {0}]
        BY <2>3
      <3> QED
        BY <2>2, <2>11, <3>1, <3>2 DEF Cleanup
    <2> QED
      BY <1>3, <2>5, <2>6, <2>7, <2>8, <2>9, <2>10, <2>11
  <1>4. CASE UNCHANGED vars
    BY <1>4 DEF vars, Types, Active
  <1>5. ASSUME NEW t \in Threads, pc[t] = "idle"
        PROVE  ~(\/ Prune(t) \/ Pop(t) \/ Check(t) \/ Scan(t) \/ ScanRaises(t)
                 \/ Register(t) \/ Cleanup(t))
    BY <1>5 DEF Prune, Pop, Check, Scan, ScanRaises, Register, Cleanup
  <1> QED
    BY <1>1, <1>2, <1>3, <1>4, <1>5 DEF Next

-----------------------------------------------------------------------------
(* It is enough that a step owes nobody less and stores nobody it does not *)
(* owe.                                                                    *)
LEMMA CrowdedKept ==
  ASSUME LimitsOK, Crowded, Stored' \ Owed' \subseteq Stored \ Owed
  PROVE  Crowded'
  <1>1. Stored \ Owed \in SUBSET Users /\ Stored' \ Owed' \in SUBSET Users
    BY DEF Stored
  <1>2. /\ IsFiniteSet(Stored \ Owed) /\ Cardinality(Stored \ Owed) \in Nat
        /\ Cardinality(Stored' \ Owed') \in Nat
    BY <1>1, SomeUsers
  <1>3. Cardinality(Stored' \ Owed') <= Cardinality(Stored \ Owed)
    BY <1>2, FS_Subset
  <1> QED
    BY <1>2, <1>3, FiniteTables DEF Crowded

(* A step of t that leaves the table, the other threads and the deques of  *)
(* other users alone, and is no cleanup: nobody is owed less but, maybe,   *)
(* the user of t before a request of his went through.                     *)
LEMMA OthersStayOwed ==
  ASSUME Types, NEW t \in Active, deque' = deque, pc[t] # "cleanup",
         \A s \in Threads \ {t} : /\ pc'[s] = pc[s] /\ events'[s] = events[s]
                                  /\ scanned'[s] = scanned[s],
         pc'[t] = "idle" \/ events'[t] = events[t],
         \A u \in Stored : deque[u] # events[t]
                             => times'[deque[u]] = times[deque[u]],
         \A u \in Stored : deque[u] = events[t] /\ Untouched(u)
                             => Cleans(u)' \/ Untouched(u)'
  PROVE  Stored' \ Owed' \subseteq Stored \ Owed
  <1>1. Stored' = Stored
    BY DEF Stored
  <1>2. ASSUME NEW u \in Stored, Cleans(u)
        PROVE  Cleans(u)'
    <2>1. PICK s \in Active : events[s] = deque[u] /\ pc[s] = "cleanup"
      BY <1>2 DEF Cleans, Callers
    <2>2. s \in Threads \ {t}
      BY <2>1 DEF Active
    <2>3. s \in Active' /\ events'[s] = deque'[u] /\ pc'[s] = "cleanup"
      BY <2>1, <2>2 DEF Active
    <2> QED
      BY <2>3 DEF Cleans, Callers
  <1>3. ASSUME NEW u \in Stored, Untouched(u), deque[u] # events[t]
        PROVE  Untouched(u)'
    <2>1. Callers(u)' = Callers(u) /\ t \notin Callers(u)
      BY <1>3 DEF Callers, Active
    <2> QED
      BY <1>3, <2>1 DEF Untouched, Callers, Active
  <1>4. ASSUME NEW u \in Owed
        PROVE  u \in Owed'
    BY <1>1, <1>2, <1>3 DEF Owed
  <1> QED
    BY <1>1, <1>4

(* As long as no request of his went through, a user's calls go on.        *)
LEMMA UntouchedGoesOn ==
  ASSUME Types, NEW t \in Active, NEW u \in Stored, deque[u] = events[t],
         Untouched(u), deque' = deque, events' = events, times' = times,
         NEW there \in {"check", "scan", "append"}, Go(t, there),
         \A s \in Threads \ {t} : scanned'[s] = scanned[s],
         there = "scan" => scanned'[t] = <<>>
  PROVE  Untouched(u)'
  <1>1. Active' = Active /\ \A s \in Threads \ {t} : pc'[s] = pc[s]
    BY DEF Go, Active, Types
  <1>2. pc'[t] = there
    BY DEF Go, Active, Types
  <1>3. Callers(u)' = Callers(u)
    BY <1>1 DEF Callers
  <1>4. ASSUME NEW s \in Callers(u)
        PROVE  /\ pc'[s] \in {"prune", "check", "scan", "append"}
               /\ pc'[s] = "scan" => scanned'[s] = <<>>
    <2>1. /\ pc[s] \in {"prune", "check", "scan", "append"}
          /\ pc[s] = "scan" => scanned[s] = <<>>
      BY DEF Untouched
    <2>2. s \in Threads
      BY DEF Callers, Active
    <2>3. CASE s = t
      BY <1>2, <2>3
    <2>4. CASE s # t
      BY <1>1, <2>1, <2>2, <2>4
    <2> QED
      BY <2>3, <2>4
  <1>5. times'[deque'[u]] = <<>> /\ Callers(u)' # {}
    BY <1>3 DEF Untouched
  <1> QED
    BY <1>3, <1>4, <1>5 DEF Untouched

(* What a call that ends without a cleanup leaves alone                    *)
LEMMA LeaveChanges ==
  ASSUME Types, NEW t \in Active, Leave(t, deque)
  PROVE  /\ deque' = deque /\ pc'[t] = "idle"
         /\ \A s \in Threads \ {t} : /\ pc'[s] = pc[s]
                                     /\ events'[s] = events[s]
                                     /\ scanned'[s] = scanned[s]
         /\ \A u \in Stored : times'[deque[u]] = times[deque[u]]
  <1>1. \A u \in Stored : u \in Users /\ deque[u] \in Deques
    BY DEF Stored, Types
  <1> QED
    BY <1>1 DEF Leave, Go, Types, Active

(* Nothing in the deque of an untouched user can refuse a request.         *)
LEMMA EmptyDeque ==
  ASSUME LimitsOK, Types, NEW t \in Active, NEW u \in Stored,
         deque[u] = events[t], Untouched(u)
  PROVE  /\ Times(t) = <<>> /\ ~Expired(t) /\ ~(Len(Times(t)) >= UserLimit)
         /\ pc[t] \in {"prune", "check", "scan", "append"}
         /\ pc[t] = "scan" => scanned[t] = <<>> /\ ~Bursts(t)
  <1>1. /\ Times(t) = <<>> /\ pc[t] \in {"prune", "check", "scan", "append"}
        /\ pc[t] = "scan" => scanned[t] = <<>>
    <2>1. t \in Callers(u)
      BY DEF Callers
    <2> QED
      BY <2>1 DEF Untouched, Times
  <1>2. ~Expired(t) /\ ~(Len(Times(t)) >= UserLimit)
    BY <1>1, FiniteTables DEF Expired
  <1>3. Recent(<<>>, now[t]) = 0
    <2>1. {i \in 1..Len(<<>>) :
             \A j \in i..Len(<<>>) : <<>>[j] > now[t] - BurstWindow} = {}
      OBVIOUS
    <2> QED
      BY <2>1, FS_EmptySet DEF Recent
  <1> QED
    BY <1>1, <1>2, <1>3, FiniteTables DEF Bursts

-----------------------------------------------------------------------------
(* A request comes: its user is stored now, and is owed if he was not.     *)
LEMMA EnterKeeps ==
  ASSUME LimitsOK, Types, Separate, NEW t \in Threads, NEW u \in Users,
         Enter(t, u)
  PROVE  Separate' /\ Stored' \ Owed' \subseteq Stored \ Owed
  <1>1. /\ t \notin Active /\ Active' = Active \cup {t}
        /\ pc' = [pc EXCEPT ![t] = "prune"]
        /\ \A s \in Threads \ {t} : pc'[s] = pc[s] /\ events'[s] = events[s]
        /\ scanned' = scanned
    BY DEF Enter, Active, Types
  <1>2. CASE deque[u] # 0
    <2>1. deque' = deque /\ times' = times /\ events'[t] = deque[u]
      BY <1>2 DEF Enter, Types
    <2>2. Separate' /\ Stored' = Stored
      BY <2>1 DEF Separate, Stored
    <2>3. ASSUME NEW v \in Stored, Cleans(v)
          PROVE  Cleans(v)'
      BY <1>1, <2>1, <2>3 DEF Cleans, Callers, Active
    <2>4. ASSUME NEW v \in Stored, Untouched(v)
          PROVE  Untouched(v)'
      <3>1. Callers(v) \subseteq Callers(v)' /\ Callers(v)' \subseteq Callers(v) \cup {t}
        BY <1>1, <2>1 DEF Callers, Active
      <3>2. pc'[t] = "prune" /\ \A s \in Callers(v) : pc'[s] = pc[s]
        BY <1>1 DEF Callers, Active, Types
      <3> QED
        BY <1>1, <2>1, <2>4, <3>1, <3>2 DEF Untouched
    <2> QED
      BY <2>2, <2>3, <2>4 DEF Owed
  <1>3. CASE deque[u] = 0
    <2>1. PICK d \in Deques :
            /\ d # 0 /\ \A v \in Users : deque[v] # d
            /\ \A s \in Active : events[s] # d
            /\ events' = [events EXCEPT ![t] = d]
            /\ deque' = [deque EXCEPT ![u] = d]
            /\ times' = [times EXCEPT ![d] = <<>>]
      BY <1>1, <1>3, TakenDeque DEF Enter
    <2>2. Separate' /\ Stored' = Stored \cup {u}
      BY <2>1 DEF Separate, Stored, Types
    <2>3. Untouched(u)'
      <3>1. Callers(u)' = {t}
        BY <1>1, <2>1 DEF Callers, Active, Types
      <3>2. deque'[u] = d /\ times'[d] = <<>> /\ pc'[t] = "prune"
        BY <1>1, <2>1 DEF Types
      <3> QED
        BY <3>1, <3>2 DEF Untouched
    <2>4. ASSUME NEW v \in Stored
          PROVE  /\ v # u /\ deque'[v] = deque[v] /\ Callers(v)' = Callers(v)
                 /\ times'[deque[v]] = times[deque[v]]
                 /\ \A s \in Callers(v) : pc'[s] = pc[s]
      <3>1. v \in Users /\ v # u /\ deque[v] \in Deques /\ deque[v] # d
        BY <1>3, <2>1 DEF Stored, Types
      <3>2. deque'[v] = deque[v] /\ times'[deque[v]] = times[deque[v]]
        BY <2>1, <3>1 DEF Types
      <3>3. Callers(v)' = Callers(v)
        BY <1>1, <2>1, <3>1, <3>2 DEF Callers, Active, Types
      <3>4. \A s \in Callers(v) : pc'[s] = pc[s]
        BY <1>1 DEF Callers, Active
      <3> QED
        BY <3>1, <3>2, <3>3, <3>4
    <2>5. ASSUME NEW v \in Owed
          PROVE  v \in Owed'
      <3>1. v \in Stored
        BY DEF Owed
      <3> QED
        BY <1>1, <2>2, <2>4, <3>1 DEF Owed, Cleans, Untouched
    <2>6. u \in Owed'
      BY <2>2, <2>3 DEF Owed
    <2> QED
      BY <2>2, <2>5, <2>6
  <1> QED
    BY <1>2, <1>3

(* Every step of a call but its first and its last                         *)
LEMMA CallKeeps ==
  ASSUME LimitsOK, Types, Separate, NEW t \in Threads,
         \/ Prune(t) \/ Pop(t) \/ Check(t) \/ Scan(t) \/ ScanRaises(t)
         \/ Register(t)
  PROVE  Separate' /\ Stored' \ Owed' \subseteq Stored \ Owed
  <1>1. /\ t \in Active /\ pc[t] # "cleanup" /\ events[t] \in Deques
        /\ events[t] # 0 /\ pc[t] \in Steps
    BY TimesType DEF Prune, Pop, Check, Scan, ScanRaises, Register, Active, Types
  <1>2. ASSUME Leave(t, deque),
               \A u \in Stored : ~(deque[u] = events[t] /\ Untouched(u))
        PROVE  Separate' /\ Stored' \ Owed' \subseteq Stored \ Owed
    <2>1. Stored' \ Owed' \subseteq Stored \ Owed
      BY <1>1, <1>2, LeaveChanges, OthersStayOwed
    <2> QED
      BY <1>1, <1>2, <2>1, LeaveChanges DEF Separate
  <1>3. ASSUME NEW there \in Steps \ {"idle"}, Go(t, there), Stay,
               \A s \in Threads \ {t} : scanned'[s] = scanned[s],
               \A d \in Deques \ {events[t]} : times'[d] = times[d],
               \A u \in Stored : deque[u] = events[t] /\ Untouched(u)
                                 => Cleans(u)' \/ Untouched(u)'
        PROVE  Separate' /\ Stored' \ Owed' \subseteq Stored \ Owed
    <2>1. /\ deque' = deque /\ events' = events
          /\ \A s \in Threads \ {t} : pc'[s] = pc[s]
      BY <1>3 DEF Stay, Go, Types
    <2>2. \A u \in Stored : deque[u] # events[t]
                            => times'[deque[u]] = times[deque[u]]
      BY <1>3 DEF Stored, Types
    <2>3. Stored' \ Owed' \subseteq Stored \ Owed
      BY <1>1, <1>3, <2>1, <2>2, OthersStayOwed
    <2> QED
      BY <2>1, <2>3 DEF Separate
  <1>4. CASE Prune(t)
    <2>1. ASSUME NEW u \in Stored, deque[u] = events[t], Untouched(u)
          PROVE  Untouched(u)'
      <3>1. Go(t, "check")
        BY <1>1, <1>4, <2>1, EmptyDeque DEF Prune
      <3> QED
        BY <1>1, <1>4, <2>1, <3>1, UntouchedGoesOn DEF Prune
    <2>2. PICK there \in {"pop", "check"} : Go(t, there)
      BY <1>4 DEF Prune
    <2>3. there \in Steps \ {"idle"}
      BY <2>2 DEF Steps
    <2> QED
      BY <1>3, <1>4, <2>1, <2>2, <2>3 DEF Prune, Stay
  <1>5. CASE Pop(t)
    <2>1. ASSUME NEW u \in Stored, deque[u] = events[t], Untouched(u)
          PROVE  FALSE
      BY <1>1, <1>5, <2>1, EmptyDeque DEF Pop
    <2>2. CASE Times(t) = <<>>
      BY <1>2, <1>5, <2>1, <2>2 DEF Pop
    <2>3. CASE Times(t) # <<>>
      <3>1. Go(t, "prune") /\ Stay /\ scanned' = scanned
            /\ times' = [times EXCEPT ![events[t]] = Tail(@)]
        BY <1>5, <2>3 DEF Pop
      <3>2. \A d \in Deques \ {events[t]} : times'[d] = times[d]
        BY <3>1 DEF Types
      <3>3. "prune" \in Steps \ {"idle"}
        BY DEF Steps
      <3> QED
        BY <1>3, <2>1, <3>1, <3>2, <3>3
    <2> QED
      BY <2>2, <2>3
  <1>6. CASE Check(t)
    <2>1. CASE Len(Times(t)) >= UserLimit
      <3>1. \A u \in Stored : ~(deque[u] = events[t] /\ Untouched(u))
        BY <1>1, <2>1, EmptyDeque
      <3> QED
        BY <1>2, <1>6, <2>1, <3>1 DEF Check
    <2>2. CASE ~(Len(Times(t)) >= UserLimit)
      <3>1. /\ Go(t, "scan") /\ Stay /\ times' = times
            /\ scanned' = [scanned EXCEPT ![t] = Times(t)]
        BY <1>6, <2>2 DEF Check
      <3>2. \A s \in Threads \ {t} : scanned'[s] = scanned[s]
        BY <3>1 DEF Types
      <3>3. scanned'[t] = Times(t)
        BY <3>1 DEF Types
      <3>4. ASSUME NEW u \in Stored, deque[u] = events[t], Untouched(u)
            PROVE  Untouched(u)'
        <4>1. Times(t) = <<>>
          BY <1>1, <3>4, EmptyDeque
        <4> QED
          BY <1>1, <3>1, <3>2, <3>3, <3>4, <4>1, UntouchedGoesOn DEF Stay
      <3>5. "scan" \in Steps \ {"idle"}
        BY DEF Steps
      <3> QED
        BY <1>3, <3>1, <3>2, <3>4, <3>5
    <2> QED
      BY <2>1, <2>2
  <1>7. CASE Scan(t)
    <2>1. CASE Bursts(t)
      <3>1. \A u \in Stored : ~(deque[u] = events[t] /\ Untouched(u))
        BY <1>1, <1>7, <2>1, EmptyDeque DEF Scan
      <3> QED
        BY <1>2, <1>7, <2>1, <3>1 DEF Scan
    <2>2. CASE ~Bursts(t)
      <3>1. /\ Go(t, "append") /\ Stay /\ times' = times
            /\ scanned' = [scanned EXCEPT ![t] = <<>>]
        BY <1>7, <2>2 DEF Scan
      <3>2. \A s \in Threads \ {t} : scanned'[s] = scanned[s]
        BY <3>1 DEF Types
      <3>3. ASSUME NEW u \in Stored, deque[u] = events[t], Untouched(u)
            PROVE  Untouched(u)'
        BY <1>1, <3>1, <3>2, <3>3, UntouchedGoesOn DEF Stay
      <3>4. "append" \in Steps \ {"idle"}
        BY DEF Steps
      <3> QED
        BY <1>3, <3>1, <3>2, <3>3, <3>4
    <2> QED
      BY <2>1, <2>2
  <1>8. CASE ScanRaises(t)
    <2>1. \A u \in Stored : ~(deque[u] = events[t] /\ Untouched(u))
      BY <1>1, <1>8, EmptyDeque DEF ScanRaises
    <2> QED
      BY <1>2, <1>8, <2>1 DEF ScanRaises
  <1>9. CASE Register(t)
    <2>1. /\ Go(t, "cleanup") /\ Stay /\ scanned' = scanned
          /\ times' = [times EXCEPT ![events[t]] = Append(@, now[t])]
      BY <1>9 DEF Register, Stay
    <2>2. \A d \in Deques \ {events[t]} : times'[d] = times[d]
      BY <2>1 DEF Types
    <2>3. ASSUME NEW u \in Stored, deque[u] = events[t]
          PROVE  Cleans(u)'
      <3>1. /\ t \in Active' /\ pc'[t] = "cleanup" /\ events'[t] = deque'[u]
        BY <1>1, <2>1, <2>3 DEF Go, Stay, Active, Types
      <3> QED
        BY <3>1 DEF Cleans, Callers
    <2>4. "cleanup" \in Steps \ {"idle"}
      BY DEF Steps
    <2> QED
      BY <1>3, <2>1, <2>2, <2>3, <2>4
  <1> QED
    BY <1>4, <1>5, <1>6, <1>7, <1>8, <1>9

(* A cleanup leaves no more users than the table may have.                 *)
LEMMA CleanupKeeps ==
  ASSUME LimitsOK, Types, Separate, NEW t \in Threads, Cleanup(t)
  PROVE  Separate' /\ Crowded'
  <1>1. PICK gone \in SUBSET Stored :
          /\ Cardinality(gone) = Excess
          /\ deque' = [u \in Users |-> IF u \in gone THEN 0 ELSE deque[u]]
    BY DEF Cleanup, Leave
  <1>2. Separate'
    BY <1>1 DEF Separate
  <1>3. Stored' = Stored \ gone
    BY <1>1 DEF Stored
  <1>4. Stored \in SUBSET Users /\ gone \in SUBSET Users
    BY DEF Stored
  <1>5. /\ IsFiniteSet(Stored) /\ Cardinality(Stored) \in Nat
        /\ Cardinality(gone) \in Nat
    BY <1>4, SomeUsers
  <1>6. Stored \cap gone = gone
    OBVIOUS
  <1>7. Cardinality(Stored') = Cardinality(Stored) - Cardinality(gone)
    BY <1>3, <1>5, <1>6, FS_Difference, ZenonT(60)
  <1>8. Cardinality(Stored') <= MaxUsers
    BY <1>1, <1>5, <1>7, FiniteTables DEF Excess
  <1>9. /\ Stored' \in SUBSET Users /\ Stored' \ Owed' \in SUBSET Stored'
        /\ Stored' \ Owed' \in SUBSET Users
    BY <1>3, <1>4
  <1>10. /\ IsFiniteSet(Stored') /\ Cardinality(Stored') \in Nat
         /\ Cardinality(Stored' \ Owed') \in Nat
    BY <1>9, SomeUsers
  <1>11. Cardinality(Stored' \ Owed') <= Cardinality(Stored')
    BY <1>9, <1>10, FS_Subset
  <1> QED
    BY <1>2, <1>8, <1>10, <1>11, FiniteTables DEF Crowded

(* The invariant, step by step                                             *)
LEMMA TableStep ==
  ASSUME LimitsOK, TableInv, [Next]_vars
  PROVE  TableInv'
  <1>1. Types /\ Separate /\ Crowded /\ Types'
    BY TypesKept DEF TableInv
  <1>2. CASE Tick \/ UNCHANGED vars
    <2>1. UNCHANGED <<deque, times, pc, events, scanned>>
      BY <1>2 DEF Tick, vars
    <2>2. Separate' /\ Stored' = Stored /\ Owed' = Owed
      BY <1>1, <2>1
         DEF Separate, Stored, Owed, Cleans, Untouched, Callers, Active
    <2> QED
      BY <1>1, <2>2 DEF TableInv, Crowded
  <1>3. ASSUME NEW t \in Threads, NEW u \in Users, Enter(t, u)
        PROVE  TableInv'
    BY <1>1, <1>3, EnterKeeps, CrowdedKept DEF TableInv
  <1>4. ASSUME NEW t \in Threads,
               \/ Prune(t) \/ Pop(t) \/ Check(t) \/ Scan(t) \/ ScanRaises(t)
               \/ Register(t)
        PROVE  TableInv'
    BY <1>1, <1>4, CallKeeps, CrowdedKept DEF TableInv
  <1>5. ASSUME NEW t \in Threads, Cleanup(t)
        PROVE  TableInv'
    BY <1>1, <1>5, CleanupKeeps DEF TableInv
  <1> QED
    BY <1>2, <1>3, <1>4, <1>5 DEF Next

(* Each user who is owed a cleanup has a call of his own under way.        *)
LEMMA OwedHaveCalls ==
  ASSUME LimitsOK, Types, Separate
  PROVE  Cardinality(Owed) <= Cardinality(Active)
  <1> DEFINE f == [u \in Owed |-> CHOOSE t \in Active : events[t] = deque[u]]
  <1>1. ASSUME NEW u \in Owed
        PROVE  f[u] \in Active /\ events[f[u]] = deque[u]
    <2>1. \E t \in Active : events[t] = deque[u]
      BY DEF Owed, Cleans, Untouched, Callers
    <2> QED
      BY <2>1
  <1>2. ASSUME NEW u \in Owed, NEW v \in Owed, f[u] = f[v]
        PROVE  u = v
    <2>1. deque[u] = deque[v]
      BY <1>1, <1>2
    <2> QED
      BY <2>1 DEF Owed, Stored, Separate
  <1>3. f \in [Owed -> Active]
    BY <1>1
  <1>4. f \in Injection(Owed, Active)
    <2> HIDE DEF f
    <2> QED
      BY <1>2, <1>3 DEF Injection, IsInjective
  <1>5. IsFiniteSet(Active)
    BY FiniteTables, FS_Subset DEF Active
  <1> QED
    BY <1>4, <1>5, FS_Injection

(* What the invariant says of the size of the table                        *)
LEMMA BoundedTable ==
  ASSUME LimitsOK, TableInv
  PROVE  TableBounded
  <1>1. /\ Stored \in SUBSET Users /\ Owed \in SUBSET Users
        /\ Stored \ Owed \in SUBSET Users /\ Stored \cap Owed \in SUBSET Users
        /\ Stored \cap Owed = Owed
    BY DEF Stored, Owed
  <1>2. /\ IsFiniteSet(Stored) /\ Cardinality(Stored) \in Nat
        /\ Cardinality(Owed) \in Nat /\ Cardinality(Stored \ Owed) \in Nat
    BY <1>1, SomeUsers
  <1>3. Cardinality(Stored \ Owed) = Cardinality(Stored) - Cardinality(Owed)
    BY <1>1, <1>2, FS_Difference
  <1>4. Cardinality(Owed) <= Cardinality(Active)
    BY OwedHaveCalls DEF TableInv
  <1>5. IsFiniteSet(Active) /\ Cardinality(Active) \in Nat
    BY FiniteTables, FS_Subset, FS_CardinalityType DEF Active
  <1>6. Cardinality(Stored \ Owed) <= MaxUsers /\ MaxUsers \in Nat
    BY FiniteTables DEF TableInv, Crowded
  <1> QED
    BY <1>2, <1>3, <1>4, <1>5, <1>6 DEF TableBounded

(* The empty table                                                         *)
LEMMA TableInit ==
  ASSUME LimitsOK, Init
  PROVE  TableInv
  <1>1. Stored = {} /\ Active = {} /\ Separate
    BY DEF Init, Stored, Active, Separate
  <1>2. Crowded
    <2>1. Stored \ Owed = {}
      BY <1>1
    <2> QED
      BY <2>1, FS_EmptySet, FiniteTables DEF Crowded
  <1>3. Types
    <2>1. <<>> \in Seq(Int)
      OBVIOUS
    <2> QED
      BY <1>1, <2>1 DEF Init, Types, Steps
  <1> QED
    BY <1>1, <1>2, <1>3 DEF TableInv

(* The limiter's table never has more users than max_users and the calls   *)
(* under way, however many users ask and however their calls interleave,   *)
(* though only a request that is let through cleans up.                    *)
THEOREM TableIsBounded ==
  ASSUME LimitsOK
  PROVE  Spec => []TableBounded
  <1>1. Init => TableInv
    BY TableInit
  <1>2. TableInv /\ [Next]_vars => TableInv'
    BY TableStep
  <1>3. TableInv => TableBounded
    BY BoundedTable
  <1> QED
    BY <1>1, <1>2, <1>3, PTL DEF Spec

-----------------------------------------------------------------------------
(* The quotas.  The times the limiter holds of u                           *)
Held(u) == IF deque[u] = 0 THEN <<>> ELSE times[deque[u]]

(* The calls of u under way                                                *)
Mine(u) == {t \in Active : user[t] = u}

(* How many times of s, or requests of S, are after a and up to b          *)
Between(s, a, b) == Cardinality({i \in 1..Len(s) : s[i] \in (a + 1)..b})

Among(S, a, b) == Cardinality({g \in S : g[1] \in (a + 1)..b})

(* A call that passed the checks, or is going to, and then appends its time *)
Passed(t) == pc[t] = "append" \/ (pc[t] = "scan" /\ ~Bursts(t))

Cleared(u, b) == {t \in Mine(u) : now[t] <= b /\ Passed(t)}

(* How many calls of u there may be at a time                              *)
Most(u) == IF u \in shared THEN Cardinality(Threads) ELSE 1

(* A call under way, or any later one, still counts what came after a.     *)
Counts(u, a) ==
  a >= clock - Window \/ \E t \in Mine(u) : a >= now[t] - Window

CallTypes ==
  /\ user \in [Threads -> Users \cup {Nobody}]
  /\ clock \in Nat
  /\ \A t \in Active : user[t] \in Users /\ now[t] \in 0..clock
  /\ granted \in [Users -> SUBSET (Int \X Int)]
  /\ \A u \in Users : IsFiniteSet(granted[u])

(* A deque in the table is held by calls of its user only.                 *)
OwnCalls == \A t \in Active, u \in Users : deque[u] = events[t] => user[t] = u

(* The calls of a user who was not evicted hold the deque in the table.    *)
Owns(u) ==
  /\ \A t \in Mine(u) : events[t] = deque[u]
  /\ deque[u] = 0 => granted[u] = {}

(* What was let through and is still to be counted is held.                *)
Keeps(u) ==
  u \notin dropped =>
    \A a, b \in Int :
      Counts(u, a) => Among(granted[u], a, b) <= Between(Held(u), a, b)

(* Together with the calls that are going to append, the times held are    *)
(* within the limit and one for each other call there may be.              *)
Room(u, span, limit) ==
  \A b \in Int : Between(Held(u), b - span, b) + Cardinality(Cleared(u, b))
                   <= limit + Most(u) - 1

Rising(s) == \A i, j \in 1..Len(s) : i <= j => s[i] <= s[j]

(* The times of a user whose calls do not overlap are in order and from    *)
(* before his call, if there is one, and a call pops what is due.          *)
Alone(u) ==
  u \notin shared =>
    /\ u \notin dropped /\ u \notin reordered
    /\ \A s, t \in Mine(u) : s = t
    /\ \A i \in 1..Len(Held(u)) : /\ Held(u)[i] <= clock
                                  /\ \A t \in Mine(u) : Held(u)[i] <= now[t]
    /\ \A t \in Mine(u) :
         pc[t] = "pop" => Held(u) # <<>> /\ Head(Held(u)) <= now[t] - Window

Limited(u) ==
  /\ u \notin dropped => WindowKept(u, Most(u) - 1)
  /\ u \notin dropped /\ u \notin reordered => BurstKept(u, Most(u) - 1)

Kept(u) ==
  /\ Owns(u) /\ Keeps(u) /\ Alone(u) /\ Limited(u)
  /\ Room(u, Window, UserLimit)
  /\ u \notin reordered => Rising(Held(u)) /\ Room(u, BurstWindow, BurstLimit)

QuotaInv ==
  /\ Types /\ Separate /\ CallTypes /\ OwnCalls
  /\ \A u \in Users \ evicted : Kept(u)

-----------------------------------------------------------------------------
(* A sequence has no more such times than times.                           *)
LEMMA BetweenType ==
  ASSUME NEW s \in Seq(Int), NEW a \in Int, NEW b \in Int
  PROVE  /\ IsFiniteSet({i \in 1..Len(s) : s[i] \in (a + 1)..b})
         /\ Between(s, a, b) \in Nat /\ Between(s, a, b) <= Len(s)
  <1> DEFINE S == {i \in 1..Len(s) : s[i] \in (a + 1)..b}
  <1>1. IsFiniteSet(1..Len(s)) /\ Cardinality(1..Len(s)) = Len(s)
    <2> DEFINE n == Len(s)
    <2>1. n \in Nat
      OBVIOUS
    <2> HIDE DEF S, n
    <2>2. IsFiniteSet(1..n) /\ Cardinality(1..n) = IF 1 > n THEN 0 ELSE n - 1 + 1
      BY <2>1, FS_Interval
    <2>3. (IF 1 > n THEN 0 ELSE n - 1 + 1) = n
      BY <2>1
    <2> QED
      BY <2>2, <2>3 DEF n
  <1>2. S \in SUBSET (1..Len(s))
    OBVIOUS
  <1> HIDE DEF S
  <1>3. IsFiniteSet(S) /\ Cardinality(S) <= Cardinality(1..Len(s))
    BY <1>1, <1>2, FS_Subset
  <1>4. Cardinality(S) \in Nat
    BY <1>3, FS_CardinalityType
  <1> QED
    BY <1>1, <1>3, <1>4 DEF Between, S

(* One more at the end                                                     *)
LEMMA BetweenAppend ==
  ASSUME NEW s \in Seq(Int), NEW n \in Int, NEW a \in Int, NEW b \in Int
  PROVE  /\ n \in (a + 1)..b =>
              Between(Append(s, n), a, b) = Between(s, a, b) + 1
         /\ n \notin (a + 1)..b =>
              Between(Append(s, n), a, b) = Between(s, a, b)
  <1> DEFINE S == {i \in 1..Len(s) : s[i] \in (a + 1)..b}
             T == {i \in 1..Len(Append(s, n)) : Append(s, n)[i] \in (a + 1)..b}
             m == Len(s) + 1
  <1>1. /\ Len(Append(s, n)) = Len(s) + 1 /\ Append(s, n)[m] = n
        /\ \A i \in 1..Len(s) : Append(s, n)[i] = s[i]
    OBVIOUS
  <1>2. n \in (a + 1)..b => T = S \cup {m}
    BY <1>1
  <1>3. n \notin (a + 1)..b => T = S
    BY <1>1
  <1>4. m \notin S
    OBVIOUS
  <1>5. IsFiniteSet(S)
    BY BetweenType
  <1> HIDE DEF S, T, m
  <1>6. Cardinality(S \cup {m}) = Cardinality(S) + 1
    BY <1>4, <1>5, FS_AddElement
  <1> QED
    BY <1>2, <1>3, <1>6 DEF Between, S, T

(* The first one goes.                                                     *)
LEMMA BetweenTail ==
  ASSUME NEW s \in Seq(Int), s # <<>>, NEW a \in Int, NEW b \in Int
  PROVE  /\ Between(Tail(s), a, b) <= Between(s, a, b)
         /\ Head(s) <= a => Between(s, a, b) <= Between(Tail(s), a, b)
  <1> DEFINE S == {i \in 1..Len(s) : s[i] \in (a + 1)..b}
             T == {i \in 1..Len(Tail(s)) : Tail(s)[i] \in (a + 1)..b}
             f == [i \in T |-> i + 1]
             g == [i \in S |-> i - 1]
  <1>1. /\ Tail(s) \in Seq(Int) /\ Len(Tail(s)) = Len(s) - 1 /\ Head(s) = s[1]
        /\ Len(s) \in Nat \ {0}
        /\ \A i \in 1..Len(Tail(s)) : Tail(s)[i] = s[i + 1]
    OBVIOUS
  <1>2. IsFiniteSet(S) /\ IsFiniteSet(T)
    BY <1>1, BetweenType
  <1>3. f \in Injection(T, S)
    <2>1. \A i \in T : i + 1 \in S
      BY <1>1
    <2>2. \A i, j \in T : i + 1 = j + 1 => i = j
      OBVIOUS
    <2> HIDE DEF S, T
    <2>3. f \in [T -> S] /\ \A i, j \in T : f[i] = f[j] => i = j
      BY <2>1, <2>2
    <2> HIDE DEF f
    <2> QED
      BY <2>3 DEF Injection, IsInjective
  <1>4. ASSUME Head(s) <= a
        PROVE  g \in Injection(S, T)
    <2>1. \A i \in S : i - 1 \in T
      <3> SUFFICES ASSUME NEW i \in S PROVE i - 1 \in T
        OBVIOUS
      <3>1. i # 1 /\ i \in 1..Len(s) /\ s[i] \in (a + 1)..b
        BY <1>1, <1>4
      <3>2. i - 1 \in 1..Len(Tail(s)) /\ Tail(s)[i - 1] = s[i]
        BY <1>1, <3>1
      <3> QED
        BY <3>1, <3>2
    <2>2. \A i, j \in S : i - 1 = j - 1 => i = j
      OBVIOUS
    <2> HIDE DEF S, T
    <2>3. g \in [S -> T] /\ \A i, j \in S : g[i] = g[j] => i = j
      BY <2>1, <2>2
    <2> HIDE DEF g
    <2> QED
      BY <2>3 DEF Injection, IsInjective
  <1> HIDE DEF S, T, f, g
  <1>5. Cardinality(T) <= Cardinality(S)
    BY <1>2, <1>3, FS_Injection
  <1>6. Head(s) <= a => Cardinality(S) <= Cardinality(T)
    BY <1>2, <1>4, FS_Injection
  <1> QED
    BY <1>5, <1>6 DEF Between, S, T

(* Of times in order, the run at the end has all the recent ones.          *)
LEMMA RecentRising ==
  ASSUME LimitsOK, NEW s \in Seq(Int), Rising(s), NEW time \in Int,
         NEW b \in Int, time <= b
  PROVE  /\ Between(s, b - BurstWindow, b) <= Recent(s, time)
         /\ Recent(s, time) \in Nat
  <1> DEFINE S == {i \in 1..Len(s) : s[i] \in (b - BurstWindow + 1)..b}
             R == {i \in 1..Len(s) :
                     \A j \in i..Len(s) : s[j] > time - BurstWindow}
  <1>0. BurstWindow \in Int
    BY DEF LimitsOK
  <1>1. S \in SUBSET R
    <2> SUFFICES ASSUME NEW i \in S PROVE i \in R
      OBVIOUS
    <2>1. i \in 1..Len(s) /\ s[i] > b - BurstWindow
      BY <1>0
    <2>2. ASSUME NEW j \in i..Len(s) PROVE s[j] > time - BurstWindow
      <3>1. j \in 1..Len(s) /\ s[i] <= s[j] /\ s[i] \in Int /\ s[j] \in Int
        BY <2>1 DEF Rising
      <3> QED
        BY <1>0, <2>1, <3>1
    <2> QED
      BY <2>1, <2>2
  <1>2. R \in SUBSET (1..Len(s))
    OBVIOUS
  <1>3. IsFiniteSet(1..Len(s))
    BY FS_Interval
  <1> HIDE DEF S, R
  <1>4. IsFiniteSet(R) /\ Cardinality(S) <= Cardinality(R) /\ Cardinality(R) \in Nat
    BY <1>1, <1>2, <1>3, FS_Subset, FS_CardinalityType
  <1> QED
    BY <1>4 DEF S, R, Between, Recent

(* Requests in a finite set                                                *)
LEMMA AmongType ==
  ASSUME NEW S, IsFiniteSet(S), NEW T \in SUBSET S, NEW a, NEW b
  PROVE  /\ Among(S, a, b) \in Nat /\ Among(T, a, b) \in Nat
         /\ Among(T, a, b) <= Among(S, a, b)
  <1> DEFINE A(X) == {g \in X : g[1] \in (a + 1)..b}
  <1>1. A(S) \in SUBSET S /\ A(T) \in SUBSET A(S)
    OBVIOUS
  <1> HIDE DEF A
  <1>2. IsFiniteSet(A(S))
    BY <1>1, FS_Subset
  <1>3. /\ Cardinality(A(S)) \in Nat /\ Cardinality(A(T)) \in Nat
        /\ Cardinality(A(T)) <= Cardinality(A(S))
    BY <1>1, <1>2, FS_Subset, FS_CardinalityType
  <1> QED
    BY <1>3 DEF Among, A

(* One more request                                                        *)
LEMMA AmongGrant ==
  ASSUME NEW S \in SUBSET (Int \X Int), IsFiniteSet(S), NEW n \in Int,
         NEW a \in Int, NEW b \in Int
  PROVE  /\ n \in (a + 1)..b => Among(Grant(S, n), a, b) <= Among(S, a, b) + 1
         /\ n \notin (a + 1)..b => Among(Grant(S, n), a, b) = Among(S, a, b)
         /\ Grant(S, n) \in SUBSET (Int \X Int) /\ IsFiniteSet(Grant(S, n))
  <1> DEFINE c == Cardinality({g \in S : g[1] = n}) + 1
             W == {g \in S : g[1] \in (a + 1)..b}
             X == {g \in Grant(S, n) : g[1] \in (a + 1)..b}
  <1>1. c \in Int
    <2>1. {g \in S : g[1] = n} \in SUBSET S
      OBVIOUS
    <2> QED
      BY <2>1, FS_Subset, FS_CardinalityType
  <1>2. Grant(S, n) = S \cup {<<n, c>>}
    BY DEF Grant
  <1> HIDE DEF c
  <1>3. <<n, c>> \in Int \X Int /\ <<n, c>>[1] = n
    BY <1>1
  <1>4. Grant(S, n) \in SUBSET (Int \X Int) /\ IsFiniteSet(Grant(S, n))
    BY <1>2, <1>3, FS_AddElement
  <1>5. /\ n \in (a + 1)..b => X = W \cup {<<n, c>>}
        /\ n \notin (a + 1)..b => X = W
    BY <1>2, <1>3
  <1>6. IsFiniteSet(W)
    <2>1. W \in SUBSET S
      OBVIOUS
    <2> QED
      BY <2>1, FS_Subset
  <1> DEFINE d == <<n, c>>
  <1> HIDE DEF W, X, d
  <1>7. Cardinality(W \cup {d}) <= Cardinality(W) + 1
    <2>1. Cardinality(W) \in Nat
      BY <1>6, FS_CardinalityType
    <2>2. \/ Cardinality(W \cup {d}) = Cardinality(W)
          \/ Cardinality(W \cup {d}) = Cardinality(W) + 1
      BY <1>6, FS_AddElement
    <2> QED
      BY <2>1, <2>2
  <1> QED
    BY <1>4, <1>5, <1>7 DEF Among, W, X, d

-----------------------------------------------------------------------------
(* The times held of a user are a sequence of times.                       *)
LEMMA HeldType ==
  ASSUME Types, NEW u \in Users
  PROVE  Held(u) \in Seq(Int)
  <1>1. <<>> \in Seq(Int)
    OBVIOUS
  <1>2. deque[u] # 0 => deque[u] \in Deques
    BY DEF Types
  <1> QED
    BY <1>1, <1>2 DEF Held, Types

(* There are no more calls of a user than may be.                          *)
LEMMA ClearedType ==
  ASSUME LimitsOK, NEW u \in Users, NEW b \in Int
  PROVE  /\ IsFiniteSet(Cleared(u, b)) /\ Cardinality(Cleared(u, b)) \in Nat
         /\ Most(u) \in Nat
         /\ Alone(u) => Cardinality(Cleared(u, b)) <= Most(u)
  <1>1. Cleared(u, b) \in SUBSET Threads
    BY DEF Cleared, Mine, Active
  <1>2. /\ IsFiniteSet(Cleared(u, b)) /\ Cardinality(Cleared(u, b)) \in Nat
        /\ Cardinality(Cleared(u, b)) <= Cardinality(Threads)
    BY <1>1, FiniteTables, FS_Subset, FS_CardinalityType
  <1>3. Most(u) \in Nat
    BY FiniteTables DEF Most
  <1>4. ASSUME Alone(u), u \notin shared
        PROVE  Cardinality(Cleared(u, b)) <= 1
    <2>1. \A s, t \in Cleared(u, b) : s = t
      BY <1>4 DEF Alone, Cleared
    <2>2. CASE Cleared(u, b) = {}
      BY <2>2, FS_EmptySet
    <2>3. CASE Cleared(u, b) # {}
      <3>1. PICK t \in Cleared(u, b) : TRUE
        BY <2>3
      <3>2. Cleared(u, b) = {t}
        BY <2>1, <3>1
      <3>3. Cardinality({t}) = 1
        BY FS_Singleton
      <3> QED
        BY <3>2, <3>3
    <2> QED
      BY <2>2, <2>3
  <1> QED
    BY <1>2, <1>3, <1>4 DEF Most

(* Fewer calls that passed the checks                                      *)
LEMMA ClearedLess ==
  ASSUME LimitsOK, NEW u \in Users, NEW b \in Int, NEW S \in SUBSET Cleared(u, b)
  PROVE  Cardinality(S) \in Nat /\ Cardinality(S) <= Cardinality(Cleared(u, b))
  BY ClearedType, FS_Subset, FS_CardinalityType

(* What the end of a call changes of what the quotas are about             *)
LEMMA LeaveCalls ==
  ASSUME Types, OwnCalls, NEW t \in Active, NEW D, Leave(t, D),
         \A u \in Users : D[u] \in {deque[u], 0}
  PROVE  /\ Active' = Active \ {t} /\ OwnCalls'
         /\ \A s \in Active' : /\ pc'[s] = pc[s] /\ user'[s] = user[s]
                               /\ now'[s] = now[s] /\ events'[s] = events[s]
                               /\ scanned'[s] = scanned[s]
         /\ \A u \in Users : D[u] = deque[u] => Held(u)' = Held(u)
  <1>1. Active' = Active \ {t}
    BY DEF Leave, Go, Types, Active, Steps
  <1>2. \A s \in Active' : /\ pc'[s] = pc[s] /\ user'[s] = user[s]
                           /\ now'[s] = now[s] /\ events'[s] = events[s]
                           /\ scanned'[s] = scanned[s]
    BY <1>1 DEF Leave, Go, Types, Active
  <1>3. OwnCalls'
    BY <1>1, <1>2 DEF OwnCalls, Leave, Types
  <1>4. ASSUME NEW u \in Users, D[u] = deque[u]
        PROVE  Held(u)' = Held(u)
    <2>1. deque[u] # 0 => deque[u] \in Deques
      BY DEF Types
    <2>2. deque'[u] = deque[u]
      BY <1>4 DEF Leave
    <2>3. deque[u] # 0 => times'[deque[u]] = times[deque[u]]
      BY <1>4, <2>1 DEF Leave
    <2> QED
      BY <2>2, <2>3 DEF Held
  <1> QED
    BY <1>1, <1>2, <1>3, <1>4

(* What the beginning of a call changes of it                              *)
LEMMA EnterCalls ==
  ASSUME LimitsOK, Types, Separate, CallTypes, OwnCalls, NEW t \in Threads,
         NEW v \in Users, Enter(t, v)
  PROVE  /\ t \notin Active /\ Active' = Active \cup {t} /\ OwnCalls'
         /\ \A s \in Active : /\ pc'[s] = pc[s] /\ user'[s] = user[s]
                              /\ now'[s] = now[s] /\ events'[s] = events[s]
         /\ pc'[t] = "prune" /\ now'[t] = clock /\ user'[t] = v
         /\ events'[t] = deque'[v]
         /\ scanned' = scanned
         /\ \A u \in Users : Held(u)' = Held(u)
         /\ \A u \in Users \ {v} : deque'[u] = deque[u]
         /\ deque[v] # 0 => deque' = deque
  <1>1. /\ t \notin Active /\ Active' = Active \cup {t}
        /\ \A s \in Active : /\ pc'[s] = pc[s] /\ user'[s] = user[s]
                             /\ now'[s] = now[s] /\ events'[s] = events[s]
        /\ pc'[t] = "prune" /\ now'[t] = clock /\ scanned' = scanned
    BY DEF Enter, Active, Types
  <1>2. user'[t] = v
    BY DEF Enter, CallTypes
  <1>3. CASE deque[v] # 0
    <2>1. deque' = deque /\ times' = times /\ events'[t] = deque[v]
      BY <1>3 DEF Enter, Types
    <2>2. OwnCalls'
      BY <1>1, <1>2, <1>3, <2>1 DEF OwnCalls, Separate
    <2> QED
      BY <1>1, <1>2, <2>1, <2>2 DEF Held
  <1>4. CASE deque[v] = 0
    <2>1. PICK d \in Deques :
            /\ d # 0 /\ \A u \in Users : deque[u] # d
            /\ \A s \in Active : events[s] # d
            /\ events' = [events EXCEPT ![t] = d]
            /\ deque' = [deque EXCEPT ![v] = d]
            /\ times' = [times EXCEPT ![d] = <<>>]
      BY <1>1, <1>4, TakenDeque DEF Enter, Active
    <2>2. /\ events'[t] = d /\ deque'[v] = d /\ times'[d] = <<>>
          /\ \A u \in Users \ {v} : deque'[u] = deque[u]
      BY <2>1 DEF Types
    <2>3. OwnCalls'
      BY <1>1, <1>2, <2>1, <2>2 DEF OwnCalls
    <2>4. Held(v)' = Held(v)
      BY <1>4, <2>1, <2>2 DEF Held
    <2>5. ASSUME NEW u \in Users \ {v} PROVE Held(u)' = Held(u)
      <3>1. deque[u] # 0 => times'[deque[u]] = times[deque[u]]
        BY <2>1 DEF Types
      <3> QED
        BY <2>2, <3>1 DEF Held
    <2> QED
      BY <1>1, <1>2, <1>4, <2>2, <2>3, <2>4, <2>5
  <1> QED
    BY <1>1, <1>2, <1>3, <1>4

(* The types of the calls, and of what was let through, step by step       *)
LEMMA CallTypesKept ==
  ASSUME LimitsOK, Types, Separate, CallTypes, OwnCalls, [Next]_vars
  PROVE  CallTypes' /\ OwnCalls'
  <1>1. clock \in Int
    BY DEF Types
  <1>2. CASE Tick
    <2>1. \A u \in Users : /\ granted'[u] = Noted(granted[u])
                           /\ Noted(granted[u]) \in SUBSET granted[u]
      BY <1>2 DEF Tick, Noted
    <2>2. \A u \in Users : IsFiniteSet(granted'[u])
      BY <2>1, FS_Subset DEF CallTypes
    <2>3. granted' \in [Users -> SUBSET (Int \X Int)]
      BY <1>2, <2>1 DEF Tick, CallTypes
    <2>4. Active' = Active /\ OwnCalls'
      BY <1>2 DEF Tick, Active, OwnCalls
    <2>5. \A t \in Active : now[t] <= clock'
      BY <1>1, <1>2 DEF Tick, CallTypes, Types, Active
    <2> QED
      BY <1>2, <2>2, <2>3, <2>4, <2>5 DEF Tick, CallTypes
  <1>3. ASSUME NEW t \in Threads, NEW u \in Users, Enter(t, u)
        PROVE  CallTypes' /\ OwnCalls'
    <2>1. /\ clock' = clock /\ granted' = granted
          /\ user' = [user EXCEPT ![t] = u]
      BY <1>3 DEF Enter
    <2> QED
      BY <1>1, <1>3, <2>1, EnterCalls DEF CallTypes
  <1>4. ASSUME NEW t \in Active, NEW D, Leave(t, D), clock' = clock,
               granted' = granted, \A u \in Users : D[u] \in {deque[u], 0}
        PROVE  CallTypes' /\ OwnCalls'
    <2>1. user' = [user EXCEPT ![t] = Nobody] /\ t \in Threads
      BY <1>4 DEF Leave, Active
    <2>2. user' \in [Threads -> Users \cup {Nobody}]
      BY <2>1 DEF CallTypes
    <2> QED
      BY <1>4, <2>2, LeaveCalls DEF CallTypes
  <1>5. ASSUME NEW t \in Active, NEW there \in Steps \ {"idle"}, Go(t, there),
               UNCHANGED <<clock, deque, user, now, events>>,
               \/ granted' = granted
               \/ granted' = [granted EXCEPT ![user[t]] = Grant(@, now[t])]
        PROVE  CallTypes' /\ OwnCalls'
    <2>1. Active' = Active /\ OwnCalls'
      BY <1>5 DEF Go, Active, Types, OwnCalls
    <2>2. /\ user[t] \in Users /\ now[t] \in Int
          /\ granted[user[t]] \in SUBSET (Int \X Int)
          /\ IsFiniteSet(granted[user[t]])
      BY DEF CallTypes, Types, Active
    <2>3. /\ Grant(granted[user[t]], now[t]) \in SUBSET (Int \X Int)
          /\ IsFiniteSet(Grant(granted[user[t]], now[t]))
      BY <1>1, <2>2, AmongGrant
    <2>4. /\ granted' \in [Users -> SUBSET (Int \X Int)]
          /\ \A u \in Users : IsFiniteSet(granted'[u])
      BY <1>5, <2>2, <2>3 DEF CallTypes
    <2> QED
      BY <1>5, <2>1, <2>4 DEF CallTypes
  <1>6. ASSUME NEW t \in Threads,
               \/ Prune(t) \/ Pop(t) \/ Check(t) \/ Scan(t) \/ ScanRaises(t)
               \/ Register(t) \/ Cleanup(t)
        PROVE  CallTypes' /\ OwnCalls'
    <2>1. t \in Active
      BY <1>6 DEF Prune, Pop, Check, Scan, ScanRaises, Register, Cleanup, Active
    <2>2. CASE Prune(t)
      BY <1>5, <2>1, <2>2 DEF Prune, Steps
    <2>3. CASE Pop(t)
      BY <1>4, <1>5, <2>1, <2>3 DEF Pop, Stay, Steps
    <2>4. CASE Check(t)
      BY <1>4, <1>5, <2>1, <2>4 DEF Check, Stay, Steps
    <2>5. CASE Scan(t)
      BY <1>4, <1>5, <2>1, <2>5 DEF Scan, Stay, Steps
    <2>6. CASE ScanRaises(t)
      BY <1>4, <2>1, <2>6 DEF ScanRaises
    <2>7. CASE Register(t)
      BY <1>5, <2>1, <2>7 DEF Register, Steps
    <2>8. CASE Cleanup(t)
      <3>1. PICK gone \in SUBSET Stored :
              Leave(t, [u \in Users |-> IF u \in gone THEN 0 ELSE deque[u]])
        BY <2>8 DEF Cleanup
      <3>2. clock' = clock /\ granted' = granted
        BY <2>8 DEF Cleanup
      <3> QED
        BY <1>4, <2>1, <3>1, <3>2
    <2> QED
      BY <1>6, <2>2, <2>3, <2>4, <2>5, <2>6, <2>7, <2>8
  <1>7. CASE UNCHANGED vars
    BY <1>7 DEF vars, CallTypes, OwnCalls, Active
  <1> QED
    BY <1>2, <1>3, <1>6, <1>7 DEF Next

(* What is within a window of a later time is within that of an earlier.   *)
LEMMA LaterWindow ==
  ASSUME NEW a \in Int, NEW b \in Int, NEW c \in Int, NEW w \in Int, b <= c,
         a >= c - w
  PROVE  a >= b - w
  OBVIOUS

(* What will be counted of u was to be counted already.                    *)
LEMMA StillCounts ==
  ASSUME LimitsOK, Types, Types', NEW u \in Users, clock <= clock',
         \A t \in Mine(u)' : \/ now'[t] = clock
                             \/ t \in Mine(u) /\ now'[t] = now[t]
  PROVE  \A a \in Int : Counts(u, a)' => Counts(u, a)
  <1> SUFFICES ASSUME NEW a \in Int, Counts(u, a)'
               PROVE  Counts(u, a)
    OBVIOUS
  <1>1. clock \in Int /\ clock' \in Int /\ Window \in Int
    BY DEF Types, LimitsOK
  <1>2. CASE a >= clock' - Window
    <2>1. PICK b, c : b = clock /\ c = clock' /\ b \in Int /\ c \in Int
      BY <1>1
    <2>2. b <= c /\ a >= c - Window
      BY <1>2, <2>1
    <2>3. a >= b - Window
      BY <1>1, <2>1, <2>2, LaterWindow
    <2>4. a >= clock - Window
      BY <2>1, <2>3
    <2> QED
      BY <2>4 DEF Counts
  <1>3. CASE \E t \in Mine(u)' : a >= now'[t] - Window
    BY <1>3 DEF Counts
  <1> QED
    BY <1>2, <1>3 DEF Counts

(* As long as no more calls have passed the checks, there is as much room. *)
LEMMA RoomSteady ==
  ASSUME LimitsOK, Types, NEW u \in Users, Held(u)' = Held(u),
         Most(u) <= Most(u)',
         \A t \in Mine(u)' : Passed(t)' => /\ t \in Mine(u) /\ Passed(t)
                                           /\ now'[t] = now[t],
         NEW span \in Int, NEW limit \in Int, Room(u, span, limit)
  PROVE  Room(u, span, limit)'
  <1> SUFFICES ASSUME NEW b \in Int
               PROVE  Between(Held(u)', b - span, b)
                        + Cardinality(Cleared(u, b)') <= limit + Most(u)' - 1
    BY DEF Room
  <1>1. Most(u) \in Nat /\ Most(u)' \in Nat
    BY FiniteTables DEF Most
  <1>2. Cleared(u, b)' \in SUBSET Cleared(u, b)
    BY DEF Cleared
  <1>3. /\ Cardinality(Cleared(u, b)') \in Nat
        /\ Cardinality(Cleared(u, b)') <= Cardinality(Cleared(u, b))
        /\ Cardinality(Cleared(u, b)) \in Nat
    BY <1>2, ClearedLess, ClearedType
  <1>4. Between(Held(u), b - span, b) + Cardinality(Cleared(u, b))
          <= limit + Most(u) - 1
    BY DEF Room
  <1>5. Between(Held(u), b - span, b) \in Nat
    <2>1. Held(u) \in Seq(Int) /\ b - span \in Int
      BY HeldType
    <2> QED
      BY <2>1, BetweenType
  <1> QED
    BY <1>1, <1>3, <1>4, <1>5

(* A step that leaves the times held of u as they are and lets nothing of  *)
(* his through                                                             *)
LEMMA Steady ==
  ASSUME LimitsOK, Types, CallTypes, Types', CallTypes', NEW u \in Users,
         Kept(u), Held(u)' = Held(u), granted'[u] \in SUBSET granted[u],
         clock <= clock', Most(u) <= Most(u)',
         u \in dropped => u \in dropped', u \in reordered => u \in reordered',
         \A t \in Mine(u)' : \/ now'[t] = clock
                             \/ t \in Mine(u) /\ now'[t] = now[t],
         Owns(u)', Alone(u)', Room(u, Window, UserLimit)',
         u \notin reordered' => Room(u, BurstWindow, BurstLimit)'
  PROVE  Kept(u)'
  <1>1. /\ Held(u) \in Seq(Int) /\ clock \in Int /\ clock' \in Int
        /\ Window \in Int /\ BurstWindow \in Int /\ UserLimit \in Int
        /\ BurstLimit \in Int
    BY HeldType DEF Types, LimitsOK
  <1>2. Most(u) \in Nat /\ Most(u)' \in Nat
    BY FiniteTables DEF Most
  <1>3. IsFiniteSet(granted[u]) /\ granted[u] \in SUBSET (Int \X Int)
    BY DEF CallTypes
  <1>4. \A a \in Int : Counts(u, a)' => Counts(u, a)
    BY StillCounts
  <1>5. ASSUME NEW a \in Int, NEW b \in Int
        PROVE  /\ Among(granted'[u], a, b) <= Among(granted[u], a, b)
               /\ Among(granted'[u], a, b) \in Nat
               /\ Among(granted[u], a, b) \in Nat
               /\ Between(Held(u), a, b) \in Nat
    BY <1>1, <1>3, AmongType, BetweenType
  <1>6. Keeps(u)'
    <2> SUFFICES ASSUME u \notin dropped', NEW a \in Int, NEW b \in Int,
                        Counts(u, a)'
                 PROVE  Among(granted'[u], a, b) <= Between(Held(u)', a, b)
      BY DEF Keeps
    <2>1. Among(granted[u], a, b) <= Between(Held(u), a, b)
      BY <1>4 DEF Kept, Keeps
    <2> QED
      BY <1>5, <2>1
  <1>7. ASSUME NEW g \in granted'[u], NEW span \in Int, NEW limit \in Int,
               InSpan(u, g[1], span) <= limit + (Most(u) - 1)
        PROVE  InSpan(u, g[1], span)' <= limit + (Most(u)' - 1)
    <2>1. g[1] \in Int
      BY <1>3
    <2>2. /\ InSpan(u, g[1], span) = Among(granted[u], g[1] - span, g[1])
          /\ InSpan(u, g[1], span)' = Among(granted'[u], g[1] - span, g[1])
      BY DEF InSpan, Among
    <2>3. g[1] - span \in Int
      BY <2>1
    <2>4. /\ Among(granted'[u], g[1] - span, g[1])
               <= Among(granted[u], g[1] - span, g[1])
          /\ Among(granted'[u], g[1] - span, g[1]) \in Nat
          /\ Among(granted[u], g[1] - span, g[1]) \in Nat
      BY <1>5, <2>1, <2>3
    <2> QED
      BY <1>2, <1>7, <2>2, <2>4
  <1>8. Limited(u)'
    <2>1. \A g \in granted'[u] : g \in granted[u]
      OBVIOUS
    <2>2. u \notin dropped' => WindowKept(u, Most(u) - 1)'
      BY <1>1, <1>7, <2>1 DEF Kept, Limited, WindowKept
    <2>3. u \notin dropped' /\ u \notin reordered' => BurstKept(u, Most(u) - 1)'
      BY <1>1, <1>7, <2>1 DEF Kept, Limited, BurstKept
    <2> QED
      BY <2>2, <2>3 DEF Limited
  <1> QED
    BY <1>1, <1>6, <1>7, <1>8 DEF Kept

(* Both limits at once                                                     *)
LEMMA RoomsSteady ==
  ASSUME LimitsOK, Types, NEW u \in Users, Kept(u), Held(u)' = Held(u),
         Most(u) <= Most(u)', u \in reordered => u \in reordered',
         \A t \in Mine(u)' : Passed(t)' => /\ t \in Mine(u) /\ Passed(t)
                                           /\ now'[t] = now[t]
  PROVE  /\ Room(u, Window, UserLimit)'
         /\ u \notin reordered' => Room(u, BurstWindow, BurstLimit)'
  <1>1. /\ Window \in Int /\ BurstWindow \in Int /\ UserLimit \in Int
        /\ BurstLimit \in Int
    BY DEF LimitsOK
  <1>2. Room(u, Window, UserLimit)'
    BY <1>1, RoomSteady DEF Kept
  <1>3. ASSUME u \notin reordered' PROVE Room(u, BurstWindow, BurstLimit)'
    BY <1>1, <1>3, RoomSteady DEF Kept
  <1> QED
    BY <1>2, <1>3

(* The times of a user whose calls do not overlap stay in order.           *)
LEMMA AloneSteady ==
  ASSUME Types, Types', NEW u \in Users, Alone(u), Held(u)' = Held(u),
         clock <= clock', u \in shared => u \in shared',
         u \in dropped' => u \in dropped, u \in reordered' => u \in reordered,
         \A t \in Mine(u)' : /\ t \in Mine(u) /\ now'[t] = now[t]
                             /\ pc'[t] = "pop" =>
                                  \/ pc[t] = "pop"
                                  \/ /\ Held(u) # <<>>
                                     /\ Head(Held(u)) <= now[t] - Window
  PROVE  Alone(u)'
  <1> SUFFICES ASSUME u \notin shared, u \notin shared' PROVE Alone(u)'
    BY DEF Alone
  <1>1. clock \in Int /\ clock' \in Int /\ Held(u) \in Seq(Int)
    BY HeldType DEF Types
  <1>2. \A i \in 1..Len(Held(u)) : Held(u)[i] <= clock'
    <2> SUFFICES ASSUME NEW i \in 1..Len(Held(u)) PROVE Held(u)[i] <= clock'
      OBVIOUS
    <2>1. Held(u)[i] <= clock /\ Held(u)[i] \in Int
      BY <1>1 DEF Alone
    <2> QED
      BY <1>1, <2>1
  <1>3. \A i \in 1..Len(Held(u)), t \in Mine(u)' : Held(u)[i] <= now'[t]
    BY DEF Alone
  <1>4. \A t \in Mine(u)' : pc'[t] = "pop" =>
          Held(u) # <<>> /\ Head(Held(u)) <= now'[t] - Window
    BY DEF Alone
  <1>5. \A s, t \in Mine(u)' : s = t
    BY DEF Alone
  <1>6. u \notin dropped' /\ u \notin reordered'
    BY DEF Alone
  <1> QED
    BY <1>2, <1>3, <1>4, <1>5, <1>6 DEF Alone

(* The end of a call, for a user who stays in the table                    *)
LEMMA LeaveKeeps ==
  ASSUME LimitsOK, Types, CallTypes, OwnCalls, Types', CallTypes',
         NEW t \in Active, NEW D, Leave(t, D),
         \A u \in Users : D[u] \in {deque[u], 0},
         NEW u \in Users, D[u] = deque[u], Kept(u),
         UNCHANGED <<clock, granted, shared, dropped, reordered>>
  PROVE  Kept(u)'
  <1>1. /\ Active' = Active \ {t} /\ Held(u)' = Held(u)
        /\ \A s \in Active' : /\ pc'[s] = pc[s] /\ user'[s] = user[s]
                              /\ now'[s] = now[s] /\ events'[s] = events[s]
                              /\ scanned'[s] = scanned[s]
    BY LeaveCalls
  <1>2. \A s \in Mine(u)' : s \in Mine(u) /\ s \in Active'
    BY <1>1 DEF Mine
  <1>3. \A s \in Mine(u)' : Passed(s)' => Passed(s)
    BY <1>1, <1>2 DEF Passed, Bursts
  <1>4. Owns(u)'
    <2>1. deque'[u] = deque[u]
      BY DEF Leave
    <2> QED
      BY <1>1, <1>2, <2>1 DEF Kept, Owns
  <1>5. clock \in Int /\ clock <= clock' /\ Most(u)' = Most(u)
    BY DEF Types, Most
  <1>6. Alone(u)'
    BY <1>1, <1>2, <1>5, AloneSteady DEF Kept
  <1>7. Most(u) <= Most(u)'
    BY <1>5, FiniteTables DEF Most
  <1> QED
    BY <1>1, <1>2, <1>3, <1>4, <1>5, <1>6, <1>7, Steady, RoomsSteady

(* A step within a call that changes nothing of what is held of u         *)
LEMMA GoKeeps ==
  ASSUME LimitsOK, Types, CallTypes, Types', CallTypes',
         NEW t \in Active, NEW there, Go(t, there), there # "idle",
         UNCHANGED <<clock, deque, user, now, events, shared>>,
         \A s \in Threads \ {t} : scanned'[s] = scanned[s],
         NEW u \in Users, Kept(u), Held(u)' = Held(u), granted'[u] = granted[u],
         u \in dropped' <=> u \in dropped, u \in reordered' <=> u \in reordered,
         t \in Mine(u) /\ Passed(t)' => Passed(t),
         t \in Mine(u) /\ there = "pop" =>
           Held(u) # <<>> /\ Head(Held(u)) <= now[t] - Window
  PROVE  Kept(u)'
  <1>1. /\ Active' = Active /\ Mine(u)' = Mine(u)
        /\ pc'[t] = there /\ \A s \in Threads \ {t} : pc'[s] = pc[s]
    BY DEF Go, Active, Mine, Types
  <1>2. \A s \in Mine(u) : s # t => (Passed(s)' => Passed(s))
    BY <1>1 DEF Passed, Bursts, Mine, Active
  <1>3. \A s \in Mine(u)' : Passed(s)' => Passed(s)
    BY <1>1, <1>2
  <1>4. Owns(u)'
    BY <1>1 DEF Kept, Owns
  <1>5. clock \in Int /\ clock <= clock' /\ Most(u)' = Most(u)
    BY DEF Types, Most
  <1>6. \A s \in Mine(u)' : pc'[s] = "pop" =>
          \/ pc[s] = "pop"
          \/ Held(u) # <<>> /\ Head(Held(u)) <= now[s] - Window
    BY <1>1 DEF Mine, Active
  <1>7. Alone(u)'
    BY <1>1, <1>5, <1>6, AloneSteady DEF Kept
  <1>8. Most(u) <= Most(u)'
    BY <1>5, FiniteTables DEF Most
  <1> QED
    BY <1>1, <1>3, <1>4, <1>5, <1>7, <1>8, Steady, RoomsSteady

(* Time passes.                                                            *)
LEMMA TickKeeps ==
  ASSUME LimitsOK, Types, CallTypes, Types', CallTypes', Tick,
         NEW u \in Users, Kept(u)
  PROVE  Kept(u)'
  <1>1. /\ Active' = Active /\ Mine(u)' = Mine(u) /\ Held(u)' = Held(u)
        /\ \A t \in Mine(u) : Passed(t)' = Passed(t)
        /\ now' = now /\ pc' = pc
    BY DEF Tick, Active, Mine, Held, Passed, Bursts
  <1>2. granted'[u] \in SUBSET granted[u]
    BY DEF Tick, Noted
  <1>3. clock' = clock + 1 /\ clock \in Nat /\ clock <= clock'
    BY DEF Tick, CallTypes
  <1>4. Most(u)' = Most(u) /\ Most(u) <= Most(u)'
    BY FiniteTables DEF Tick, Most
  <1>5. shared' = shared /\ dropped' = dropped /\ reordered' = reordered
    BY DEF Tick
  <1>6. Owns(u)'
    <2>1. deque' = deque /\ events' = events
      BY DEF Tick
    <2>2. deque'[u] = 0 => granted'[u] = {}
      BY <1>2, <2>1 DEF Kept, Owns
    <2> QED
      BY <1>1, <2>1, <2>2 DEF Kept, Owns
  <1>7. Alone(u)'
    BY <1>1, <1>3, <1>5, AloneSteady DEF Kept
  <1>8. /\ Room(u, Window, UserLimit)'
        /\ u \notin reordered' => Room(u, BurstWindow, BurstLimit)'
    BY <1>1, <1>4, <1>5, RoomsSteady
  <1> QED
    BY <1>1, <1>2, <1>3, <1>4, <1>5, <1>6, <1>7, <1>8, Steady

(* A request comes, of u or of another user.                               *)
LEMMA EnterKept ==
  ASSUME LimitsOK, Types, Separate, CallTypes, OwnCalls, Types', CallTypes',
         NEW t \in Threads, NEW v \in Users, Enter(t, v),
         NEW u \in Users, Kept(u)
  PROVE  Kept(u)'
  <1>1. /\ t \notin Active /\ Active' = Active \cup {t}
        /\ \A s \in Active : /\ pc'[s] = pc[s] /\ user'[s] = user[s]
                             /\ now'[s] = now[s] /\ events'[s] = events[s]
        /\ pc'[t] = "prune" /\ now'[t] = clock /\ user'[t] = v
        /\ events'[t] = deque'[v] /\ scanned' = scanned
        /\ Held(u)' = Held(u)
        /\ u # v => deque'[u] = deque[u]
        /\ deque[v] # 0 => deque' = deque
    BY EnterCalls
  <1>2. /\ clock' = clock /\ granted' = granted /\ dropped' = dropped
        /\ reordered' = reordered
        /\ shared' = IF \E s \in Active : user[s] = v THEN shared \cup {v}
                     ELSE shared
    BY DEF Enter
  <1>3. /\ u # v => Mine(u)' = Mine(u)
        /\ u = v => Mine(u)' = Mine(u) \cup {t}
    BY <1>1 DEF Mine
  <1>4. \A s \in Mine(u) : s \in Active /\ s # t /\ now'[s] = now[s]
    BY <1>1 DEF Mine
  <1>5. clock \in Nat /\ clock <= clock'
    BY <1>2 DEF CallTypes
  <1>6. Most(u) <= Most(u)'
    <2>1. Cardinality(Threads) \in Nat /\ Cardinality(Threads) # 0
      <3>1. Threads # {}
        OBVIOUS
      <3> QED
        BY <3>1, FiniteTables, FS_EmptySet
    <2>2. u \in shared => u \in shared'
      BY <1>2
    <2> QED
      BY <2>1, <2>2 DEF Most
  <1>7. \A s \in Mine(u)' : \/ now'[s] = clock
                            \/ s \in Mine(u) /\ now'[s] = now[s]
    BY <1>1, <1>3, <1>4
  <1>8. \A s \in Mine(u)' : Passed(s)' => /\ s \in Mine(u) /\ Passed(s)
                                          /\ now'[s] = now[s]
    BY <1>1, <1>3, <1>4 DEF Passed, Bursts
  <1>9. Owns(u)'
    <2>1. CASE u # v
      BY <1>1, <1>2, <1>3, <1>4, <2>1 DEF Kept, Owns
    <2>2. CASE u = v
      <3>1. deque'[u] # 0
        BY <1>1, <2>2 DEF Types
      <3>2. ASSUME NEW s \in Mine(u) PROVE events'[s] = deque'[u]
        <4>1. events[s] = deque[u] /\ events[s] # 0
          BY <1>4 DEF Kept, Owns, Types
        <4> QED
          BY <1>1, <1>4, <2>2, <4>1
      <3> QED
        BY <1>1, <1>3, <2>2, <3>1, <3>2 DEF Owns
    <2> QED
      BY <2>1, <2>2
  <1>10. Alone(u)'
    <2>1. CASE u # v
      BY <1>1, <1>2, <1>3, <1>4, <1>5, <2>1, AloneSteady DEF Kept
    <2>2. CASE u = v
      <3> SUFFICES ASSUME u \notin shared' PROVE Alone(u)'
        BY DEF Alone
      <3>1. u \notin shared /\ Mine(u) = {}
        BY <1>2, <2>2 DEF Mine
      <3>2. Mine(u)' = {t}
        BY <1>3, <2>2, <3>1
      <3>3. \A i \in 1..Len(Held(u)) : Held(u)[i] <= clock
        BY <3>1 DEF Kept, Alone
      <3>4. u \notin dropped' /\ u \notin reordered'
        BY <1>2, <3>1 DEF Kept, Alone
      <3> QED
        BY <1>1, <1>2, <3>2, <3>3, <3>4 DEF Alone
    <2> QED
      BY <2>1, <2>2
  <1>11. /\ Room(u, Window, UserLimit)'
         /\ u \notin reordered' => Room(u, BurstWindow, BurstLimit)'
    BY <1>1, <1>2, <1>6, <1>8, RoomsSteady
  <1> QED
    BY <1>1, <1>2, <1>5, <1>6, <1>7, <1>9, <1>10, <1>11, Steady

(* A call looks whether the first time is due.                             *)
LEMMA PruneKept ==
  ASSUME LimitsOK, Types, CallTypes, Types', CallTypes',
         NEW t \in Threads, Prune(t), NEW u \in Users, Kept(u)
  PROVE  Kept(u)'
  <1>1. t \in Active
    BY DEF Prune, Active
  <1>2. PICK there \in {"pop", "check"} :
          Go(t, there) /\ (there = "pop" => Expired(t))
    BY DEF Prune
  <1>3. pc'[t] = there
    BY <1>2 DEF Go, Types
  <1>4. ~Passed(t)'
    BY <1>3 DEF Passed
  <1>5. ASSUME t \in Mine(u), there = "pop"
        PROVE  Held(u) # <<>> /\ Head(Held(u)) <= now[t] - Window
    <2>1. Held(u) = Times(t)
      BY <1>1, <1>5 DEF Kept, Owns, Held, Times, Types
    <2> QED
      BY <1>2, <1>5, <2>1 DEF Expired
  <1>6. Held(u)' = Held(u)
    BY DEF Prune, Held
  <1> QED
    BY <1>1, <1>2, <1>4, <1>5, <1>6, GoKeeps DEF Prune

(* A call of u works on what is held of u,                                 *)
LEMMA OwnTimes ==
  ASSUME Types, NEW u \in Users, Owns(u), NEW t \in Mine(u)
  PROVE  /\ t \in Active /\ t \in Threads /\ user[t] = u
         /\ deque[u] = events[t] /\ events[t] \in Deques /\ events[t] # 0
         /\ Held(u) = Times(t)
  BY DEF Owns, Mine, Active, Held, Times, Types

(* and other calls do not.                                                 *)
LEMMA OtherHeld ==
  ASSUME Types, OwnCalls, NEW t \in Active, NEW u \in Users, t \notin Mine(u),
         deque' = deque, NEW s, times' = [times EXCEPT ![events[t]] = s]
  PROVE  Held(u)' = Held(u)
  <1>1. deque[u] # events[t]
    BY DEF OwnCalls, Mine
  <1>2. deque[u] # 0 => times'[deque[u]] = times[deque[u]]
    BY <1>1 DEF Types
  <1> QED
    BY <1>2 DEF Held

(* A user has no more calls than there may be.                             *)
LEMMA MineType ==
  ASSUME LimitsOK, NEW u \in Users, Alone(u)
  PROVE  \A S \in SUBSET Mine(u) : /\ Cardinality(S) \in Nat
                                   /\ Cardinality(S) <= Most(u)
  <1> SUFFICES ASSUME NEW S \in SUBSET Mine(u)
               PROVE  Cardinality(S) \in Nat /\ Cardinality(S) <= Most(u)
    OBVIOUS
  <1>1. S \in SUBSET Threads
    BY DEF Mine, Active
  <1>2. Cardinality(S) \in Nat /\ Cardinality(S) <= Cardinality(Threads)
    BY <1>1, FiniteTables, FS_Subset, FS_CardinalityType
  <1>3. ASSUME u \notin shared
        PROVE  Cardinality(S) <= 1
    <2>1. \A s, t \in S : s = t
      BY <1>3 DEF Alone
    <2>2. CASE S = {}
      BY <2>2, FS_EmptySet
    <2>3. CASE S # {}
      <3>1. PICK t \in S : TRUE
        BY <2>3
      <3>2. S = {t}
        BY <2>1, <3>1
      <3>3. Cardinality({t}) = 1
        BY FS_Singleton
      <3> QED
        BY <3>2, <3>3
    <2> QED
      BY <2>2, <2>3
  <1> QED
    BY <1>2, <1>3 DEF Most

(* A call that finds too many times ends; one that does not passes, if it  *)
(* finds few enough in the burst as well.                                  *)
LEMMA CheckKept ==
  ASSUME LimitsOK, Types, CallTypes, OwnCalls, Types', CallTypes',
         NEW t \in Threads, Check(t), NEW u \in Users, Kept(u)
  PROVE  Kept(u)'
  <1>1. t \in Active /\ pc[t] = "check" /\ ~Passed(t)
    BY DEF Check, Active, Passed
  <1>2. UNCHANGED <<clock, granted, shared, dropped, reordered>>
    BY DEF Check
  <1>3. CASE Leave(t, deque)
    BY <1>1, <1>2, <1>3, LeaveKeeps
  <1>4. CASE /\ Len(Times(t)) < UserLimit /\ Go(t, "scan") /\ Stay
             /\ scanned' = [scanned EXCEPT ![t] = Times(t)] /\ times' = times
    <2>1. /\ Held(u)' = Held(u) /\ granted'[u] = granted[u]
          /\ \A s \in Threads \ {t} : scanned'[s] = scanned[s]
          /\ UNCHANGED <<clock, deque, user, now, events, shared>>
          /\ pc'[t] = "scan" /\ scanned'[t] = Times(t) /\ now' = now
          /\ u \in dropped' <=> u \in dropped
          /\ u \in reordered' <=> u \in reordered
      BY <1>1, <1>2, <1>4 DEF Held, Stay, Go, Types
    <2>2. CASE t \notin Mine(u) \/ ~Passed(t)'
      BY <1>1, <1>4, <2>1, <2>2, GoKeeps
    <2>3. CASE t \in Mine(u) /\ Passed(t)'
      <3>1. /\ Active' = Active /\ Mine(u)' = Mine(u)
            /\ \A s \in Threads \ {t} : pc'[s] = pc[s]
        BY <1>1, <1>4, <2>1 DEF Go, Active, Mine, Types
      <3>2. Held(u) = Times(t) /\ Held(u) \in Seq(Int)
        BY <2>3, OwnTimes, HeldType DEF Kept
      <3>3. Owns(u)'
        BY <2>1, <3>1 DEF Kept, Owns
      <3>4. /\ clock \in Nat /\ clock <= clock' /\ Most(u)' = Most(u)
            /\ Most(u) \in Nat /\ Most(u) <= Most(u)'
        BY <2>1, FiniteTables DEF CallTypes, Most
      <3>5. \A s \in Mine(u)' : pc'[s] = "pop" => pc[s] = "pop"
        BY <2>1, <3>1 DEF Mine, Active
      <3>6. Alone(u)'
        BY <2>1, <3>1, <3>4, <3>5, AloneSteady DEF Kept
      <3>7. /\ now[t] \in Int /\ UserLimit \in Int /\ BurstLimit \in Int
            /\ Window \in Int /\ BurstWindow \in Int
        BY DEF Types, LimitsOK
      <3>8. \A b \in Int : now[t] > b => Cleared(u, b)' \in SUBSET Cleared(u, b)
        <4> SUFFICES ASSUME NEW b \in Int, now[t] > b, NEW s \in Cleared(u, b)'
                     PROVE  s \in Cleared(u, b)
          OBVIOUS
        <4>1. s \in Mine(u) /\ now[s] <= b /\ Passed(s)' /\ s # t
          BY <2>1, <3>1, <3>7 DEF Cleared
        <4>2. Passed(s)
          BY <2>1, <3>1, <4>1 DEF Passed, Bursts, Mine, Active
        <4> QED
          BY <4>1, <4>2 DEF Cleared
      <3>9. ASSUME NEW span \in Int, NEW limit \in Int, Room(u, span, limit),
                   \A b \in Int : now[t] <= b =>
                     Between(Held(u), b - span, b) <= limit - 1
            PROVE  Room(u, span, limit)'
        <4> SUFFICES ASSUME NEW b \in Int
                     PROVE  Between(Held(u), b - span, b)
                              + Cardinality(Cleared(u, b)') <= limit + Most(u) - 1
          BY <2>1, <3>4 DEF Room
        <4>1. b - span \in Int
          OBVIOUS
        <4>2. Between(Held(u), b - span, b) \in Nat
          BY <3>2, <4>1, BetweenType
        <4>3. CASE now[t] > b
          <5>1. /\ Cardinality(Cleared(u, b)') \in Nat
                /\ Cardinality(Cleared(u, b)') <= Cardinality(Cleared(u, b))
                /\ Cardinality(Cleared(u, b)) \in Nat
            BY <3>8, <4>3, ClearedLess, ClearedType
          <5>2. Between(Held(u), b - span, b) + Cardinality(Cleared(u, b))
                  <= limit + Most(u) - 1
            BY <3>9 DEF Room
          <5> QED
            BY <3>4, <4>2, <5>1, <5>2
        <4>4. CASE now[t] <= b
          <5>1. Cleared(u, b)' \in SUBSET Mine(u)
            BY <3>1 DEF Cleared
          <5>2. /\ Cardinality(Cleared(u, b)') \in Nat
                /\ Cardinality(Cleared(u, b)') <= Most(u)
            BY <5>1, MineType DEF Kept
          <5>3. Between(Held(u), b - span, b) <= limit - 1
            BY <3>9, <4>4
          <5> QED
            BY <3>4, <4>2, <5>2, <5>3
        <4> QED
          BY <3>7, <4>3, <4>4
      <3>10. Room(u, Window, UserLimit)'
        <4>1. ASSUME NEW b \in Int
              PROVE  Between(Held(u), b - Window, b) <= UserLimit - 1
          <5>1. b - Window \in Int
            BY <3>7
          <5>2. /\ Between(Held(u), b - Window, b) <= Len(Held(u))
                /\ Between(Held(u), b - Window, b) \in Nat
            BY <3>2, <5>1, BetweenType
          <5>3. Len(Held(u)) < UserLimit /\ Len(Held(u)) \in Nat
            BY <1>4, <3>2
          <5> QED
            BY <3>7, <5>2, <5>3
        <4> QED
          BY <3>7, <3>9, <4>1 DEF Kept
      <3>11. ASSUME u \notin reordered'
             PROVE  Room(u, BurstWindow, BurstLimit)'
        <4>1. Rising(Held(u)) /\ Room(u, BurstWindow, BurstLimit)
          BY <2>1, <3>11 DEF Kept
        <4>2. ~(Recent(Held(u), now[t]) >= BurstLimit)
          BY <2>1, <2>3, <3>2 DEF Passed, Bursts
        <4>3. ASSUME NEW b \in Int, now[t] <= b
              PROVE  Between(Held(u), b - BurstWindow, b) <= BurstLimit - 1
          <5>1. /\ Between(Held(u), b - BurstWindow, b) <= Recent(Held(u), now[t])
                /\ Recent(Held(u), now[t]) \in Nat
            BY <3>2, <3>7, <4>1, <4>3, RecentRising
          <5>2. b - BurstWindow \in Int
            BY <3>7
          <5>3. Between(Held(u), b - BurstWindow, b) \in Nat
            BY <3>2, <5>2, BetweenType
          <5> QED
            BY <3>7, <4>2, <5>1, <5>3
        <4> QED
          BY <3>7, <3>9, <4>1, <4>3
      <3> QED
        BY <2>1, <3>1, <3>3, <3>4, <3>6, <3>10, <3>11, Steady
    <2> QED
      BY <2>2, <2>3
  <1>5. Len(Times(t)) \in Nat /\ UserLimit \in Nat
    BY <1>1, TimesType DEF LimitsOK
  <1> QED
    BY <1>3, <1>4, <1>5 DEF Check

(* A call takes the first time off the deque.                              *)
LEMMA PopKept ==
  ASSUME LimitsOK, Types, CallTypes, OwnCalls, Types', CallTypes',
         NEW t \in Threads, Pop(t), NEW u \in Users, Kept(u)
  PROVE  Kept(u)'
  <1>1. t \in Active /\ pc[t] = "pop" /\ ~Passed(t)
    BY DEF Pop, Active, Passed
  <1>2. UNCHANGED <<clock, granted, shared, reordered>>
    BY DEF Pop
  <1>3. CASE Times(t) = <<>>
    <2>1. Leave(t, deque) /\ dropped' = dropped
      BY <1>3 DEF Pop
    <2> QED
      BY <1>1, <1>2, <2>1, LeaveKeeps
  <1>4. CASE Times(t) # <<>>
    <2>1. /\ Go(t, "prune") /\ Stay /\ scanned' = scanned
          /\ times' = [times EXCEPT ![events[t]] = Tail(@)]
          /\ dropped' = IF \E s \in Active : /\ user[s] = user[t]
                                            /\ Head(Times(t)) > now[s] - Window
                        THEN dropped \cup {user[t]} ELSE dropped
      BY <1>4 DEF Pop
    <2>2. /\ pc'[t] = "prune" /\ \A s \in Threads \ {t} : pc'[s] = pc[s]
          /\ UNCHANGED <<clock, deque, user, now, events, shared>> /\ ~Passed(t)'
      BY <1>2, <2>1 DEF Go, Stay, Types, Passed
    <2>3. CASE t \notin Mine(u)
      <3>1. Held(u)' = Held(u)
        BY <1>1, <2>1, <2>2, <2>3, OtherHeld
      <3>2. u \in dropped' <=> u \in dropped
        BY <1>1, <2>1, <2>3 DEF Mine
      <3> QED
        BY <1>1, <1>2, <2>1, <2>2, <2>3, <3>1, <3>2, GoKeeps
    <2>4. CASE t \in Mine(u)
      <3>1. /\ Active' = Active /\ Mine(u)' = Mine(u)
        BY <1>1, <2>2 DEF Active, Mine
      <3>2. /\ Held(u) = Times(t) /\ Held(u) \in Seq(Int) /\ Held(u) # <<>>
            /\ deque[u] = events[t] /\ events[t] \in Deques /\ events[t] # 0
            /\ user[t] = u
        BY <1>4, <2>4, OwnTimes, HeldType DEF Kept
      <3>3. Held(u)' = Tail(Held(u))
        BY <2>1, <2>2, <3>2 DEF Held, Times, Types
      <3> DEFINE s == Held(u)
      <3>4. /\ Tail(s) \in Seq(Int) /\ Head(s) = s[1] /\ s[1] \in Int
            /\ Len(Tail(s)) = Len(s) - 1 /\ Len(s) \in Nat \ {0}
            /\ \A i \in 1..Len(Tail(s)) : Tail(s)[i] = s[i + 1]
        BY <3>2
      <3>5. /\ clock \in Nat /\ Most(u)' = Most(u) /\ Most(u) \in Nat
            /\ Window \in Int /\ BurstWindow \in Int /\ UserLimit \in Int
            /\ BurstLimit \in Int /\ \A r \in Mine(u) : now[r] \in 0..clock
        BY <1>2, FiniteTables DEF CallTypes, Most, Mine, LimitsOK
      <3>6. u \in dropped => u \in dropped'
        BY <2>1
      <3>7. u \notin dropped' => \A r \in Mine(u) : Head(s) <= now[r] - Window
        <4> SUFFICES ASSUME u \notin dropped', NEW r \in Mine(u)
                     PROVE  Head(s) <= now[r] - Window
          OBVIOUS
        <4>1. r \in Active /\ user[r] = user[t]
          BY <3>2 DEF Mine
        <4>2. ~(Head(s) > now[r] - Window)
          BY <2>1, <3>2, <4>1
        <4>3. now[r] \in Int
          BY <3>5
        <4> QED
          BY <3>4, <3>5, <4>2, <4>3
      <3>8. Owns(u)'
        BY <1>2, <2>2, <3>1 DEF Kept, Owns
      <3>9. Keeps(u)'
        <4> SUFFICES ASSUME u \notin dropped', NEW a \in Int, NEW b \in Int,
                            Counts(u, a)'
                     PROVE  Among(granted'[u], a, b) <= Between(Tail(s), a, b)
          BY <3>3 DEF Keeps
        <4>1. Counts(u, a)
          BY <2>2, <3>1 DEF Counts
        <4>2. Head(s) <= a
          <5>1. \A r \in Mine(u) : a >= now[r] - Window => Head(s) <= a
            BY <3>4, <3>5, <3>7
          <5>2. a >= clock - Window => Head(s) <= a
            BY <2>4, <3>4, <3>5, <3>7
          <5> QED
            BY <4>1, <5>1, <5>2 DEF Counts
        <4>3. Between(s, a, b) <= Between(Tail(s), a, b)
          BY <3>2, <4>2, BetweenTail
        <4>4. Among(granted[u], a, b) <= Between(s, a, b)
          BY <3>6, <4>1 DEF Kept, Keeps
        <4>5. Between(s, a, b) \in Nat /\ Between(Tail(s), a, b) \in Nat
          BY <3>2, <3>4, BetweenType
        <4>6. Among(granted[u], a, b) \in Nat
          BY AmongType DEF CallTypes
        <4> HIDE DEF s
        <4> QED
          BY <1>2, <4>3, <4>4, <4>5, <4>6
      <3>10. ASSUME NEW span \in Int, NEW limit \in Int, Room(u, span, limit)
             PROVE  Room(u, span, limit)'
        <4> SUFFICES ASSUME NEW b \in Int
                     PROVE  Between(Tail(s), b - span, b)
                              + Cardinality(Cleared(u, b)') <= limit + Most(u) - 1
          BY <3>3, <3>5 DEF Room
        <4>1. Cleared(u, b)' \in SUBSET Cleared(u, b)
          BY <2>1, <2>2, <3>1 DEF Cleared, Passed, Bursts, Mine, Active
        <4>2. /\ Cardinality(Cleared(u, b)') \in Nat
              /\ Cardinality(Cleared(u, b)') <= Cardinality(Cleared(u, b))
              /\ Cardinality(Cleared(u, b)) \in Nat
          BY <4>1, ClearedLess, ClearedType
        <4>3. Between(s, b - span, b) + Cardinality(Cleared(u, b))
                <= limit + Most(u) - 1
          BY <3>10 DEF Room
        <4>4. b - span \in Int
          OBVIOUS
        <4>5. /\ Between(Tail(s), b - span, b) <= Between(s, b - span, b)
              /\ Between(s, b - span, b) \in Nat
              /\ Between(Tail(s), b - span, b) \in Nat
          BY <3>2, <3>4, <4>4, BetweenTail, BetweenType
        <4> HIDE DEF s
        <4> QED
          BY <3>5, <4>2, <4>3, <4>5
      <3>11. Rising(s) => Rising(Tail(s))
        BY <3>4 DEF Rising
      <3>12. Alone(u)'
        <4> SUFFICES ASSUME u \notin shared' PROVE Alone(u)'
          BY DEF Alone
        <4>1. /\ u \notin shared /\ u \notin dropped /\ u \notin reordered
              /\ \A q, r \in Mine(u) : q = r
              /\ \A i \in 1..Len(s) : /\ s[i] <= clock
                                      /\ \A r \in Mine(u) : s[i] <= now[r]
              /\ Head(s) <= now[t] - Window
          BY <1>1, <1>2, <2>4 DEF Kept, Alone
        <4>2. u \notin dropped'
          <5>1. ASSUME NEW r \in Active, user[r] = user[t]
                PROVE  ~(Head(Times(t)) > now[r] - Window)
            <6>1. r = t
              BY <2>4, <3>2, <4>1, <5>1 DEF Mine
            <6> QED
              BY <2>4, <3>2, <3>4, <3>5, <4>1, <6>1
          <5> QED
            BY <2>1, <4>1, <5>1
        <4>3. \A i \in 1..Len(Tail(s)) :
                /\ Tail(s)[i] <= clock
                /\ \A r \in Mine(u) : Tail(s)[i] <= now[r]
          BY <3>4, <4>1
        <4>4. \A r \in Mine(u) : pc'[r] # "pop"
          BY <2>2, <2>4, <4>1
        <4> QED
          BY <1>2, <2>2, <3>1, <3>3, <4>1, <4>2, <4>3, <4>4 DEF Alone
      <3>13. Limited(u)'
        <4>1. \A g, span : InSpan(u, g, span)' = InSpan(u, g, span)
          BY <1>2 DEF InSpan
        <4>2. (u \notin dropped' => WindowKept(u, Most(u) - 1)')
          BY <1>2, <3>5, <3>6, <4>1 DEF Kept, Limited, WindowKept
        <4>3. (u \notin dropped' /\ u \notin reordered'
                 => BurstKept(u, Most(u) - 1)')
          BY <1>2, <3>5, <3>6, <4>1 DEF Kept, Limited, BurstKept
        <4> QED
          BY <4>2, <4>3 DEF Limited
      <3>14. Room(u, Window, UserLimit)'
        BY <3>5, <3>10 DEF Kept
      <3>15. u \notin reordered' =>
               Rising(Held(u))' /\ Room(u, BurstWindow, BurstLimit)'
        <4>1. u \notin reordered' => Room(u, BurstWindow, BurstLimit)'
          BY <1>2, <3>5, <3>10 DEF Kept
        <4>2. u \notin reordered' => Rising(Held(u))'
          BY <1>2, <3>3, <3>11 DEF Kept, Rising
        <4> QED
          BY <4>1, <4>2
      <3> QED
        BY <3>8, <3>9, <3>12, <3>13, <3>14, <3>15 DEF Kept
    <2> QED
      BY <2>3, <2>4
  <1> QED
    BY <1>3, <1>4

(* A call counts the times in the burst, or finds that they changed.       *)
LEMMA ScanKept ==
  ASSUME LimitsOK, Types, CallTypes, OwnCalls, Types', CallTypes',
         NEW t \in Threads, Scan(t) \/ ScanRaises(t), NEW u \in Users, Kept(u)
  PROVE  Kept(u)'
  <1>1. t \in Active /\ pc[t] = "scan"
    BY DEF Scan, ScanRaises, Active
  <1>2. UNCHANGED <<clock, granted, shared, dropped, reordered>>
    BY DEF Scan, ScanRaises
  <1>3. CASE Leave(t, deque)
    BY <1>1, <1>2, <1>3, LeaveKeeps
  <1>4. CASE /\ ~Bursts(t) /\ Go(t, "append") /\ Stay
             /\ scanned' = [scanned EXCEPT ![t] = <<>>] /\ times' = times
    <2>1. /\ Held(u)' = Held(u) /\ granted'[u] = granted[u]
          /\ \A s \in Threads \ {t} : scanned'[s] = scanned[s]
          /\ UNCHANGED <<clock, deque, user, now, events, shared>>
          /\ u \in dropped' <=> u \in dropped
          /\ u \in reordered' <=> u \in reordered
      BY <1>1, <1>2, <1>4 DEF Held, Stay, Types
    <2>2. Passed(t)
      BY <1>1, <1>4 DEF Passed
    <2> QED
      BY <1>1, <1>4, <2>1, <2>2, GoKeeps
  <1> QED
    BY <1>3, <1>4 DEF Scan, ScanRaises

(* Users too many are forgotten.                                           *)
LEMMA CleanupKept ==
  ASSUME LimitsOK, Types, CallTypes, OwnCalls, Types', CallTypes',
         NEW t \in Threads, Cleanup(t), NEW u \in Users \ evicted', Kept(u)
  PROVE  Kept(u)'
  <1>1. t \in Active
    BY DEF Cleanup, Active
  <1>2. PICK gone \in SUBSET Stored :
          /\ Leave(t, [v \in Users |-> IF v \in gone THEN 0 ELSE deque[v]])
          /\ evicted' = evicted \cup gone
    BY DEF Cleanup
  <1> DEFINE D == [v \in Users |-> IF v \in gone THEN 0 ELSE deque[v]]
  <1>3. D[u] = deque[u] /\ \A v \in Users : D[v] \in {deque[v], 0}
    BY <1>2
  <1>4. UNCHANGED <<clock, granted, shared, dropped, reordered>>
    BY DEF Cleanup
  <1> HIDE DEF D
  <1>5. Leave(t, D)
    BY <1>2 DEF D
  <1> QED
    BY <1>1, <1>3, <1>4, <1>5, LeaveKeeps

(* A time at the end that is not before the last one                       *)
LEMMA RisingAppend ==
  ASSUME NEW s \in Seq(Int), Rising(s), NEW n \in Int, ~(n < Latest(s))
  PROVE  Rising(Append(s, n))
  <1>1. /\ Len(Append(s, n)) = Len(s) + 1 /\ Append(s, n)[Len(s) + 1] = n
        /\ Len(s) \in Nat
        /\ \A i \in 1..Len(s) : Append(s, n)[i] = s[i] /\ s[i] \in Int
    OBVIOUS
  <1>2. ASSUME NEW i \in 1..Len(s) PROVE s[i] <= n
    <2>1. s # <<>> /\ Len(s) \in 1..Len(s) /\ i <= Len(s)
      BY <1>1
    <2>2. Latest(s) = s[Len(s)] /\ s[i] <= s[Len(s)]
      BY <2>1 DEF Latest, Rising
    <2> QED
      BY <1>1, <2>1, <2>2
  <1> SUFFICES ASSUME NEW i \in 1..Len(s) + 1, NEW j \in 1..Len(s) + 1, i <= j
               PROVE  Append(s, n)[i] <= Append(s, n)[j]
    BY <1>1 DEF Rising
  <1>3. CASE j \in 1..Len(s)
    <2>1. i \in 1..Len(s) /\ s[i] <= s[j]
      BY <1>1, <1>3 DEF Rising
    <2> QED
      BY <1>1, <1>3, <2>1
  <1>4. CASE j = Len(s) + 1
    <2>1. i \in 1..Len(s) \/ i = Len(s) + 1
      BY <1>1
    <2> QED
      BY <1>1, <1>2, <1>4, <2>1
  <1> QED
    BY <1>1, <1>3, <1>4

(* The request of a call that passed the checks is let through.            *)
LEMMA RegisterKept ==
  ASSUME LimitsOK, Types, CallTypes, OwnCalls, Types', CallTypes',
         NEW t \in Threads, Register(t), NEW u \in Users, Kept(u)
  PROVE  Kept(u)'
  <1>1. /\ t \in Active /\ pc[t] = "append" /\ Passed(t) /\ Go(t, "cleanup")
        /\ times' = [times EXCEPT ![events[t]] = Append(@, now[t])]
        /\ granted' = [granted EXCEPT ![user[t]] = Grant(@, now[t])]
        /\ reordered' = IF now[t] < Latest(Times(t)) THEN reordered \cup {user[t]}
                        ELSE reordered
        /\ UNCHANGED <<clock, deque, user, now, events, scanned, shared, dropped>>
    BY DEF Register, Active, Passed
  <1>2. pc'[t] = "cleanup" /\ \A s \in Threads \ {t} : pc'[s] = pc[s]
    BY <1>1 DEF Go, Types
  <1>3. CASE t \notin Mine(u)
    <2>1. Held(u)' = Held(u)
      BY <1>1, <1>3, OtherHeld
    <2>2. user[t] # u
      BY <1>1, <1>3 DEF Mine
    <2>3. granted'[u] = granted[u] /\ (u \in reordered' <=> u \in reordered)
      BY <1>1, <2>2 DEF CallTypes
    <2> QED
      BY <1>1, <1>3, <2>1, <2>3, GoKeeps
  <1>4. CASE t \in Mine(u)
    <2> DEFINE s == Held(u)
               n == now[t]
               S == granted[u]
    <2>1. Active' = Active /\ Mine(u)' = Mine(u)
      BY <1>1, <1>2 DEF Active, Mine
    <2>2. /\ s = Times(t) /\ s \in Seq(Int) /\ user[t] = u
          /\ deque[u] = events[t] /\ events[t] \in Deques /\ events[t] # 0
      BY <1>4, OwnTimes, HeldType DEF Kept
    <2>3. Held(u)' = Append(s, n)
      BY <1>1, <2>2 DEF Held, Times, Types
    <2>4. granted'[u] = Grant(S, n)
      BY <1>1, <2>2 DEF CallTypes
    <2>5. /\ n \in Nat /\ clock \in Nat /\ n <= clock
          /\ S \in SUBSET (Int \X Int) /\ IsFiniteSet(S)
      BY <1>1 DEF CallTypes
    <2>6. /\ Most(u)' = Most(u) /\ Most(u) \in Nat
          /\ Window \in Nat /\ BurstWindow \in 1..Window
          /\ UserLimit \in Int /\ BurstLimit \in Int
      BY <1>1, FiniteTables DEF Most, LimitsOK
    <2>7. /\ u \in dropped' <=> u \in dropped
          /\ u \in reordered => u \in reordered'
          /\ u \notin reordered' => ~(n < Latest(s))
      BY <1>1, <2>2
    <2>8. Owns(u)'
      BY <1>1, <2>1, <2>2 DEF Kept, Owns
    <2>9. Keeps(u)'
      <3> SUFFICES ASSUME u \notin dropped', NEW a \in Int, NEW b \in Int,
                          Counts(u, a)'
                   PROVE  Among(Grant(S, n), a, b) <= Between(Append(s, n), a, b)
        BY <2>3, <2>4 DEF Keeps
      <3>1. Counts(u, a)
        BY <1>1, <2>1 DEF Counts
      <3>2. Among(S, a, b) <= Between(s, a, b)
        BY <2>7, <3>1 DEF Kept, Keeps
      <3>3. Among(S, a, b) \in Nat
        BY <2>5, AmongType
      <3>4. Between(s, a, b) \in Nat
        BY <2>2, BetweenType
      <3>5. /\ n \in (a + 1)..b => Among(Grant(S, n), a, b) <= Among(S, a, b) + 1
            /\ n \notin (a + 1)..b => Among(Grant(S, n), a, b) = Among(S, a, b)
            /\ IsFiniteSet(Grant(S, n))
        BY <2>5, AmongGrant
      <3>6. Among(Grant(S, n), a, b) \in Nat
        BY <3>5, AmongType
      <3>7. /\ n \in (a + 1)..b =>
                 Between(Append(s, n), a, b) = Between(s, a, b) + 1
            /\ n \notin (a + 1)..b =>
                 Between(Append(s, n), a, b) = Between(s, a, b)
        BY <2>2, <2>5, BetweenAppend
      <3> HIDE DEF s, n, S
      <3> QED
        BY <3>2, <3>3, <3>4, <3>5, <3>6, <3>7
    <2>10. ASSUME NEW b \in Int
           PROVE  /\ Cardinality(Cleared(u, b)) \in Nat
                  /\ Cardinality(Cleared(u, b)') \in Nat
                  /\ n <= b => Cardinality(Cleared(u, b)')
                                 = Cardinality(Cleared(u, b)) - 1
                  /\ Cardinality(Cleared(u, b)') <= Cardinality(Cleared(u, b))
      <3>1. Cleared(u, b)' = Cleared(u, b) \ {t}
        <4>1. ~Passed(t)'
          BY <1>2 DEF Passed
        <4>2. \A r \in Mine(u) : r # t => (Passed(r)' <=> Passed(r))
          BY <1>1, <1>2 DEF Passed, Bursts, Mine, Active
        <4> QED
          BY <1>1, <2>1, <4>1, <4>2 DEF Cleared
      <3>2. n <= b => t \in Cleared(u, b)
        BY <1>1, <1>4 DEF Cleared
      <3>3. IsFiniteSet(Cleared(u, b)) /\ Cardinality(Cleared(u, b)) \in Nat
        BY ClearedType
      <3>4. t \in Cleared(u, b) => Cardinality(Cleared(u, b) \ {t})
                                     = Cardinality(Cleared(u, b)) - 1
        BY <3>3, FS_RemoveElement
      <3>5. Cleared(u, b)' \in SUBSET Cleared(u, b)
        BY <3>1
      <3>6. /\ Cardinality(Cleared(u, b)') \in Nat
            /\ Cardinality(Cleared(u, b)') <= Cardinality(Cleared(u, b))
        BY <3>5, ClearedLess
      <3> QED
        BY <3>1, <3>2, <3>3, <3>4, <3>6
    <2>11. ASSUME NEW span \in Int, NEW limit \in Int, Room(u, span, limit)
           PROVE  Room(u, span, limit)'
      <3> SUFFICES ASSUME NEW b \in Int
                   PROVE  Between(Append(s, n), b - span, b)
                            + Cardinality(Cleared(u, b)') <= limit + Most(u) - 1
        BY <2>3, <2>6 DEF Room
      <3>1. Between(s, b - span, b) + Cardinality(Cleared(u, b))
              <= limit + Most(u) - 1
        BY <2>11 DEF Room
      <3>2. b - span \in Int
        OBVIOUS
      <3>3. Between(s, b - span, b) \in Nat
        BY <2>2, <3>2, BetweenType
      <3>4. /\ n \in (b - span + 1)..b =>
                 Between(Append(s, n), b - span, b) = Between(s, b - span, b) + 1
            /\ n \notin (b - span + 1)..b =>
                 Between(Append(s, n), b - span, b) = Between(s, b - span, b)
        BY <2>2, <2>5, <3>2, BetweenAppend
      <3> HIDE DEF s, n
      <3>5. CASE n \in (b - span + 1)..b
        BY <2>5, <2>6, <2>10, <3>1, <3>3, <3>4, <3>5
      <3>6. CASE n \notin (b - span + 1)..b
        BY <2>6, <2>10, <3>1, <3>3, <3>4, <3>6
      <3> QED
        BY <3>5, <3>6
    <2>12. Room(u, Window, UserLimit)'
      BY <2>6, <2>11 DEF Kept
    <2>13. u \notin reordered' =>
             Rising(Held(u))' /\ Room(u, BurstWindow, BurstLimit)'
      <3>1. u \notin reordered' => Room(u, BurstWindow, BurstLimit)'
        BY <2>6, <2>7, <2>11 DEF Kept
      <3>2. u \notin reordered' => Rising(Append(s, n))
        BY <2>2, <2>5, <2>7, RisingAppend DEF Kept
      <3>3. Rising(Held(u))' <=> Rising(Append(s, n))
        BY <2>3 DEF Rising
      <3> QED
        BY <3>1, <3>2, <3>3
    <2>14. Alone(u)'
      <3> SUFFICES ASSUME u \notin shared' PROVE Alone(u)'
        BY DEF Alone
      <3>1. /\ u \notin shared /\ u \notin dropped /\ u \notin reordered
            /\ \A q, r \in Mine(u) : q = r
            /\ \A i \in 1..Len(s) : s[i] <= clock /\ s[i] <= n
        BY <1>1, <1>4 DEF Kept, Alone
      <3>2. /\ Len(Append(s, n)) = Len(s) + 1 /\ Append(s, n)[Len(s) + 1] = n
            /\ Len(s) \in Nat
            /\ \A i \in 1..Len(s) : Append(s, n)[i] = s[i] /\ s[i] \in Int
        BY <2>2, <2>5
      <3>3. ~(n < Latest(s))
        <4>1. CASE s = <<>>
          BY <2>5, <4>1 DEF Latest
        <4>2. CASE s # <<>>
          <5>1. Len(s) \in 1..Len(s)
            BY <2>2, <4>2
          <5>2. Latest(s) = s[Len(s)] /\ s[Len(s)] <= n /\ s[Len(s)] \in Int
            BY <3>1, <3>2, <4>2, <5>1 DEF Latest
          <5> QED
            BY <2>5, <5>2
        <4> QED
          BY <4>1, <4>2
      <3>4. u \notin reordered'
        BY <1>1, <2>2, <3>1, <3>3
      <3>5. \A i \in 1..Len(Append(s, n)) :
              Append(s, n)[i] <= clock /\ Append(s, n)[i] <= n
        <4> SUFFICES ASSUME NEW i \in 1..Len(s) + 1
                     PROVE  Append(s, n)[i] <= clock /\ Append(s, n)[i] <= n
          BY <3>2
        <4>1. CASE i \in 1..Len(s)
          BY <3>1, <3>2, <4>1
        <4>2. CASE i = Len(s) + 1
          BY <2>5, <3>2, <4>2
        <4> QED
          BY <3>2, <4>1, <4>2
      <3>6. \A r \in Mine(u) : r = t
        BY <1>4, <3>1
      <3>7. \A i \in 1..Len(Held(u)') :
              /\ Held(u)'[i] <= clock'
              /\ \A r \in Mine(u)' : Held(u)'[i] <= now'[r]
        BY <1>1, <2>1, <2>3, <3>5, <3>6
      <3>8. \A r \in Mine(u)' : pc'[r] # "pop"
        BY <1>2, <2>1, <3>6
      <3>9. \A q, r \in Mine(u)' : q = r
        BY <2>1, <3>1
      <3> QED
        BY <1>1, <3>1, <3>4, <3>7, <3>8, <3>9 DEF Alone
    <2>15. ASSUME NEW g \in granted'[u], NEW span \in 1..Window,
                  NEW limit \in Int, u \notin dropped', Room(u, span, limit)',
                  \A h \in S : InSpan(u, h[1], span) <= limit + (Most(u) - 1)
           PROVE  InSpan(u, g[1], span)' <= limit + (Most(u)' - 1)
      <3> DEFINE a == g[1] - span
                 b == g[1]
      <3>1. b \in Int /\ a \in Int /\ span \in Int
        BY <2>5, <2>15 DEF CallTypes
      <3>2. /\ InSpan(u, g[1], span) = Among(S, a, b)
            /\ InSpan(u, g[1], span)' = Among(Grant(S, n), a, b)
        BY <2>4 DEF InSpan, Among
      <3>3. CASE n \in (a + 1)..b
        <4>1. Counts(u, a)'
          <5>1. a >= n - Window
            BY <2>5, <2>6, <3>1, <3>3
          <5> QED
            BY <1>1, <1>4, <2>1, <5>1 DEF Counts
        <4>2. Among(Grant(S, n), a, b) <= Between(Append(s, n), a, b)
          BY <2>3, <2>4, <2>9, <2>15, <3>1, <4>1 DEF Keeps
        <4>3. Between(Append(s, n), b - span, b) + Cardinality(Cleared(u, b)')
                <= limit + Most(u) - 1
          BY <2>3, <2>6, <2>15, <3>1 DEF Room
        <4>4. Cardinality(Cleared(u, b)') \in Nat
          BY <2>10, <3>1
        <4>5. Append(s, n) \in Seq(Int)
          BY <2>2, <2>5
        <4>6. Between(Append(s, n), a, b) \in Nat
          BY <3>1, <4>5, BetweenType
        <4>7. IsFiniteSet(Grant(S, n))
          BY <2>5, <3>1, AmongGrant
        <4>8. Among(Grant(S, n), a, b) \in Nat
          BY <4>7, AmongType
        <4>9. Between(Append(s, n), b - span, b) = Between(Append(s, n), a, b)
          OBVIOUS
        <4> HIDE DEF s, n, S, a, b
        <4> QED
          BY <2>6, <3>2, <4>2, <4>3, <4>4, <4>6, <4>8, <4>9
      <3>4. CASE n \notin (a + 1)..b
        <4>1. Among(Grant(S, n), a, b) = Among(S, a, b)
          BY <2>5, <3>1, <3>4, AmongGrant
        <4>2. g \in S
          <5>1. g \in S \/ g[1] = n
            BY <2>4 DEF Grant
          <5>2. g[1] # n
            BY <3>1, <3>4
          <5> QED
            BY <5>1, <5>2
        <4>3. InSpan(u, g[1], span) <= limit + (Most(u) - 1)
          BY <2>15, <4>2
        <4> QED
          BY <2>6, <3>2, <4>1, <4>3
      <3> QED
        BY <3>3, <3>4
    <2>16. Limited(u)'
      <3>1. Window \in 1..Window /\ BurstWindow \in 1..Window
        BY <2>6
      <3>2. (u \notin dropped' => WindowKept(u, Most(u) - 1)')
        BY <2>6, <2>7, <2>12, <2>15, <3>1 DEF Kept, Limited, WindowKept
      <3>3. (u \notin dropped' /\ u \notin reordered'
               => BurstKept(u, Most(u) - 1)')
        BY <2>6, <2>7, <2>13, <2>15, <3>1 DEF Kept, Limited, BurstKept
      <3> QED
        BY <3>2, <3>3 DEF Limited
    <2> QED
      BY <2>8, <2>9, <2>12, <2>13, <2>14, <2>16 DEF Kept
  <1> QED
    BY <1>3, <1>4

-----------------------------------------------------------------------------
(* The empty table                                                         *)
LEMMA QuotaInit ==
  ASSUME LimitsOK, Init
  PROVE  QuotaInv
  <1>1. Types /\ Separate
    BY TableInit DEF TableInv
  <1>2. Active = {} /\ \A u \in Users : Held(u) = <<>> /\ Mine(u) = {}
    BY DEF Init, Active, Held, Mine
  <1>3. CallTypes /\ OwnCalls
    <2>1. IsFiniteSet({})
      BY FS_EmptySet
    <2> QED
      BY <1>2, <2>1 DEF Init, CallTypes, OwnCalls
  <1>4. /\ UserLimit \in Nat \ {0} /\ BurstLimit \in Nat \ {0}
        /\ Window \in Int /\ BurstWindow \in Int
    BY DEF LimitsOK
  <1>5. \A a, b : Cardinality({}) = 0
    BY FS_EmptySet
  <1>6. ASSUME NEW u \in Users
        PROVE  Kept(u)
    <2>1. /\ u \notin shared /\ u \notin dropped /\ u \notin reordered
          /\ granted[u] = {} /\ Most(u) = 1
      BY DEF Init, Most
    <2>2. \A a, b \in Int : Among(granted[u], a, b) = 0 /\ Between(Held(u), a, b) = 0
      <3> SUFFICES ASSUME NEW a \in Int, NEW b \in Int
                   PROVE  /\ Among(granted[u], a, b) = 0
                          /\ Between(Held(u), a, b) = 0
        OBVIOUS
      <3>1. {g \in {} : g[1] \in (a + 1)..b} = {}
        OBVIOUS
      <3>2. {i \in 1..Len(<<>>) : <<>>[i] \in (a + 1)..b} = {}
        OBVIOUS
      <3>3. Among(granted[u], a, b) = 0
        BY <1>5, <2>1, <3>1 DEF Among
      <3>4. Between(Held(u), a, b) = 0
        BY <1>2, <1>5, <3>2 DEF Between
      <3> QED
        BY <3>3, <3>4
    <2>3. Keeps(u)
      BY <2>2 DEF Keeps
    <2>4. ASSUME NEW span \in Int, NEW limit \in Nat
          PROVE  Room(u, span, limit)
      <3> SUFFICES ASSUME NEW b \in Int
                   PROVE  Between(Held(u), b - span, b)
                            + Cardinality(Cleared(u, b)) <= limit + Most(u) - 1
        BY DEF Room
      <3>1. Cleared(u, b) = {}
        BY <1>2 DEF Cleared
      <3>2. Between(Held(u), b - span, b) = 0
        BY <2>2
      <3>3. Cardinality(Cleared(u, b)) = 0
        BY <1>5, <3>1
      <3> QED
        BY <2>1, <3>2, <3>3
    <2>5. Alone(u) /\ Owns(u) /\ Rising(Held(u)) /\ Limited(u)
      BY <1>2, <2>1 DEF Alone, Owns, Rising, Limited, WindowKept, BurstKept
    <2> QED
      BY <1>4, <2>3, <2>4, <2>5 DEF Kept
  <1> QED
    BY <1>1, <1>3, <1>6 DEF QuotaInv

(* The invariant of the quotas, step by step                               *)
LEMMA QuotaStep ==
  ASSUME LimitsOK, QuotaInv, TableInv, [Next]_vars
  PROVE  QuotaInv'
  <1>1. /\ Types /\ Separate /\ CallTypes /\ OwnCalls
        /\ Types' /\ Separate' /\ CallTypes' /\ OwnCalls'
    BY TypesKept, CallTypesKept, TableStep DEF QuotaInv, TableInv
  <1>2. ASSUME NEW u \in Users \ evicted'
        PROVE  Kept(u)'
    <2>1. u \in Users /\ Kept(u)
      BY DEF QuotaInv, Next, Tick, Enter, Prune, Pop, Check, Scan, ScanRaises,
             Register, Cleanup, vars
    <2>2. CASE Tick
      BY <1>1, <2>1, <2>2, TickKeeps
    <2>3. ASSUME NEW t \in Threads, NEW v \in Users, Enter(t, v)
          PROVE  Kept(u)'
      BY <1>1, <2>1, <2>3, EnterKept
    <2>4. ASSUME NEW t \in Threads, Prune(t) PROVE Kept(u)'
      BY <1>1, <2>1, <2>4, PruneKept
    <2>5. ASSUME NEW t \in Threads, Pop(t) PROVE Kept(u)'
      BY <1>1, <2>1, <2>5, PopKept
    <2>6. ASSUME NEW t \in Threads, Check(t) PROVE Kept(u)'
      BY <1>1, <2>1, <2>6, CheckKept
    <2>7. ASSUME NEW t \in Threads, Scan(t) \/ ScanRaises(t) PROVE Kept(u)'
      BY <1>1, <2>1, <2>7, ScanKept
    <2>8. ASSUME NEW t \in Threads, Register(t) PROVE Kept(u)'
      BY <1>1, <2>1, <2>8, RegisterKept
    <2>9. ASSUME NEW t \in Threads, Cleanup(t) PROVE Kept(u)'
      BY <1>1, <2>1, <2>9, CleanupKept
    <2>10. CASE UNCHANGED vars
      <3>1. /\ Owns(u)' = Owns(u) /\ Keeps(u)' = Keeps(u) /\ Alone(u)' = Alone(u)
            /\ Limited(u)' = Limited(u) /\ Held(u)' = Held(u)
        BY <2>10 DEF vars, Owns, Keeps, Alone, Limited, Held, Mine, Active,
             Counts, Most, WindowKept, BurstKept, InSpan
      <3>2. \A span, limit : Room(u, span, limit)' = Room(u, span, limit)
        BY <2>10 DEF vars, Room, Held, Cleared, Mine, Active, Most, Passed, Bursts
      <3>3. reordered' = reordered
        BY <2>10 DEF vars
      <3> QED
        BY <2>1, <3>1, <3>2, <3>3 DEF Kept, Rising
    <2> QED
      BY <2>2, <2>3, <2>4, <2>5, <2>6, <2>7, <2>8, <2>9, <2>10 DEF Next
  <1> QED
    BY <1>1, <1>2 DEF QuotaInv

(* It holds of every behaviour.                                            *)
LEMMA QuotaInvariant ==
  ASSUME LimitsOK
  PROVE  Spec => []QuotaInv
  <1>1. Init => TableInv /\ QuotaInv
    BY TableInit, QuotaInit
  <1>2. TableInv /\ QuotaInv /\ [Next]_vars => (TableInv /\ QuotaInv)'
    BY TableStep, QuotaStep
  <1> QED
    BY <1>1, <1>2, PTL DEF Spec

(* A user whose requests come one after another gets no more of them       *)
(* through in a window, or a burst, than the limits allow, whatever the    *)
(* calls of other users do meanwhile, unless a cleanup forgot him.         *)
THEOREM OneGetsHisQuota ==
  ASSUME LimitsOK
  PROVE  Spec => []QuotaAlone
  <1>1. QuotaInv => QuotaAlone
    <2> SUFFICES ASSUME QuotaInv, NEW u \in Users \ (shared \cup evicted)
                 PROVE  WindowKept(u, 0) /\ BurstKept(u, 0)
      BY DEF QuotaAlone
    <2>1. u \in Users \ evicted /\ Most(u) - 1 = 0
      BY DEF Most
    <2>2. Alone(u) /\ Limited(u)
      BY <2>1 DEF QuotaInv, Kept
    <2>3. u \notin dropped /\ u \notin reordered
      BY <2>2 DEF Alone
    <2> QED
      BY <2>1, <2>2, <2>3 DEF Limited
  <1> QED
    BY <1>1, QuotaInvariant, PTL

(* A user whose requests overlap exceeds the limits by at most one for     *)
(* each other thread, however they interleave, unless a cleanup forgot him *)
(* or one of his calls popped what another had to count; for bursts also   *)
(* unless a time was appended late.                                        *)
THEOREM ManyGetLittleMore ==
  ASSUME LimitsOK
  PROVE  Spec => []QuotaShared
  <1>1. QuotaInv => QuotaShared
    <2> SUFFICES ASSUME QuotaInv, NEW u \in Users \ (evicted \cup dropped)
                 PROVE  /\ WindowKept(u, Cardinality(Threads) - 1)
                        /\ u \notin reordered =>
                             BurstKept(u, Cardinality(Threads) - 1)
      BY DEF QuotaShared
    <2>1. Limited(u) /\ granted[u] \in SUBSET (Int \X Int)
      BY DEF QuotaInv, Kept, CallTypes
    <2>2. Most(u) \in Nat /\ Cardinality(Threads) \in Nat
          /\ Most(u) <= Cardinality(Threads)
      <3>1. Cardinality(Threads) # 0
        BY FiniteTables, FS_EmptySet DEF LimitsOK
      <3> QED
        BY <3>1, FiniteTables DEF Most
    <2>3. UserLimit \in Nat /\ BurstLimit \in Nat
      BY DEF LimitsOK
    <2>4. \A g \in granted[u], span \in Int : InSpan(u, g[1], span) \in Nat
      <3> SUFFICES ASSUME NEW g \in granted[u], NEW span \in Int
                   PROVE  InSpan(u, g[1], span) \in Nat
        OBVIOUS
      <3>1. InSpan(u, g[1], span) = Among(granted[u], g[1] - span, g[1])
        BY DEF InSpan, Among
      <3>2. IsFiniteSet(granted[u])
        BY DEF QuotaInv, CallTypes
      <3> QED
        BY <3>1, <3>2, AmongType
    <2>5. Window \in Int /\ BurstWindow \in Int
      BY DEF LimitsOK
    <2>6. WindowKept(u, Cardinality(Threads) - 1)
      <3> SUFFICES ASSUME NEW g \in granted[u]
                   PROVE  InSpan(u, g[1], Window)
                            <= UserLimit + (Cardinality(Threads) - 1)
        BY DEF WindowKept
      <3>1. InSpan(u, g[1], Window) <= UserLimit + (Most(u) - 1)
        BY <2>1 DEF Limited, WindowKept
      <3> QED
        BY <2>2, <2>3, <2>4, <2>5, <3>1
    <2>7. ASSUME u \notin reordered
          PROVE  BurstKept(u, Cardinality(Threads) - 1)
      <3> SUFFICES ASSUME NEW g \in granted[u]
                   PROVE  InSpan(u, g[1], BurstWindow)
                            <= BurstLimit + (Cardinality(Threads) - 1)
        BY DEF BurstKept
      <3>1. InSpan(u, g[1], BurstWindow) <= BurstLimit + (Most(u) - 1)
        BY <2>1, <2>7 DEF Limited, BurstKept
      <3> QED
        BY <2>2, <2>3, <2>4, <2>5, <3>1
    <2> QED
      BY <2>6, <2>7
  <1> QED
    BY <1>1, QuotaInvariant, PTL

=============================================================================
