------------------------------ MODULE RateLimiter ------------------------------
(***************************************************************************)
(* InMemoryRateLimiter (services/security.py), which post_query asks first.*)
(* The threads of the server share it without a lock, and may be switched  *)
(* between any two of its reads and writes; only the cleanup is one step.  *)
(* A user's times are in a deque, which a thread goes on using when the    *)
(* user has been evicted meanwhile.                                        *)
(***************************************************************************)
EXTENDS Integers, Sequences, FiniteSets

CONSTANTS
  Users, Threads,
  Window,        \* window_seconds, and
  BurstWindow,   \* the 1.0 of _can_register_burst, in ticks
  UserLimit,     \* per_user_limit
  BurstLimit,    \* burst_limit
  MaxUsers,      \* max_users
  MaxTime,       \* bound: ticks
  MaxCalls       \* bound: calls of allow

LimitsOK ==
  /\ IsFiniteSet(Users) /\ IsFiniteSet(Threads) /\ Threads # {}
  /\ Window \in Nat \ {0} /\ BurstWindow \in 1..Window
  /\ UserLimit \in Nat \ {0} /\ BurstLimit \in Nat \ {0}
  /\ MaxUsers \in Nat \ {0} /\ MaxTime \in Nat /\ MaxCalls \in Nat

(* As many deques as there may be at one time                              *)
Deques == 1..(Cardinality(Users) + Cardinality(Threads))

VARIABLES
  clock, calls,
  deque,      \* user -> its deque in _events, 0 for none
  times,      \* deque -> times in it
  pc, user, now, events,   \* of each thread: where it is, key, now, events
  scanned,    \* of each thread: what its loop over the deque started with
  granted,    \* user -> requests let through: time, number at that time
  shared,     \* users two of whose requests overlapped
  evicted,    \* users that were evicted
  dropped,    \* users who lost a time that a call under way had to count
  reordered   \* users whose times are not in order

vars == <<clock, calls, deque, times, pc, user, now, events, scanned, granted,
          shared, evicted, dropped, reordered>>

Nobody == CHOOSE u \in Users : TRUE

Init ==
  /\ clock = 0 /\ calls = 0
  /\ deque = [u \in Users |-> 0] /\ times = [d \in Deques |-> <<>>]
  /\ pc = [t \in Threads |-> "idle"] /\ user = [t \in Threads |-> Nobody]
  /\ now = [t \in Threads |-> 0] /\ events = [t \in Threads |-> 0]
  /\ scanned = [t \in Threads |-> <<>>]
  /\ granted = [u \in Users |-> {}] /\ shared = {} /\ evicted = {}
  /\ dropped = {} /\ reordered = {}

(* What the properties still need of granted after the next tick           *)
Noted(S) == {g \in S : g[1] > clock - Window}

(* A call of allow lasts less than a tick.                                 *)
Tick ==
  /\ clock < MaxTime
  /\ \A t \in Threads : pc[t] # "idle" => now[t] = clock
  /\ clock' = clock + 1
  /\ granted' = [u \in Users |-> Noted(granted[u])]
  /\ UNCHANGED <<calls, deque, times, pc, user, now, events, scanned, shared,
                 evicted, dropped, reordered>>

Active == {t \in Threads : pc[t] # "idle"}
Stored == {u \in Users : deque[u] # 0}
Unused == {d \in Deques : /\ \A u \in Users : deque[u] # d
                          /\ \A t \in Active : events[t] # d}

(* _events[key] of the defaultdict                                         *)
Enter(t, u) ==
  /\ pc[t] = "idle" /\ calls < MaxCalls /\ calls' = calls + 1
  /\ pc' = [pc EXCEPT ![t] = "prune"]
  /\ user' = [user EXCEPT ![t] = u] /\ now' = [now EXCEPT ![t] = clock]
  /\ shared' = IF \E s \in Active : user[s] = u THEN shared \cup {u} ELSE shared
  /\ IF deque[u] # 0
       THEN /\ events' = [events EXCEPT ![t] = deque[u]]
            /\ UNCHANGED <<deque, times>>
       ELSE LET d == CHOOSE d \in Unused : TRUE
            IN /\ events' = [events EXCEPT ![t] = d]
               /\ deque' = [deque EXCEPT ![u] = d]
               /\ times' = [times EXCEPT ![d] = <<>>]
  /\ UNCHANGED <<clock, scanned, granted, evicted, dropped, reordered>>

Times(t) == times[events[t]]

Go(t, there) == pc' = [pc EXCEPT ![t] = there]

(* allow returns or raises, and leaves the table D; a deque that neither   *)
(* the table nor a thread refers to is gone.                               *)
Leave(t, D) ==
  /\ Go(t, "idle") /\ deque' = D
  /\ user' = [user EXCEPT ![t] = Nobody] /\ now' = [now EXCEPT ![t] = 0]
  /\ events' = [events EXCEPT ![t] = 0]
  /\ scanned' = [scanned EXCEPT ![t] = <<>>]
  /\ times' = [d \in Deques |->
                 IF \/ \E u \in Users : D[u] = d
                    \/ \E s \in Active \ {t} : events[s] = d
                   THEN times[d] ELSE <<>>]

Stay == UNCHANGED <<deque, user, now, events>>

(* Faulty variant: the oldest time goes a tick too early.                  *)
FaultyExpired(t) == Times(t) # <<>> /\ Head(Times(t)) <= now[t] - Window + 1

(* The condition of _prune                                                 *)
Expired(t) == Times(t) # <<>> /\ Head(Times(t)) <= now[t] - Window

Prune(t) ==
  /\ pc[t] = "prune" /\ Go(t, IF Expired(t) THEN "pop" ELSE "check")
  /\ UNCHANGED <<clock, calls, deque, times, user, now, events, scanned, granted,
                 shared, evicted, dropped, reordered>>

(* popleft, of whatever is first now; of an empty deque it raises.         *)
Pop(t) ==
  /\ pc[t] = "pop"
  /\ IF Times(t) = <<>> THEN Leave(t, deque)
     ELSE /\ Go(t, "prune") /\ times' = [times EXCEPT ![events[t]] = Tail(@)]
          /\ Stay /\ UNCHANGED scanned
  /\ dropped' = IF /\ Times(t) # <<>>
                   /\ \E s \in Active : /\ user[s] = user[t]
                                       /\ Head(Times(t)) > now[s] - Window
                  THEN dropped \cup {user[t]} ELSE dropped
  /\ UNCHANGED <<clock, calls, granted, shared, evicted, reordered>>

Check(t) ==
  /\ pc[t] = "check"
  /\ IF Len(Times(t)) >= UserLimit THEN Leave(t, deque)
     ELSE /\ Go(t, "scan") /\ scanned' = [scanned EXCEPT ![t] = Times(t)]
          /\ Stay /\ UNCHANGED times
  /\ UNCHANGED <<clock, calls, granted, shared, evicted, dropped, reordered>>

(* The run of recent times at the end of s                                 *)
Recent(s, time) ==
  Cardinality({i \in 1..Len(s) :
                 \A j \in i..Len(s) : s[j] > time - BurstWindow})

(* Faulty variant: one more is let through.                                *)
FaultyBursts(t) == Recent(scanned[t], now[t]) > BurstLimit

Bursts(t) == Recent(scanned[t], now[t]) >= BurstLimit

(* _can_register_burst                                                     *)
Scan(t) ==
  /\ pc[t] = "scan"
  /\ IF Bursts(t) THEN Leave(t, deque)
     ELSE /\ Go(t, "append") /\ scanned' = [scanned EXCEPT ![t] = <<>>]
          /\ Stay /\ UNCHANGED times
  /\ UNCHANGED <<clock, calls, granted, shared, evicted, dropped, reordered>>

(* A deque that changes under a loop over it makes the loop raise.         *)
ScanRaises(t) ==
  /\ pc[t] = "scan" /\ scanned[t] # <<>> /\ Times(t) # scanned[t]
  /\ Leave(t, deque)
  /\ UNCHANGED <<clock, calls, granted, shared, evicted, dropped, reordered>>

(* The last time of s, the least for an empty one                          *)
Latest(s) == IF s = <<>> THEN -1 ELSE s[Len(s)]

LastTime(u) == Latest(times[deque[u]])

(* A request that is let through, beside those S of its user               *)
Grant(S, time) ==
  S \cup {<<time, Cardinality({g \in S : g[1] = time}) + 1>>}

Register(t) ==
  /\ pc[t] = "append" /\ Go(t, "cleanup")
  /\ times' = [times EXCEPT ![events[t]] = Append(@, now[t])]
  /\ granted' = [granted EXCEPT ![user[t]] = Grant(@, now[t])]
  /\ reordered' = IF now[t] < Latest(Times(t)) THEN reordered \cup {user[t]}
                  ELSE reordered
  /\ UNCHANGED <<clock, calls, deque, user, now, events, scanned, shared, evicted,
                 dropped>>

(* Faulty variant: off by one                                              *)
FaultyExcess == IF Cardinality(Stored) <= MaxUsers + 1 THEN 0
                ELSE Cardinality(Stored) - MaxUsers

(* How many users are too many                                             *)
Excess == IF Cardinality(Stored) <= MaxUsers THEN 0
          ELSE Cardinality(Stored) - MaxUsers

MoreIdle(u, v) == LastTime(u) <= LastTime(v)

(* _cleanup_inactive_users                                                 *)
Cleanup(t) ==
  /\ pc[t] = "cleanup"
  /\ \E gone \in SUBSET Stored :
       /\ Cardinality(gone) = Excess
       /\ \A u \in gone, v \in Stored \ gone : MoreIdle(u, v)
       /\ Leave(t, [u \in Users |-> IF u \in gone THEN 0 ELSE deque[u]])
       /\ evicted' = evicted \cup gone
  /\ UNCHANGED <<clock, calls, granted, shared, dropped, reordered>>

Next ==
  \/ Tick
  \/ \E t \in Threads :
       \/ \E u \in Users : Enter(t, u)
       \/ Prune(t) \/ Pop(t) \/ Check(t) \/ Scan(t) \/ ScanRaises(t)
       \/ Register(t) \/ Cleanup(t)

Spec == Init /\ [][Next]_vars
-----------------------------------------------------------------------------
(* How many of the requests of u that were let through came in the span    *)
(* before, or at, time                                                     *)
InSpan(u, time, span) ==
  Cardinality({g \in granted[u] : g[1] \in (time - span + 1)..time})

WindowKept(u, more) ==
  \A g \in granted[u] : InSpan(u, g[1], Window) <= UserLimit + more

BurstKept(u, more) ==
  \A g \in granted[u] : InSpan(u, g[1], BurstWindow) <= BurstLimit + more

(* A user whose requests come one after another gets no more of them       *)
(* through in any window, or burst, than the limits allow, whatever other  *)
(* users do at the same time, unless the limiter forgot the user.          *)
QuotaAlone ==
  \A u \in Users \ (shared \cup evicted) : WindowKept(u, 0) /\ BurstKept(u, 0)

(* Requests of a user that overlap exceed the limits by at most the other  *)
(* threads, unless one of them popped a time that another had to count: two *)
(* that find the same time due pop two, and the clock may move meanwhile.   *)
(* A burst moreover ends, for _can_register_burst, at a time from before    *)
(* the burst that was appended late.                                       *)
QuotaShared ==
  \A u \in Users \ (evicted \cup dropped) :
    /\ WindowKept(u, Cardinality(Threads) - 1)
    /\ u \notin reordered => BurstKept(u, Cardinality(Threads) - 1)

(* The table has no more users than max_users and the calls under way.     *)
TableBounded ==
  Cardinality(Stored) <= MaxUsers + Cardinality(Active)
=============================================================================
