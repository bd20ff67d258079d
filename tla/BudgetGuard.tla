---------------------------- MODULE BudgetGuard ----------------------------
(***************************************************************************)
(* The spend cap of one tenant in one billing period                       *)
(* (agents/cost_controls.py).  Before its LLM calls a triage reserves      *)
(* headroom: under an advisory lock it reads the recorded spend, then the  *)
(* live reservations, in two statements, and inserts a reservation of its  *)
(* own when the sum is below the cap.  The usage rows of the calls and the *)
(* release of the reservation are written without that lock.               *)
(***************************************************************************)
EXTENDS Integers, FiniteSets

CONSTANTS
  Workers,         \* triage workers of all replicas
  Nobody,          \* nobody holds the lock
  Cap,             \* the tenant's cap, in the smallest unit of cost
  Est,             \* estimated_call_cost_usd
  MaxCost,         \* the most one call costs
  CallsPerTriage,  \* the call, its retries, the confirmation of a close
  MaxFaults,       \* bound on failed reservations and outlived reservations
  MaxLeaks         \* bound on crashes and failed releases

ASSUME BudgetAssumption ==
  /\ Nobody \notin Workers /\ IsFiniteSet(Workers)
  /\ Cap \in Nat \ {0} /\ Est \in Nat /\ MaxCost \in Nat
  /\ CallsPerTriage \in Nat \ {0}
  /\ MaxFaults \in Nat /\ MaxLeaks \in Nat

VARIABLES
  spent,    \* what llm_usage_metrics sums to
  rows,     \* rows of llm_budget_reservations
  stale,    \* rows older than reservation_ttl_seconds
  lock,     \* holder of the tenant's advisory lock
  pc,       \* where each worker is
  mine,     \* the worker's reservation_id, 0 for None
  calls,    \* calls of its triage that are recorded
  seen,     \* the lock holder's first read, the spend
  slipped,  \* history: reservations that went away since that read
  worst,    \* history: the largest value slipped had at an admission
  faults,   \* history: reservations that failed open or outlived their row
  leaks     \* history: rows nobody will release

vars == <<spent, rows, stale, lock, pc, mine, calls, seen, slipped, worst,
          faults, leaks>>
history == <<slipped, worst, faults, leaks>>

RowIds == 1..(Cardinality(Workers) + MaxLeaks)
Owned == {mine[w] : w \in Workers} \ {0}
Unlock(w) == IF lock = w THEN Nobody ELSE lock
Larger(a, b) == IF a > b THEN a ELSE b

Init ==
  /\ spent = 0 /\ rows = {} /\ stale = {} /\ lock = Nobody
  /\ pc = [w \in Workers |-> "idle"]
  /\ mine = [w \in Workers |-> 0] /\ calls = [w \in Workers |-> 0]
  /\ seen = 0 /\ slipped = 0 /\ worst = 0 /\ faults = 0 /\ leaks = 0
-----------------------------------------------------------------------------
(* reserve().                                                              *)

\* The triage reaches the guard and waits for the lock.
Ask(w) ==
  /\ pc[w] = "idle"
  /\ pc' = [pc EXCEPT ![w] = "waiting"]
  /\ UNCHANGED <<spent, rows, stale, lock, mine, calls, seen, history>>

\* The lock is granted and _query_spend runs.
ReadSpend(w) ==
  /\ pc[w] = "waiting" /\ lock = Nobody
  /\ pc' = [pc EXCEPT ![w] = "reading"]
  /\ lock' = w /\ seen' = spent /\ slipped' = 0
  /\ UNCHANGED <<spent, rows, stale, mine, calls, worst, faults, leaks>>

\* Broken variant of Total: the reservations in flight are not counted.
TotalOfSpend == seen

\* What is compared with the cap: the spend read before plus the rows that are
\* left once _query_reserved has purged the stale ones.
Total == seen + Est * Cardinality(rows \ stale)

\* Below the cap: insert a row, leave the section.
Admit(w) ==
  /\ pc[w] = "reading" /\ Total < Cap
  /\ \E id \in RowIds \ (rows \cup Owned) :
       /\ rows' = (rows \ stale) \cup {id}
       /\ mine' = [mine EXCEPT ![w] = id]
  /\ stale' = {}
  /\ pc' = [pc EXCEPT ![w] = "calling"]
  /\ lock' = Unlock(w)
  /\ worst' = Larger(worst, slipped)
  /\ UNCHANGED <<spent, calls, seen, slipped, faults, leaks>>

\* At the cap: the alert is escalated without a call.
Refuse(w) ==
  /\ pc[w] = "reading" /\ Total >= Cap
  /\ rows' = rows \ stale /\ stale' = {}
  /\ pc' = [pc EXCEPT ![w] = "idle"]
  /\ lock' = Unlock(w)
  /\ UNCHANGED <<spent, mine, calls, seen, history>>

\* Broken variant of FailOpen: the reservation is tried again.
FailAgain(w) ==
  /\ pc[w] \in {"waiting", "reading"}
  /\ pc' = [pc EXCEPT ![w] = "waiting"]
  /\ lock' = Unlock(w)
  /\ UNCHANGED <<spent, rows, stale, mine, calls, seen, history>>

\* A database error anywhere in reserve() lets the call through, without a row.
FailOpen(w) ==
  /\ pc[w] \in {"waiting", "reading"} /\ faults < MaxFaults
  /\ pc' = [pc EXCEPT ![w] = "calling"]
  /\ lock' = Unlock(w)
  /\ faults' = faults + 1
  /\ UNCHANGED <<spent, rows, stale, mine, calls, seen, slipped, worst, leaks>>
-----------------------------------------------------------------------------
(* The calls and what follows them.                                        *)

\* A call ends, well or not, and its usage row lands.  A call may be free, and
\* a row that cannot be written is swallowed: cost 0.
Record(w) ==
  /\ pc[w] = "calling" /\ calls[w] < CallsPerTriage
  /\ \E cost \in 0..MaxCost : spent' = spent + cost
  /\ calls' = [calls EXCEPT ![w] = @ + 1]
  /\ UNCHANGED <<rows, stale, lock, pc, mine, seen, history>>

\* Broken variant of Release: no `finally`, the row stays when a call raised.
ReleaseOnSuccess(w) ==
  /\ pc[w] = "calling" /\ calls[w] > 0
  /\ rows' \in {rows, rows \ {mine[w]}} /\ stale' = stale \cap rows'
  /\ slipped' = slipped + Cardinality({mine[w]} \cap rows)
  /\ mine' = [mine EXCEPT ![w] = 0] /\ calls' = [calls EXCEPT ![w] = 0]
  /\ pc' = [pc EXCEPT ![w] = "idle"]
  /\ UNCHANGED <<spent, lock, seen, worst, faults, leaks>>

\* Broken variant of Release: the DELETE names the tenant only.
ReleaseAll(w) ==
  /\ pc[w] = "calling" /\ calls[w] > 0
  /\ rows' = {} /\ stale' = stale \ {mine[w]}
  /\ slipped' = slipped + Cardinality({mine[w]} \cap rows)
  /\ mine' = [mine EXCEPT ![w] = 0] /\ calls' = [calls EXCEPT ![w] = 0]
  /\ pc' = [pc EXCEPT ![w] = "idle"]
  /\ UNCHANGED <<spent, lock, seen, worst, faults, leaks>>

\* The `finally` of triage_alert.
Release(w) ==
  /\ pc[w] = "calling" /\ calls[w] > 0
  /\ rows' = rows \ {mine[w]} /\ stale' = stale \ {mine[w]}
  /\ slipped' = slipped + Cardinality({mine[w]} \cap rows)
  /\ mine' = [mine EXCEPT ![w] = 0] /\ calls' = [calls EXCEPT ![w] = 0]
  /\ pc' = [pc EXCEPT ![w] = "idle"]
  /\ UNCHANGED <<spent, lock, seen, worst, faults, leaks>>

\* release() never raises: when the DELETE fails the row is left behind.
ReleaseFails(w) ==
  /\ pc[w] = "calling" /\ calls[w] > 0
  /\ mine[w] \in rows /\ leaks < MaxLeaks
  /\ mine' = [mine EXCEPT ![w] = 0] /\ calls' = [calls EXCEPT ![w] = 0]
  /\ pc' = [pc EXCEPT ![w] = "idle"]
  /\ leaks' = leaks + 1
  /\ UNCHANGED <<spent, rows, stale, lock, seen, slipped, worst, faults>>

\* The worker's process dies; its session, and the lock with it, ends.
Crash(w) ==
  /\ pc[w] # "idle" /\ leaks < MaxLeaks
  /\ mine' = [mine EXCEPT ![w] = 0] /\ calls' = [calls EXCEPT ![w] = 0]
  /\ pc' = [pc EXCEPT ![w] = "idle"]
  /\ lock' = Unlock(w)
  /\ leaks' = leaks + 1
  /\ UNCHANGED <<spent, rows, stale, seen, slipped, worst, faults>>

\* A row outlives reservation_ttl_seconds; it is a fault when the call it
\* stands for is still going on.
Expire(id) ==
  /\ id \in rows \ stale
  /\ stale' = stale \cup {id}
  /\ IF id \in Owned
       THEN faults < MaxFaults /\ faults' = faults + 1 /\ UNCHANGED slipped
       ELSE slipped' = slipped + 1 /\ UNCHANGED faults
  /\ UNCHANGED <<spent, rows, lock, pc, mine, calls, seen, worst, leaks>>

Section(w) == ReadSpend(w) \/ Admit(w) \/ Refuse(w)
Call(w) == Record(w) \/ Release(w)

Next ==
  \/ \E w \in Workers :
       \/ Ask(w) \/ Section(w) \/ FailOpen(w) \/ Call(w)
       \/ ReleaseFails(w) \/ Crash(w)
  \/ \E id \in RowIds : Expire(id)

Spec == Init /\ [][Next]_vars

\* Advisory locks are granted in the order of the requests, statements return,
\* calls have timeouts.
Fairness ==
  \A w \in Workers :
    SF_vars(ReadSpend(w)) /\ WF_vars(Admit(w) \/ Refuse(w)) /\ WF_vars(Release(w))
FairSpec == Spec /\ Fairness
-----------------------------------------------------------------------------
(* Properties.                                                             *)

TypeOK ==
  /\ spent \in Nat /\ seen \in Nat
  /\ rows \subseteq RowIds /\ stale \subseteq rows
  /\ lock \in Workers \cup {Nobody}
  /\ pc \in [Workers -> {"idle", "waiting", "reading", "calling"}]
  /\ mine \in [Workers -> RowIds \cup {0}]
  /\ calls \in [Workers -> 0..CallsPerTriage]
  /\ slipped \in Nat /\ worst \in Nat
  /\ faults \in 0..MaxFaults /\ leaks \in 0..MaxLeaks

\* Every triage that may call the LLM has a row in the table, but for those
\* that failed open or outlived their row; every row stands for a triage, but
\* for those a crash or a failed release left; no row stands for two.
RowsAreCalls ==
  /\ Cardinality({w \in Workers : pc[w] = "calling" /\ mine[w] \notin rows})
       <= faults
  /\ Cardinality(rows \ Owned) <= leaks
  /\ \A v, w \in Workers : mine[v] = mine[w] /\ mine[v] # 0 => v = w
  /\ \A w \in Workers : mine[w] # 0 => pc[w] = "calling"

\* When an estimate covers a triage's calls, the recorded spend passes the cap
\* by one triage at most, plus one for each reservation that failed open or
\* outlived its row, plus those that went away between the two reads of one section:
\* nothing else lets two triages past the same headroom.
OvershootAccounted ==
  CallsPerTriage * MaxCost <= Est =>
    spent < Cap + Est * (1 + worst + faults)

\* A triage that asks is answered, with a call or with an escalation, whichever
\* worker crashes or fails inside the section.
EventuallyAnswered ==
  \A w \in Workers : pc[w] = "waiting" ~> pc[w] \in {"calling", "idle"}

=============================================================================
