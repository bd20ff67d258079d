---------------------------- MODULE TriagePool ----------------------------
(***************************************************************************)
(* What the alert loop relies on in the triage dispatcher, whatever its    *)
(* heap, locks and threads do: an accepted alert waits, a worker takes it, *)
(* works on it and lets it go, and an alert that waits or is worked on is  *)
(* not accepted again (agents/triage_dispatcher.py).                       *)
(***************************************************************************)
EXTENDS Naturals

CONSTANTS PoolAlerts, PoolWorkers, NoOne

VARIABLES
  waiting,   \* alerts accepted and not yet taken
  working    \* the alert of each worker, NoOne when it has none

pool == <<waiting, working>>

InPool == waiting \cup {working[w] : w \in PoolWorkers}

PoolInit == waiting = {} /\ working = [w \in PoolWorkers |-> NoOne]

Accept(a) ==
  /\ a \notin InPool
  /\ waiting' = waiting \cup {a}
  /\ UNCHANGED working

Take(w, a) ==
  /\ working[w] = NoOne /\ a \in waiting
  /\ waiting' = waiting \ {a}
  /\ working' = [working EXCEPT ![w] = a]

Finished(w) ==
  /\ working[w] # NoOne
  /\ working' = [working EXCEPT ![w] = NoOne]
  /\ UNCHANGED waiting

PoolNext ==
  \/ \E a \in PoolAlerts : Accept(a) \/ (\E w \in PoolWorkers : Take(w, a))
  \/ \E w \in PoolWorkers : Finished(w)

PoolSpec == PoolInit /\ [][PoolNext]_pool
=============================================================================
