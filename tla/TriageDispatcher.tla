-------------------------- MODULE TriageDispatcher --------------------------
(***************************************************************************)
(* The triage dispatcher of one process (agents/triage_dispatcher.py): the *)
(* alert loop submits alerts to a bounded priority queue, worker threads   *)
(* take the most urgent one, and a graceful stop drains the queue for a    *)
(* while, sends every worker a sentinel and joins the threads.             *)
(*                                                                         *)
(* An item is a record of the heap: items compare by tier, then priority   *)
(* (minus the risk), then seq.  The sentinel's tier is -1.                 *)
(***************************************************************************)
EXTENDS Integers, FiniteSets

CONSTANTS
  Alerts,         \* alerts the alert loop may submit
  Malicious,      \* those with enrichment.is_known_malicious
  RiskOf(_),      \* enrichment.risk_score
  Workers,        \* worker threads
  NoAlert,        \* payload of the sentinel; what an idle worker holds
  QueueCap,       \* max_queue
  MaxSubmits      \* bound on submissions

ASSUME DispatcherAssumption ==
  /\ NoAlert \notin Alerts /\ Malicious \subseteq Alerts
  /\ \A a \in Alerts : RiskOf(a) \in Nat
  /\ QueueCap \in Nat \ {0} /\ MaxSubmits \in Nat
  /\ IsFiniteSet(Workers)

VARIABLES
  queue,       \* items in the heap
  seq,         \* the itertools.count
  inflight,    \* _inflight
  putting,     \* items of the producer that wait in _q.put, at most one
  held,        \* the item each worker is handling
  exited,      \* workers that took a sentinel
  unfinished,  \* unfinished_tasks of the queue
  phase,       \* where stop() is
  signalled,   \* sentinels put so far
  timedOut,    \* the drain or a join gave up
  owed         \* history: items in the pool when stop() began

vars == <<queue, seq, inflight, putting, held, exited, unfinished, phase,
          signalled, timedOut, owed>>
stopVars == <<phase, signalled, timedOut, owed>>

Sentinel(n) == [tier |-> -1, priority |-> 0, seq |-> n, alert |-> NoAlert]
Idle == Sentinel(0)
IsSentinel(item) == item.alert = NoAlert

\* Broken variant of ItemOf: the risk is not negated, so low risk goes first.
ItemNotNegated(a, n) ==
  [tier |-> IF a \in Malicious THEN 0 ELSE 1, priority |-> RiskOf(a),
   seq |-> n, alert |-> a]

ItemOf(a, n) ==
  [tier |-> IF a \in Malicious THEN 0 ELSE 1, priority |-> -RiskOf(a),
   seq |-> n, alert |-> a]

Before(i, j) ==
  \/ i.tier < j.tier
  \/ i.tier = j.tier /\ i.priority < j.priority
  \/ i.tier = j.tier /\ i.priority = j.priority /\ i.seq < j.seq

\* The element heapq pops.
IsTop(i) == i \in queue /\ \A j \in queue \ {i} : Before(i, j)

Busy == {w \in Workers \ exited : held[w] # Idle}
InPool == putting \cup queue \cup {held[w] : w \in Workers}

Init ==
  /\ queue = {} /\ seq = 1 /\ inflight = {} /\ putting = {}
  /\ held = [w \in Workers |-> Idle]
  /\ exited = {} /\ unfinished = 0
  /\ phase = "running" /\ signalled = 0 /\ timedOut = FALSE /\ owed = {}
-----------------------------------------------------------------------------
(* The producer.                                                           *)

\* Broken variant of Submit: the in-flight set is not consulted.
SubmitTwice(a) ==
  /\ putting = {} /\ seq <= MaxSubmits
  /\ inflight' = inflight \cup {a}
  /\ putting' = {ItemOf(a, seq)}
  /\ seq' = seq + 1
  /\ UNCHANGED <<queue, held, exited, unfinished, stopVars>>

\* submit() up to the put: an alert that is in flight is skipped.  stop() does
\* not keep the alert loop from submitting.
Submit(a) ==
  /\ putting = {} /\ a \notin inflight /\ seq <= MaxSubmits
  /\ inflight' = inflight \cup {a}
  /\ putting' = {ItemOf(a, seq)}
  /\ seq' = seq + 1
  /\ UNCHANGED <<queue, held, exited, unfinished, stopVars>>

\* Broken variant of Put: put_nowait on an unbounded queue.
PutUnbounded ==
  /\ putting # {}
  /\ queue' = queue \cup putting
  /\ putting' = {}
  /\ unfinished' = unfinished + 1
  /\ UNCHANGED <<seq, inflight, held, exited, stopVars>>

\* The put itself, which waits for room.
Put ==
  /\ putting # {} /\ Cardinality(queue) < QueueCap
  /\ queue' = queue \cup putting
  /\ putting' = {}
  /\ unfinished' = unfinished + 1
  /\ UNCHANGED <<seq, inflight, held, exited, stopVars>>
-----------------------------------------------------------------------------
(* The workers.                                                            *)

Take(w, i) ==
  /\ w \notin exited /\ held[w] = Idle
  /\ IsTop(i) /\ ~IsSentinel(i)
  /\ queue' = queue \ {i}
  /\ held' = [held EXCEPT ![w] = i]
  /\ UNCHANGED <<seq, inflight, putting, exited, unfinished, stopVars>>

\* The sentinel: task_done and leave the loop.
Exit(w, i) ==
  /\ w \notin exited /\ held[w] = Idle
  /\ IsTop(i) /\ IsSentinel(i)
  /\ queue' = queue \ {i}
  /\ exited' = exited \cup {w}
  /\ unfinished' = unfinished - 1
  /\ UNCHANGED <<seq, inflight, putting, held, stopVars>>

\* Broken variants of Finish: an error in _handle ends the thread; an error
\* skips task_done.
FinishOrDie(w) ==
  /\ held[w] # Idle
  /\ inflight' = inflight \ {held[w].alert}
  /\ held' = [held EXCEPT ![w] = Idle]
  /\ exited' \in {exited, exited \cup {w}}
  /\ unfinished' = unfinished - 1
  /\ UNCHANGED <<queue, seq, putting, stopVars>>

FinishWithoutTaskDone(w) ==
  /\ held[w] # Idle
  /\ inflight' = inflight \ {held[w].alert}
  /\ held' = [held EXCEPT ![w] = Idle]
  /\ UNCHANGED <<queue, seq, putting, exited, unfinished, stopVars>>

\* _handle returned or raised: the `finally` runs either way.
Finish(w) ==
  /\ held[w] # Idle
  /\ inflight' = inflight \ {held[w].alert}
  /\ held' = [held EXCEPT ![w] = Idle]
  /\ unfinished' = unfinished - 1
  /\ UNCHANGED <<queue, seq, putting, exited, stopVars>>
-----------------------------------------------------------------------------
(* stop().                                                                 *)

BeginStop ==
  /\ phase = "running"
  /\ phase' = "draining"
  /\ owed' = (queue \cup {held[w] : w \in Workers}) \ {Idle}
  /\ UNCHANGED <<queue, seq, inflight, putting, held, exited, unfinished,
                 signalled, timedOut>>

\* Broken variant of Drained: the drain ends when the queue is empty, without
\* waiting for what the workers hold.
DrainedWhenEmpty ==
  /\ phase = "draining" /\ queue = {}
  /\ phase' = "signalling"
  /\ UNCHANGED <<queue, seq, inflight, putting, held, exited, unfinished,
                 signalled, timedOut, owed>>

\* queue.join() returned within the deadline.
Drained ==
  /\ phase = "draining" /\ unfinished = 0
  /\ phase' = "signalling"
  /\ UNCHANGED <<queue, seq, inflight, putting, held, exited, unfinished,
                 signalled, timedOut, owed>>

DrainTimesOut ==
  /\ phase = "draining" /\ unfinished > 0
  /\ phase' = "signalling" /\ timedOut' = TRUE
  /\ UNCHANGED <<queue, seq, inflight, putting, held, exited, unfinished,
                 signalled, owed>>

\* Broken variant of Signal: the sentinel has the tier of ordinary work.
SignalLast ==
  /\ phase = "signalling" /\ signalled < Cardinality(Workers)
  /\ Cardinality(queue) < QueueCap
  /\ queue' = queue \cup {[Sentinel(signalled + 1) EXCEPT !.tier = 2]}
  /\ signalled' = signalled + 1
  /\ unfinished' = unfinished + 1
  /\ UNCHANGED <<seq, inflight, putting, held, exited, phase, timedOut, owed>>

\* One sentinel per worker, each put waiting for room without a deadline.
Signal ==
  /\ phase = "signalling" /\ signalled < Cardinality(Workers)
  /\ Cardinality(queue) < QueueCap
  /\ queue' = queue \cup {Sentinel(signalled + 1)}
  /\ signalled' = signalled + 1
  /\ unfinished' = unfinished + 1
  /\ UNCHANGED <<seq, inflight, putting, held, exited, phase, timedOut, owed>>

StartJoining ==
  /\ phase = "signalling" /\ signalled = Cardinality(Workers)
  /\ phase' = "joining"
  /\ UNCHANGED <<queue, seq, inflight, putting, held, exited, unfinished,
                 signalled, timedOut, owed>>

\* The joins, each with a timeout of its own.
Joined ==
  /\ phase = "joining"
  /\ timedOut' = (timedOut \/ exited # Workers)
  /\ phase' = "stopped"
  /\ UNCHANGED <<queue, seq, inflight, putting, held, exited, unfinished,
                 signalled, owed>>

StopStep ==
  BeginStop \/ Drained \/ DrainTimesOut \/ Signal \/ StartJoining \/ Joined

GetStep(w) == \E i \in queue : Take(w, i) \/ Exit(w, i)

Next ==
  \/ \E a \in Alerts : Submit(a)
  \/ Put
  \/ \E w \in Workers : GetStep(w) \/ Finish(w)
  \/ StopStep

Spec == Init /\ [][Next]_vars

\* A worker waiting in _q.get wakes up, a put with room goes through, and
\* stop(), once called, goes on as its waits end.
WaitsEnd ==
  /\ WF_vars(Put) /\ \A w \in Workers : WF_vars(GetStep(w))
  /\ WF_vars(StopStep /\ phase # "running")
\* Every triage ends: the LLM call has a timeout.
TriagesEnd == \A w \in Workers : WF_vars(Finish(w))

FairSpec == Spec /\ WaitsEnd /\ TriagesEnd
-----------------------------------------------------------------------------
(* Properties.                                                             *)

Items == [tier : {-1, 0, 1}, priority : {-RiskOf(a) : a \in Alerts} \cup {0},
          seq : Nat, alert : Alerts \cup {NoAlert}]

TypeOK ==
  /\ queue \subseteq Items /\ putting \subseteq Items /\ owed \subseteq Items
  /\ seq \in Nat \ {0}
  /\ inflight \subseteq Alerts
  /\ held \in [Workers -> Items]
  /\ exited \subseteq Workers
  /\ unfinished \in Nat /\ signalled \in 0..Cardinality(Workers)
  /\ phase \in {"running", "draining", "signalling", "joining", "stopped"}
  /\ timedOut \in BOOLEAN
  /\ Cardinality(queue) <= QueueCap

\* queue.join() is what the drain waits for: its counter is what is queued
\* plus what the workers have in hand, through every error and sentinel.
TasksCounted == unfinished = Cardinality(queue) + Cardinality(Busy)

\* A drain that ended in time left nothing behind: whatever was queued or in a
\* worker's hands when stop() began has been triaged.
CleanDrain ==
  phase \notin {"running", "draining"} /\ ~timedOut =>
    owed \cap InPool = {}

\* Once stop() has sent its sentinels no worker starts another triage, however
\* many alerts are queued or still submitted: every worker left finds a sentinel
\* before it finds work.
NoWorkAfterSentinels ==
  [][\A w \in Workers : phase \in {"joining", "stopped"} =>
       held'[w] \in {held[w], Idle}]_vars

\* A worker never takes an alert while a TI-confirmed one is queued and it is
\* not, nor one of lower risk in the same tier, nor, at equal risk, one that
\* was submitted later.
MostUrgentFirst ==
  [][\A w \in Workers :
       held'[w] # held[w] /\ held'[w] # Idle =>
         \A j \in queue \ {held'[w]} :
           LET a == held'[w].alert  b == j.alert IN
           /\ ~IsSentinel(j)
           /\ b \in Malicious => a \in Malicious
           /\ (a \in Malicious <=> b \in Malicious) =>
                \/ RiskOf(a) > RiskOf(b)
                \/ RiskOf(a) = RiskOf(b) /\ held'[w].seq < j.seq]_vars

\* The heap, the blocking put and the in-flight set together are the pool the
\* alert loop relies on.
Pool == INSTANCE TriagePool WITH
  PoolAlerts <- Alerts, PoolWorkers <- Workers, NoOne <- NoAlert,
  waiting <- {i.alert : i \in {j \in putting \cup queue : ~IsSentinel(j)}},
  working <- [w \in Workers |-> held[w].alert]
ImplementsPool == Pool!PoolSpec

\* No alert waits in the queue for ever: a worker takes it, or the process is
\* stopping and it will be fetched again.
EventuallyTaken ==
  \A a \in Alerts :
    a \in inflight ~> a \notin inflight \/ phase \in {"joining", "stopped"}

\* triage_dispatcher.py:145: stop() "can't hang behind a stuck ~40s triage".
StopReturns == phase = "draining" ~> phase = "stopped"
=============================================================================
