--------------------------- MODULE AlertPipeline ---------------------------
(***************************************************************************)
(* One tenant's alerts from the Wazuh index to a saved triage decision,    *)
(* with every replica that shares the database.  A replica runs            *)
(*   - the alert loop (main.py run_alert_loop / _run_alert_loop_cycle):    *)
(*     one cycle under the job lock fetches past an in-memory cursor and   *)
(*     over a look-back window (enrichment/service.py process_batch),      *)
(*     drops what it has seen, checkpoints what is too quiet to triage     *)
(*     and submits the rest to the triage dispatcher;                      *)
(*   - the dispatcher's workers (agents/triage_dispatcher.py), each of     *)
(*     which takes an alert, saves its decision together with its          *)
(*     checkpoint (store.py save_decision) and runs the per-decision       *)
(*     downstream work.                                                    *)
(* processed, decisions, grouped and triageCalls are rows of the database  *)
(* and survive a crash; everything else a replica holds is memory.         *)
(*                                                                         *)
(* An alert is its position in (timestamp, _id) order and stands for its   *)
(* own timestamp.  The queue's priority order and its shutdown are in      *)
(* TriageDispatcher; here a worker may take any queued alert.              *)
(***************************************************************************)
EXTENDS Integers, FiniteSets

CONSTANTS
  Replicas,         \* platform processes that share one database
  Workers,          \* triage worker threads of each process
  Alerts,           \* alert timestamps that can occur
  LowRisk,          \* alerts whose risk_score is below min_risk (10)
  Foreign,          \* alerts of agents that are not this tenant's
  NoAlert,          \* an idle worker holds it
  Nobody,           \* holder of a free job lock
  BatchSize,        \* wazuh.alerts.batch_size
  LookBack,         \* look_back_seconds
  BackfillWindow,   \* "now-24h"
  NewTenantWindow,  \* "now-1m"
  PriorHistory,     \* TRUE if processed_alerts holds ids of earlier alerts
  QueueCap,         \* max_queue of the dispatcher
  MaxCache,         \* _max_processed_cache
  MaxDaily,         \* max_triage_daily of the licence, 0 = unlimited
  MaxLate,          \* bound: how far behind the clock an alert may be indexed
  MaxCrashes,       \* bound on crashes of replicas
  MaxFaults         \* bound on failed reads, writes and triages

ASSUME PipelineAssumption ==
  /\ Alerts \subseteq Nat \ {0}
  /\ LowRisk \subseteq Alerts /\ Foreign \subseteq Alerts
  /\ NoAlert \notin Alerts
  /\ Nobody \notin Replicas
  /\ {BatchSize, QueueCap} \subseteq Nat \ {0}
  /\ {LookBack, BackfillWindow, NewTenantWindow, MaxCache, MaxDaily,
      MaxLate, MaxCrashes, MaxFaults} \subseteq Nat
  /\ PriorHistory \in BOOLEAN

VARIABLES
  now,          \* wall clock: no alert has a later timestamp yet
  indexed,      \* alerts that a search of wazuh-alerts-* can return
  lock,         \* holder of the advisory lock "dhruva:job:alert_loop"
  pc,           \* where the alert loop of each replica is
  cursor,       \* _tenant_cursor: last alert fetched, 0 before the first
  polled,       \* _tenant_first_fetch: this process polled the tenant before
  anchor,       \* _tenant_fetch_anchor: enrolment instant of a new tenant
  history,      \* processed_ids was not empty when the process started
  seen,         \* processed_ids: what this process enriched or found durable
  batch,        \* raw_alerts not yet looked at by the dedup loop
  worthy,       \* enriched_batch not yet checkpointed, submitted or dropped
  queue,        \* the dispatcher's queue
  inflight,     \* the dispatcher's _inflight set
  held,         \* the alert in each worker's hands
  saved,        \* workers whose decision is committed
  processed,    \* rows of processed_alerts
  decisions,    \* decision rows each replica has saved for each alert
  grouped,      \* alerts whose decision went through incident grouping
  triageCalls,  \* today's count of the triage_call metric
  abandoned,    \* history: alerts a process saw and then dropped on an error
  owed,         \* history: alerts a crash wiped out of some memory
  crashes, faults

loopVars == <<pc, batch, worthy>>
fetchVars == <<cursor, polled, anchor, history>>
poolVars == <<queue, inflight, held, saved>>
dbVars == <<processed, decisions, grouped, triageCalls>>
envVars == <<now, indexed>>
ghostVars == <<abandoned, owed>>
vars == <<envVars, lock, loopVars, fetchVars, seen, poolVars, dbVars,
          ghostVars, crashes, faults>>

NoAnchor == -1
Phases == {"idle", "fetch", "enrich", "checkpoint", "submit", "down"}

Held(r) == {held[r][w] : w \in Workers} \ {NoAlert}
Unsaved(r) == {held[r][w] : w \in Workers \ saved[r]} \ {NoAlert}
\* Alerts this process still means to triage.
Pending(r) == worthy[r] \cup queue[r] \cup Unsaved(r)
InCycle(r) == pc[r] \notin {"idle", "down"}

Init ==
  /\ now = 0 /\ indexed = {}
  /\ lock = Nobody
  /\ pc = [r \in Replicas |-> "idle"]
  /\ cursor = [r \in Replicas |-> 0]
  /\ polled = [r \in Replicas |-> FALSE]
  /\ anchor = [r \in Replicas |-> NoAnchor]
  /\ history = [r \in Replicas |-> PriorHistory]
  /\ seen = [r \in Replicas |-> {}]
  /\ batch = [r \in Replicas |-> {}]
  /\ worthy = [r \in Replicas |-> {}]
  /\ queue = [r \in Replicas |-> {}]
  /\ inflight = [r \in Replicas |-> {}]
  /\ held = [r \in Replicas |-> [w \in Workers |-> NoAlert]]
  /\ saved = [r \in Replicas |-> {}]
  /\ processed = {} /\ grouped = {} /\ triageCalls = 0
  /\ decisions = [r \in Replicas |-> [a \in Alerts |-> 0]]
  /\ abandoned = [r \in Replicas |-> {}]
  /\ owed = {}
  /\ crashes = 0 /\ faults = 0

Fault == faults < MaxFaults /\ faults' = faults + 1
NoFault == UNCHANGED faults
-----------------------------------------------------------------------------
\* The environment: time passes, and Wazuh indexes alerts, possibly late.
Tick ==
  /\ \E a \in Alerts : a > now
  /\ now' = now + 1
  /\ UNCHANGED <<indexed, lock, loopVars, fetchVars, seen, poolVars, dbVars,
                 ghostVars, crashes, faults>>

Ingest(a) ==
  /\ a \notin indexed
  /\ a <= now /\ a + MaxLate >= now
  /\ indexed' = indexed \cup {a}
  /\ UNCHANGED <<now, lock, loopVars, fetchVars, seen, poolVars, dbVars,
                 ghostVars, crashes, faults>>

\* Midnight: the daily quota counts from zero again.
NewDay ==
  /\ MaxDaily > 0 /\ triageCalls > 0
  /\ triageCalls' = 0
  /\ UNCHANGED <<envVars, lock, loopVars, fetchVars, seen, poolVars,
                 processed, decisions, grouped, ghostVars, crashes, faults>>
-----------------------------------------------------------------------------
(* The alert loop.                                                         *)

\* pg_try_advisory_lock: a replica that does not get it skips the cycle.
BeginCycle(r) ==
  /\ pc[r] = "idle" /\ lock = Nobody
  /\ lock' = r
  /\ pc' = [pc EXCEPT ![r] = "fetch"]
  /\ UNCHANGED <<envVars, batch, worthy, fetchVars, seen, poolVars, dbVars,
                 ghostVars, crashes, faults>>

\* Broken variant of Unlock: an exit path keeps the job lock.
UnlockForgotten(r) == UNCHANGED lock

\* Leaving the `with db.job_lock` block, normally or by an exception.
Unlock(r) == lock' = IF lock = r THEN Nobody ELSE lock

\* The lower bound of a search that has no cursor to start from.
WindowStart(r) ==
  IF ~polled[r]
  THEN IF history[r] THEN now - BackfillWindow ELSE now - NewTenantWindow
  ELSE IF anchor[r] # NoAnchor THEN anchor[r] ELSE now - BackfillWindow

\* Broken variant of Oldest: newest first, as before the ascending cursor.
NewestFirst(S) == {a \in S : Cardinality({b \in S : b > a}) < BatchSize}

\* Sorted ascending, a search returns the oldest BatchSize matches.
Oldest(S) == {a \in S : Cardinality({b \in S : b < a}) < BatchSize}

Ahead(r) == IF cursor[r] > 0 THEN {a \in indexed : a > cursor[r]}
                             ELSE {a \in indexed : a >= WindowStart(r)}
\* Broken variant of Behind: both ends of the window are left out.
BehindExclusive(r) ==
  IF cursor[r] > 0 /\ LookBack > 0
  THEN {a \in indexed : cursor[r] - LookBack < a /\ a < cursor[r]} ELSE {}

Behind(r) == IF cursor[r] > 0 /\ LookBack > 0
             THEN {a \in indexed : cursor[r] - LookBack <= a /\ a <= cursor[r]}
             ELSE {}

\* Broken variant of MovePast: the cursor skips one position.
MoveTooFar(r, forward) ==
  \/ forward = {} /\ UNCHANGED cursor
  \/ \E last \in forward :
       /\ \A a \in forward : a <= last
       /\ cursor' = [cursor EXCEPT ![r] = last + 1]

MovePast(r, forward) ==
  \/ forward = {} /\ UNCHANGED cursor
  \/ \E last \in forward :
       /\ \A a \in forward : a <= last
       /\ cursor' = [cursor EXCEPT ![r] = last]

\* A new tenant's first poll fixes the instant it enrolled.
NotePoll(r) ==
  /\ polled' = [polled EXCEPT ![r] = TRUE]
  /\ anchor' = [anchor EXCEPT ![r] = IF polled[r] \/ history[r] THEN @ ELSE now]

\* Broken variant of Fetch: the look-back search forgets the agents.
FetchLateUnscoped(r) ==
  /\ pc[r] = "fetch"
  /\ batch' = [batch EXCEPT ![r] = Oldest(Ahead(r) \ Foreign) \cup Oldest(Behind(r))]
  /\ MovePast(r, Oldest(Ahead(r) \ Foreign))
  /\ NotePoll(r)
  /\ pc' = [pc EXCEPT ![r] = "enrich"]
  /\ UNCHANGED <<envVars, lock, worthy, history, seen, poolVars, dbVars,
                 ghostVars, crashes, faults>>

\* One poll.  The forward search and the look-back search fail separately:
\* each catches its own error.  The tenant's agents are read before the
\* forward search, inside its try block, so when that read raises the forward
\* search never runs but the look-back one still does, with a query that has
\* no agent clause yet.
Fetch(r) ==
  /\ pc[r] = "fetch"
  /\ \E forwardOk, lateOk, scoped \in BOOLEAN :
       LET forward == IF forwardOk /\ scoped THEN Oldest(Ahead(r) \ Foreign)
                                             ELSE {}
           visible == IF scoped THEN Behind(r) \ Foreign ELSE Behind(r)
           late    == IF lateOk THEN Oldest(visible) ELSE {}
       IN /\ IF forwardOk /\ lateOk /\ scoped THEN NoFault ELSE Fault
          /\ MovePast(r, forward)
          /\ batch' = [batch EXCEPT ![r] = forward \cup late]
  /\ NotePoll(r)
  /\ pc' = [pc EXCEPT ![r] = "enrich"]
  /\ UNCHANGED <<envVars, lock, worthy, history, seen, poolVars, dbVars,
                 ghostVars, crashes>>

\* One turn of the dedup loop: an alert this process has seen, or that has a
\* durable row, is skipped; any other is enriched.
SkipKnown(r, a) ==
  /\ pc[r] = "enrich" /\ a \in batch[r]
  /\ a \in seen[r] \cup processed
  /\ batch' = [batch EXCEPT ![r] = @ \ {a}]
  /\ seen' = [seen EXCEPT ![r] = @ \cup {a}]
  /\ UNCHANGED <<envVars, lock, pc, worthy, fetchVars, poolVars, dbVars,
                 ghostVars, crashes, faults>>

\* Broken variant of Enrich: only the in-memory set is consulted.
EnrichWithoutDurableDedup(r, a) ==
  /\ pc[r] = "enrich" /\ a \in batch[r] \ seen[r]
  /\ batch' = [batch EXCEPT ![r] = @ \ {a}]
  /\ seen' = [seen EXCEPT ![r] = @ \cup {a}]
  /\ worthy' = [worthy EXCEPT ![r] = @ \cup {a}]
  /\ UNCHANGED <<envVars, lock, pc, fetchVars, poolVars, dbVars, ghostVars,
                 crashes, faults>>

\* get_processed_ids returns bare alert ids while the loop looks up
\* "<tenant>:<id>", so trimming the cache forgets every alert.
Trimmed(S) == IF Cardinality(S) > MaxCache THEN {} ELSE S

Enrich(r, a) ==
  /\ pc[r] = "enrich" /\ a \in batch[r]
  /\ a \notin seen[r] \cup processed
  /\ batch' = [batch EXCEPT ![r] = @ \ {a}]
  /\ seen' = [seen EXCEPT ![r] = Trimmed(@ \cup {a})]
  /\ worthy' = [worthy EXCEPT ![r] = @ \cup {a}]
  /\ abandoned' = [abandoned EXCEPT ![r] = @ \ {a}]
  /\ UNCHANGED <<envVars, lock, pc, fetchVars, poolVars, dbVars, owed,
                 crashes, faults>>

Enriched(r) ==
  /\ pc[r] = "enrich" /\ batch[r] = {}
  /\ pc' = [pc EXCEPT ![r] = "checkpoint"]
  /\ UNCHANGED <<envVars, lock, batch, worthy, fetchVars, seen, poolVars,
                 dbVars, ghostVars, crashes, faults>>

\* A below-threshold alert is handled by its checkpoint alone; a failed write
\* is logged and swallowed.
SkipLowRisk(r, a) ==
  /\ pc[r] = "checkpoint" /\ a \in worthy[r] \cap LowRisk
  /\ worthy' = [worthy EXCEPT ![r] = @ \ {a}]
  /\ processed' = processed \cup {a}
  /\ UNCHANGED <<envVars, lock, pc, batch, fetchVars, seen, poolVars,
                 decisions, grouped, triageCalls, ghostVars, crashes, faults>>

CheckpointFails(r, a) ==
  /\ pc[r] = "checkpoint" /\ a \in worthy[r] \cap LowRisk
  /\ Fault
  /\ worthy' = [worthy EXCEPT ![r] = @ \ {a}]
  /\ abandoned' = [abandoned EXCEPT ![r] = @ \cup {a}]
  /\ UNCHANGED <<envVars, lock, pc, batch, fetchVars, seen, poolVars, dbVars,
                 owed, crashes>>

EndCycle(r, dropped) ==
  /\ Unlock(r)
  /\ pc' = [pc EXCEPT ![r] = "idle"]
  /\ batch' = [batch EXCEPT ![r] = {}]
  /\ worthy' = [worthy EXCEPT ![r] = {}]
  /\ abandoned' = [abandoned EXCEPT ![r] = @ \cup dropped]
  /\ UNCHANGED <<envVars, cursor, history, seen, poolVars, dbVars, owed, crashes>>

\* TenantConfigUnavailable: the tenant is skipped before any search.
SkipTenant(r) ==
  /\ pc[r] = "fetch"
  /\ Fault /\ NotePoll(r) /\ EndCycle(r, {})

QuotaSpent == MaxDaily > 0 /\ triageCalls >= MaxDaily

\* What is left after the quiet alerts: nothing, too much for today's quota
\* (the batch is dropped without a checkpoint), or work for the dispatcher.
NothingToTriage(r) ==
  /\ pc[r] = "checkpoint" /\ worthy[r] = {}
  /\ NoFault /\ UNCHANGED <<polled, anchor>> /\ EndCycle(r, {})

DropOverQuota(r) ==
  /\ pc[r] = "checkpoint" /\ worthy[r] \cap LowRisk = {} /\ worthy[r] # {}
  /\ QuotaSpent
  /\ NoFault /\ UNCHANGED <<polled, anchor>> /\ EndCycle(r, worthy[r])

StartSubmitting(r) ==
  /\ pc[r] = "checkpoint" /\ worthy[r] \cap LowRisk = {} /\ worthy[r] # {}
  /\ ~QuotaSpent
  /\ pc' = [pc EXCEPT ![r] = "submit"]
  /\ UNCHANGED <<envVars, lock, batch, worthy, fetchVars, seen, poolVars,
                 dbVars, ghostVars, crashes, faults>>

\* Broken variants of Submit: a full queue drops the alert instead of blocking;
\* the in-flight set is not consulted.
SubmitOrDrop(r, a) ==
  /\ pc[r] = "submit" /\ a \in worthy[r] \ inflight[r]
  /\ worthy' = [worthy EXCEPT ![r] = @ \ {a}]
  /\ IF Cardinality(queue[r]) >= QueueCap
     THEN UNCHANGED <<queue, inflight>>
     ELSE /\ inflight' = [inflight EXCEPT ![r] = @ \cup {a}]
          /\ queue' = [queue EXCEPT ![r] = @ \cup {a}]
  /\ UNCHANGED <<envVars, lock, pc, batch, fetchVars, seen, held, saved, dbVars,
                 ghostVars, crashes, faults>>

SubmitUnguarded(r, a) ==
  /\ pc[r] = "submit" /\ a \in worthy[r]
  /\ Cardinality(queue[r]) < QueueCap
  /\ worthy' = [worthy EXCEPT ![r] = @ \ {a}]
  /\ inflight' = [inflight EXCEPT ![r] = @ \cup {a}]
  /\ queue' = [queue EXCEPT ![r] = @ \cup {a}]
  /\ UNCHANGED <<envVars, lock, pc, batch, fetchVars, seen, held, saved, dbVars,
                 ghostVars, crashes, faults>>

\* TriageDispatcher.submit: skip what is in flight, else wait for room.
SkipInFlight(r, a) ==
  /\ pc[r] = "submit" /\ a \in worthy[r] \cap inflight[r]
  /\ worthy' = [worthy EXCEPT ![r] = @ \ {a}]
  /\ UNCHANGED <<envVars, lock, pc, batch, fetchVars, seen, poolVars, dbVars,
                 ghostVars, crashes, faults>>

Submit(r, a) ==
  /\ pc[r] = "submit" /\ a \in worthy[r] \ inflight[r]
  /\ Cardinality(queue[r]) < QueueCap
  /\ worthy' = [worthy EXCEPT ![r] = @ \ {a}]
  /\ inflight' = [inflight EXCEPT ![r] = @ \cup {a}]
  /\ queue' = [queue EXCEPT ![r] = @ \cup {a}]
  /\ UNCHANGED <<envVars, lock, pc, batch, fetchVars, seen, held, saved, dbVars,
                 ghostVars, crashes, faults>>

Submitted(r) ==
  /\ pc[r] = "submit" /\ worthy[r] = {}
  /\ NoFault /\ UNCHANGED <<polled, anchor>> /\ EndCycle(r, {})

\* An error that no inner handler catches (a database read in the dedup loop,
\* an enricher, the quota query) aborts the cycle; run_alert_loop logs it and
\* goes on.  The cursor is past every alert of the batch by then.
CycleRaises(r) ==
  /\ pc[r] \in {"fetch", "enrich", "checkpoint"}
  /\ Fault /\ UNCHANGED <<polled, anchor>>
  /\ EndCycle(r, worthy[r] \cup (batch[r] \ (seen[r] \cup processed)))
-----------------------------------------------------------------------------
(* The workers.                                                            *)

Dequeue(r, w, a) ==
  /\ held[r][w] = NoAlert /\ a \in queue[r]
  /\ queue' = [queue EXCEPT ![r] = @ \ {a}]
  /\ held' = [held EXCEPT ![r][w] = a]
  /\ UNCHANGED <<envVars, lock, loopVars, fetchVars, seen, inflight, saved,
                 dbVars, ghostVars, crashes, faults>>

\* Broken variant of SaveDecision: the decision commits without its checkpoint.
SaveWithoutCheckpoint(r, w) ==
  /\ held[r][w] # NoAlert /\ w \notin saved[r]
  /\ decisions' = [decisions EXCEPT ![r][held[r][w]] = @ + 1]
  /\ saved' = [saved EXCEPT ![r] = @ \cup {w}]
  /\ UNCHANGED <<envVars, lock, loopVars, fetchVars, seen, queue, inflight,
                 held, processed, grouped, triageCalls, ghostVars, crashes, faults>>

\* save_decision: the decision and the checkpoint commit together.
SaveDecision(r, w) ==
  /\ held[r][w] # NoAlert /\ w \notin saved[r]
  /\ decisions' = [decisions EXCEPT ![r][held[r][w]] = @ + 1]
  /\ processed' = processed \cup {held[r][w]}
  /\ saved' = [saved EXCEPT ![r] = @ \cup {w}]
  /\ UNCHANGED <<envVars, lock, loopVars, fetchVars, seen, queue, inflight,
                 held, grouped, triageCalls, ghostVars, crashes, faults>>

\* The `finally` of the worker loop: the alert is no longer in flight.
LetGo(r, w) ==
  /\ inflight' = [inflight EXCEPT ![r] = @ \ {held[r][w]}]
  /\ held' = [held EXCEPT ![r][w] = NoAlert]
  /\ saved' = [saved EXCEPT ![r] = @ \ {w}]

\* _process_decision_downstream: the quota metric and the incident grouping;
\* each swallows its own error.
Downstream(r, w) ==
  /\ held[r][w] # NoAlert /\ w \in saved[r]
  /\ grouped' \in {grouped, grouped \cup {held[r][w]}}
  /\ triageCalls' \in {triageCalls, triageCalls + 1}
  /\ IF held[r][w] \in grouped' /\ triageCalls' > triageCalls THEN NoFault ELSE Fault
  /\ LetGo(r, w)
  /\ UNCHANGED <<envVars, lock, loopVars, fetchVars, seen, queue, processed,
                 decisions, ghostVars, crashes>>

\* _process_one raises before anything is committed: logged, alert dropped.
TriageFails(r, w) ==
  /\ held[r][w] # NoAlert /\ w \notin saved[r]
  /\ Fault
  /\ abandoned' = [abandoned EXCEPT ![r] = @ \cup {held[r][w]}]
  /\ LetGo(r, w)
  /\ UNCHANGED <<envVars, lock, loopVars, fetchVars, seen, queue, dbVars, owed,
                 crashes>>
-----------------------------------------------------------------------------
\* A process dies, at a graceful stop too once its drain is over: its memory
\* is gone and its database sessions close, which frees the job lock.
Crash(r) ==
  /\ pc[r] # "down" /\ crashes < MaxCrashes
  /\ crashes' = crashes + 1
  /\ owed' = owed \cup (batch[r] \cup Pending(r))
  /\ Unlock(r)
  /\ pc' = [pc EXCEPT ![r] = "down"]
  /\ cursor' = [cursor EXCEPT ![r] = 0]
  /\ polled' = [polled EXCEPT ![r] = FALSE]
  /\ anchor' = [anchor EXCEPT ![r] = NoAnchor]
  /\ history' = [history EXCEPT ![r] = FALSE]
  /\ seen' = [seen EXCEPT ![r] = {}]
  /\ batch' = [batch EXCEPT ![r] = {}]
  /\ worthy' = [worthy EXCEPT ![r] = {}]
  /\ queue' = [queue EXCEPT ![r] = {}]
  /\ inflight' = [inflight EXCEPT ![r] = {}]
  /\ held' = [held EXCEPT ![r] = [w \in Workers |-> NoAlert]]
  /\ saved' = [saved EXCEPT ![r] = {}]
  /\ abandoned' = [abandoned EXCEPT ![r] = {}]
  /\ UNCHANGED <<envVars, dbVars, faults>>

\* Broken variant of Restart: processed_ids is not reloaded.
RestartWithoutReload(r) ==
  /\ pc[r] = "down"
  /\ pc' = [pc EXCEPT ![r] = "idle"]
  /\ UNCHANGED <<envVars, lock, batch, worthy, fetchVars, seen, poolVars, dbVars,
                 ghostVars, crashes, faults>>

\* processed_ids is loaded from the table; only whether it is empty matters.
Restart(r) ==
  /\ pc[r] = "down"
  /\ pc' = [pc EXCEPT ![r] = "idle"]
  /\ history' = [history EXCEPT ![r] = PriorHistory \/ processed # {}]
  /\ UNCHANGED <<envVars, lock, batch, worthy, cursor, polled, anchor, seen,
                 poolVars, dbVars, ghostVars, crashes, faults>>

LoopStep(r) ==
  \/ BeginCycle(r) \/ Fetch(r) \/ SkipTenant(r) \/ Enriched(r)
  \/ NothingToTriage(r) \/ DropOverQuota(r) \/ StartSubmitting(r)
  \/ Submitted(r) \/ CycleRaises(r)
  \/ \E a \in Alerts :
       \/ SkipKnown(r, a) \/ Enrich(r, a)
       \/ SkipLowRisk(r, a) \/ CheckpointFails(r, a)
       \/ SkipInFlight(r, a) \/ Submit(r, a)

WorkerStep(r, w) ==
  \/ \E a \in Alerts : Dequeue(r, w, a)
  \/ SaveDecision(r, w) \/ Downstream(r, w) \/ TriageFails(r, w)

Next ==
  \/ Tick \/ NewDay
  \/ \E a \in Alerts : Ingest(a)
  \/ \E r \in Replicas : LoopStep(r) \/ Crash(r) \/ Restart(r)
  \/ \E r \in Replicas, w \in Workers : WorkerStep(r, w)

Spec == Init /\ [][Next]_vars

(* The loop of a live process keeps polling, its workers keep working (an  *)
(* LLM call times out) and a dead process is restarted (systemd Restart=). *)
Fairness ==
  /\ \A r \in Replicas : WF_vars(LoopStep(r)) /\ WF_vars(Restart(r))
  /\ \A r \in Replicas, w \in Workers : WF_vars(WorkerStep(r, w))

FairSpec == Spec /\ Fairness
-----------------------------------------------------------------------------
(* Properties.                                                             *)

TypeOK ==
  /\ now \in Nat /\ indexed \subseteq Alerts
  /\ lock \in Replicas \cup {Nobody}
  /\ pc \in [Replicas -> Phases]
  /\ cursor \in [Replicas -> Alerts \cup {0}]
  /\ polled \in [Replicas -> BOOLEAN]
  /\ anchor \in [Replicas -> Nat \cup {NoAnchor}]
  /\ history \in [Replicas -> BOOLEAN]
  /\ seen \in [Replicas -> SUBSET Alerts]
  /\ batch \in [Replicas -> SUBSET Alerts]
  /\ worthy \in [Replicas -> SUBSET Alerts]
  /\ queue \in [Replicas -> SUBSET Alerts]
  /\ inflight \in [Replicas -> SUBSET Alerts]
  /\ abandoned \in [Replicas -> SUBSET Alerts]
  /\ held \in [Replicas -> [Workers -> Alerts \cup {NoAlert}]]
  /\ saved \in [Replicas -> SUBSET Workers]
  /\ processed \subseteq Alerts /\ grouped \subseteq Alerts
  /\ owed \subseteq Alerts
  /\ decisions \in [Replicas -> [Alerts -> Nat]]
  /\ triageCalls \in Nat /\ crashes \in Nat /\ faults \in Nat

\* "EXACTLY ONE actually fetches + enqueues" (main.py:1811) at any moment, and
\* every way out of a cycle, exceptions and crashes included, frees the lock.
OneCycleAtATime ==
  \A r \in Replicas : InCycle(r) <=> lock = r

\* The dispatcher's in-flight set is exactly what is queued or in a worker's
\* hands, and no alert is in two of those places: one process never triages
\* an alert twice at once, whatever the alert loop submits again.
NeverHeldTwice ==
  \A r \in Replicas :
    /\ inflight[r] = queue[r] \cup Held(r)
    /\ queue[r] \cap Held(r) = {}
    /\ \A v, w \in Workers :
         held[r][v] = held[r][w] /\ held[r][v] # NoAlert => v = w

\* What a process remembers as seen it will never look at again, so each such
\* alert must be durably handled, still on its way to a worker, or dropped by
\* an error that was logged.
SeenIsAccountedFor ==
  \A r \in Replicas : seen[r] \subseteq processed \cup Pending(r) \cup abandoned[r]

\* However often a process crashes and starts again, it never saves a second
\* decision for an alert.
OnceEachReplica ==
  \A r \in Replicas, a \in Alerts : decisions[r][a] <= 1

\* main.py:2085 and service.py:1459: an alert lost with a process's memory is
\* fetched again after the restart: no cursor moves past it before the process
\* has it in hand again, finds it handled, or logs an error about it.
DroppedIsRefetched ==
  \A r \in Replicas : \A a \in owed \ (processed \cup Foreign) :
    a <= cursor[r] => a \in seen[r] \cup batch[r] \cup abandoned[r]

\* service.py:1348: a successful poll picks up every alert that reached the
\* index late and lies within the look-back window.
LateArrivalsAreFetched ==
  [][\A r \in Replicas, a \in indexed \ Foreign :
       /\ pc[r] = "fetch" /\ pc'[r] = "enrich" /\ faults' = faults
       /\ cursor[r] > 0 /\ cursor[r] - LookBack <= a /\ a <= cursor[r]
       => a \in batch'[r]]_vars

\* service.py:1354: the look-back search keeps the tenant's agent scoping, so
\* as long as the tenant's agents can be read no alert of another tenant's
\* agent is enriched or triaged here.
TenantScoped ==
  faults = 0 => \A r \in Replicas : (batch[r] \cup Pending(r)) \cap Foreign = {}

\* A single replica keeps the ledger's promise (AlertLedger): one decision per
\* alert for ever, saved with its checkpoint, across every crash and restart.
SoleReplica == CHOOSE r \in Replicas : TRUE
Ledger == INSTANCE AlertLedger WITH
  Quiet <- LowRisk,
  handled <- processed,
  verdicts <- decisions[SoleReplica]
OneReplicaKeepsLedger == Ledger!LedgerSpec

\* Every alert that is indexed is in the end durably handled.
EventuallyHandled ==
  \A a \in Alerts \ Foreign : a \in indexed ~> a \in processed
=============================================================================
