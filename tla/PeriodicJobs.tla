---------------------------- MODULE PeriodicJobs ----------------------------
(* The jobs of the scheduler (main.py) and the tenants they run for.  A job*)
(* that holds its lock in the database runs in one replica at a time; it   *)
(* works tenant by tenant, or across all tenants, or (the check of the     *)
(* language model) for whatever tenant its thread is at.  The tenant is a  *)
(* context variable of the thread, and the threads of the pool are used    *)
(* again and again.  Beside the jobs, the alert loop of each replica takes *)
(* its tenants from a mode that the replica keeps.                         *)
EXTENDS Integers, FiniteSets

CONSTANTS
  Replicas, Threads,
  Each,         \* jobs that work tenant by tenant
  Whole,        \* jobs that work across tenants
  Tenants, Default, \* Default: client_id of the configuration
  MaxChanges, MaxFaults

NoTenant == "none"
AllTenants == "all"
Nowhere == <<"none", 0>>
Away == [at |-> "away", job |-> "none"]
Thread == Replicas \X Threads

\* No tenant is called as the two contexts that name none, nor a thread Nowhere.
JobsAssumption ==
  /\ IsFiniteSet(Tenants) /\ Default \in Tenants
  /\ {NoTenant, AllTenants} \cap Tenants = {} /\ Nowhere \notin Thread

VARIABLES
  active,       \* active rows of tenants
  mode,         \* _multi_tenant of each replica
  ctx,          \* _tenant_ctx of each thread: NoTenant, a tenant or AllTenants
  work,         \* what each thread is at
  lock,         \* advisory lock of each job: the thread whose session has it
  misled,       \* history: replicas whose mode another one's change made stale
  lostLock,     \* history: a session ended while its job ran
  judged,       \* history: whom the last check of the language model asked about
  changes, faults

jobVars == <<active, mode, ctx, work, lock, misled, lostLock, judged, changes,
             faults>>
bounds == <<changes, faults>>

Fault == faults < MaxFaults /\ faults' = faults + 1
At(th, at) == work[th].at = at

Init ==
  /\ active \in {{Default}, Tenants} /\ mode = [r \in Replicas |-> Cardinality(active) > 1]
  /\ ctx = [th \in Thread |-> NoTenant] /\ work = [th \in Thread |-> Away]
  /\ lock = [j \in Each \cup Whole |-> Nowhere]
  /\ misled = {} /\ lostLock = FALSE /\ judged = "nobody" /\ changes = 0 /\ faults = 0
-----------------------------------------------------------------------------
(* _leader_job: the lock, on a session of its own, around the whole job.   *)

\* The scheduler runs a job once at a time in a process.
Free(th, j) ==
  /\ At(th, "away")
  /\ \A other \in Thread : other[1] = th[1] => At(other, "away") \/ work[other].job # j

\* Broken variant of Granted: the lock of a process, not of the database.
HereOnly(th, j) == \A other \in Thread : other[1] = th[1] => lock[j] # other
\* pg_try_advisory_lock.  A job that does not get it is skipped.
Granted(th, j) == lock[j] = Nowhere

Start(th, j) ==
  /\ Free(th, j) /\ Granted(th, j) /\ lock' = [lock EXCEPT ![j] = th]
  /\ work' = [work EXCEPT ![th] =
       [at |-> IF j \in Each THEN "list" ELSE "whole", job |-> j,
        todo |-> {}, listed |-> {}, tried |-> {}, read |-> FALSE]]
  /\ UNCHANGED <<active, mode, ctx, misled, lostLock, judged, bounds>>

\* The lock is given back, if its session still has it, and the session closed.
Release(th) ==
  LET j == work[th].job IN
  /\ lock' = IF lock[j] = th THEN [lock EXCEPT ![j] = Nowhere] ELSE lock
  /\ work' = [work EXCEPT ![th] = Away]

\* The database ends a session; the job does not hear of it, and runs on.
SessionDies(th) ==
  /\ ~At(th, "away") /\ Fault
  /\ \E j \in Each \cup Whole :
       /\ lock[j] = th /\ work[th].job = j
       /\ lock' = [lock EXCEPT ![j] = Nowhere]
  /\ lostLock' = TRUE
  /\ UNCHANGED <<active, mode, ctx, work, misled, judged, changes>>
-----------------------------------------------------------------------------
(* cross_tenant and set_tenant: the first is undone at its end, whatever   *)
(* happens in it, the second stays.                                        *)

\* Broken variant of Undone: an error leaves the context as it is.
LeftAtError(th, old, failed) == IF failed THEN ctx[th] ELSE old
Undone(th, old, failed) == old

Enter(th, at) ==
  /\ ctx' = [ctx EXCEPT ![th] = AllTenants]
  /\ work' = [work EXCEPT ![th].at = at, ![th].todo = {ctx[th]}]

\* _get_active_tenant_ids, or the body of a job of the whole store.
Across(th) ==
  /\ \/ At(th, "list") /\ Enter(th, "listing")
     \/ At(th, "whole") /\ Enter(th, "across")
  /\ UNCHANGED <<active, mode, lock, misled, lostLock, judged, bounds>>

\* A list that cannot be read is the default tenant, for this cycle.
Listed(th) ==
  LET old == CHOOSE t \in work[th].todo : TRUE IN
  /\ At(th, "listing")
  /\ \E failed \in BOOLEAN :
       /\ IF failed THEN Fault ELSE UNCHANGED faults
       /\ ctx' = [ctx EXCEPT ![th] = Undone(th, old, failed)]
       /\ LET list == IF failed THEN {Default} ELSE active IN
          work' = [work EXCEPT ![th].at = "each", ![th].todo = list,
                     ![th].listed = list, ![th].read = ~failed]
  /\ UNCHANGED <<active, mode, lock, misled, lostLock, judged, changes>>

\* A job of the whole store ends, by an error or not.
WholeEnds(th) ==
  LET old == CHOOSE t \in work[th].todo : TRUE IN
  /\ At(th, "across") /\ Release(th)
  /\ \E failed \in BOOLEAN :
       /\ IF failed THEN Fault ELSE UNCHANGED faults
       /\ ctx' = [ctx EXCEPT ![th] = Undone(th, old, failed)]
  /\ UNCHANGED <<active, mode, misled, lostLock, judged, changes>>

\* Broken variant of AfterError: the error of one tenant ends the round.
EndsRound(todo, t) == {}
AfterError(todo, t) == todo \ {t}

\* One tenant's turn; its error is logged, and the next one has its turn.
Turn(th) ==
  /\ At(th, "each")
  /\ \E t \in work[th].todo, failed \in BOOLEAN :
       /\ IF failed THEN Fault ELSE UNCHANGED faults
       /\ ctx' = [ctx EXCEPT ![th] = t]
       /\ work' = [work EXCEPT ![th].tried = @ \cup {t},
            ![th].todo = IF failed THEN AfterError(@, t) ELSE @ \ {t}]
  /\ UNCHANGED <<active, mode, lock, misled, lostLock, judged, changes>>

RoundEnds(th) ==
  /\ At(th, "each") /\ work[th].todo = {} /\ Release(th)
  /\ UNCHANGED <<active, mode, ctx, misled, lostLock, judged, bounds>>

\* _check_llm_health_periodic, on every replica, with the context that the thread
\* was left with.  Without one the query is refused, and a warning is all.
Judge(th) ==
  /\ At(th, "away")
  /\ judged' = IF ctx[th] = NoTenant THEN "nobody" ELSE ctx[th]
  /\ UNCHANGED <<active, mode, ctx, work, lock, misled, lostLock, bounds>>
-----------------------------------------------------------------------------
(* The tenants of the alert loop.                                          *)

\* _get_alert_loop_tenants, of a list that could be read.
Polled(r) == IF mode[r] THEN active ELSE {Default}

\* Broken variant of Recomputed: the mode is that of the start.
AsStarted(r, tenants) == mode
\* _recompute_multi_tenant_mode, in the replica that served the request.
Recomputed(r, tenants) == [mode EXCEPT ![r] = Cardinality(tenants) > 1]

\* An administrator adds a tenant or switches one off.
ChangeTenants(r) ==
  /\ changes < MaxChanges /\ changes' = changes + 1
  /\ \E t \in Tenants :
       active' = IF t \in active THEN active \ {t} ELSE active \cup {t}
  /\ mode' = Recomputed(r, active')
  /\ misled' = (misled \cup Replicas) \ {r}
  /\ UNCHANGED <<ctx, work, lock, lostLock, judged, faults>>

\* A process starts again; a list it cannot read means one tenant.
Restart(r) ==
  /\ changes < MaxChanges /\ changes' = changes + 1
  /\ \/ /\ mode' = [mode EXCEPT ![r] = Cardinality(active) > 1]
        /\ misled' = misled \ {r} /\ UNCHANGED faults
     \/ Fault /\ mode' = [mode EXCEPT ![r] = FALSE] /\ misled' = misled \cup {r}
  /\ ctx' = [th \in Thread |-> IF th[1] = r THEN NoTenant ELSE ctx[th]]
  /\ work' = [th \in Thread |-> IF th[1] = r THEN Away ELSE work[th]]
  /\ lock' = [j \in Each \cup Whole |-> IF lock[j][1] = r THEN Nowhere ELSE lock[j]]
  /\ UNCHANGED <<active, lostLock, judged>>

JobStep(th) ==
  \/ \E j \in Each \cup Whole : Start(th, j)
  \/ SessionDies(th) \/ Across(th) \/ Listed(th) \/ WholeEnds(th)
  \/ Turn(th) \/ RoundEnds(th) \/ Judge(th)
Next ==
  \/ \E th \in Thread : JobStep(th)
  \/ \E r \in Replicas : ChangeTenants(r) \/ Restart(r)
-----------------------------------------------------------------------------
TypeOK ==
  /\ active \subseteq Tenants /\ mode \in [Replicas -> BOOLEAN]
  /\ ctx \in [Thread -> Tenants \cup {NoTenant, AllTenants}]
  /\ lock \in [Each \cup Whole -> Thread \cup {Nowhere}]

\* A thread has the context of all tenants only in the block that asked for it,
\* whatever failed in it, so that nothing a later job of the thread asks is
\* answered across tenants (store.py:1419).
NeverLeftAcross ==
  /\ \A th \in Thread : ctx[th] = AllTenants => At(th, "listing") \/ At(th, "across")
  /\ judged # AllTenants

\* No job runs in two replicas at once, unless the database ended a session of
\* its lock (main.py:1201).
OneRunner ==
  \A one, two \in Thread :
    one # two /\ ~At(one, "away") /\ ~At(two, "away") =>
      work[one].job # work[two].job \/ lostLock

\* A round has tried every tenant of its list when it ends, whatever failed for
\* others; and the list was every active tenant, or could not be read
\* (main.py:1392).
EveryTenantHasItsTurn ==
  \A th \in Thread :
    At(th, "each") /\ work[th].todo = {} => work[th].tried = work[th].listed

\* Where the list can be read, the loop of every replica polls every active
\* tenant, unless another replica served the last change, or its own start could
\* not read the list (admin.py:33) - or the configured tenant is switched off
\* and one is left: then it polls the one that is off.
PollsAll ==
  \A r \in Replicas \ misled :
    active \subseteq Polled(r) \/ (Default \notin active /\ Cardinality(active) = 1)
=============================================================================
