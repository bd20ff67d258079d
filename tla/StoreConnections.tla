-------------------------- MODULE StoreConnections --------------------------
(***************************************************************************)
(* How the store hands out database sessions (store.py: _get_conn and what *)
(* it calls).  Every thread caches one session of the pool; each call of   *)
(* the store probes it, writes the tenant of the CALLER into it (the row   *)
(* filter of the database reads it there) and runs its statement.  The     *)
(* tasks of one thread (the coroutines of the event loop) share its        *)
(* session, each with a tenant of its own, and switch only between calls.  *)
(* Sessions die: the database restarts, or ends one that is idle.          *)
(***************************************************************************)
EXTENDS Integers, FiniteSets

CONSTANTS
  Tasks,
  ThreadOf(_),
  Slots,       \* places of the pool
  Tenants,
  MaxDeaths    \* bound on sessions that die

Threads == {ThreadOf(t) : t \in Tasks}
None == "none"
Cross == "cross"
Gone == "gone"     \* the session of a block, once it is dead

\* What the proofs ask of an instance.
PoolAssumption ==
  IsFiniteSet(Tasks) /\ IsFiniteSet(Slots) /\ None \notin Slots /\ Gone \notin Slots

VARIABLES
  cached,    \* the session a thread holds
  free,      \* the places of the pool nobody holds
  session,   \* alive, and the tenant it has
  at_,       \* where a task is
  who,       \* the tenant context of a task
  outer,     \* the context to return to from cross_tenant()
  call,      \* "both" if a task's call is of two statements, None if of one
  block,     \* the session a task's transaction block is open on, or Gone
  written,   \* writes in the open block, and writes that are durable
  durable,
  torn,      \* history: a call of two statements returned with one of them
             \* stored, or with success and not both
  deaths,
  strayed    \* history: a statement ran in a session with another tenant
connVars == <<cached, free, session, at_, who, outer, call, block, written,
              durable, torn, deaths, strayed>>
context == <<who, outer>>
effects == <<written, durable, torn, strayed>>

Fresh == [alive |-> TRUE, tenant |-> None]
Dead == [alive |-> FALSE, tenant |-> None]

Init ==
  /\ cached = [h \in Threads |-> None] /\ free = Slots
  /\ session = [s \in Slots |-> Fresh]
  /\ at_ = [t \in Tasks |-> "away"]
  /\ who = [t \in Tasks |-> None] /\ outer = [t \in Tasks |-> None]
  /\ call = [t \in Tasks |-> None]
  /\ block = [t \in Tasks |-> None]
  /\ written = [t \in Tasks |-> {}] /\ durable = [t \in Tasks |-> {}]
  /\ deaths = 0 /\ strayed = FALSE /\ torn = FALSE

\* A call of the store does not await: its thread runs nothing else.
Idle(h) == \A t \in Tasks : ThreadOf(t) = h => at_[t] \in {"away", "ready"}

Dies(s) ==
  /\ session[s].alive /\ deaths < MaxDeaths
  /\ deaths' = deaths + 1
  /\ session' = [session EXCEPT ![s] = Dead]
  /\ block' = [t \in Tasks |-> IF block[t] = s THEN Gone ELSE block[t]]
  /\ UNCHANGED <<cached, free, at_, context, call, effects>>

\* Broken variant of PutBack: the place is not given back.
Drop(s) == UNCHANGED <<free, session>>
\* putconn: the pool keeps a live session and replaces a dead one.
PutBack(s) ==
  /\ free' = free \cup {s}
  /\ session' = [session EXCEPT ![s] = IF @.alive THEN @ ELSE Fresh]

\* Broken variant of Retire: the thread still holds the session it gave back.
RetireKeeps(h) == PutBack(cached[h]) /\ UNCHANGED cached
\* A thread gives its session back.
Retire(h) ==
  /\ PutBack(cached[h])
  /\ cached' = [cached EXCEPT ![h] = None]

\* set_tenant and cross_tenant: the thread's session, if it has one, takes the
\* context at once, or is given back.  No caller does this in a block.
Scope(t, tenant) ==
  LET h == ThreadOf(t) IN
  /\ who' = [who EXCEPT ![t] = tenant]
  /\ IF cached[h] = None THEN UNCHANGED <<cached, free, session>>
     ELSE IF session[cached[h]].alive
     THEN /\ session' = [session EXCEPT ![cached[h]].tenant = tenant]
          /\ UNCHANGED <<cached, free>>
     ELSE Retire(h)

Arrive(t, tenant) ==
  /\ at_[t] = "away" /\ Idle(ThreadOf(t))
  /\ at_' = [at_ EXCEPT ![t] = "ready"]
  /\ Scope(t, tenant)
  /\ UNCHANGED <<outer, call, block, effects, deaths>>

EnterCross(t) ==
  /\ at_[t] = "ready" /\ Idle(ThreadOf(t)) /\ outer[t] = None
  /\ outer' = [outer EXCEPT ![t] = who[t]]
  /\ Scope(t, Cross)
  /\ UNCHANGED <<at_, call, block, effects, deaths>>

LeaveCross(t) ==
  /\ at_[t] = "ready" /\ Idle(ThreadOf(t)) /\ outer[t] # None
  /\ outer' = [outer EXCEPT ![t] = None]
  /\ Scope(t, outer[t])
  /\ UNCHANGED <<at_, call, block, effects, deaths>>

Leave(t) ==
  /\ at_[t] = "ready" /\ outer[t] = None /\ Idle(ThreadOf(t))
  /\ at_' = [at_ EXCEPT ![t] = "away"] /\ who' = [who EXCEPT ![t] = None]
  /\ UNCHANGED <<cached, free, session, outer, call, block, effects, deaths>>
-----------------------------------------------------------------------------
(* One call: probe, scope, statement; twice for a call of two writes.      *)

Call(t, kind) ==
  /\ at_[t] = "ready" /\ Idle(ThreadOf(t))
  /\ call' = [call EXCEPT ![t] = kind]
  /\ at_' = [at_ EXCEPT ![t] = "probe"]
  /\ UNCHANGED <<cached, free, session, context, block, effects, deaths>>

\* A call returns, or raises, when stored of it is durable.
Return(t, ok, stored) ==
  /\ at_' = [at_ EXCEPT ![t] = "ready"] /\ call' = [call EXCEPT ![t] = None]
  /\ block' = [block EXCEPT ![t] = None]
  /\ written' = [written EXCEPT ![t] = {}] /\ durable' = [durable EXCEPT ![t] = {}]
  /\ torn' = \/ torn
             \/ /\ call[t] = "both"
                /\ stored \notin IF ok THEN {{1, 2}} ELSE {{}, {1, 2}}

\* An exception leaves the call; an open block is rolled back on its session.
Raise(t) == Return(t, FALSE, durable[t])
Goes(t, to) ==
  at_' = [at_ EXCEPT ![t] = to] /\ UNCHANGED <<call, block, written, durable, torn>>

\* Broken variant: a lost session is replaced in a block as outside one.
MayReplace(t) == FALSE
\* _refuse_swap_inside_txn
MustKeep(t) == block[t] \in {cached[ThreadOf(t)], Gone}

\* _get_conn: no session yet, or one that a probe finds dead, leads to the pool.
Probe(t) ==
  LET h == ThreadOf(t) s == cached[h] IN
  /\ at_[t] = "probe"
  /\ IF s = None THEN Goes(t, "draw") /\ UNCHANGED <<cached, free, session>>
     ELSE IF session[s].alive
     THEN Goes(t, "scope") /\ UNCHANGED <<cached, free, session>>
     ELSE IF MustKeep(t) THEN Raise(t) /\ UNCHANGED <<cached, free, session>>
     ELSE Retire(h) /\ Goes(t, "draw")
  /\ UNCHANGED <<context, strayed, deaths>>

\* getconn: an exhausted pool raises after its timeout.
Draw(t) ==
  /\ at_[t] \in {"draw", "redraw"}
  /\ \/ free = {} /\ Raise(t) /\ UNCHANGED <<cached, free>>
     \/ \E s \in free :
          /\ free' = free \ {s} /\ cached' = [cached EXCEPT ![ThreadOf(t)] = s]
          /\ Goes(t, IF at_[t] = "draw" THEN "scope" ELSE "rescope")
  /\ UNCHANGED <<session, context, strayed, deaths>>

\* Broken variant: a session keeps the tenant it has; set_tenant wrote it.
KeepScope(t) == session
\* _apply_tenant_guc
Scoped(t) == [session EXCEPT ![cached[ThreadOf(t)]].tenant = who[t]]

\* _checkout: a session that dies under it is replaced once.
Checkout(t) ==
  LET h == ThreadOf(t) s == cached[h] IN
  /\ at_[t] \in {"scope", "rescope"}
  /\ IF session[s].alive
     THEN session' = Scoped(t) /\ Goes(t, "run") /\ UNCHANGED <<cached, free>>
     ELSE IF at_[t] = "rescope"
     THEN Goes(t, "run") /\ UNCHANGED <<cached, free, session>>
     ELSE IF MustKeep(t) THEN Raise(t) /\ UNCHANGED <<cached, free, session>>
     ELSE Retire(h) /\ Goes(t, "redraw")
  /\ UNCHANGED <<context, strayed, deaths>>

\* A statement runs in s.
Uses(t, s) == strayed' = (strayed \/ session[s].tenant # who[t])

\* A call of one statement: outside a block every statement commits itself.
RunAlone(t) ==
  LET s == cached[ThreadOf(t)] IN
  /\ at_[t] = "run" /\ call[t] = None
  /\ IF session[s].alive THEN Uses(t, s) ELSE UNCHANGED strayed
  /\ Return(t, session[s].alive, {})
  /\ UNCHANGED <<cached, free, session, context, deaths>>

\* save_decision: _txn, the decision, and _get_conn again for the checkpoint.
RunFirst(t) ==
  LET s == cached[ThreadOf(t)] IN
  /\ at_[t] = "run" /\ call[t] = "both" /\ block[t] = None
  /\ IF session[s].alive
     THEN /\ Uses(t, s) /\ block' = [block EXCEPT ![t] = s]
          /\ written' = [written EXCEPT ![t] = {1}]
          /\ at_' = [at_ EXCEPT ![t] = "probe"] /\ UNCHANGED <<call, durable, torn>>
     ELSE Raise(t) /\ UNCHANGED strayed
  /\ UNCHANGED <<cached, free, session, context, deaths>>

\* mark_alert_processed: its commit() does nothing while the block is open on
\* the session it uses.
RunSecond(t) ==
  LET s == cached[ThreadOf(t)] IN
  /\ at_[t] = "run" /\ block[t] # None
  /\ IF session[s].alive
     THEN /\ Uses(t, s) /\ at_' = [at_ EXCEPT ![t] = "end"]
          /\ IF s = block[t]
             THEN written' = [written EXCEPT ![t] = @ \cup {2}] /\ UNCHANGED durable
             ELSE durable' = [durable EXCEPT ![t] = @ \cup {2}] /\ UNCHANGED written
          /\ UNCHANGED <<call, block, torn>>
     ELSE Raise(t) /\ UNCHANGED strayed
  /\ UNCHANGED <<cached, free, session, context, deaths>>

\* The end of the block: COMMIT, whose answer may be lost with the session.
EndBlock(t) ==
  /\ at_[t] = "end"
  /\ \/ /\ block[t] # Gone /\ Return(t, TRUE, durable[t] \cup written[t])
        /\ UNCHANGED <<session, deaths>>
     \/ /\ block[t] = Gone /\ Raise(t) /\ UNCHANGED <<session, deaths>>
     \/ /\ block[t] # Gone /\ deaths < MaxDeaths
        /\ Return(t, FALSE, durable[t] \cup written[t])
        /\ session' = [session EXCEPT ![block[t]] = Dead] /\ deaths' = deaths + 1
  /\ UNCHANGED <<cached, free, context, strayed>>

Next ==
  \/ \E s \in Slots : Dies(s)
  \/ \E t \in Tasks :
       \/ \E tenant \in Tenants : Arrive(t, tenant)
       \/ EnterCross(t) \/ LeaveCross(t) \/ Leave(t)
       \/ \E kind \in {None, "both"} : Call(t, kind)
       \/ Probe(t) \/ Draw(t) \/ Checkout(t)
       \/ RunAlone(t) \/ RunFirst(t) \/ RunSecond(t) \/ EndBlock(t)

Spec == Init /\ [][Next]_connVars
-----------------------------------------------------------------------------
TypeOK ==
  /\ cached \in [Threads -> Slots \cup {None}] /\ free \subseteq Slots
  /\ session \in [Slots -> [alive : BOOLEAN, tenant : Tenants \cup {Cross, None}]]
  /\ at_ \in [Tasks -> {"away", "ready", "probe", "draw", "scope", "redraw",
                       "rescope", "run", "end"}]
  /\ who \in [Tasks -> Tenants \cup {Cross, None}]
  /\ outer \in [Tasks -> Tenants \cup {Cross, None}]
  /\ call \in [Tasks -> {None, "both"}]
  /\ block \in [Tasks -> Slots \cup {None, Gone}]
  /\ strayed \in BOOLEAN /\ torn \in BOOLEAN
  /\ written \in [Tasks -> SUBSET {1, 2}] /\ durable \in [Tasks -> SUBSET {1, 2}]

\* Every statement runs in a session that has the tenant of the task that makes
\* the call, whatever the other tasks of its thread did between two calls
\* (_checkout, store.py:1844).
RunsAsCaller == ~strayed

\* The decision and its checkpoint are stored together or not at all, and a call
\* that returned stored both, wherever a session died (store.py:1771, 2068).
StoredTogether == ~torn

\* A pool as large as its threads never makes one of them wait, however many
\* sessions died (assert_pool_covers_threads, store.py:1161).
PoolSuffices ==
  Cardinality(Slots) >= Cardinality(Threads) =>
    \A t \in Tasks : at_[t] \in {"draw", "redraw"} => free # {}

\* Two threads never share a session, and no thread holds a free one.
NotShared ==
  \A h \in Threads : cached[h] # None =>
    cached[h] \notin free /\ \A g \in Threads \ {h} : cached[g] # cached[h]
=============================================================================
