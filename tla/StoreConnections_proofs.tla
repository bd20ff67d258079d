----------------------- MODULE StoreConnections_proofs -----------------------
(***************************************************************************)
(* The sessions of StoreConnections, proved for any number of tasks, of    *)
(* threads they share, of places in the pool, of tenants and of sessions   *)
(* that die.  PoolAssumption, which the theorems start from, says that     *)
(* tasks and places are finite and that the two placeholders are no place. *)
(***************************************************************************)
EXTENDS StoreConnections, FiniteSetTheorems, TLAPS

Busy(t) == at_[t] \notin {"away", "ready"}
Of(t) == cached[ThreadOf(t)]

\* One task of a thread at a time is in a call.
OneBusy == \A t, u \in Tasks : ThreadOf(t) = ThreadOf(u) /\ Busy(t) /\ Busy(u) => t = u

\* No place gets lost.
NoneLost == \A s \in Slots : s \in free \/ \E h \in Threads : cached[h] = s

\* A task goes to the pool with no session, and past it with one.
DrawTrue(t) ==
  /\ at_[t] \in {"draw", "redraw"} => Of(t) = None
  /\ at_[t] \in {"scope", "rescope", "run", "end"} => Of(t) # None

\* What a statement finds: the caller's tenant in a session that lives.
ScopeTrue(t) == at_[t] = "run" /\ session[Of(t)].alive => session[Of(t)].tenant = who[t]

\* An open block is on the thread's session, or that session is dead; its writes
\* are durable with its end only.
BlockTrue(t) ==
  /\ block[t] = None => written[t] = {} /\ at_[t] # "end"
  /\ block[t] # None =>
       /\ call[t] = "both" /\ at_[t] \in {"probe", "scope", "run", "end"}
       /\ Of(t) # None /\ block[t] \in {Of(t), Gone}
       /\ block[t] = Gone => ~session[Of(t)].alive
       /\ written[t] = IF at_[t] = "end" THEN {1, 2} ELSE {1}
  /\ durable[t] = {}
  /\ ~Busy(t) => block[t] = None /\ call[t] = None

TaskTrue(t) == DrawTrue(t) /\ ScopeTrue(t) /\ BlockTrue(t)

IInv ==
  /\ PoolAssumption /\ TypeOK
  /\ NotShared /\ NoneLost
  /\ OneBusy /\ \A t \in Tasks : TaskTrue(t)
  /\ RunsAsCaller /\ StoredTogether

-----------------------------------------------------------------------------
(* Sessions, and who holds them.                                           *)

TaskNext(t) ==
  \/ \E tenant \in Tenants : Arrive(t, tenant)
  \/ EnterCross(t) \/ LeaveCross(t) \/ Leave(t)
  \/ \E kind \in {None, "both"} : Call(t, kind)
  \/ Probe(t) \/ Draw(t) \/ Checkout(t)
  \/ RunAlone(t) \/ RunFirst(t) \/ RunSecond(t) \/ EndBlock(t)

LEMMA NextCases ==
  [Next]_connVars =>
    \/ \E s \in Slots : Dies(s)
    \/ \E t \in Tasks : TaskNext(t)
    \/ UNCHANGED connVars
  BY DEF Next, TaskNext

\* Only the session of its own thread changes hands by what a task does.
Moves(h) ==
  \/ UNCHANGED <<cached, free>>
  \/ /\ cached[h] # None
     /\ free' = free \cup {cached[h]} /\ cached' = [cached EXCEPT ![h] = None]
  \/ /\ cached[h] = None
     /\ \E s \in free : free' = free \ {s} /\ cached' = [cached EXCEPT ![h] = s]

LEMMA MovesKeep ==
  ASSUME PoolAssumption, TypeOK, NotShared, NoneLost, NEW h \in Threads, Moves(h)
  PROVE  /\ cached' \in [Threads -> Slots \cup {None}] /\ free' \subseteq Slots
         /\ NotShared' /\ NoneLost'
         /\ \A g \in Threads : g # h => cached'[g] = cached[g]
<1> USE DEF Threads
<1>1. CASE UNCHANGED <<cached, free>>
  BY <1>1 DEF TypeOK, NotShared, NoneLost
<1>2. ASSUME cached[h] # None, free' = free \cup {cached[h]},
             cached' = [cached EXCEPT ![h] = None]
      PROVE  /\ cached' \in [Threads -> Slots \cup {None}] /\ free' \subseteq Slots
             /\ NotShared' /\ NoneLost'
             /\ \A g \in Threads : g # h => cached'[g] = cached[g]
  <2>1. /\ cached' \in [Threads -> Slots \cup {None}] /\ free' \subseteq Slots
        /\ cached'[h] = None /\ \A g \in Threads : g # h => cached'[g] = cached[g]
    BY <1>2 DEF TypeOK
  <2>2. NotShared'
    BY <1>2, <2>1 DEF NotShared
  <2>3. NoneLost'
    BY <1>2, <2>1 DEF NoneLost
  <2>4. QED
    BY <2>1, <2>2, <2>3
<1>3. ASSUME cached[h] = None, NEW s \in free, free' = free \ {s},
             cached' = [cached EXCEPT ![h] = s]
      PROVE  /\ cached' \in [Threads -> Slots \cup {None}] /\ free' \subseteq Slots
             /\ NotShared' /\ NoneLost'
             /\ \A g \in Threads : g # h => cached'[g] = cached[g]
  <2>1. /\ cached' \in [Threads -> Slots \cup {None}] /\ free' \subseteq Slots
        /\ cached'[h] = s /\ \A g \in Threads : g # h => cached'[g] = cached[g]
    BY <1>3 DEF TypeOK
  <2>2. s # None
    BY <1>3 DEF PoolAssumption, TypeOK
  <2>3. \A g \in Threads : g # h /\ cached[g] # None => cached[g] # s
    BY <1>3 DEF NotShared
  <2>4. NotShared'
    BY <1>3, <2>1, <2>2, <2>3 DEF NotShared
  <2>5. NoneLost'
    <3>1. ASSUME NEW r \in Slots, r # s PROVE r \in free' \/ \E g \in Threads : cached'[g] = r
      <4>1. r \in free \/ \E g \in Threads : g # h /\ cached[g] = r
        BY <1>3 DEF NoneLost, PoolAssumption
      <4>2. QED
        BY <1>3, <2>1, <3>1, <4>1
    <3>2. QED
      BY <2>1, <3>1 DEF NoneLost
  <2>6. QED
    BY <2>1, <2>4, <2>5
<1>4. QED
  BY <1>1, <1>2, <1>3 DEF Moves

LEMMA Threaded == \A t \in Tasks : ThreadOf(t) \in Threads
  BY DEF Threads

\* What PutBack and Scope do to the sessions.
LEMMA Retired ==
  ASSUME TypeOK, NEW h \in Threads, cached[h] # None, Retire(h)
  PROVE  /\ Moves(h) /\ cached'[h] = None
         /\ session' \in [Slots -> [alive : BOOLEAN, tenant : Tenants \cup {Cross, None}]]
         /\ \A s \in Slots : s # cached[h] => session'[s] = session[s]
<1>1. cached[h] \in Slots
  BY DEF TypeOK
<1>2. /\ free' = free \cup {cached[h]} /\ cached' = [cached EXCEPT ![h] = None]
      /\ session' = [session EXCEPT ![cached[h]] = IF @.alive THEN @ ELSE Fresh]
  BY DEF Retire, PutBack
<1>3. Fresh \in [alive : BOOLEAN, tenant : Tenants \cup {Cross, None}]
  BY DEF Fresh
<1>4. QED
  BY <1>1, <1>2, <1>3 DEF TypeOK, Moves

LEMMA Rescoped ==
  ASSUME TypeOK, NEW t \in Tasks, NEW x \in Tenants \cup {Cross, None}, Scope(t, x)
  PROVE  /\ Moves(ThreadOf(t))
         /\ session' \in [Slots -> [alive : BOOLEAN, tenant : Tenants \cup {Cross, None}]]
         /\ \A s \in Slots : s # Of(t) => session'[s] = session[s]
         /\ who' = [who EXCEPT ![t] = x]
         /\ who' \in [Tasks -> Tenants \cup {Cross, None}]
<1>1. who' = [who EXCEPT ![t] = x] /\ who' \in [Tasks -> Tenants \cup {Cross, None}]
  BY DEF Scope, TypeOK
<1>2. ThreadOf(t) \in Threads
  BY Threaded
<1>3. CASE Of(t) = None
  BY <1>1, <1>3 DEF Scope, Of, Moves, TypeOK
<1>4. CASE Of(t) # None /\ session[Of(t)].alive
  <2>1. Of(t) \in Slots
    BY <1>2, <1>4 DEF Of, TypeOK
  <2>2. /\ session' = [session EXCEPT ![Of(t)].tenant = x]
        /\ UNCHANGED <<cached, free>>
    BY <1>4 DEF Scope, Of
  <2>3. session[Of(t)] \in [alive : BOOLEAN, tenant : Tenants \cup {Cross, None}]
    BY <2>1 DEF TypeOK
  <2>4. [session[Of(t)] EXCEPT !.tenant = x] \in [alive : BOOLEAN, tenant : Tenants \cup {Cross, None}]
    BY <2>3
  <2>5. QED
    BY <1>1, <2>1, <2>2, <2>4 DEF Moves, TypeOK
<1>5. CASE Of(t) # None /\ ~session[Of(t)].alive
  <2>1. Retire(ThreadOf(t))
    BY <1>5 DEF Scope, Of
  <2>2. QED
    BY <1>1, <1>2, <1>5, <2>1, Retired DEF Of
<1>6. QED
  BY <1>3, <1>4, <1>5

-----------------------------------------------------------------------------
(* One step of a task: what it leaves alone, and what holds for it then.   *)

\* What others have is as it was, and no other task of the thread is in a call.
OthersKeep(t) ==
  /\ \A u \in Tasks : u # t =>
       /\ at_'[u] = at_[u] /\ who'[u] = who[u] /\ call'[u] = call[u]
       /\ block'[u] = block[u] /\ written'[u] = written[u] /\ durable'[u] = durable[u]
       /\ ThreadOf(u) = ThreadOf(t) => ~Busy(u)
  /\ Moves(ThreadOf(t))
  /\ \A s \in Slots : s # Of(t) => session'[s] = session[s]

StepTrue(t) ==
  TypeOK' /\ OthersKeep(t) /\ TaskTrue(t)' /\ RunsAsCaller' /\ StoredTogether'

LEMMA AtHome ==
  ASSUME IInv, NEW t \in Tasks, Idle(ThreadOf(t)) \/ Busy(t)
  PROVE  \A u \in Tasks : u # t /\ ThreadOf(u) = ThreadOf(t) => ~Busy(u)
  BY DEF IInv, OneBusy, Idle, Busy

LEMMA ScopeSteps ==
  ASSUME IInv, NEW t \in Tasks,
         \/ \E tenant \in Tenants : Arrive(t, tenant)
         \/ EnterCross(t) \/ LeaveCross(t)
  PROVE  StepTrue(t)
<1>1. Idle(ThreadOf(t)) /\ TypeOK /\ BlockTrue(t) /\ ~Busy(t)
  BY DEF IInv, TaskTrue, Arrive, EnterCross, LeaveCross, Busy
<1>2. PICK x \in Tenants \cup {Cross, None} : Scope(t, x)
  BY <1>1 DEF Arrive, EnterCross, LeaveCross, TypeOK
<1>3. /\ at_' = [at_ EXCEPT ![t] = "ready"]
      /\ UNCHANGED <<call, block, effects>>
      /\ outer' \in [Tasks -> Tenants \cup {Cross, None}]
  BY <1>1 DEF Arrive, EnterCross, LeaveCross, TypeOK
<1>4. /\ Moves(ThreadOf(t))
      /\ session' \in [Slots -> [alive : BOOLEAN, tenant : Tenants \cup {Cross, None}]]
      /\ \A s \in Slots : s # Of(t) => session'[s] = session[s]
      /\ who' = [who EXCEPT ![t] = x]
      /\ who' \in [Tasks -> Tenants \cup {Cross, None}]
  BY <1>1, <1>2, Rescoped
<1>5. /\ cached' \in [Threads -> Slots \cup {None}] /\ free' \subseteq Slots
  BY <1>4, MovesKeep, Threaded DEF IInv
<1>6. TypeOK'
  BY <1>1, <1>3, <1>4, <1>5 DEF TypeOK, effects
<1>7. OthersKeep(t)
  <2>1. \A u \in Tasks : u # t =>
          /\ at_'[u] = at_[u] /\ who'[u] = who[u] /\ call'[u] = call[u]
          /\ block'[u] = block[u] /\ written'[u] = written[u] /\ durable'[u] = durable[u]
    BY <1>1, <1>3, <1>4 DEF TypeOK, effects
  <2>2. QED
    BY <1>1, <1>4, <2>1, AtHome DEF OthersKeep
<1>8. at_'[t] = "ready"
  BY <1>1, <1>3 DEF TypeOK
<1>9. TaskTrue(t)'
  BY <1>1, <1>3, <1>8 DEF TaskTrue, DrawTrue, ScopeTrue, BlockTrue, Busy, effects
<1>10. RunsAsCaller' /\ StoredTogether'
  BY <1>3 DEF IInv, RunsAsCaller, StoredTogether, effects
<1>11. QED
  BY <1>6, <1>7, <1>9, <1>10 DEF StepTrue

LEMMA LeaveAndCall ==
  ASSUME IInv, NEW t \in Tasks, Leave(t) \/ \E kind \in {None, "both"} : Call(t, kind)
  PROVE  StepTrue(t)
<1>1. Idle(ThreadOf(t)) /\ TypeOK /\ TaskTrue(t) /\ ~Busy(t)
  BY DEF IInv, Leave, Call, Busy
<1>2. /\ at_' \in [Tasks -> {"away", "ready", "probe", "draw", "scope", "redraw",
                              "rescope", "run", "end"}]
      /\ who' \in [Tasks -> Tenants \cup {Cross, None}]
      /\ call' \in [Tasks -> {None, "both"}]
      /\ at_'[t] \in {"away", "probe"} /\ (at_'[t] = "away" => call' = call)
      /\ UNCHANGED <<cached, free, session, outer, block, effects>>
      /\ \A u \in Tasks : u # t => at_'[u] = at_[u] /\ who'[u] = who[u] /\ call'[u] = call[u]
  BY <1>1 DEF Leave, Call, TypeOK, context
<1>3. TypeOK'
  BY <1>1, <1>2 DEF TypeOK, effects
<1>4. OthersKeep(t)
  BY <1>1, <1>2, AtHome DEF OthersKeep, effects, Moves
<1>5. TaskTrue(t)'
  BY <1>1, <1>2 DEF TaskTrue, DrawTrue, ScopeTrue, BlockTrue, Busy, effects
<1>6. RunsAsCaller' /\ StoredTogether'
  BY <1>2 DEF IInv, RunsAsCaller, StoredTogether, effects
<1>7. QED
  BY <1>3, <1>4, <1>5, <1>6 DEF StepTrue

\* A call that ends with nothing or with both statements stored leaves a task as
\* it was before.
LEMMA Returned ==
  ASSUME IInv, NEW t \in Tasks, Busy(t), NEW ok \in BOOLEAN, NEW stored,
         Return(t, ok, stored),
         call[t] = "both" => stored \in IF ok THEN {{1, 2}} ELSE {{}, {1, 2}},
         strayed' = FALSE, UNCHANGED <<cached, free, context>>,
         session' \in [Slots -> [alive : BOOLEAN, tenant : Tenants \cup {Cross, None}]],
         \A s \in Slots : s # Of(t) => session'[s] = session[s]
  PROVE  StepTrue(t)
<1>1. TypeOK /\ ~torn /\ ~strayed
  BY DEF IInv, RunsAsCaller, StoredTogether
<1>2. /\ at_' = [at_ EXCEPT ![t] = "ready"] /\ call' = [call EXCEPT ![t] = None]
      /\ block' = [block EXCEPT ![t] = None]
      /\ written' = [written EXCEPT ![t] = {}] /\ durable' = [durable EXCEPT ![t] = {}]
  BY DEF Return
<1>3. torn' = FALSE
  BY <1>1 DEF Return
<1>4. TypeOK'
  BY <1>1, <1>2, <1>3 DEF TypeOK, context
<1>5. OthersKeep(t)
  BY <1>1, <1>2, AtHome DEF OthersKeep, TypeOK, Moves, context
<1>6. at_'[t] = "ready" /\ call'[t] = None /\ block'[t] = None /\ written'[t] = {} /\ durable'[t] = {}
  BY <1>1, <1>2 DEF TypeOK
<1>7. TaskTrue(t)'
  BY <1>6 DEF TaskTrue, DrawTrue, ScopeTrue, BlockTrue, Busy
<1>8. RunsAsCaller' /\ StoredTogether'
  BY <1>3 DEF RunsAsCaller, StoredTogether
<1>9. QED
  BY <1>4, <1>5, <1>7, <1>8 DEF StepTrue

\* An exception finds nothing of an open block durable.
LEMMA Raised ==
  ASSUME IInv, NEW t \in Tasks, Busy(t), Raise(t), UNCHANGED <<cached, free, session, context, strayed>>
  PROVE  StepTrue(t)
<1>1. durable[t] = {} /\ ~strayed /\ TypeOK
  BY DEF IInv, TaskTrue, BlockTrue, RunsAsCaller
<1>2. Return(t, FALSE, {})
  BY <1>1 DEF Raise
<1>3. /\ session' \in [Slots -> [alive : BOOLEAN, tenant : Tenants \cup {Cross, None}]]
      /\ \A s \in Slots : s # Of(t) => session'[s] = session[s]
  BY <1>1 DEF TypeOK
<1>4. strayed' = FALSE
  BY <1>1 DEF TypeOK
<1>5. QED
  BY <1>2, <1>3, <1>4, Returned

\* A step within a call, towards the statement.
LEMMA Went ==
  ASSUME IInv, NEW t \in Tasks, Busy(t),
         NEW to \in {"draw", "scope", "redraw", "rescope", "run"}, Goes(t, to),
         UNCHANGED <<context, strayed>>, Moves(ThreadOf(t)),
         session' \in [Slots -> [alive : BOOLEAN, tenant : Tenants \cup {Cross, None}]],
         \A s \in Slots : s # Of(t) => session'[s] = session[s],
         to \in {"draw", "redraw"} <=> Of(t)' = None,
         to = "run" /\ session'[Of(t)'].alive => session'[Of(t)'].tenant = who[t],
         at_[t] = "end" => FALSE,
         block[t] # None =>
           /\ to \in {"scope", "run"} /\ Of(t)' = Of(t)
           /\ session'[Of(t)].alive = session[Of(t)].alive
  PROVE  StepTrue(t)
<1>1. TypeOK /\ TaskTrue(t)
  BY DEF IInv
<1>2. /\ at_' = [at_ EXCEPT ![t] = to] /\ UNCHANGED <<call, block, written, durable, torn>>
  BY DEF Goes
<1>3. /\ cached' \in [Threads -> Slots \cup {None}] /\ free' \subseteq Slots
  BY MovesKeep, Threaded DEF IInv
<1>4. TypeOK'
  BY <1>1, <1>2, <1>3 DEF TypeOK, context
<1>5. OthersKeep(t)
  BY <1>1, <1>2, AtHome DEF OthersKeep, TypeOK, context
<1>6. at_'[t] = to /\ who'[t] = who[t]
  BY <1>1, <1>2 DEF TypeOK, context
<1>7. DrawTrue(t)'
  BY <1>6 DEF DrawTrue
<1>8. ScopeTrue(t)'
  BY <1>6 DEF ScopeTrue, Of
<1>9. BlockTrue(t)'
  BY <1>1, <1>2, <1>6 DEF TaskTrue, BlockTrue, Busy, Of
<1>10. RunsAsCaller' /\ StoredTogether'
  BY <1>2 DEF IInv, RunsAsCaller, StoredTogether
<1>11. QED
  BY <1>4, <1>5, <1>7, <1>8, <1>9, <1>10 DEF StepTrue, TaskTrue

-----------------------------------------------------------------------------
(* The steps of a call.                                                    *)

LEMMA ProbeStep == ASSUME IInv, NEW t \in Tasks, Probe(t) PROVE StepTrue(t)
<1>1. /\ TypeOK /\ TaskTrue(t) /\ Busy(t) /\ at_[t] = "probe" /\ ThreadOf(t) \in Threads
      /\ UNCHANGED <<context, strayed, deaths>>
  BY Threaded DEF IInv, Probe, Busy
<1>2. CASE Of(t) = None
  <2>1. Goes(t, "draw") /\ UNCHANGED <<cached, free, session>>
    BY <1>2 DEF Probe, Of
  <2>2. block[t] = None /\ Of(t)' = None
    BY <1>1, <1>2, <2>1 DEF TaskTrue, BlockTrue, Of
  <2>3. QED
    BY <1>1, <2>1, <2>2, Went DEF Moves, TypeOK
<1>3. CASE Of(t) # None /\ session[Of(t)].alive
  <2>1. Goes(t, "scope") /\ UNCHANGED <<cached, free, session>>
    BY <1>3 DEF Probe, Of
  <2>2. Of(t)' = Of(t)
    BY <2>1 DEF Of
  <2>3. QED
    BY <1>1, <1>3, <2>1, <2>2, Went DEF Moves, TypeOK
<1>4. CASE Of(t) # None /\ ~session[Of(t)].alive /\ MustKeep(t)
  <2>1. Raise(t) /\ UNCHANGED <<cached, free, session>>
    BY <1>4 DEF Probe, Of
  <2>2. QED
    BY <1>1, <2>1, Raised
<1>5. CASE Of(t) # None /\ ~session[Of(t)].alive /\ ~MustKeep(t)
  <2>1. Retire(ThreadOf(t)) /\ Goes(t, "draw")
    BY <1>5 DEF Probe, Of
  <2>2. block[t] = None
    BY <1>1, <1>5 DEF TaskTrue, BlockTrue, MustKeep, Of
  <2>3. /\ Moves(ThreadOf(t)) /\ Of(t)' = None
        /\ session' \in [Slots -> [alive : BOOLEAN, tenant : Tenants \cup {Cross, None}]]
        /\ \A s \in Slots : s # Of(t) => session'[s] = session[s]
    BY <1>1, <1>5, <2>1, Retired DEF Of
  <2>4. QED
    BY <1>1, <2>1, <2>2, <2>3, Went
<1>6. QED
  BY <1>2, <1>3, <1>4, <1>5

LEMMA DrawStep == ASSUME IInv, NEW t \in Tasks, Draw(t) PROVE StepTrue(t)
<1>1. /\ TypeOK /\ TaskTrue(t) /\ Busy(t) /\ at_[t] \in {"draw", "redraw"}
      /\ ThreadOf(t) \in Threads
      /\ UNCHANGED <<session, context, strayed, deaths>>
  BY Threaded DEF IInv, Draw, Busy
<1>2. CASE Raise(t) /\ UNCHANGED <<cached, free>>
  BY <1>1, <1>2, Raised
<1>3. ASSUME NEW s \in free, free' = free \ {s},
             cached' = [cached EXCEPT ![ThreadOf(t)] = s],
             Goes(t, IF at_[t] = "draw" THEN "scope" ELSE "rescope")
      PROVE  StepTrue(t)
  <2>1. PICK to \in {"scope", "rescope"} : Goes(t, to)
    BY <1>3
  <2>2. Of(t) = None /\ block[t] = None
    BY <1>1 DEF TaskTrue, DrawTrue, BlockTrue
  <2>3. Moves(ThreadOf(t))
    BY <1>3, <2>2 DEF Moves, Of
  <2>4. Of(t)' = s /\ s # None
    BY <1>1, <1>3 DEF Of, TypeOK, IInv, PoolAssumption
  <2>5. QED
    BY <1>1, <2>1, <2>2, <2>3, <2>4, Went DEF TypeOK
<1>4. QED
  BY <1>2, <1>3 DEF Draw

LEMMA CheckoutStep == ASSUME IInv, NEW t \in Tasks, Checkout(t) PROVE StepTrue(t)
<1>1. /\ TypeOK /\ TaskTrue(t) /\ Busy(t) /\ at_[t] \in {"scope", "rescope"}
      /\ ThreadOf(t) \in Threads /\ Of(t) # None /\ Of(t) \in Slots
      /\ UNCHANGED <<context, strayed, deaths>>
  BY Threaded DEF IInv, Checkout, Busy, TaskTrue, DrawTrue, Of, TypeOK
<1>2. CASE session[Of(t)].alive
  <2>1. /\ session' = [session EXCEPT ![Of(t)].tenant = who[t]]
        /\ Goes(t, "run") /\ UNCHANGED <<cached, free>>
    BY <1>2 DEF Checkout, Scoped, Of
  <2>2. session[Of(t)] \in [alive : BOOLEAN, tenant : Tenants \cup {Cross, None}]
    BY <1>1 DEF TypeOK
  <2>3. [session[Of(t)] EXCEPT !.tenant = who[t]]
          \in [alive : BOOLEAN, tenant : Tenants \cup {Cross, None}]
    BY <1>1, <2>2 DEF TypeOK
  <2>4. /\ session' \in [Slots -> [alive : BOOLEAN, tenant : Tenants \cup {Cross, None}]]
        /\ session'[Of(t)] = [session[Of(t)] EXCEPT !.tenant = who[t]]
        /\ \A s \in Slots : s # Of(t) => session'[s] = session[s]
    BY <1>1, <2>1, <2>3 DEF TypeOK
  <2>5. session'[Of(t)].tenant = who[t] /\ session'[Of(t)].alive = session[Of(t)].alive
    BY <2>2, <2>4
  <2>6. Of(t)' = Of(t)
    BY <2>1 DEF Of
  <2>7. block[t] = None \/ at_[t] = "scope"
    BY <1>1 DEF TaskTrue, BlockTrue
  <2>8. QED
    BY <1>1, <2>1, <2>4, <2>5, <2>6, <2>7, Went DEF Moves
<1>3. CASE ~session[Of(t)].alive /\ at_[t] = "rescope"
  <2>1. Goes(t, "run") /\ UNCHANGED <<cached, free, session>>
    BY <1>3 DEF Checkout, Of
  <2>2. Of(t)' = Of(t) /\ block[t] = None
    BY <1>1, <1>3, <2>1 DEF Of, TaskTrue, BlockTrue
  <2>3. QED
    BY <1>1, <1>3, <2>1, <2>2, Went DEF Moves, TypeOK
<1>4. CASE ~session[Of(t)].alive /\ at_[t] = "scope" /\ MustKeep(t)
  <2>1. Raise(t) /\ UNCHANGED <<cached, free, session>>
    BY <1>4 DEF Checkout, Of
  <2>2. QED
    BY <1>1, <2>1, Raised
<1>5. CASE ~session[Of(t)].alive /\ at_[t] = "scope" /\ ~MustKeep(t)
  <2>1. Retire(ThreadOf(t)) /\ Goes(t, "redraw")
    BY <1>5 DEF Checkout, Of
  <2>2. block[t] = None
    BY <1>1, <1>5 DEF TaskTrue, BlockTrue, MustKeep, Of
  <2>3. /\ Moves(ThreadOf(t)) /\ Of(t)' = None
        /\ session' \in [Slots -> [alive : BOOLEAN, tenant : Tenants \cup {Cross, None}]]
        /\ \A s \in Slots : s # Of(t) => session'[s] = session[s]
    BY <1>1, <2>1, Retired DEF Of
  <2>4. QED
    BY <1>1, <2>1, <2>2, <2>3, Went
<1>6. QED
  BY <1>1, <1>2, <1>3, <1>4, <1>5

\* The statement finds the caller's tenant.
LEMMA UsedRightly ==
  ASSUME IInv, NEW t \in Tasks, at_[t] = "run", session[Of(t)].alive, Uses(t, Of(t))
  PROVE  strayed' = FALSE
  BY DEF IInv, TaskTrue, ScopeTrue, RunsAsCaller, Uses, TypeOK

LEMMA RunAloneStep == ASSUME IInv, NEW t \in Tasks, RunAlone(t) PROVE StepTrue(t)
<1>1. TypeOK /\ at_[t] = "run" /\ Busy(t) /\ call[t] = None /\ ~strayed
  BY DEF IInv, RunAlone, Busy, RunsAsCaller
<1>2. strayed' = FALSE
  BY <1>1, UsedRightly DEF RunAlone, Of, TypeOK
<1>3. /\ session[Of(t)].alive \in BOOLEAN
      /\ Return(t, session[Of(t)].alive, {})
      /\ UNCHANGED <<cached, free, session, context, deaths>>
  <2>1. Of(t) \in Slots
    BY <1>1, Threaded DEF IInv, TaskTrue, DrawTrue, Of, TypeOK
  <2>2. QED
    BY <1>1, <2>1 DEF RunAlone, Of, TypeOK
<1>4. /\ session' \in [Slots -> [alive : BOOLEAN, tenant : Tenants \cup {Cross, None}]]
      /\ \A s \in Slots : s # Of(t) => session'[s] = session[s]
  BY <1>1, <1>3 DEF TypeOK
<1>5. call[t] # "both"
  BY <1>1 DEF None
<1>6. QED
  BY <1>1, <1>2, <1>3, <1>4, <1>5, Returned

LEMMA RunBothStep ==
  ASSUME IInv, NEW t \in Tasks, RunFirst(t) \/ RunSecond(t) PROVE StepTrue(t)
<1>1. /\ TypeOK /\ TaskTrue(t) /\ at_[t] = "run" /\ Busy(t) /\ Of(t) # None /\ Of(t) \in Slots
      /\ UNCHANGED <<cached, free, session, context, deaths>>
  BY Threaded DEF IInv, RunFirst, RunSecond, Busy, TaskTrue, DrawTrue, Of, TypeOK
<1>2. CASE ~session[Of(t)].alive
  <2>1. Raise(t) /\ UNCHANGED strayed
    BY <1>2 DEF RunFirst, RunSecond, Of
  <2>2. QED
    BY <1>1, <2>1, Raised
<1>3. CASE session[Of(t)].alive
  <2>1. strayed' = FALSE
    BY <1>1, <1>3, UsedRightly DEF RunFirst, RunSecond, Of
  <2>2. /\ block[t] # None => block[t] = Of(t)
        /\ block[t] # None => written[t] = {1} /\ call[t] = "both"
        /\ durable[t] = {}
    BY <1>1, <1>3 DEF TaskTrue, BlockTrue
  <2>3. /\ UNCHANGED <<call, durable, torn>>
        /\ \/ /\ at_' = [at_ EXCEPT ![t] = "probe"]
              /\ written' = [written EXCEPT ![t] = {1}]
           \/ /\ at_' = [at_ EXCEPT ![t] = "end"]
              /\ written' = [written EXCEPT ![t] = {1, 2}]
        /\ block' = [block EXCEPT ![t] = Of(t)] /\ call[t] = "both"
    <3>1. CASE RunFirst(t)
      BY <1>1, <1>3, <3>1 DEF RunFirst, Of
    <3>2. CASE RunSecond(t)
      <4>1. block[t] = Of(t) /\ written[t] = {1} /\ call[t] = "both"
        BY <2>2, <3>2 DEF RunSecond
      <4>2. UNCHANGED <<call, block, durable, torn>> /\ at_' = [at_ EXCEPT ![t] = "end"]
        BY <1>3, <3>2, <4>1 DEF RunSecond, Of
      <4>3. written' = [written EXCEPT ![t] = {1, 2}]
        <5>1. written' = [written EXCEPT ![t] = written[t] \cup {2}]
          BY <1>3, <3>2, <4>1 DEF RunSecond, Of
        <5>2. {1} \cup {2} = {1, 2}
          OBVIOUS
        <5>3. QED
          BY <4>1, <5>1, <5>2
      <4>4. block' = [block EXCEPT ![t] = Of(t)]
        BY <1>1, <4>1, <4>2 DEF TypeOK
      <4>5. QED
        BY <4>1, <4>2, <4>3, <4>4
    <3>3. QED
      BY <3>1, <3>2
  <2>4. TypeOK'
    <3>1. at_' \in [Tasks -> {"away", "ready", "probe", "draw", "scope", "redraw",
                             "rescope", "run", "end"}]
      BY <1>1, <2>3 DEF TypeOK
    <3>2. written' \in [Tasks -> SUBSET {1, 2}]
      <4>1. {1} \in SUBSET {1, 2} /\ {1, 2} \in SUBSET {1, 2}
        OBVIOUS
      <4>2. PICK x \in SUBSET {1, 2} : written' = [written EXCEPT ![t] = x]
        BY <2>3, <4>1
      <4>3. QED
        BY <1>1, <4>2 DEF TypeOK
    <3>3. block' \in [Tasks -> Slots \cup {None, Gone}]
      BY <1>1, <2>3 DEF TypeOK
    <3>4. QED
      BY <1>1, <2>1, <2>3, <3>1, <3>2, <3>3 DEF TypeOK, context
  <2>5. OthersKeep(t)
    BY <1>1, <2>3, AtHome DEF OthersKeep, TypeOK, Moves, context
  <2>6. /\ block'[t] = Of(t) /\ call'[t] = "both" /\ durable'[t] = {}
        /\ Of(t)' = Of(t) /\ at_'[t] \in {"probe", "end"}
        /\ written'[t] = IF at_'[t] = "end" THEN {1, 2} ELSE {1}
    BY <1>1, <2>2, <2>3 DEF TypeOK, Of
  <2>7. Of(t) # Gone
    BY <1>1 DEF IInv, PoolAssumption
  <2>8. TaskTrue(t)'
    BY <1>1, <2>6, <2>7 DEF TaskTrue, DrawTrue, ScopeTrue, BlockTrue, Busy
  <2>9. RunsAsCaller' /\ StoredTogether'
    BY <2>1, <2>3 DEF IInv, RunsAsCaller, StoredTogether
  <2>10. QED
    BY <2>4, <2>5, <2>8, <2>9 DEF StepTrue
<1>4. QED
  BY <1>2, <1>3

LEMMA EndStep == ASSUME IInv, NEW t \in Tasks, EndBlock(t) PROVE StepTrue(t)
<1>1. /\ TypeOK /\ TaskTrue(t) /\ at_[t] = "end" /\ Busy(t) /\ Of(t) # None /\ Of(t) \in Slots
      /\ UNCHANGED <<cached, free, context, strayed>> /\ ~strayed
  BY Threaded DEF IInv, EndBlock, Busy, TaskTrue, DrawTrue, Of, TypeOK, RunsAsCaller
<1>2. /\ block[t] \in {Of(t), Gone} /\ written[t] = {1, 2} /\ durable[t] = {}
      /\ durable[t] \cup written[t] = {1, 2}
  BY <1>1 DEF TaskTrue, BlockTrue
<1>3. strayed' = FALSE
  BY <1>1 DEF TypeOK
<1>4. CASE block[t] = Gone /\ Raise(t) /\ UNCHANGED <<session, deaths>>
  BY <1>1, <1>4, Raised
<1>5. ASSUME NEW ok \in BOOLEAN, Return(t, ok, durable[t] \cup written[t]), block[t] # Gone,
             \/ UNCHANGED session
             \/ session' = [session EXCEPT ![block[t]] = Dead]
      PROVE  StepTrue(t)
  <2>1. Return(t, ok, {1, 2})
    BY <1>2, <1>5
  <2>2. /\ session' \in [Slots -> [alive : BOOLEAN, tenant : Tenants \cup {Cross, None}]]
        /\ \A s \in Slots : s # Of(t) => session'[s] = session[s]
    <3>1. CASE UNCHANGED session
      BY <1>1, <3>1 DEF TypeOK
    <3>2. CASE session' = [session EXCEPT ![Of(t)] = Dead]
      <4>1. Dead \in [alive : BOOLEAN, tenant : Tenants \cup {Cross, None}]
        BY DEF Dead
      <4>2. QED
        BY <1>1, <3>2, <4>1 DEF TypeOK
    <3>3. QED
      BY <1>2, <1>5, <3>1, <3>2
  <2>3. {1, 2} \in IF ok THEN {{1, 2}} ELSE {{}, {1, 2}}
    OBVIOUS
  <2>4. QED
    BY <1>1, <1>3, <2>1, <2>2, <2>3, Returned
<1>6. QED
  BY <1>4, <1>5 DEF EndBlock

LEMMA EachStep == ASSUME IInv, NEW t \in Tasks, TaskNext(t) PROVE StepTrue(t)
  BY ScopeSteps, LeaveAndCall, ProbeStep, DrawStep, CheckoutStep, RunAloneStep,
     RunBothStep, EndStep DEF TaskNext

-----------------------------------------------------------------------------
(* The invariant.                                                          *)

LEMMA InvInit == PoolAssumption /\ Init => IInv
<1> SUFFICES ASSUME PoolAssumption, Init PROVE IInv
  OBVIOUS
<1>1. TypeOK
  BY DEF Init, TypeOK, Fresh
<1>2. NotShared /\ NoneLost
  BY DEF Init, NotShared, NoneLost
<1>3. OneBusy /\ \A t \in Tasks : TaskTrue(t)
  BY DEF Init, OneBusy, Busy, TaskTrue, DrawTrue, ScopeTrue, BlockTrue
<1>4. RunsAsCaller /\ StoredTogether
  BY DEF Init, RunsAsCaller, StoredTogether
<1>5. QED
  BY <1>1, <1>2, <1>3, <1>4 DEF IInv

\* What holds for the other tasks is left alone.
LEMMA TaskStep == ASSUME IInv, NEW t \in Tasks, TaskNext(t) PROVE IInv'
<1>1. /\ StepTrue(t) /\ OthersKeep(t) /\ TypeOK' /\ TaskTrue(t)'
      /\ RunsAsCaller' /\ StoredTogether'
  BY EachStep DEF StepTrue
<1>2. /\ NotShared' /\ NoneLost'
      /\ \A g \in Threads : g # ThreadOf(t) => cached'[g] = cached[g]
  BY <1>1, MovesKeep, Threaded DEF OthersKeep, IInv
<1>3. \A u \in Tasks : u # t =>
        /\ at_'[u] = at_[u] /\ who'[u] = who[u] /\ call'[u] = call[u]
        /\ block'[u] = block[u] /\ written'[u] = written[u] /\ durable'[u] = durable[u]
        /\ ThreadOf(u) = ThreadOf(t) => ~Busy(u)
  BY <1>1 DEF OthersKeep
<1>4. OneBusy'
  BY <1>3 DEF OneBusy, Busy, IInv
<1>5. ASSUME NEW u \in Tasks, u # t PROVE TaskTrue(u)'
  <2>1. TaskTrue(u) /\ TypeOK /\ NotShared
    BY DEF IInv
  <2>2. CASE ~Busy(u)
    BY <1>3, <1>5, <2>1, <2>2 DEF TaskTrue, DrawTrue, ScopeTrue, BlockTrue, Busy
  <2>3. CASE ThreadOf(u) # ThreadOf(t)
    <3>1. Of(u)' = Of(u)
      BY <1>2, <2>3, Threaded DEF Of
    <3>2. Of(u) # None => Of(u) \in Slots /\ Of(u) # Of(t)
      BY <2>1, <2>3, Threaded DEF Of, NotShared, TypeOK
    <3>3. Of(u) # None => session'[Of(u)] = session[Of(u)]
      BY <1>1, <3>2 DEF OthersKeep
    <3>4. DrawTrue(u)'
      BY <1>3, <1>5, <2>1, <3>1 DEF TaskTrue, DrawTrue
    <3>5. ScopeTrue(u)'
      BY <1>3, <1>5, <2>1, <3>1, <3>3 DEF TaskTrue, DrawTrue, ScopeTrue
    <3>6. BlockTrue(u)'
      BY <1>3, <1>5, <2>1, <3>1, <3>3 DEF TaskTrue, BlockTrue, Busy
    <3>7. QED
      BY <3>4, <3>5, <3>6 DEF TaskTrue
  <2>4. QED
    BY <1>3, <1>5, <2>2, <2>3
<1>6. PoolAssumption'
  BY DEF PoolAssumption, IInv
<1>7. QED
  BY <1>1, <1>2, <1>4, <1>5, <1>6 DEF IInv

\* A session that dies takes the block that is open on it along.
LEMMA DeathStep == ASSUME IInv, NEW s \in Slots, Dies(s) PROVE IInv'
<1>1. /\ TypeOK /\ session' = [session EXCEPT ![s] = Dead]
      /\ block' = [t \in Tasks |-> IF block[t] = s THEN Gone ELSE block[t]]
      /\ UNCHANGED <<cached, free, at_, who, outer, call, written, durable, torn, strayed>>
  BY DEF IInv, Dies, context, effects
<1>2. TypeOK'
  <2>1. Dead \in [alive : BOOLEAN, tenant : Tenants \cup {Cross, None}]
    BY DEF Dead
  <2>2. session' \in [Slots -> [alive : BOOLEAN, tenant : Tenants \cup {Cross, None}]]
    BY <1>1, <2>1 DEF TypeOK
  <2>3. block' \in [Tasks -> Slots \cup {None, Gone}]
    BY <1>1 DEF TypeOK
  <2>4. QED
    BY <1>1, <2>2, <2>3 DEF TypeOK
<1>3. NotShared' /\ NoneLost' /\ OneBusy' /\ RunsAsCaller' /\ StoredTogether' /\ PoolAssumption'
  BY <1>1 DEF IInv, NotShared, NoneLost, OneBusy, Busy, RunsAsCaller, StoredTogether,
     PoolAssumption
<1>4. ASSUME NEW t \in Tasks PROVE TaskTrue(t)'
  <2>1. TaskTrue(t) /\ None \notin Slots /\ Gone \notin Slots
    BY DEF IInv, PoolAssumption
  <2>2. Of(t)' = Of(t) /\ (Of(t) # None => Of(t) \in Slots)
    BY <1>1, Threaded DEF Of, TypeOK
  <2>3. \A r \in Slots : session'[r].alive => r # s /\ session'[r] = session[r]
    BY <1>1 DEF TypeOK, Dead
  <2>4. DrawTrue(t)'
    BY <1>1, <2>1, <2>2 DEF TaskTrue, DrawTrue
  <2>5. ScopeTrue(t)'
    BY <1>1, <2>1, <2>2, <2>3 DEF TaskTrue, DrawTrue, ScopeTrue
  <2>6. BlockTrue(t)'
    <3>1. CASE block[t] = s
      <4>1. /\ block'[t] = Gone /\ block[t] # None /\ Of(t) = s
            /\ ~session'[s].alive
        BY <1>1, <2>1, <3>1 DEF TaskTrue, BlockTrue, Dead, TypeOK
      <4>2. QED
        BY <1>1, <2>1, <2>2, <4>1 DEF TaskTrue, BlockTrue, Busy, None, Gone
    <3>2. CASE block[t] # s
      <4>1. block'[t] = block[t]
        BY <1>1, <3>2
      <4>2. QED
        BY <1>1, <2>1, <2>2, <2>3, <4>1 DEF TaskTrue, BlockTrue, Busy
    <3>3. QED
      BY <3>1, <3>2
  <2>7. QED
    BY <2>4, <2>5, <2>6 DEF TaskTrue
<1>5. QED
  BY <1>2, <1>3, <1>4 DEF IInv

LEMMA InvStep == IInv /\ [Next]_connVars => IInv'
<1> SUFFICES ASSUME IInv, [Next]_connVars PROVE IInv'
  OBVIOUS
<1>1. CASE UNCHANGED connVars
  BY <1>1 DEF connVars, IInv, PoolAssumption, TypeOK, NotShared, NoneLost, OneBusy, Busy,
     TaskTrue, DrawTrue, ScopeTrue, BlockTrue, Of, RunsAsCaller, StoredTogether
<1>2. QED
  BY <1>1, NextCases, TaskStep, DeathStep

LEMMA Invariance == PoolAssumption /\ Spec => []IInv
  BY InvInit, InvStep, PTL DEF Spec

\* With a place for every thread, one that needs a session finds one: each other
\* thread holds one at most.
LEMMA Enough == IInv => PoolSuffices
<1> SUFFICES ASSUME IInv, NEW t \in Tasks, at_[t] \in {"draw", "redraw"}, free = {}
             PROVE  ~(Cardinality(Slots) >= Cardinality(Threads))
  BY DEF PoolSuffices
<1>1. IsFiniteSet(Threads) /\ Cardinality(Threads) \in Nat
  <2>1. IsFiniteSet(Tasks)
    BY DEF IInv, PoolAssumption
  <2> DEFINE thread == [u \in Tasks |-> ThreadOf(u)]
  <2>2. thread \in Surjection(Tasks, Threads)
    BY DEF Surjection, Threads
  <2> HIDE DEF thread
  <2>3. QED
    BY <2>1, <2>2, FS_Surjection, FS_CardinalityType
<1> DEFINE h0 == ThreadOf(t)
           Others == Threads \ {h0}
           holder == [s \in Slots |-> CHOOSE h \in Threads : cached[h] = s]
<1>2. h0 \in Threads /\ cached[h0] = None
  BY Threaded DEF IInv, TaskTrue, DrawTrue, Of
<1>3. \A s \in Slots : holder[s] \in Others /\ cached[holder[s]] = s
  <2>1. ASSUME NEW s \in Slots PROVE holder[s] \in Others /\ cached[holder[s]] = s
    <3>1. \E h \in Threads : cached[h] = s
      BY DEF IInv, NoneLost
    <3>2. holder[s] \in Threads /\ cached[holder[s]] = s
      BY <3>1
    <3>3. s # None
      BY DEF IInv, PoolAssumption
    <3>4. QED
      BY <1>2, <3>2, <3>3
  <2>2. QED
    BY <2>1
<1>4. IsFiniteSet(Others) /\ Cardinality(Others) = Cardinality(Threads) - 1
  BY <1>1, <1>2, FS_RemoveElement
<1>5. IsFiniteSet(Slots) /\ Cardinality(Slots) \in Nat
  BY FS_CardinalityType DEF IInv, PoolAssumption
<1>6. holder \in Injection(Slots, Others)
  BY <1>3 DEF Injection, IsInjective
<1> HIDE DEF Others, holder
<1>7. Cardinality(Slots) <= Cardinality(Others)
  BY <1>4, <1>5, <1>6, FS_Injection
<1>8. QED
  BY <1>1, <1>4, <1>5, <1>7

-----------------------------------------------------------------------------
(* The theorems.                                                           *)

\* Sessions, tasks and blocks keep their types (store.py:1844).
THEOREM SessionTypes == PoolAssumption /\ Spec => []TypeOK
  BY Invariance, PTL DEF IInv

\* Two threads never share a session, and no thread holds a free one, although
\* sessions die at any point of a call and are given back by set_tenant, by the
\* probe and by the checkout (store.py:1844).
THEOREM SessionsAreNotShared == PoolAssumption /\ Spec => []NotShared
  BY Invariance, PTL DEF IInv

\* A statement runs for the tenant of the task that makes the call, however many
\* tasks share its thread and whatever they did between its calls (store.py:1844).
THEOREM CallersTenant == PoolAssumption /\ Spec => []RunsAsCaller
  BY Invariance, PTL DEF IInv

\* A decision and its checkpoint are stored together or not at all, wherever the
\* session dies (store.py:1771, 2068).
THEOREM BothOrNone == PoolAssumption /\ Spec => []StoredTogether
  BY Invariance, PTL DEF IInv

\* A pool with a place for each thread makes none of them wait: no place is lost
\* by any number of sessions that die (store.py:1161).
THEOREM PoolIsEnough == PoolAssumption /\ Spec => []PoolSuffices
  BY Invariance, Enough, PTL
=============================================================================
