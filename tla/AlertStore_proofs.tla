------------------------ MODULE AlertStore_proofs ---------------------------
(***************************************************************************)
(* What the runs of the alert loop check on small instances, proved for    *)
(* every number of replicas, workers and alerts; and what MCAlertStore     *)
(* checks of what the loop rests on, for every pool, licence, text, host   *)
(* and tenant that its assumptions allow.  One part of it after the other. *)
(***************************************************************************)
EXTENDS MCAlertStore, FiniteSetTheorems, TLAPS

\* A search returns some of what it matches.
LEMMA OldestSubset == \A S : Oldest(S) \subseteq S
  BY DEF Oldest

LEMMA BehindSubset == \A r : Behind(r) \subseteq indexed
  BY DEF Behind

LEMMA AheadSubset == \A r : Ahead(r) \subseteq indexed
  BY DEF Ahead

-----------------------------------------------------------------------------
(* Type correctness.                                                       *)

LEMMA TypeInit == Init => TypeOK
  BY PipelineAssumption DEF Init, TypeOK, Phases, NoAnchor

LEMMA EndCycleType ==
  ASSUME TypeOK, NEW r \in Replicas, NEW dropped \in SUBSET Alerts,
         EndCycle(r, dropped)
  PROVE  /\ lock' \in Replicas \cup {Nobody}
         /\ pc' \in [Replicas -> Phases]
         /\ batch' \in [Replicas -> SUBSET Alerts]
         /\ worthy' \in [Replicas -> SUBSET Alerts]
         /\ abandoned' \in [Replicas -> SUBSET Alerts]
         /\ UNCHANGED <<envVars, cursor, history, seen, poolVars, dbVars, owed,
                        crashes>>
  BY DEF EndCycle, Unlock, TypeOK, Phases

LEMMA FetchType ==
  ASSUME TypeOK, NEW r \in Replicas, Fetch(r)
  PROVE  TypeOK'
<1>1. PICK forwardOk, lateOk, scoped \in BOOLEAN :
        LET forward == IF forwardOk /\ scoped THEN Oldest(Ahead(r) \ Foreign)
                                              ELSE {}
            visible == IF scoped THEN Behind(r) \ Foreign ELSE Behind(r)
            late    == IF lateOk THEN Oldest(visible) ELSE {}
        IN /\ IF forwardOk /\ lateOk /\ scoped THEN NoFault ELSE Fault
           /\ MovePast(r, forward)
           /\ batch' = [batch EXCEPT ![r] = forward \cup late]
  BY DEF Fetch
<1> DEFINE forward == IF forwardOk /\ scoped THEN Oldest(Ahead(r) \ Foreign)
                                             ELSE {}
           visible == IF scoped THEN Behind(r) \ Foreign ELSE Behind(r)
           late    == IF lateOk THEN Oldest(visible) ELSE {}
<1>2. forward \subseteq Alerts /\ late \subseteq Alerts
  BY OldestSubset, AheadSubset, BehindSubset DEF TypeOK
<1>3. faults' \in Nat
  BY <1>1 DEF Fault, NoFault, TypeOK
<1>4. cursor' \in [Replicas -> Alerts \cup {0}]
  <2>1. MovePast(r, forward)
    BY <1>1
  <2> HIDE DEF forward
  <2>2. QED
    BY <1>2, <2>1 DEF MovePast, TypeOK
<1>5. batch' \in [Replicas -> SUBSET Alerts]
  <2>1. batch' = [batch EXCEPT ![r] = forward \cup late]
    BY <1>1
  <2> HIDE DEF forward, late
  <2>2. QED
    BY <1>2, <2>1 DEF TypeOK
<1>6. polled' \in [Replicas -> BOOLEAN] /\ anchor' \in [Replicas -> Nat \cup {NoAnchor}]
  BY DEF Fetch, NotePoll, TypeOK
<1>7. QED
  BY <1>3, <1>4, <1>5, <1>6
  DEF Fetch, TypeOK, Phases, envVars, poolVars, dbVars, ghostVars

LEMMA LoopType ==
  ASSUME TypeOK, NEW r \in Replicas, LoopStep(r)
  PROVE  TypeOK'
<1> USE DEF TypeOK, Phases, envVars, loopVars, fetchVars, poolVars, dbVars,
            ghostVars, Fault, NoFault
<1>1. CASE BeginCycle(r)
  BY <1>1 DEF BeginCycle
<1>2. CASE Fetch(r)
  BY <1>2, FetchType
<1>3. CASE SkipTenant(r)
  BY <1>3, EndCycleType DEF SkipTenant, NotePoll
<1>4. CASE Enriched(r)
  BY <1>4 DEF Enriched
<1>5. CASE NothingToTriage(r)
  BY <1>5, EndCycleType DEF NothingToTriage
<1>6. CASE DropOverQuota(r)
  BY <1>6, EndCycleType DEF DropOverQuota
<1>7. CASE StartSubmitting(r)
  BY <1>7 DEF StartSubmitting
<1>8. CASE Submitted(r)
  BY <1>8, EndCycleType DEF Submitted
<1>9. CASE CycleRaises(r)
  BY <1>9, EndCycleType DEF CycleRaises
<1>10. ASSUME NEW a \in Alerts, SkipKnown(r, a)  PROVE TypeOK'
  BY <1>10 DEF SkipKnown
<1>11. ASSUME NEW a \in Alerts, Enrich(r, a)  PROVE TypeOK'
  BY <1>11 DEF Enrich, Trimmed
<1>12. ASSUME NEW a \in Alerts, SkipLowRisk(r, a)  PROVE TypeOK'
  BY <1>12 DEF SkipLowRisk
<1>13. ASSUME NEW a \in Alerts, SkipInFlight(r, a)  PROVE TypeOK'
  BY <1>13 DEF SkipInFlight
<1>14. ASSUME NEW a \in Alerts, Submit(r, a)  PROVE TypeOK'
  BY <1>14 DEF Submit
<1>15. ASSUME NEW a \in Alerts, CheckpointFails(r, a)  PROVE TypeOK'
  BY <1>15 DEF CheckpointFails
<1>16. QED
  BY <1>1, <1>2, <1>3, <1>4, <1>5, <1>6, <1>7, <1>8, <1>9, <1>10, <1>11,
     <1>12, <1>13, <1>14, <1>15
  DEF LoopStep

LEMMA WorkerType ==
  ASSUME TypeOK, NEW r \in Replicas, NEW w \in Workers, WorkerStep(r, w)
  PROVE  TypeOK'
<1> USE DEF TypeOK, Phases, envVars, loopVars, fetchVars, poolVars, dbVars,
            ghostVars, Fault, NoFault, LetGo
<1>1. ASSUME NEW a \in Alerts, Dequeue(r, w, a)  PROVE TypeOK'
  BY <1>1 DEF Dequeue
<1>2. CASE SaveDecision(r, w)
  BY <1>2 DEF SaveDecision
<1>3. CASE Downstream(r, w)
  <2>1. grouped' \subseteq Alerts /\ triageCalls' \in Nat /\ faults' \in Nat
    BY <1>3 DEF Downstream
  <2>2. /\ inflight' \in [Replicas -> SUBSET Alerts]
        /\ held' \in [Replicas -> [Workers -> Alerts \cup {NoAlert}]]
        /\ saved' \in [Replicas -> SUBSET Workers]
    BY <1>3 DEF Downstream
  <2>3. QED
    BY <1>3, <2>1, <2>2 DEF Downstream
<1>4. CASE TriageFails(r, w)
  BY <1>4 DEF TriageFails
<1>5. QED
  BY <1>1, <1>2, <1>3, <1>4 DEF WorkerStep

LEMMA TypeNext == TypeOK /\ [Next]_vars => TypeOK'
<1> SUFFICES ASSUME TypeOK, [Next]_vars PROVE TypeOK'
  OBVIOUS
<1> USE DEF envVars, loopVars, fetchVars, poolVars, dbVars, ghostVars
<1>1. CASE Tick
  BY <1>1 DEF Tick, TypeOK
<1>2. CASE NewDay
  BY <1>2 DEF NewDay, TypeOK
<1>3. ASSUME NEW a \in Alerts, Ingest(a)  PROVE TypeOK'
  BY <1>3 DEF Ingest, TypeOK
<1>4. ASSUME NEW r \in Replicas, LoopStep(r)  PROVE TypeOK'
  BY <1>4, LoopType
<1>5. ASSUME NEW r \in Replicas, Crash(r)  PROVE TypeOK'
  <2>1. batch[r] \cup Pending(r) \subseteq Alerts
    BY DEF TypeOK, Pending, Unsaved
  <2> HIDE DEF Pending
  <2>2. QED
    BY <1>5, <2>1 DEF Crash, TypeOK, Unlock, Phases
<1>6. ASSUME NEW r \in Replicas, Restart(r)  PROVE TypeOK'
  BY <1>6, PipelineAssumption DEF Restart, TypeOK, Phases
<1>7. ASSUME NEW r \in Replicas, NEW w \in Workers, WorkerStep(r, w)
      PROVE  TypeOK'
  BY <1>7, WorkerType
<1>8. CASE UNCHANGED vars
  BY <1>8 DEF vars, TypeOK
<1>9. QED
  BY <1>1, <1>2, <1>3, <1>4, <1>5, <1>6, <1>7, <1>8 DEF Next

\* Every variable keeps its type, for any number of replicas and alerts.
THEOREM TypeCorrect == Spec => []TypeOK
  BY TypeInit, TypeNext, PTL DEF Spec

-----------------------------------------------------------------------------
(* The job lock.                                                           *)

\* What a step of the alert loop does to the lock and to its place.
LEMMA LoopMoves ==
  ASSUME NEW r \in Replicas, LoopStep(r)
  PROVE  \/ UNCHANGED <<lock, pc>>
         \/ /\ pc[r] = "idle" /\ lock = Nobody
            /\ lock' = r /\ pc' = [pc EXCEPT ![r] = "fetch"]
         \/ /\ pc[r] \in Phases \ {"idle", "down"} /\ UNCHANGED lock
            /\ \E p \in Phases \ {"idle", "down"} : pc' = [pc EXCEPT ![r] = p]
         \/ /\ pc[r] \in Phases \ {"idle", "down"} /\ Unlock(r)
            /\ pc' = [pc EXCEPT ![r] = "idle"]
<1> USE DEF Phases
<1>1. CASE BeginCycle(r)
  BY <1>1 DEF BeginCycle
<1>2. CASE Fetch(r) \/ Enriched(r) \/ StartSubmitting(r)
  BY <1>2 DEF Fetch, Enriched, StartSubmitting
<1>3. CASE \/ SkipTenant(r) \/ NothingToTriage(r) \/ DropOverQuota(r)
           \/ Submitted(r) \/ CycleRaises(r)
  BY <1>3 DEF SkipTenant, NothingToTriage, DropOverQuota, Submitted,
              CycleRaises, EndCycle
<1>4. CASE \E a \in Alerts :
             \/ SkipKnown(r, a) \/ Enrich(r, a) \/ SkipLowRisk(r, a)
             \/ CheckpointFails(r, a) \/ SkipInFlight(r, a) \/ Submit(r, a)
  BY <1>4 DEF SkipKnown, Enrich, SkipLowRisk, CheckpointFails, SkipInFlight,
              Submit
<1>5. QED
  BY <1>1, <1>2, <1>3, <1>4 DEF LoopStep

LEMMA WorkerMoves ==
  ASSUME NEW r \in Replicas, NEW w \in Workers, WorkerStep(r, w)
  PROVE  UNCHANGED <<lock, pc, worthy, seen>>
  BY DEF WorkerStep, Dequeue, SaveDecision, Downstream, TriageFails, loopVars

LEMMA LockNext == TypeOK /\ OneCycleAtATime /\ [Next]_vars => OneCycleAtATime'
<1> SUFFICES ASSUME TypeOK, OneCycleAtATime, [Next]_vars PROVE OneCycleAtATime'
  OBVIOUS
<1> USE PipelineAssumption DEF OneCycleAtATime, InCycle, TypeOK, Phases, Unlock
<1>1. CASE UNCHANGED <<lock, pc>>
  BY <1>1
<1>2. ASSUME NEW r \in Replicas, LoopStep(r)  PROVE OneCycleAtATime'
  <2>1. CASE /\ pc[r] = "idle" /\ lock = Nobody
             /\ lock' = r /\ pc' = [pc EXCEPT ![r] = "fetch"]
    BY <2>1
  <2>2. CASE /\ pc[r] \in Phases \ {"idle", "down"} /\ UNCHANGED lock
             /\ \E p \in Phases \ {"idle", "down"} : pc' = [pc EXCEPT ![r] = p]
    BY <2>2
  <2>3. CASE /\ pc[r] \in Phases \ {"idle", "down"} /\ Unlock(r)
             /\ pc' = [pc EXCEPT ![r] = "idle"]
    BY <2>3
  <2>4. QED
    BY <1>1, <1>2, <2>1, <2>2, <2>3, LoopMoves
<1>3. ASSUME NEW r \in Replicas, Crash(r)  PROVE OneCycleAtATime'
  BY <1>3 DEF Crash
<1>4. ASSUME NEW r \in Replicas, Restart(r)  PROVE OneCycleAtATime'
  BY <1>4 DEF Restart
<1>5. CASE Tick \/ NewDay \/ (\E a \in Alerts : Ingest(a)) \/ UNCHANGED vars
  BY <1>1, <1>5 DEF Tick, NewDay, Ingest, vars, loopVars
<1>6. ASSUME NEW r \in Replicas, NEW w \in Workers, WorkerStep(r, w)
      PROVE  OneCycleAtATime'
  BY <1>1, <1>6, WorkerMoves
<1>7. QED
  BY <1>2, <1>3, <1>4, <1>5, <1>6 DEF Next

\* However many replicas there are and whichever way their cycles end, a
\* replica is in a cycle exactly while it holds the job lock.
THEOREM CycleExclusion == Spec => []OneCycleAtATime
<1>1. Init => OneCycleAtATime
  BY PipelineAssumption DEF Init, OneCycleAtATime, InCycle
<1>2. QED
  BY <1>1, LockNext, TypeCorrect, PTL DEF Spec

-----------------------------------------------------------------------------
(* The dispatcher's in-flight set.                                         *)

\* NeverHeldTwice, spelt out for one replica.
OneCopy(r) ==
  /\ inflight[r] = queue[r] \cup Held(r)
  /\ queue[r] \cap Held(r) = {}
  /\ \A v, w \in Workers :
       held[r][v] = held[r][w] /\ held[r][v] # NoAlert => v = w

\* A replica whose queue, set and workers stay as they are keeps one copy.
LEMMA OneCopyFrame ==
  ASSUME NEW r \in Replicas, OneCopy(r),
         queue'[r] = queue[r], inflight'[r] = inflight[r], held'[r] = held[r]
  PROVE  OneCopy(r)'
  BY DEF OneCopy, Held

LEMMA OneCopySubmit ==
  ASSUME TypeOK, NEW r \in Replicas, NEW a \in Alerts, OneCopy(r), Submit(r, a)
  PROVE  OneCopy(r)'
<1>1. /\ queue'[r] = queue[r] \cup {a} /\ inflight'[r] = inflight[r] \cup {a}
      /\ held'[r] = held[r] /\ a \notin inflight[r]
  BY DEF Submit, TypeOK
<1>2. Held(r)' = Held(r)
  BY <1>1 DEF Held
<1>3. QED
  BY <1>1, <1>2 DEF OneCopy

LEMMA OneCopyDequeue ==
  ASSUME TypeOK, NEW r \in Replicas, NEW w \in Workers, NEW a \in Alerts,
         OneCopy(r), Dequeue(r, w, a)
  PROVE  OneCopy(r)'
<1>1. /\ queue'[r] = queue[r] \ {a} /\ inflight'[r] = inflight[r]
      /\ held'[r] = [held[r] EXCEPT ![w] = a]
      /\ a \in queue[r] /\ held[r][w] = NoAlert /\ a # NoAlert
  BY PipelineAssumption DEF Dequeue, TypeOK
<1>2. Held(r)' = Held(r) \cup {a}
  BY <1>1 DEF Held, TypeOK
<1>3. \A v \in Workers : held[r][v] # a
  BY <1>1 DEF OneCopy, Held
<1>4. \A x, v \in Workers : 
        held'[r][x] = held'[r][v] /\ held'[r][x] # NoAlert => x = v
  BY <1>1, <1>3 DEF OneCopy, TypeOK
<1>5. QED
  BY <1>1, <1>2, <1>4 DEF OneCopy

LEMMA OneCopyLetGo ==
  ASSUME TypeOK, NEW r \in Replicas, NEW w \in Workers, OneCopy(r),
         held[r][w] # NoAlert, UNCHANGED queue, LetGo(r, w)
  PROVE  OneCopy(r)'
<1>1. /\ queue'[r] = queue[r] /\ inflight'[r] = inflight[r] \ {held[r][w]}
      /\ held'[r] = [held[r] EXCEPT ![w] = NoAlert]
  BY DEF LetGo, TypeOK
<1>2. Held(r)' = Held(r) \ {held[r][w]}
  <2>1. \A v \in Workers : v # w => held'[r][v] = held[r][v]
    BY <1>1 DEF TypeOK
  <2>2. held'[r][w] = NoAlert
    BY <1>1 DEF TypeOK
  <2>3. QED
    BY <2>1, <2>2 DEF Held, OneCopy
<1>3. held[r][w] \in Held(r)
  BY DEF Held
<1>4. \A x, v \in Workers :
        held'[r][x] = held'[r][v] /\ held'[r][x] # NoAlert => x = v
  BY <1>1 DEF OneCopy, TypeOK
<1>5. QED
  BY <1>1, <1>2, <1>3, <1>4 DEF OneCopy

\* The steps of the alert loop that leave the pool alone are all but Submit.
LEMMA LoopPool ==
  ASSUME NEW r \in Replicas, LoopStep(r)
  PROVE  UNCHANGED <<queue, inflight, held, saved>> \/ \E a \in Alerts : Submit(r, a)
<1> USE DEF poolVars, EndCycle
<1>1. CASE \/ BeginCycle(r) \/ Fetch(r) \/ Enriched(r) \/ StartSubmitting(r)
  BY <1>1 DEF BeginCycle, Fetch, Enriched, StartSubmitting
<1>2. CASE \/ SkipTenant(r) \/ NothingToTriage(r) \/ DropOverQuota(r)
           \/ Submitted(r) \/ CycleRaises(r)
  BY <1>2 DEF SkipTenant, NothingToTriage, DropOverQuota, Submitted, CycleRaises
<1>3. CASE \E a \in Alerts :
             \/ SkipKnown(r, a) \/ Enrich(r, a) \/ SkipLowRisk(r, a)
             \/ CheckpointFails(r, a) \/ SkipInFlight(r, a)
  BY <1>3 DEF SkipKnown, Enrich, SkipLowRisk, CheckpointFails, SkipInFlight
<1>4. QED
  BY <1>1, <1>2, <1>3 DEF LoopStep

LEMMA PoolNext == TypeOK /\ NeverHeldTwice /\ [Next]_vars => NeverHeldTwice'
<1> SUFFICES ASSUME TypeOK, \A s \in Replicas : OneCopy(s), [Next]_vars,
                    NEW r \in Replicas
             PROVE  OneCopy(r)'
  BY DEF NeverHeldTwice, OneCopy
<1>1. CASE UNCHANGED <<queue, inflight, held>>
  BY <1>1, OneCopyFrame
<1>2. CASE Tick \/ NewDay \/ (\E a \in Alerts : Ingest(a)) \/ UNCHANGED vars
  BY <1>1, <1>2 DEF Tick, NewDay, Ingest, vars, poolVars
<1>3. ASSUME NEW s \in Replicas, LoopStep(s)  PROVE OneCopy(r)'
  <2>1. ASSUME NEW a \in Alerts, Submit(s, a)  PROVE OneCopy(r)'
    <3>1. CASE r = s
      BY <2>1, <3>1, OneCopySubmit
    <3>2. CASE r # s
      BY <2>1, <3>2, OneCopyFrame DEF Submit, TypeOK
    <3>3. QED
      BY <3>1, <3>2
  <2>2. QED
    BY <1>1, <1>3, <2>1, LoopPool
<1>4. ASSUME NEW s \in Replicas, Crash(s)  PROVE OneCopy(r)'
  <2>1. CASE r = s
    BY <1>4, <2>1 DEF Crash, TypeOK, OneCopy, Held
  <2>2. CASE r # s
    BY <1>4, <2>2, OneCopyFrame DEF Crash, TypeOK
  <2>3. QED
    BY <2>1, <2>2
<1>5. ASSUME NEW s \in Replicas, Restart(s)  PROVE OneCopy(r)'
  BY <1>1, <1>5 DEF Restart, poolVars
<1>6. ASSUME NEW s \in Replicas, NEW w \in Workers, WorkerStep(s, w)
      PROVE  OneCopy(r)'
  <2>1. ASSUME NEW a \in Alerts, Dequeue(s, w, a)  PROVE OneCopy(r)'
    <3>1. CASE r = s
      BY <2>1, <3>1, OneCopyDequeue
    <3>2. CASE r # s
      BY <2>1, <3>2, OneCopyFrame DEF Dequeue, TypeOK
    <3>3. QED
      BY <3>1, <3>2
  <2>2. CASE SaveDecision(s, w)
    BY <1>1, <2>2 DEF SaveDecision
  <2>3. CASE Downstream(s, w) \/ TriageFails(s, w)
    <3>1. held[s][w] # NoAlert /\ UNCHANGED queue /\ LetGo(s, w)
      BY <2>3 DEF Downstream, TriageFails
    <3>2. CASE r = s
      BY <3>1, <3>2, OneCopyLetGo
    <3>3. CASE r # s
      BY <3>1, <3>3, OneCopyFrame DEF LetGo, TypeOK
    <3>4. QED
      BY <3>2, <3>3
  <2>4. QED
    BY <1>6, <2>1, <2>2, <2>3 DEF WorkerStep
<1>7. QED
  BY <1>2, <1>3, <1>4, <1>5, <1>6 DEF Next

\* No alert is queued or worked on twice by one process, for any number of
\* workers and whatever its alert loop submits again.
THEOREM HeldOnce == Spec => []NeverHeldTwice
<1>1. Init => NeverHeldTwice
  BY DEF Init, NeverHeldTwice, Held
<1>2. QED
  BY <1>1, PoolNext, TypeCorrect, PTL DEF Spec

-----------------------------------------------------------------------------
(* What one replica's step leaves alone in the others.                     *)

Still(r) ==
  /\ pc'[r] = pc[r] /\ worthy'[r] = worthy[r] /\ seen'[r] = seen[r]
  /\ queue'[r] = queue[r] /\ inflight'[r] = inflight[r]
  /\ held'[r] = held[r] /\ saved'[r] = saved[r]
  /\ decisions'[r] = decisions[r] /\ abandoned'[r] = abandoned[r]
  /\ processed \subseteq processed'

LEMMA EnvironmentStill ==
  ASSUME Tick \/ NewDay \/ (\E a \in Alerts : Ingest(a)) \/ UNCHANGED vars,
         NEW r \in Replicas
  PROVE  Still(r)
  BY DEF Tick, NewDay, Ingest, vars, loopVars, poolVars, dbVars, ghostVars, Still

LEMMA OthersStill ==
  ASSUME TypeOK, NEW r \in Replicas, NEW s \in Replicas, r # s,
         \/ LoopStep(s) \/ Crash(s) \/ Restart(s)
         \/ \E w \in Workers : WorkerStep(s, w)
  PROVE  Still(r)
<1> USE DEF TypeOK, Still, loopVars, poolVars, dbVars, ghostVars
<1>1. CASE BeginCycle(s)
  BY <1>1 DEF BeginCycle
<1>2. CASE Fetch(s)
  BY <1>2 DEF Fetch
<1>3. ASSUME NEW dropped, EndCycle(s, dropped)  PROVE Still(r)
  BY <1>3 DEF EndCycle
<1>4. CASE \/ SkipTenant(s) \/ NothingToTriage(s) \/ DropOverQuota(s)
           \/ Submitted(s) \/ CycleRaises(s)
  BY <1>3, <1>4 DEF SkipTenant, NothingToTriage, DropOverQuota, Submitted,
                    CycleRaises
<1>5. CASE Enriched(s) \/ StartSubmitting(s)
  BY <1>5 DEF Enriched, StartSubmitting
<1>6. ASSUME NEW a \in Alerts, SkipKnown(s, a)  PROVE Still(r)
  BY <1>6 DEF SkipKnown
<1>7. ASSUME NEW a \in Alerts, Enrich(s, a)  PROVE Still(r)
  BY <1>7 DEF Enrich
<1>8. ASSUME NEW a \in Alerts, SkipLowRisk(s, a)  PROVE Still(r)
  BY <1>8 DEF SkipLowRisk
<1>9. ASSUME NEW a \in Alerts, CheckpointFails(s, a)  PROVE Still(r)
  BY <1>9 DEF CheckpointFails
<1>10. ASSUME NEW a \in Alerts, SkipInFlight(s, a)  PROVE Still(r)
  BY <1>10 DEF SkipInFlight
<1>11. ASSUME NEW a \in Alerts, Submit(s, a)  PROVE Still(r)
  BY <1>11 DEF Submit
<1>12. CASE Crash(s)
  BY <1>12 DEF Crash
<1>13. CASE Restart(s)
  BY <1>13 DEF Restart
<1>14. ASSUME NEW w \in Workers, NEW a \in Alerts, Dequeue(s, w, a)
       PROVE  Still(r)
  BY <1>14 DEF Dequeue
<1>15. ASSUME NEW w \in Workers, SaveDecision(s, w)  PROVE Still(r)
  BY <1>15 DEF SaveDecision
<1>16. ASSUME NEW w \in Workers, Downstream(s, w)  PROVE Still(r)
  BY <1>16 DEF Downstream, LetGo
<1>17. ASSUME NEW w \in Workers, TriageFails(s, w)  PROVE Still(r)
  BY <1>17 DEF TriageFails, LetGo
<1>18. QED
  BY <1>1, <1>2, <1>4, <1>5, <1>6, <1>7, <1>8, <1>9, <1>10, <1>11, <1>12,
     <1>13, <1>14, <1>15, <1>16, <1>17
  DEF LoopStep, WorkerStep

-----------------------------------------------------------------------------
(* No alert is forgotten while the process lives.                          *)

\* The inductive strengthening of SeenIsAccountedFor, for one replica: outside
\* a cycle nothing is left in enriched_batch (a cycle that ends hands over or
\* drops all of it), and a worker past save_decision holds a durable alert
\* (so an alert skipped because it is in flight is either going to be decided
\* or was).
Accounted(r) ==
  /\ seen[r] \subseteq processed \cup Pending(r) \cup abandoned[r]
  /\ pc[r] \in {"idle", "fetch", "down"} => worthy[r] = {}
  /\ \A w \in saved[r] : held[r][w] \in processed

LEMMA PendingStill ==
  ASSUME NEW r \in Replicas, Still(r)
  PROVE  Pending(r)' = Pending(r)
  BY DEF Still, Pending, Unsaved

LEMMA AccountedStill ==
  ASSUME NEW r \in Replicas, Accounted(r), Still(r)
  PROVE  Accounted(r)'
<1>1. Pending(r)' = Pending(r)
  BY PendingStill
<1>2. QED
  BY <1>1 DEF Accounted, Still

\* Ending a cycle is safe when everything still in enriched_batch is dropped
\* under an error.
LEMMA AccountedEndCycle ==
  ASSUME TypeOK, NEW r \in Replicas, NEW dropped, Accounted(r),
         EndCycle(r, dropped), worthy[r] \subseteq dropped
  PROVE  Accounted(r)'
<1>1. /\ worthy'[r] = {} /\ abandoned'[r] = abandoned[r] \cup dropped
      /\ UNCHANGED <<seen, processed, queue, held, saved>>
  BY DEF EndCycle, TypeOK, poolVars, dbVars
<1>2. Pending(r) \subseteq Pending(r)' \cup dropped
  BY <1>1 DEF Pending, Unsaved
<1> HIDE DEF Pending
<1>3. QED
  BY <1>1, <1>2 DEF Accounted

LEMMA AccountedLoop ==
  ASSUME TypeOK, NEW r \in Replicas, OneCopy(r), Accounted(r), LoopStep(r)
  PROVE  Accounted(r)'
<1> USE DEF Accounted, TypeOK
<1>1. CASE BeginCycle(r) \/ Enriched(r) \/ StartSubmitting(r)
  BY <1>1 DEF BeginCycle, Enriched, StartSubmitting, poolVars, dbVars,
              ghostVars, Pending, Unsaved
<1>2. CASE Fetch(r)
  BY <1>2 DEF Fetch, poolVars, dbVars, ghostVars, Pending, Unsaved
<1>3. CASE \/ SkipTenant(r) \/ NothingToTriage(r) \/ DropOverQuota(r)
           \/ Submitted(r) \/ CycleRaises(r)
  BY <1>3, AccountedEndCycle
  DEF SkipTenant, NothingToTriage, DropOverQuota, Submitted, CycleRaises
<1>4. ASSUME NEW a \in Alerts, SkipKnown(r, a)  PROVE Accounted(r)'
  BY <1>4 DEF SkipKnown, poolVars, dbVars, ghostVars, Pending, Unsaved
<1>5. ASSUME NEW a \in Alerts, Enrich(r, a)  PROVE Accounted(r)'
  <2>1. /\ seen'[r] \subseteq seen[r] \cup {a}
        /\ worthy'[r] = worthy[r] \cup {a}
        /\ abandoned'[r] = abandoned[r] \ {a}
        /\ UNCHANGED <<processed, queue, held, saved, pc>>
        /\ pc[r] = "enrich"
    BY <1>5 DEF Enrich, Trimmed, poolVars, dbVars
  <2>2. Pending(r)' = Pending(r) \cup {a}
    BY <2>1 DEF Pending, Unsaved
  <2> HIDE DEF Pending
  <2>3. QED
    BY <2>1, <2>2
<1>6. ASSUME NEW a \in Alerts, SkipLowRisk(r, a)  PROVE Accounted(r)'
  BY <1>6 DEF SkipLowRisk, poolVars, ghostVars, Pending, Unsaved
<1>7. ASSUME NEW a \in Alerts, CheckpointFails(r, a)  PROVE Accounted(r)'
  BY <1>7 DEF CheckpointFails, poolVars, dbVars, Pending, Unsaved
<1>8. ASSUME NEW a \in Alerts, SkipInFlight(r, a)  PROVE Accounted(r)'
  <2>1. /\ worthy'[r] = worthy[r] \ {a} /\ a \in inflight[r]
        /\ UNCHANGED <<seen, processed, queue, held, saved, pc, abandoned>>
        /\ pc[r] = "submit"
    BY <1>8 DEF SkipInFlight, poolVars, dbVars, ghostVars
  <2>2. a \in queue[r] \cup Unsaved(r) \/ a \in processed
    BY <2>1 DEF OneCopy, Held, Unsaved
  <2>3. Pending(r) \subseteq Pending(r)' \cup processed
    BY <2>1, <2>2 DEF Pending, Unsaved
  <2> HIDE DEF Pending
  <2>4. QED
    BY <2>1, <2>3
<1>9. ASSUME NEW a \in Alerts, Submit(r, a)  PROVE Accounted(r)'
  BY <1>9 DEF Submit, dbVars, ghostVars, Pending, Unsaved
<1>10. QED
  BY <1>1, <1>2, <1>3, <1>4, <1>5, <1>6, <1>7, <1>8, <1>9 DEF LoopStep

LEMMA AccountedWorker ==
  ASSUME TypeOK, NEW r \in Replicas, NEW w \in Workers, Accounted(r),
         WorkerStep(r, w)
  PROVE  Accounted(r)'
<1> USE DEF TypeOK
<1>1. UNCHANGED <<seen, worthy, pc>>
  BY WorkerMoves
<1>2. ASSUME NEW a \in Alerts, Dequeue(r, w, a)  PROVE Accounted(r)'
  <2>1. /\ queue'[r] = queue[r] \ {a}
        /\ held'[r] = [held[r] EXCEPT ![w] = a] /\ held[r][w] = NoAlert
        /\ UNCHANGED <<saved, processed, abandoned>>
    BY <1>2 DEF Dequeue, dbVars, ghostVars
  <2>2. w \notin saved[r]
    BY <2>1, PipelineAssumption DEF Accounted
  <2>3. Pending(r) \subseteq Pending(r)'
    <3>1. held'[r][w] = a /\ a # NoAlert
      BY <2>1, PipelineAssumption
    <3>2. \A v \in Workers : v # w => held'[r][v] = held[r][v]
      BY <2>1
    <3>3. Unsaved(r) \subseteq Unsaved(r)' /\ a \in Unsaved(r)'
      BY <2>1, <2>2, <3>1, <3>2 DEF Unsaved
    <3>4. QED
      BY <1>1, <2>1, <3>3 DEF Pending
  <2>4. \A v \in saved[r] : held'[r][v] = held[r][v]
    BY <2>1, <2>2
  <2> HIDE DEF Pending
  <2>5. QED
    BY <1>1, <2>1, <2>3, <2>4 DEF Accounted
<1>3. CASE SaveDecision(r, w)
  <2>1. /\ processed' = processed \cup {held[r][w]}
        /\ saved'[r] = saved[r] \cup {w}
        /\ UNCHANGED <<queue, held, abandoned>>
    BY <1>3 DEF SaveDecision, ghostVars
  <2>2. Pending(r) \subseteq Pending(r)' \cup {held[r][w]}
    BY <1>1, <2>1 DEF Pending, Unsaved
  <2> HIDE DEF Pending
  <2>3. QED
    BY <1>1, <2>1, <2>2 DEF Accounted
<1>4. CASE Downstream(r, w) \/ TriageFails(r, w)
  <2>1. /\ held'[r] = [held[r] EXCEPT ![w] = NoAlert]
        /\ saved'[r] = saved[r] \ {w}
        /\ UNCHANGED <<queue, processed>>
        /\ abandoned[r] \subseteq abandoned'[r]
        /\ w \in saved[r] \/ held[r][w] \in abandoned'[r]
    <3>1. LetGo(r, w) /\ UNCHANGED <<queue, processed>>
      BY <1>4 DEF Downstream, TriageFails, dbVars
    <3>2. /\ abandoned[r] \subseteq abandoned'[r]
          /\ w \in saved[r] \/ held[r][w] \in abandoned'[r]
      BY <1>4 DEF Downstream, TriageFails, ghostVars
    <3>3. QED
      BY <3>1, <3>2 DEF LetGo
  <2>2. Pending(r) \subseteq Pending(r)' \cup processed \cup abandoned'[r]
    <3>1. \A v \in Workers : v # w => held'[r][v] = held[r][v]
      BY <2>1
    <3>2. held[r][w] \in processed \cup abandoned'[r]
      BY <2>1 DEF Accounted
    <3>3. Unsaved(r) \subseteq Unsaved(r)' \cup {held[r][w]}
      BY <2>1, <3>1 DEF Unsaved
    <3>4. QED
      BY <1>1, <2>1, <3>2, <3>3 DEF Pending
  <2>3. \A v \in saved'[r] : held'[r][v] = held[r][v] /\ v \in saved[r]
    BY <2>1
  <2> HIDE DEF Pending
  <2>4. QED
    BY <1>1, <2>1, <2>2, <2>3 DEF Accounted
<1>5. QED
  BY <1>2, <1>3, <1>4 DEF WorkerStep

LEMMA AccountedNext ==
  TypeOK /\ NeverHeldTwice /\ (\A r \in Replicas : Accounted(r)) /\ [Next]_vars
    => (\A r \in Replicas : Accounted(r))'
<1> SUFFICES ASSUME TypeOK, NeverHeldTwice, \A s \in Replicas : Accounted(s),
                    [Next]_vars, NEW r \in Replicas
             PROVE  Accounted(r)'
  OBVIOUS
<1>1. OneCopy(r)
  BY DEF NeverHeldTwice, OneCopy
<1>2. ASSUME NEW s \in Replicas, LoopStep(s)  PROVE Accounted(r)'
  BY <1>1, <1>2, AccountedLoop, AccountedStill, OthersStill
<1>3. ASSUME NEW s \in Replicas, Crash(s)  PROVE Accounted(r)'
  <2>1. CASE r = s
    BY <1>3, <2>1 DEF Crash, TypeOK, Accounted
  <2>2. QED
    BY <1>3, <2>1, AccountedStill, OthersStill
<1>4. ASSUME NEW s \in Replicas, Restart(s)  PROVE Accounted(r)'
  <2>1. CASE r = s
    <3>1. /\ pc[r] = "down" /\ pc'[r] = "idle"
          /\ UNCHANGED <<worthy, seen, queue, held, saved, processed, abandoned>>
      BY <1>4, <2>1 DEF Restart, TypeOK, poolVars, dbVars, ghostVars
    <3>2. Pending(r)' = Pending(r)
      BY <3>1 DEF Pending, Unsaved
    <3>3. QED
      BY <3>1, <3>2 DEF Accounted
  <2>2. QED
    BY <1>4, <2>1, AccountedStill, OthersStill
<1>5. ASSUME NEW s \in Replicas, NEW w \in Workers, WorkerStep(s, w)
      PROVE  Accounted(r)'
  BY <1>5, AccountedWorker, AccountedStill, OthersStill
<1>6. CASE Tick \/ NewDay \/ (\E a \in Alerts : Ingest(a)) \/ UNCHANGED vars
  BY <1>6, AccountedStill, EnvironmentStill
<1>7. QED
  BY <1>2, <1>3, <1>4, <1>5, <1>6 DEF Next

\* Whatever order the loop, the workers, the errors and the crashes come in, an
\* alert that a process will never look at again is durably handled, still on
\* its way to a worker, or was dropped by an error that was logged.
THEOREM NothingForgotten == Spec => []SeenIsAccountedFor
<1>1. Init => \A r \in Replicas : Accounted(r)
  BY DEF Init, Accounted
<1>2. (\A r \in Replicas : Accounted(r)) => SeenIsAccountedFor
  BY DEF Accounted, SeenIsAccountedFor
<1>3. QED
  BY <1>1, <1>2, AccountedNext, TypeCorrect, HeldOnce, PTL DEF Spec

-----------------------------------------------------------------------------
(* One decision per alert, as long as the cache of seen ids is not trimmed.*)

NoTrim == \A S \in SUBSET Alerts : ~(Cardinality(S) > MaxCache)

LEMMA TrimmedAll ==
  ASSUME NoTrim
  PROVE  \A S \in SUBSET Alerts : Trimmed(S) = S
  BY DEF NoTrim, Trimmed

\* The inductive strengthening of OnceEachReplica, for one replica: whatever is
\* on its way to a worker was seen, so the dedup loop will not enrich it again,
\* and has no decision yet; whatever has one is durable.
Once(r) ==
  /\ worthy[r] \subseteq seen[r] /\ inflight[r] \subseteq seen[r]
  /\ worthy[r] \cap inflight[r] = {}
  /\ \A a \in Alerts : decisions[r][a] <= 1
  /\ \A a \in Alerts \ processed : decisions[r][a] = 0
  /\ \A a \in Pending(r) : decisions[r][a] = 0

LEMMA OnceStill ==
  ASSUME NEW r \in Replicas, Once(r), Still(r)
  PROVE  Once(r)'
<1>1. Pending(r)' = Pending(r)
  BY PendingStill
<1>2. QED
  BY <1>1 DEF Once, Still

\* A step that only takes alerts out of enriched_batch or checkpoints them.
LEMMA OnceShrinks ==
  ASSUME NEW r \in Replicas, Once(r), worthy'[r] \subseteq worthy[r],
         seen[r] \subseteq seen'[r], processed \subseteq processed',
         queue'[r] = queue[r], inflight'[r] = inflight[r], held'[r] = held[r],
         saved'[r] = saved[r], decisions'[r] = decisions[r]
  PROVE  Once(r)'
<1>1. Pending(r)' \subseteq Pending(r)
  BY DEF Pending, Unsaved
<1> HIDE DEF Pending
<1>2. QED
  BY <1>1 DEF Once

LEMMA OnceLoop ==
  ASSUME NoTrim, TypeOK, NEW r \in Replicas, OneCopy(r), Once(r), LoopStep(r)
  PROVE  Once(r)'
<1> USE DEF TypeOK, poolVars, dbVars
<1>1. CASE BeginCycle(r) \/ Enriched(r) \/ StartSubmitting(r)
  BY <1>1, OnceShrinks DEF BeginCycle, Enriched, StartSubmitting
<1>2. CASE Fetch(r)
  BY <1>2, OnceShrinks DEF Fetch
<1>3. CASE \/ SkipTenant(r) \/ NothingToTriage(r) \/ DropOverQuota(r)
           \/ Submitted(r) \/ CycleRaises(r)
  <2>1. worthy'[r] = {} /\ UNCHANGED <<seen, poolVars, dbVars>>
    BY <1>3 DEF SkipTenant, NothingToTriage, DropOverQuota, Submitted,
                CycleRaises, EndCycle
  <2>2. QED
    BY <2>1, OnceShrinks
<1>4. ASSUME NEW a \in Alerts, SkipKnown(r, a)  PROVE Once(r)'
  BY <1>4, OnceShrinks DEF SkipKnown
<1>5. ASSUME NEW a \in Alerts, Enrich(r, a)  PROVE Once(r)'
  <2>1. /\ seen'[r] = seen[r] \cup {a} /\ a \notin seen[r] \cup processed
        /\ worthy'[r] = worthy[r] \cup {a}
        /\ UNCHANGED <<poolVars, dbVars>>
    <3>1. Trimmed(seen[r] \cup {a}) = seen[r] \cup {a}
      <4>1. seen[r] \cup {a} \in SUBSET Alerts
        OBVIOUS
      <4>2. QED
        BY <4>1, TrimmedAll
    <3>2. QED
      BY <1>5, <3>1 DEF Enrich
  <2>2. Pending(r)' = Pending(r) \cup {a}
    BY <2>1 DEF Pending, Unsaved
  <2> HIDE DEF Pending
  <2>3. QED
    BY <2>1, <2>2 DEF Once
<1>6. ASSUME NEW a \in Alerts, SkipLowRisk(r, a)  PROVE Once(r)'
  BY <1>6, OnceShrinks DEF SkipLowRisk
<1>7. ASSUME NEW a \in Alerts, CheckpointFails(r, a)  PROVE Once(r)'
  BY <1>7, OnceShrinks DEF CheckpointFails
<1>8. ASSUME NEW a \in Alerts, SkipInFlight(r, a)  PROVE Once(r)'
  BY <1>8, OnceShrinks DEF SkipInFlight
<1>9. ASSUME NEW a \in Alerts, Submit(r, a)  PROVE Once(r)'
  <2>1. /\ worthy'[r] = worthy[r] \ {a} /\ a \in worthy[r]
        /\ queue'[r] = queue[r] \cup {a} /\ inflight'[r] = inflight[r] \cup {a}
        /\ UNCHANGED <<seen, held, saved, dbVars>>
    BY <1>9 DEF Submit
  <2>2. Pending(r)' = Pending(r)
    BY <2>1 DEF Pending, Unsaved
  <2> HIDE DEF Pending
  <2>3. QED
    BY <2>1, <2>2 DEF Once
<1>10. QED
  BY <1>1, <1>2, <1>3, <1>4, <1>5, <1>6, <1>7, <1>8, <1>9 DEF LoopStep

\* The alert whose decision is being saved is nowhere else in the process.
LEMMA SavingTakesOut ==
  ASSUME TypeOK, NEW r \in Replicas, NEW w \in Workers, OneCopy(r),
         worthy[r] \cap inflight[r] = {}, SaveDecision(r, w)
  PROVE  /\ held[r][w] \in Pending(r)
         /\ Pending(r)' = Pending(r) \ {held[r][w]}
<1> DEFINE a == held[r][w]
<1>1. /\ a # NoAlert /\ w \notin saved[r]
      /\ saved'[r] = saved[r] \cup {w}
      /\ UNCHANGED <<worthy, queue, held>>
  BY DEF SaveDecision, TypeOK, loopVars
<1>2. a \in Held(r) /\ a \in inflight[r] /\ a \notin queue[r] /\ a \notin worthy[r]
  BY <1>1 DEF Held, OneCopy
<1>3. a \in Unsaved(r) /\ Unsaved(r)' = Unsaved(r) \ {a}
  BY <1>1 DEF Unsaved, OneCopy
<1> HIDE DEF a
<1>4. a \in Pending(r) /\ Pending(r)' = Pending(r) \ {a}
  BY <1>1, <1>2, <1>3 DEF Pending
<1>5. QED
  BY <1>4 DEF a

LEMMA OnceWorker ==
  ASSUME TypeOK, NEW r \in Replicas, NEW w \in Workers, OneCopy(r), Once(r),
         WorkerStep(r, w)
  PROVE  Once(r)'
<1> USE DEF TypeOK
<1>1. UNCHANGED <<seen, worthy>>
  BY WorkerMoves
<1>2. ASSUME NEW a \in Alerts, Dequeue(r, w, a)  PROVE Once(r)'
  <2>1. /\ queue'[r] = queue[r] \ {a} /\ a \in queue[r]
        /\ held'[r] = [held[r] EXCEPT ![w] = a]
        /\ UNCHANGED <<inflight, saved, dbVars>>
    BY <1>2 DEF Dequeue
  <2>2. Pending(r)' \subseteq Pending(r)
    <3>1. Unsaved(r)' \subseteq Unsaved(r) \cup {a}
      BY <2>1 DEF Unsaved
    <3>2. QED
      BY <1>1, <2>1, <3>1 DEF Pending
  <2> HIDE DEF Pending
  <2>3. QED
    BY <1>1, <2>1, <2>2 DEF Once, dbVars
<1>3. CASE SaveDecision(r, w)
  <2>1. /\ held[r][w] \in Pending(r)
        /\ Pending(r)' = Pending(r) \ {held[r][w]}
    BY <1>3, SavingTakesOut DEF Once
  <2>2. /\ held[r][w] \in Alerts
        /\ decisions'[r] = [decisions[r] EXCEPT ![held[r][w]] = @ + 1]
        /\ processed' = processed \cup {held[r][w]}
        /\ UNCHANGED inflight
    BY <1>3 DEF SaveDecision
  <2> HIDE DEF Pending
  <2>3. decisions'[r][held[r][w]] = 1
    <3>1. decisions[r][held[r][w]] = 0
      BY <2>1 DEF Once
    <3>2. QED
      BY <2>2, <3>1
  <2>4. QED
    BY <1>1, <2>1, <2>2, <2>3 DEF Once
<1>4. CASE Downstream(r, w) \/ TriageFails(r, w)
  <2>1. LetGo(r, w) /\ UNCHANGED <<queue, processed, decisions>>
    BY <1>4 DEF Downstream, TriageFails, dbVars
  <2>2. /\ held'[r] = [held[r] EXCEPT ![w] = NoAlert]
        /\ saved'[r] = saved[r] \ {w} /\ inflight'[r] \subseteq inflight[r]
    BY <2>1 DEF LetGo
  <2>3. Pending(r)' \subseteq Pending(r)
    <3>1. Unsaved(r)' \subseteq Unsaved(r)
      BY <2>2 DEF Unsaved
    <3>2. QED
      BY <1>1, <2>1, <3>1 DEF Pending
  <2> HIDE DEF Pending
  <2>4. QED
    BY <1>1, <2>1, <2>2, <2>3 DEF Once
<1>5. QED
  BY <1>2, <1>3, <1>4 DEF WorkerStep

LEMMA OnceNext ==
  ASSUME NoTrim
  PROVE  TypeOK /\ NeverHeldTwice /\ (\A r \in Replicas : Once(r)) /\ [Next]_vars
           => (\A r \in Replicas : Once(r))'
<1> SUFFICES ASSUME TypeOK, NeverHeldTwice, \A s \in Replicas : Once(s),
                    [Next]_vars, NEW r \in Replicas
             PROVE  Once(r)'
  OBVIOUS
<1>1. OneCopy(r)
  BY DEF NeverHeldTwice, OneCopy
<1>2. ASSUME NEW s \in Replicas, LoopStep(s)  PROVE Once(r)'
  BY <1>1, <1>2, OnceLoop, OnceStill, OthersStill
<1>3. ASSUME NEW s \in Replicas, Crash(s)  PROVE Once(r)'
  <2>1. CASE r = s
    <3>1. /\ worthy'[r] = {} /\ inflight'[r] = {} /\ queue'[r] = {}
          /\ held'[r] = [w \in Workers |-> NoAlert]
          /\ UNCHANGED dbVars
      BY <1>3, <2>1 DEF Crash, TypeOK
    <3>2. Pending(r)' = {}
      BY <3>1 DEF Pending, Unsaved
    <3>3. QED
      BY <3>1, <3>2 DEF Once, dbVars
  <2>2. QED
    BY <1>3, <2>1, OnceStill, OthersStill
<1>4. ASSUME NEW s \in Replicas, Restart(s)  PROVE Once(r)'
  BY <1>4, OnceShrinks DEF Restart, poolVars, dbVars
<1>5. ASSUME NEW s \in Replicas, NEW w \in Workers, WorkerStep(s, w)
      PROVE  Once(r)'
  BY <1>1, <1>5, OnceWorker, OnceStill, OthersStill
<1>6. CASE Tick \/ NewDay \/ (\E a \in Alerts : Ingest(a)) \/ UNCHANGED vars
  BY <1>6, OnceStill, EnvironmentStill
<1>7. QED
  BY <1>2, <1>3, <1>4, <1>5, <1>6 DEF Next

\* As long as the cache of seen ids is never trimmed, no process ever saves a
\* second decision for an alert, however many replicas share the alerts and
\* however often each crashes.
THEOREM DecidedOnce ==
  ASSUME NoTrim
  PROVE  Spec => []OnceEachReplica
<1>1. Init => \A r \in Replicas : Once(r)
  BY DEF Init, Once, Pending, Unsaved
<1>2. (\A r \in Replicas : Once(r)) => OnceEachReplica
  BY DEF Once, OnceEachReplica
<1>3. QED
  BY <1>1, <1>2, OnceNext, TypeCorrect, HeldOnce, PTL DEF Spec

-----------------------------------------------------------------------------
(* A single replica implements the ledger.                                 *)

\* What one replica needs to know on top of Once when no other process writes
\* checkpoints: nothing on its way to a worker is durable yet, and nothing quiet
\* is on its way to one.
Fresh(r) ==
  /\ Pending(r) \cap processed = {}
  /\ inflight[r] \cap LowRisk = {}
  /\ pc[r] = "submit" => worthy[r] \cap LowRisk = {}

LEMMA FreshLoop ==
  ASSUME TypeOK, NEW r \in Replicas, OneCopy(r), Once(r), Fresh(r), LoopStep(r)
  PROVE  Fresh(r)'
<1> USE DEF TypeOK, poolVars, dbVars
<1>1. ASSUME worthy'[r] = worthy[r], UNCHANGED <<poolVars, dbVars>>,
             pc'[r] = "submit" => worthy[r] \cap LowRisk = {}
      PROVE  Fresh(r)'
  <2>1. Pending(r)' = Pending(r)
    BY <1>1 DEF Pending, Unsaved
  <2> HIDE DEF Pending
  <2>2. QED
    BY <1>1, <2>1 DEF Fresh
<1>2. CASE BeginCycle(r) \/ Enriched(r) \/ StartSubmitting(r)
  BY <1>1, <1>2 DEF BeginCycle, Enriched, StartSubmitting
<1>3. CASE Fetch(r)
  BY <1>1, <1>3 DEF Fetch
<1>4. CASE \/ SkipTenant(r) \/ NothingToTriage(r) \/ DropOverQuota(r)
           \/ Submitted(r) \/ CycleRaises(r)
  <2>1. /\ worthy'[r] = {} /\ pc'[r] = "idle"
        /\ UNCHANGED <<poolVars, dbVars>>
    BY <1>4 DEF SkipTenant, NothingToTriage, DropOverQuota, Submitted,
                CycleRaises, EndCycle
  <2>2. Pending(r)' \subseteq Pending(r)
    BY <2>1 DEF Pending, Unsaved
  <2> HIDE DEF Pending
  <2>3. QED
    BY <2>1, <2>2 DEF Fresh
<1>5. ASSUME NEW a \in Alerts, SkipKnown(r, a)  PROVE Fresh(r)'
  BY <1>1, <1>5 DEF SkipKnown, Fresh
<1>6. ASSUME NEW a \in Alerts, Enrich(r, a)  PROVE Fresh(r)'
  <2>1. /\ a \notin processed /\ worthy'[r] = worthy[r] \cup {a}
        /\ pc'[r] = "enrich" /\ UNCHANGED <<poolVars, dbVars>>
    BY <1>6 DEF Enrich
  <2>2. Pending(r)' = Pending(r) \cup {a}
    BY <2>1 DEF Pending, Unsaved
  <2> HIDE DEF Pending
  <2>3. QED
    BY <2>1, <2>2 DEF Fresh
<1>7. ASSUME NEW a \in Alerts, SkipLowRisk(r, a)  PROVE Fresh(r)'
  <2>1. /\ processed' = processed \cup {a} /\ a \in LowRisk
        /\ worthy'[r] = worthy[r] \ {a} /\ pc'[r] = "checkpoint"
        /\ UNCHANGED poolVars
    BY <1>7 DEF SkipLowRisk
  <2>2. a \notin queue[r] /\ a \notin Unsaved(r)
    BY <2>1 DEF Fresh, OneCopy, Held, Unsaved
  <2>3. Pending(r)' \subseteq Pending(r) \ {a}
    BY <2>1, <2>2 DEF Pending, Unsaved
  <2> HIDE DEF Pending
  <2>4. QED
    BY <2>1, <2>3 DEF Fresh
<1>8. ASSUME NEW a \in Alerts, CheckpointFails(r, a) \/ SkipInFlight(r, a)
      PROVE  Fresh(r)'
  <2>1. /\ worthy'[r] = worthy[r] \ {a} /\ UNCHANGED <<pc, poolVars, dbVars>>
    BY <1>8 DEF CheckpointFails, SkipInFlight
  <2>2. Pending(r)' \subseteq Pending(r)
    BY <2>1 DEF Pending, Unsaved
  <2> HIDE DEF Pending
  <2>3. QED
    BY <2>1, <2>2 DEF Fresh
<1>9. ASSUME NEW a \in Alerts, Submit(r, a)  PROVE Fresh(r)'
  <2>1. /\ worthy'[r] = worthy[r] \ {a} /\ a \in worthy[r] /\ pc[r] = "submit"
        /\ queue'[r] = queue[r] \cup {a} /\ inflight'[r] = inflight[r] \cup {a}
        /\ UNCHANGED <<held, saved, pc, dbVars>>
    BY <1>9 DEF Submit
  <2>2. Pending(r)' = Pending(r)
    BY <2>1 DEF Pending, Unsaved
  <2> HIDE DEF Pending
  <2>3. QED
    BY <2>1, <2>2 DEF Fresh
<1>10. QED
  BY <1>2, <1>3, <1>4, <1>5, <1>6, <1>7, <1>8, <1>9 DEF LoopStep

LEMMA FreshWorker ==
  ASSUME TypeOK, NEW r \in Replicas, NEW w \in Workers, OneCopy(r), Once(r),
         Fresh(r), WorkerStep(r, w)
  PROVE  Fresh(r)'
<1> USE DEF TypeOK
<1>1. UNCHANGED <<pc, worthy>>
  BY WorkerMoves
<1>2. ASSUME NEW a \in Alerts, Dequeue(r, w, a)  PROVE Fresh(r)'
  <2>1. /\ queue'[r] = queue[r] \ {a} /\ a \in queue[r]
        /\ held'[r] = [held[r] EXCEPT ![w] = a]
        /\ UNCHANGED <<inflight, saved, dbVars>>
    BY <1>2 DEF Dequeue
  <2>2. Unsaved(r)' \subseteq Unsaved(r) \cup {a}
    BY <2>1 DEF Unsaved
  <2>3. Pending(r)' \subseteq Pending(r)
    BY <1>1, <2>1, <2>2 DEF Pending
  <2> HIDE DEF Pending
  <2>4. QED
    BY <1>1, <2>1, <2>3 DEF Fresh, dbVars
<1>3. CASE SaveDecision(r, w)
  <2>1. Pending(r)' = Pending(r) \ {held[r][w]}
    BY <1>3, SavingTakesOut DEF Once
  <2>2. processed' = processed \cup {held[r][w]} /\ UNCHANGED inflight
    BY <1>3 DEF SaveDecision
  <2> HIDE DEF Pending
  <2>3. QED
    BY <1>1, <2>1, <2>2 DEF Fresh
<1>4. CASE Downstream(r, w) \/ TriageFails(r, w)
  <2>1. LetGo(r, w) /\ UNCHANGED <<queue, processed>>
    BY <1>4 DEF Downstream, TriageFails, dbVars
  <2>2. /\ held'[r] = [held[r] EXCEPT ![w] = NoAlert]
        /\ saved'[r] = saved[r] \ {w} /\ inflight'[r] \subseteq inflight[r]
    BY <2>1 DEF LetGo
  <2>3. Unsaved(r)' \subseteq Unsaved(r)
    BY <2>2 DEF Unsaved
  <2>4. Pending(r)' \subseteq Pending(r)
    BY <1>1, <2>1, <2>3 DEF Pending
  <2> HIDE DEF Pending
  <2>5. QED
    BY <1>1, <2>1, <2>2, <2>4 DEF Fresh
<1>5. QED
  BY <1>2, <1>3, <1>4 DEF WorkerStep

\* A step of a replica that is the only one, seen from the ledger.
LEMMA LedgerLoop ==
  ASSUME NEW r \in Replicas, r = SoleReplica, LoopStep(r)
  PROVE  [Ledger!LedgerNext]_(Ledger!ledger)
<1> USE DEF dbVars, Ledger!ledger
<1>1. ASSUME NEW a \in Alerts, SkipLowRisk(r, a)
      PROVE  [Ledger!LedgerNext]_(Ledger!ledger)
  BY <1>1 DEF SkipLowRisk, Ledger!LedgerNext, Ledger!Skip
<1>2. ASSUME UNCHANGED dbVars  PROVE UNCHANGED Ledger!ledger
  BY <1>2
<1>3. CASE BeginCycle(r) \/ Fetch(r) \/ Enriched(r) \/ StartSubmitting(r)
  BY <1>2, <1>3 DEF BeginCycle, Fetch, Enriched, StartSubmitting
<1>4. CASE \/ SkipTenant(r) \/ NothingToTriage(r) \/ DropOverQuota(r)
           \/ Submitted(r) \/ CycleRaises(r)
  BY <1>2, <1>4 DEF SkipTenant, NothingToTriage, DropOverQuota, Submitted,
                    CycleRaises, EndCycle
<1>5. ASSUME NEW a \in Alerts,
             \/ SkipKnown(r, a) \/ Enrich(r, a) \/ CheckpointFails(r, a)
             \/ SkipInFlight(r, a) \/ Submit(r, a)
      PROVE  UNCHANGED Ledger!ledger
  BY <1>2, <1>5 DEF SkipKnown, Enrich, CheckpointFails, SkipInFlight, Submit
<1>6. QED
  BY <1>1, <1>3, <1>4, <1>5 DEF LoopStep

LEMMA LedgerWorker ==
  ASSUME TypeOK, NEW r \in Replicas, NEW w \in Workers, r = SoleReplica,
         OneCopy(r), Once(r), Fresh(r), WorkerStep(r, w)
  PROVE  [Ledger!LedgerNext]_(Ledger!ledger)
<1> USE DEF TypeOK, dbVars, Ledger!ledger
<1>1. ASSUME NEW a \in Alerts, Dequeue(r, w, a)  PROVE UNCHANGED Ledger!ledger
  BY <1>1 DEF Dequeue
<1>2. CASE SaveDecision(r, w)
  <2> DEFINE a == held[r][w]
  <2>1. a \in Pending(r)
    BY <1>2, SavingTakesOut DEF Once
  <2>2. a \in Alerts /\ a \in inflight[r]
    BY <1>2 DEF SaveDecision, OneCopy, Held
  <2>3. a \notin processed /\ a \notin LowRisk /\ decisions[r][a] = 0
    BY <2>1, <2>2 DEF Fresh, Once
  <2>4. /\ decisions'[r] = [decisions[r] EXCEPT ![a] = 1]
        /\ processed' = processed \cup {a}
    BY <1>2, <2>2, <2>3 DEF SaveDecision
  <2>5. Ledger!Decide(a)
    BY <2>3, <2>4 DEF Ledger!Decide
  <2>6. QED
    BY <2>2, <2>5 DEF Ledger!LedgerNext
<1>3. CASE Downstream(r, w) \/ TriageFails(r, w)
  BY <1>3 DEF Downstream, TriageFails
<1>4. QED
  BY <1>1, <1>2, <1>3 DEF WorkerStep

LEMMA LedgerStep ==
  ASSUME NEW r \in Replicas, Replicas = {r}, r = SoleReplica
  PROVE  TypeOK /\ OneCopy(r) /\ Once(r) /\ Fresh(r) /\ [Next]_vars
           => Fresh(r)' /\ [Ledger!LedgerNext]_(Ledger!ledger)
<1> SUFFICES ASSUME TypeOK, OneCopy(r), Once(r), Fresh(r), [Next]_vars
             PROVE  Fresh(r)' /\ [Ledger!LedgerNext]_(Ledger!ledger)
  OBVIOUS
<1> USE DEF Ledger!ledger
<1>1. CASE LoopStep(r)
  BY <1>1, FreshLoop, LedgerLoop
<1>2. CASE Crash(r)
  <2>1. /\ worthy'[r] = {} /\ inflight'[r] = {} /\ queue'[r] = {}
        /\ pc'[r] = "down" /\ held'[r] = [w \in Workers |-> NoAlert]
        /\ UNCHANGED <<processed, decisions>>
    BY <1>2 DEF Crash, TypeOK, dbVars
  <2>2. Pending(r)' = {}
    BY <2>1 DEF Pending, Unsaved
  <2>3. QED
    BY <2>1, <2>2 DEF Fresh
<1>3. ASSUME Pending(r)' = Pending(r), inflight'[r] = inflight[r],
             UNCHANGED <<processed, decisions>>, 
             pc'[r] = "submit" => pc[r] = "submit", worthy'[r] = worthy[r]
      PROVE  Fresh(r)' /\ [Ledger!LedgerNext]_(Ledger!ledger)
  BY <1>3 DEF Fresh
<1>4. CASE Restart(r)
  BY <1>3, <1>4 DEF Restart, TypeOK, poolVars, dbVars, Pending, Unsaved
<1>5. CASE Tick \/ NewDay \/ (\E a \in Alerts : Ingest(a)) \/ UNCHANGED vars
  <2>1. UNCHANGED <<loopVars, poolVars, processed, decisions>>
    BY <1>5 DEF Tick, NewDay, Ingest, vars, dbVars
  <2>2. QED
    BY <1>3, <2>1 DEF loopVars, poolVars, Pending, Unsaved
<1>6. ASSUME NEW w \in Workers, WorkerStep(r, w)
      PROVE  Fresh(r)' /\ [Ledger!LedgerNext]_(Ledger!ledger)
  BY <1>6, FreshWorker, LedgerWorker
<1>7. QED
  BY <1>1, <1>2, <1>4, <1>5, <1>6 DEF Next

\* A single replica implements the ledger: each alert gets one decision or, if
\* it is too quiet, one checkpoint, for ever, whatever the interleaving of its
\* loop and workers and however often it crashes, as long as the cache of seen
\* ids is never trimmed.
THEOREM LedgerKept ==
  ASSUME NoTrim, \E r : Replicas = {r}
  PROVE  Spec => OneReplicaKeepsLedger
<1> DEFINE r == SoleReplica
<1>1. r \in Replicas /\ Replicas = {r}
  BY DEF SoleReplica
<1>2. Init => OneCopy(r) /\ Once(r) /\ Fresh(r) /\ Ledger!LedgerInit
  BY <1>1 DEF Init, OneCopy, Held, Once, Fresh, Pending, Unsaved, Ledger!LedgerInit
<1>3. TypeOK /\ OneCopy(r) /\ [Next]_vars => OneCopy(r)'
  BY <1>1, PoolNext DEF NeverHeldTwice, OneCopy
<1>4. TypeOK /\ OneCopy(r) /\ Once(r) /\ [Next]_vars => Once(r)'
  BY <1>1, OnceNext DEF NeverHeldTwice, OneCopy
<1>5. TypeOK /\ OneCopy(r) /\ Once(r) /\ Fresh(r) /\ [Next]_vars
        => Fresh(r)' /\ [Ledger!LedgerNext]_(Ledger!ledger)
  BY <1>1, LedgerStep
<1> HIDE DEF r
<1>6. QED
  BY <1>2, <1>3, <1>4, <1>5, TypeCorrect, PTL
  DEF Spec, OneReplicaKeepsLedger, Ledger!LedgerSpec

-----------------------------------------------------------------------------
(* Whose alerts a process has in hand.                                     *)

InHand(r) == batch[r] \cup Pending(r)

\* One poll brings in what is indexed and, if nothing failed, no foreign alert.
LEMMA Fetched ==
  ASSUME TypeOK, NEW r \in Replicas, Fetch(r)
  PROVE  /\ batch'[r] \subseteq indexed
         /\ faults' = faults => batch'[r] \cap Foreign = {}
         /\ Pending(r)' = Pending(r)
<1>1. PICK forwardOk, lateOk, scoped \in BOOLEAN :
        LET forward == IF forwardOk /\ scoped THEN Oldest(Ahead(r) \ Foreign)
                                              ELSE {}
            visible == IF scoped THEN Behind(r) \ Foreign ELSE Behind(r)
            late    == IF lateOk THEN Oldest(visible) ELSE {}
        IN /\ IF forwardOk /\ lateOk /\ scoped THEN NoFault ELSE Fault
           /\ batch' = [batch EXCEPT ![r] = forward \cup late]
  BY DEF Fetch
<1> DEFINE forward == IF forwardOk /\ scoped THEN Oldest(Ahead(r) \ Foreign)
                                             ELSE {}
           visible == IF scoped THEN Behind(r) \ Foreign ELSE Behind(r)
           late    == IF lateOk THEN Oldest(visible) ELSE {}
<1>2. /\ forward \subseteq indexed /\ late \subseteq indexed
      /\ scoped => forward \cap Foreign = {} /\ late \cap Foreign = {}
  BY OldestSubset, AheadSubset, BehindSubset
<1>3. batch'[r] = forward \cup late
  BY <1>1 DEF TypeOK
<1>4. faults' = faults => scoped
  BY <1>1 DEF Fault, NoFault, TypeOK
<1>5. UNCHANGED <<worthy, queue, held, saved>>
  BY DEF Fetch, poolVars
<1>6. QED
  BY <1>2, <1>3, <1>4, <1>5 DEF Pending, Unsaved

\* Nothing else comes into a process's hands.
LEMMA HandLoop ==
  ASSUME TypeOK, NEW r \in Replicas, LoopStep(r), ~Fetch(r)
  PROVE  InHand(r)' \subseteq InHand(r)
<1> USE DEF TypeOK, InHand, Pending, Unsaved, poolVars
<1>1. CASE BeginCycle(r) \/ Enriched(r) \/ StartSubmitting(r)
  BY <1>1 DEF BeginCycle, Enriched, StartSubmitting
<1>2. CASE \/ SkipTenant(r) \/ NothingToTriage(r) \/ DropOverQuota(r)
           \/ Submitted(r) \/ CycleRaises(r)
  BY <1>2 DEF SkipTenant, NothingToTriage, DropOverQuota, Submitted,
              CycleRaises, EndCycle
<1>3. ASSUME NEW a \in Alerts, SkipKnown(r, a)  PROVE InHand(r)' \subseteq InHand(r)
  BY <1>3 DEF SkipKnown
<1>4. ASSUME NEW a \in Alerts, Enrich(r, a)  PROVE InHand(r)' \subseteq InHand(r)
  BY <1>4 DEF Enrich
<1>5. ASSUME NEW a \in Alerts, SkipLowRisk(r, a) \/ CheckpointFails(r, a) \/ SkipInFlight(r, a)
      PROVE  InHand(r)' \subseteq InHand(r)
  BY <1>5 DEF SkipLowRisk, CheckpointFails, SkipInFlight
<1>6. ASSUME NEW a \in Alerts, Submit(r, a)  PROVE InHand(r)' \subseteq InHand(r)
  BY <1>6 DEF Submit
<1>7. QED
  BY <1>1, <1>2, <1>3, <1>4, <1>5, <1>6 DEF LoopStep

LEMMA HandWorker ==
  ASSUME TypeOK, NEW r \in Replicas, NEW w \in Workers, WorkerStep(r, w)
  PROVE  InHand(r)' \subseteq InHand(r)
<1> USE DEF TypeOK, InHand, Pending, Unsaved, loopVars
<1>1. ASSUME NEW a \in Alerts, Dequeue(r, w, a)  PROVE InHand(r)' \subseteq InHand(r)
  BY <1>1 DEF Dequeue
<1>2. CASE SaveDecision(r, w)
  BY <1>2 DEF SaveDecision
<1>3. CASE Downstream(r, w) \/ TriageFails(r, w)
  <2>1. LetGo(r, w) /\ UNCHANGED <<pc, batch, worthy, queue>>
    BY <1>3 DEF Downstream, TriageFails
  <2>2. /\ \A v \in Workers : held'[r][v] = IF v = w THEN NoAlert ELSE held[r][v]
        /\ saved'[r] = saved[r] \ {w}
    BY <2>1 DEF LetGo
  <2>3. Unsaved(r)' \subseteq Unsaved(r)
    BY <2>2
  <2>4. QED
    BY <2>1, <2>3
<1>4. QED
  BY <1>1, <1>2, <1>3 DEF WorkerStep

\* A step leaves the batches of other replicas alone.
LEMMA OthersBatch ==
  ASSUME TypeOK, NEW r \in Replicas, NEW s \in Replicas, r # s,
         \/ LoopStep(s) \/ Crash(s) \/ Restart(s)
         \/ \E w \in Workers : WorkerStep(s, w)
  PROVE  batch'[r] = batch[r]
<1> USE DEF TypeOK, loopVars
<1>1. CASE \E a \in Alerts :
             \/ SkipKnown(s, a) \/ Enrich(s, a) \/ SkipLowRisk(s, a)
             \/ CheckpointFails(s, a) \/ SkipInFlight(s, a) \/ Submit(s, a)
  BY <1>1 DEF SkipKnown, Enrich, SkipLowRisk, CheckpointFails, SkipInFlight, Submit
<1>2. CASE \/ SkipTenant(s) \/ NothingToTriage(s) \/ DropOverQuota(s)
           \/ Submitted(s) \/ CycleRaises(s)
  BY <1>2 DEF SkipTenant, NothingToTriage, DropOverQuota, Submitted,
              CycleRaises, EndCycle
<1>3. CASE BeginCycle(s) \/ Fetch(s) \/ Enriched(s) \/ StartSubmitting(s)
  BY <1>3 DEF BeginCycle, Fetch, Enriched, StartSubmitting
<1>4. CASE Crash(s) \/ Restart(s)
  BY <1>4 DEF Crash, Restart
<1>5. ASSUME NEW w \in Workers, WorkerStep(s, w)  PROVE batch'[r] = batch[r]
  BY <1>5 DEF WorkerStep, Dequeue, SaveDecision, Downstream, TriageFails
<1>6. QED
  BY <1>1, <1>2, <1>3, <1>4, <1>5 DEF LoopStep

LEMMA HandStep ==
  ASSUME TypeOK, [Next]_vars, NEW r \in Replicas, ~Fetch(r)
  PROVE  InHand(r)' \subseteq InHand(r)
<1>1. CASE Tick \/ NewDay \/ (\E a \in Alerts : Ingest(a)) \/ UNCHANGED vars
  <2>1. UNCHANGED <<loopVars, poolVars>>
    BY <1>1 DEF Tick, NewDay, Ingest, vars
  <2>2. QED
    BY <2>1 DEF InHand, Pending, Unsaved, loopVars, poolVars
<1>2. ASSUME NEW s \in Replicas, s # r,
             \/ LoopStep(s) \/ Crash(s) \/ Restart(s)
             \/ \E w \in Workers : WorkerStep(s, w)
      PROVE  InHand(r)' \subseteq InHand(r)
  <2>1. Still(r) /\ batch'[r] = batch[r]
    BY <1>2, OthersStill, OthersBatch
  <2>2. Pending(r)' = Pending(r)
    BY <2>1, PendingStill
  <2>3. QED
    BY <2>1, <2>2 DEF InHand
<1>3. CASE LoopStep(r)
  BY <1>3, HandLoop
<1>4. ASSUME NEW w \in Workers, WorkerStep(r, w)  PROVE InHand(r)' \subseteq InHand(r)
  BY <1>4, HandWorker
<1>5. CASE Crash(r)
  <2>1. /\ batch'[r] = {} /\ worthy'[r] = {} /\ queue'[r] = {}
        /\ held'[r] = [w \in Workers |-> NoAlert]
    BY <1>5 DEF Crash, TypeOK
  <2>2. QED
    BY <2>1 DEF InHand, Pending, Unsaved
<1>6. CASE Restart(r)
  BY <1>6 DEF Restart, InHand, Pending, Unsaved, poolVars
<1>7. QED
  BY <1>1, <1>2, <1>3, <1>4, <1>5, <1>6 DEF Next

\* Faults are counted, not forgotten.
LEMMA FaultsStay ==
  ASSUME TypeOK, [Next]_vars, faults' = 0
  PROVE  faults' = faults
<1>1. Fault => FALSE
  BY DEF Fault, TypeOK
<1>2. ASSUME NEW r \in Replicas, LoopStep(r) \/ Crash(r) \/ Restart(r)
      PROVE  faults' = faults
  <2>1. CASE \/ BeginCycle(r) \/ Fetch(r) \/ SkipTenant(r) \/ Enriched(r)
             \/ StartSubmitting(r) \/ CycleRaises(r) \/ Crash(r) \/ Restart(r)
    BY <1>1, <2>1 DEF BeginCycle, Fetch, SkipTenant, Enriched, StartSubmitting,
                      CycleRaises, Crash, Restart, NoFault
  <2>2. CASE NothingToTriage(r) \/ DropOverQuota(r) \/ Submitted(r)
    BY <2>2 DEF NothingToTriage, DropOverQuota, Submitted, NoFault
  <2>3. CASE \E a \in Alerts :
               \/ SkipKnown(r, a) \/ Enrich(r, a)
               \/ SkipLowRisk(r, a) \/ CheckpointFails(r, a)
               \/ SkipInFlight(r, a) \/ Submit(r, a)
    BY <1>1, <2>3 DEF SkipKnown, Enrich, SkipLowRisk, CheckpointFails,
                      SkipInFlight, Submit
  <2>4. QED
    BY <1>2, <2>1, <2>2, <2>3 DEF LoopStep
<1>3. ASSUME NEW r \in Replicas, NEW w \in Workers, WorkerStep(r, w)
      PROVE  faults' = faults
  BY <1>1, <1>3 DEF WorkerStep, Dequeue, SaveDecision, Downstream, TriageFails, NoFault
<1>4. CASE Tick \/ NewDay \/ (\E a \in Alerts : Ingest(a)) \/ UNCHANGED vars
  BY <1>4 DEF Tick, NewDay, Ingest, vars
<1>5. QED
  BY <1>2, <1>3, <1>4 DEF Next

LEMMA ScopedNext == TypeOK /\ TenantScoped /\ [Next]_vars => TenantScoped'
<1> SUFFICES ASSUME TypeOK, TenantScoped, [Next]_vars, faults' = 0, NEW r \in Replicas
             PROVE  InHand(r)' \cap Foreign = {}
  BY DEF TenantScoped, InHand
<1>1. faults' = faults /\ InHand(r) \cap Foreign = {}
  BY FaultsStay DEF TenantScoped, InHand
<1>2. CASE Fetch(r)
  BY <1>1, <1>2, Fetched DEF InHand
<1>3. CASE ~Fetch(r)
  BY <1>1, <1>3, HandStep
<1>4. QED
  BY <1>2, <1>3

\* service.py:1354: as long as nothing fails, no alert of another tenant's agent
\* is fetched, enriched, queued or triaged, by any number of replicas.
THEOREM KeepsToTenant == Spec => []TenantScoped
<1>1. Init => TenantScoped
  BY DEF Init, TenantScoped, Pending, Unsaved
<1>2. QED
  BY <1>1, ScopedNext, TypeCorrect, PTL DEF Spec

-----------------------------------------------------------------------------
(* What a crash drops is fetched again.                                    *)

\* The look-back of a process with history reaches past every alert, and the
\* deployment has history.
BackfillCovers == PriorHistory /\ \A a \in Alerts : a <= BackfillWindow

Known(r) == seen[r] \cup batch[r] \cup abandoned[r] \cup processed

\* The inductive strengthening of DroppedIsRefetched, for a process that is
\* alone: what it has in hand or owes can still be searched for, a search with
\* no cursor starts before the first alert, and an owed alert that the cursor
\* has passed is known.
Refetch(r) ==
  /\ batch[r] # {} => pc[r] = "enrich"
  /\ owed \cup InHand(r) \subseteq indexed
  /\ anchor[r] = NoAnchor /\ (pc[r] # "down" => history[r])
  /\ now = 0 \/ \E a \in Alerts : now <= a
  /\ \A a \in owed \ Foreign : a <= cursor[r] => a \in Known(r)

LEMMA Instants == \A a \in Alerts : a \in Nat /\ a > 0
  BY PipelineAssumption

LEMMA CursorType ==
  ASSUME TypeOK, NEW r \in Replicas
  PROVE  cursor[r] \in Nat /\ (cursor[r] > 0 => cursor[r] \in Alerts)
<1>1. cursor[r] \in Alerts \/ cursor[r] = 0
  BY DEF TypeOK
<1>2. QED
  BY <1>1, Instants

\* A search that returns an alert returns every older match too.
LEMMA OldestIsPrefix ==
  ASSUME NEW S \in SUBSET Alerts, NEW last \in Oldest(S), NEW a \in S, a <= last
  PROVE  a \in Oldest(S)
<1> DEFINE older(b) == {c \in S : c < b}
<1>1. last \in Nat /\ a \in Nat /\ S \subseteq Nat
  BY PipelineAssumption DEF Oldest
<1>2. IsFiniteSet(0..last)
  BY <1>1, FS_Interval
<1>3. older(last) \in SUBSET (0..last) /\ older(a) \in SUBSET older(last)
  <2>1. \A c \in S : c \in Nat
    BY <1>1
  <2>2. \A c \in S : c < last => c \in 0..last
    BY <1>1, <2>1
  <2>3. \A c \in S : c < a => c < last
    BY <1>1, <2>1
  <2>4. QED
    BY <2>2, <2>3
<1>4. IsFiniteSet(older(last))
  BY <1>2, <1>3, FS_Subset
<1>5. /\ Cardinality(older(a)) <= Cardinality(older(last))
      /\ Cardinality(older(a)) \in Nat /\ Cardinality(older(last)) \in Nat
  BY <1>3, <1>4, FS_Subset, FS_CardinalityType
<1>6. Cardinality(older(last)) < BatchSize
  BY DEF Oldest
<1>7. Cardinality(older(a)) < BatchSize
  BY <1>5, <1>6, PipelineAssumption
<1>8. QED
  BY <1>7 DEF Oldest

\* With no cursor and with history, a search matches all that is indexed.
LEMMA SearchesFromTheStart ==
  ASSUME TypeOK, BackfillCovers, NEW r \in Replicas, Refetch(r),
         pc[r] = "fetch"
  PROVE  Ahead(r) = {a \in indexed : a > cursor[r]}
<1>1. history[r] /\ anchor[r] = NoAnchor
  BY DEF Refetch
<1>2. WindowStart(r) = now - BackfillWindow
  BY <1>1 DEF WindowStart
<1>3. now <= BackfillWindow
  <2>1. now \in Nat /\ BackfillWindow \in Nat /\ Alerts \subseteq Nat
    BY PipelineAssumption DEF TypeOK
  <2>2. CASE now = 0
    BY <2>1, <2>2
  <2>3. ASSUME NEW a \in Alerts, now <= a  PROVE now <= BackfillWindow
    BY <2>1, <2>3 DEF BackfillCovers
  <2>4. QED
    BY <2>2, <2>3 DEF Refetch
<1>4. /\ now \in Nat /\ BackfillWindow \in Nat /\ cursor[r] \in Nat
      /\ \A a \in indexed : a \in Nat /\ a > 0
  <2>1. now \in Nat /\ indexed \subseteq Alerts /\ BackfillWindow \in Nat
    BY PipelineAssumption DEF TypeOK
  <2>2. QED
    BY <2>1, CursorType, Instants
<1>5. CASE cursor[r] > 0
  BY <1>5 DEF Ahead
<1>6. CASE cursor[r] = 0
  <2>1. \A a \in indexed : a >= WindowStart(r) /\ a > 0
    BY <1>2, <1>3, <1>4
  <2>2. QED
    BY <2>1, <1>6 DEF Ahead
<1>7. QED
  BY <1>4, <1>5, <1>6

\* A poll: what is owed and newly behind the cursor is in the batch.
LEMMA RefetchFetch ==
  ASSUME TypeOK, BackfillCovers, NEW r \in Replicas, Refetch(r), Fetch(r)
  PROVE  Refetch(r)'
<1>1. PICK forwardOk, lateOk, scoped \in BOOLEAN :
        LET forward == IF forwardOk /\ scoped THEN Oldest(Ahead(r) \ Foreign)
                                              ELSE {}
            visible == IF scoped THEN Behind(r) \ Foreign ELSE Behind(r)
            late    == IF lateOk THEN Oldest(visible) ELSE {}
        IN /\ MovePast(r, forward)
           /\ batch' = [batch EXCEPT ![r] = forward \cup late]
  BY DEF Fetch
<1> DEFINE forward == IF forwardOk /\ scoped THEN Oldest(Ahead(r) \ Foreign)
                                             ELSE {}
<1>2. MovePast(r, forward) /\ forward \subseteq batch'[r]
  BY <1>1 DEF TypeOK
<1>3. /\ pc[r] = "fetch" /\ pc'[r] = "enrich" /\ NotePoll(r)
      /\ UNCHANGED <<now, indexed, owed, history, seen, abandoned, processed>>
  BY DEF Fetch, TypeOK, envVars, ghostVars, dbVars
<1>4. anchor'[r] = NoAnchor /\ history'[r]
  BY <1>3 DEF NotePoll, Refetch, TypeOK
<1>5. batch[r] = {}
  BY <1>3 DEF Refetch
<1>6. InHand(r)' \subseteq indexed
  BY Fetched DEF Refetch, InHand
<1>7. ASSUME NEW a \in owed \ Foreign, a <= cursor'[r]  PROVE a \in Known(r)'
  <2>1. a \in indexed /\ a \in Nat /\ cursor[r] \in Nat
    <3>1. owed \subseteq indexed /\ indexed \subseteq Alerts
      BY DEF Refetch, TypeOK
    <3>2. a \in Nat
      BY <3>1, Instants
    <3>3. QED
      BY <3>1, <3>2, CursorType
  <2>2. CASE a <= cursor[r]
    <3>1. a \in Known(r)
      BY <2>2 DEF Refetch
    <3>2. QED
      BY <1>3, <1>5, <3>1 DEF Known
  <2>3. CASE ~(a <= cursor[r])
    <3>1. a \in Ahead(r) \ Foreign
      BY <1>3, <2>1, <2>3, SearchesFromTheStart
    <3>2. cursor'[r] # cursor[r]
      BY <1>7, <2>3
    <3>3. PICK last \in forward : cursor'[r] = last
      BY <1>2, <3>2 DEF MovePast, TypeOK
    <3>4. Ahead(r) \ Foreign \in SUBSET Alerts /\ last \in Oldest(Ahead(r) \ Foreign)
      BY <3>3, AheadSubset DEF TypeOK
    <3>5. a \in Oldest(Ahead(r) \ Foreign)
      BY <1>7, <3>1, <3>3, <3>4, OldestIsPrefix
    <3>6. forward = Oldest(Ahead(r) \ Foreign)
      BY <3>3
    <3>7. QED
      BY <1>2, <3>5, <3>6 DEF Known
  <2>4. QED
    BY <2>2, <2>3
<1>8. QED
  BY <1>3, <1>4, <1>6, <1>7 DEF Refetch

\* Between two polls the cursor stands still and nothing known is forgotten.
LEMMA KnownLoop ==
  ASSUME TypeOK, NoTrim, NEW r \in Replicas, Refetch(r), LoopStep(r), ~Fetch(r)
  PROVE  /\ cursor'[r] = cursor[r] /\ Known(r) \subseteq Known(r)'
         /\ anchor'[r] = anchor[r] /\ history'[r] = history[r]
         /\ batch'[r] # {} => pc'[r] = "enrich"
         /\ pc[r] # "down"
         /\ UNCHANGED <<now, indexed, owed>>
<1> USE DEF TypeOK, Known, dbVars, fetchVars, ghostVars, envVars
<1>1. batch[r] # {} => pc[r] = "enrich"
  BY DEF Refetch
<1>2. CASE BeginCycle(r) \/ Enriched(r) \/ StartSubmitting(r)
  BY <1>1, <1>2 DEF BeginCycle, Enriched, StartSubmitting
<1>3. CASE SkipTenant(r)
  <2>1. history[r] /\ anchor[r] = NoAnchor /\ NotePoll(r)
    BY <1>3 DEF SkipTenant, Refetch
  <2>2. anchor'[r] = anchor[r]
    BY <2>1 DEF NotePoll
  <2>3. QED
    BY <1>1, <1>3, <2>2 DEF SkipTenant, EndCycle
<1>4. CASE NothingToTriage(r) \/ DropOverQuota(r) \/ Submitted(r)
  BY <1>1, <1>4 DEF NothingToTriage, DropOverQuota, Submitted, EndCycle
<1>5. CASE CycleRaises(r)
  <2>1. /\ seen'[r] = seen[r] /\ processed' = processed
        /\ batch[r] \ (seen[r] \cup processed) \subseteq abandoned'[r]
        /\ abandoned[r] \subseteq abandoned'[r] /\ batch'[r] = {}
    BY <1>5 DEF CycleRaises, EndCycle
  <2>2. Known(r) \subseteq Known(r)'
    BY <2>1
  <2>3. QED
    BY <1>5, <2>1, <2>2 DEF CycleRaises, EndCycle
<1>6. ASSUME NEW a \in Alerts, SkipKnown(r, a) \/ Enrich(r, a)
      PROVE  /\ cursor'[r] = cursor[r] /\ Known(r) \subseteq Known(r)'
             /\ anchor'[r] = anchor[r] /\ history'[r] = history[r]
             /\ batch'[r] # {} => pc'[r] = "enrich"
             /\ pc[r] # "down"
             /\ UNCHANGED <<now, indexed, owed>>
  <2>1. Trimmed(seen[r] \cup {a}) = seen[r] \cup {a}
    <3>1. seen[r] \cup {a} \in SUBSET Alerts
      OBVIOUS
    <3>2. QED
      BY <3>1, TrimmedAll
  <2>2. /\ batch'[r] = batch[r] \ {a} /\ seen'[r] = seen[r] \cup {a}
        /\ abandoned[r] \ {a} \subseteq abandoned'[r]
        /\ processed' = processed
    BY <1>6, <2>1 DEF SkipKnown, Enrich
  <2>3. Known(r) \subseteq Known(r)'
    BY <2>2
  <2>4. QED
    BY <1>6, <2>3 DEF SkipKnown, Enrich
<1>7. ASSUME NEW a \in Alerts, SkipLowRisk(r, a) \/ CheckpointFails(r, a)
                               \/ SkipInFlight(r, a) \/ Submit(r, a)
      PROVE  /\ cursor'[r] = cursor[r] /\ Known(r) \subseteq Known(r)'
             /\ anchor'[r] = anchor[r] /\ history'[r] = history[r]
             /\ batch'[r] # {} => pc'[r] = "enrich"
             /\ pc[r] # "down"
             /\ UNCHANGED <<now, indexed, owed>>
  BY <1>1, <1>7 DEF SkipLowRisk, CheckpointFails, SkipInFlight, Submit
<1>8. QED
  BY <1>2, <1>3, <1>4, <1>5, <1>6, <1>7 DEF LoopStep

\* A crash owes what it wiped out, and the next search has no cursor.
LEMMA RefetchCrash ==
  ASSUME TypeOK, NEW r \in Replicas, Refetch(r), Crash(r)
  PROVE  Refetch(r)'
<1>1. /\ batch'[r] = {} /\ worthy'[r] = {} /\ queue'[r] = {}
      /\ held'[r] = [w \in Workers |-> NoAlert]
  BY DEF Crash, TypeOK
<1>2. InHand(r)' = {}
  BY <1>1 DEF InHand, Pending, Unsaved
<1>3. /\ cursor'[r] = 0 /\ anchor'[r] = NoAnchor /\ pc'[r] = "down"
      /\ UNCHANGED <<now, indexed>>
  BY DEF Crash, TypeOK, envVars
<1>4. owed' \subseteq indexed'
  BY <1>3 DEF Crash, Refetch, InHand
<1>5. \A a \in Alerts : ~(a <= 0)
  BY PipelineAssumption
<1>6. \A a \in owed' : a \in Alerts
  BY <1>3, <1>4 DEF TypeOK
<1>7. \A a \in owed' \ Foreign : ~(a <= cursor'[r])
  BY <1>3, <1>5, <1>6
<1>8. QED
  BY <1>1, <1>2, <1>3, <1>4, <1>7 DEF Refetch

LEMMA RefetchNext ==
  ASSUME NoTrim, BackfillCovers, NEW r \in Replicas, Replicas = {r}
  PROVE  TypeOK /\ Refetch(r) /\ [Next]_vars => Refetch(r)'
<1> SUFFICES ASSUME TypeOK, Refetch(r), [Next]_vars
             PROVE  Refetch(r)'
  OBVIOUS
<1>1. CASE Fetch(r)
  BY <1>1, RefetchFetch
<1>2. CASE Crash(r)
  BY <1>2, RefetchCrash
<1>3. CASE LoopStep(r) /\ ~Fetch(r)
  <2>1. /\ cursor'[r] = cursor[r] /\ Known(r) \subseteq Known(r)'
        /\ anchor'[r] = anchor[r] /\ history'[r] = history[r]
        /\ batch'[r] # {} => pc'[r] = "enrich"
        /\ pc[r] # "down"
        /\ UNCHANGED <<now, indexed, owed>>
    BY <1>3, KnownLoop
  <2>2. InHand(r)' \subseteq InHand(r)
    BY <1>3, HandStep
  <2>3. QED
    BY <2>1, <2>2 DEF Refetch
<1>5. ASSUME NEW w \in Workers, WorkerStep(r, w)  PROVE Refetch(r)'
  <2>1. UNCHANGED <<batch, cursor, anchor, history, seen, owed, now, indexed>>
    BY <1>5 DEF WorkerStep, Dequeue, SaveDecision, Downstream, TriageFails,
                loopVars, fetchVars, ghostVars, envVars
  <2>2. processed \subseteq processed' /\ abandoned[r] \subseteq abandoned'[r]
    BY <1>5 DEF WorkerStep, Dequeue, SaveDecision, Downstream, TriageFails,
                dbVars, ghostVars, TypeOK
  <2>3. pc' = pc /\ batch'[r] = batch[r]
    BY <1>5 DEF WorkerStep, Dequeue, SaveDecision, Downstream, TriageFails,
                loopVars
  <2>4. InHand(r)' \subseteq InHand(r)
    BY <1>5, HandWorker
  <2>5. Known(r) \subseteq Known(r)'
    BY <2>1, <2>2 DEF Known
  <2>6. QED
    BY <2>1, <2>3, <2>4, <2>5 DEF Refetch
<1>6. CASE Restart(r)
  <2>1. /\ UNCHANGED <<batch, cursor, anchor, seen, owed, processed, abandoned,
                       now, indexed, worthy, queue, held, saved>>
        /\ history'[r] /\ pc[r] = "down" /\ pc'[r] = "idle"
    BY <1>6 DEF Restart, TypeOK, BackfillCovers, poolVars, dbVars, ghostVars, envVars
  <2>2. InHand(r)' = InHand(r) /\ Known(r)' = Known(r)
    BY <2>1 DEF InHand, Pending, Unsaved, Known
  <2>3. batch[r] = {}
    BY <2>1 DEF Refetch
  <2>4. QED
    BY <2>1, <2>2, <2>3 DEF Refetch
<1>7. CASE Tick \/ NewDay \/ (\E a \in Alerts : Ingest(a)) \/ UNCHANGED vars
  <2>1. UNCHANGED <<pc, batch, cursor, anchor, history, seen, owed, processed,
                    abandoned, worthy, queue, held, saved>>
    BY <1>7 DEF Tick, NewDay, Ingest, vars, loopVars, fetchVars, ghostVars,
                dbVars, poolVars
  <2>2. indexed \subseteq indexed'
    BY <1>7 DEF Tick, NewDay, Ingest, vars, envVars
  <2>3. now' = 0 \/ \E a \in Alerts : now' <= a
    <3>1. CASE Tick
      <4>1. PICK a \in Alerts : a > now
        BY <3>1 DEF Tick
      <4>2. a \in Nat /\ now \in Nat /\ now' = now + 1
        BY <3>1, PipelineAssumption DEF Tick, TypeOK
      <4>3. QED
        BY <4>1, <4>2
    <3>2. CASE ~Tick
      <4>1. now' = now
        BY <1>7, <3>2 DEF NewDay, Ingest, vars, envVars
      <4>2. QED
        BY <4>1 DEF Refetch
    <3>3. QED
      BY <3>1, <3>2
  <2>4. InHand(r)' = InHand(r) /\ Known(r)' = Known(r)
    BY <2>1 DEF InHand, Pending, Unsaved, Known
  <2>5. QED
    BY <2>1, <2>2, <2>3, <2>4 DEF Refetch
<1>8. QED
  BY <1>1, <1>2, <1>3, <1>5, <1>6, <1>7 DEF Next

\* main.py:2085 and service.py:1459: where one process serves the tenant, every
\* alert that a crash wiped out of its memory is fetched again: no cursor passes
\* it before the process has it in hand again, finds it durable, or logs an error
\* about it.  The deployment has history, no alert is older than the 24 hours a
\* first poll looks back, and the cache of seen ids is never trimmed.
THEOREM LostIsRefetched ==
  ASSUME NoTrim, BackfillCovers, \E r : Replicas = {r}
  PROVE  Spec => []DroppedIsRefetched
<1> DEFINE r == SoleReplica
<1>1. r \in Replicas /\ Replicas = {r}
  BY DEF SoleReplica
<1>2. Init => Refetch(r)
  BY <1>1 DEF Init, Refetch, InHand, Pending, Unsaved, BackfillCovers
<1>3. TypeOK /\ Refetch(r) /\ [Next]_vars => Refetch(r)'
  BY <1>1, RefetchNext
<1>4. Refetch(r) => DroppedIsRefetched
  BY <1>1 DEF Refetch, DroppedIsRefetched, Known
<1> HIDE DEF r
<1>5. QED
  BY <1>2, <1>3, <1>4, TypeCorrect, PTL DEF Spec

-----------------------------------------------------------------------------
(* The look-back search.                                                   *)

\* The look-back search is on (service.py:1360), and no window it covers holds
\* more of the tenant's alerts than one batch.
WindowFitsBatch ==
  /\ IsFiniteSet(Alerts) /\ LookBack > 0
  /\ \A c \in Alerts :
       Cardinality({a \in Alerts \ Foreign : c - LookBack <= a /\ a <= c})
         <= BatchSize

\* An alert inside a window that fits a batch is among the oldest of it.
LEMMA OldestOfWindow ==
  ASSUME TypeOK, WindowFitsBatch, NEW r \in Replicas,
         NEW a \in Behind(r) \ Foreign
  PROVE  a \in Oldest(Behind(r) \ Foreign)
<1> DEFINE c == cursor[r]
           window == {b \in Alerts \ Foreign : c - LookBack <= b /\ b <= c}
           older == {b \in Behind(r) \ Foreign : b < a}
<1>1. Behind(r) \ Foreign \subseteq window /\ c \in Alerts
  <2>1. c > 0
    BY DEF Behind
  <2>2. QED
    BY <2>1, CursorType DEF Behind, TypeOK
<1>2. IsFiniteSet(window)
  <2>1. window \in SUBSET Alerts
    OBVIOUS
  <2>2. QED
    BY <2>1, FS_Subset DEF WindowFitsBatch
<1>3. Cardinality(window) <= BatchSize
  BY <1>1 DEF WindowFitsBatch
<1>4. a \in window /\ a \in Nat
  BY <1>1, Instants
<1>5. older \in SUBSET window /\ a \notin older
  BY <1>1, <1>4
<1> HIDE DEF window, older
<1>6. /\ IsFiniteSet(older) /\ Cardinality(older) <= Cardinality(window)
      /\ Cardinality(older) # Cardinality(window)
  BY <1>2, <1>4, <1>5, FS_Subset
<1>7. Cardinality(older) \in Nat /\ Cardinality(window) \in Nat
  BY <1>2, <1>6, FS_CardinalityType
<1>8. Cardinality(older) < BatchSize
  BY <1>3, <1>6, <1>7, PipelineAssumption
<1>9. QED
  BY <1>8 DEF Oldest, older

\* service.py:1348: a poll in which nothing fails brings in every alert of the
\* tenant that lies in the look-back window, however late it was indexed.
THEOREM LateOnesAreFetched ==
  ASSUME WindowFitsBatch
  PROVE  Spec => LateArrivalsAreFetched
<1>1. ASSUME TypeOK, [Next]_vars, NEW r \in Replicas, NEW a \in indexed \ Foreign,
             pc[r] = "fetch", pc'[r] = "enrich", faults' = faults, cursor[r] > 0,
             cursor[r] - LookBack <= a, a <= cursor[r]
      PROVE  a \in batch'[r]
  <2>1. Fetch(r)
    <3>1. ASSUME NEW s \in Replicas, s # r,
                 \/ LoopStep(s) \/ Crash(s) \/ Restart(s)
                 \/ \E w \in Workers : WorkerStep(s, w)
          PROVE FALSE
      BY <1>1, <3>1, OthersStill DEF Still
    <3>2. CASE LoopStep(r)
      <4>1. CASE \E b \in Alerts :
                   \/ SkipKnown(r, b) \/ Enrich(r, b) \/ SkipLowRisk(r, b)
                   \/ CheckpointFails(r, b) \/ SkipInFlight(r, b) \/ Submit(r, b)
        BY <1>1, <4>1 DEF SkipKnown, Enrich, SkipLowRisk, CheckpointFails,
                          SkipInFlight, Submit
      <4>2. CASE \/ SkipTenant(r) \/ NothingToTriage(r) \/ DropOverQuota(r)
                 \/ Submitted(r) \/ CycleRaises(r)
        BY <1>1, <4>2 DEF SkipTenant, NothingToTriage, DropOverQuota, Submitted,
                          CycleRaises, EndCycle, TypeOK
      <4>3. CASE BeginCycle(r) \/ Enriched(r) \/ StartSubmitting(r)
        BY <1>1, <4>3 DEF BeginCycle, Enriched, StartSubmitting
      <4>4. QED
        BY <3>2, <4>1, <4>2, <4>3 DEF LoopStep
    <3>3. CASE Crash(r) \/ Restart(r)
      BY <1>1, <3>3 DEF Crash, Restart, TypeOK
    <3>4. ASSUME NEW w \in Workers, WorkerStep(r, w)  PROVE FALSE
      BY <1>1, <3>4, WorkerMoves
    <3>5. CASE Tick \/ NewDay \/ (\E b \in Alerts : Ingest(b)) \/ UNCHANGED vars
      BY <1>1, <3>5 DEF Tick, NewDay, Ingest, vars, loopVars
    <3>6. QED
      BY <1>1, <3>1, <3>2, <3>3, <3>4, <3>5 DEF Next
  <2>2. PICK forwardOk, lateOk, scoped \in BOOLEAN :
          LET forward == IF forwardOk /\ scoped THEN Oldest(Ahead(r) \ Foreign)
                                                ELSE {}
              visible == IF scoped THEN Behind(r) \ Foreign ELSE Behind(r)
              late    == IF lateOk THEN Oldest(visible) ELSE {}
          IN /\ IF forwardOk /\ lateOk /\ scoped THEN NoFault ELSE Fault
             /\ batch' = [batch EXCEPT ![r] = forward \cup late]
    BY <2>1 DEF Fetch
  <2>3. lateOk /\ scoped
    BY <1>1, <2>2 DEF Fault, TypeOK
  <2>4. Oldest(Behind(r) \ Foreign) \subseteq batch'[r]
    BY <1>1, <2>2, <2>3 DEF TypeOK
  <2>5. a \in Behind(r) \ Foreign
    BY <1>1 DEF Behind, WindowFitsBatch
  <2>6. a \in Oldest(Behind(r) \ Foreign)
    BY <1>1, <2>5, OldestOfWindow
  <2>7. QED
    BY <2>4, <2>6
<1>2. TypeOK /\ [Next]_vars =>
        [\A r \in Replicas, a \in indexed \ Foreign :
           /\ pc[r] = "fetch" /\ pc'[r] = "enrich" /\ faults' = faults
           /\ cursor[r] > 0 /\ cursor[r] - LookBack <= a /\ a <= cursor[r]
           => a \in batch'[r]]_vars
  BY <1>1
<1>3. QED
  BY <1>2, TypeCorrect, PTL DEF Spec, LateArrivalsAreFetched

-----------------------------------------------------------------------------
(* The parts of MCAlertStore beside the loop.                              *)

\* A step of the sum is a step of the part that runs, and leaves the rest alone.
LEMMA PartsMove ==
  [AllNext]_allVars =>
    /\ [part = "loop" /\ Next]_vars /\ [part = "store" /\ Conns!Next]_connVars
    /\ [part = "life" /\ Service!Next]_lifeVars
    /\ [part = "names" /\ Names!Next]_nameVars
    /\ [part = "hosts" /\ Upgrades!Next]_upgradeVars
    /\ [part = "assets" /\ Inventory!Next]_assetVars
    /\ [part = "context" /\ Context!Next]_contextVars
    /\ part' = part
<1> SUFFICES ASSUME [AllNext]_allVars
    PROVE /\ [part = "loop" /\ Next]_vars /\ [part = "store" /\ Conns!Next]_connVars
          /\ [part = "life" /\ Service!Next]_lifeVars
          /\ [part = "names" /\ Names!Next]_nameVars
          /\ [part = "hosts" /\ Upgrades!Next]_upgradeVars
          /\ [part = "assets" /\ Inventory!Next]_assetVars
          /\ [part = "context" /\ Context!Next]_contextVars
          /\ part' = part
  OBVIOUS
<1>1. CASE LoopPart
  BY <1>1, Zenon DEF LoopPart, hostVars
<1>2. CASE StorePart
  BY <1>2, Zenon DEF StorePart, hostVars
<1>3. CASE LifePart
  BY <1>3, Zenon DEF LifePart, hostVars
<1>4. CASE NamesPart
  BY <1>4, Zenon DEF NamesPart, hostVars
<1>5. CASE HostsPart
  BY <1>5, Zenon DEF HostsPart
<1>6. CASE AssetsPart
  BY <1>6, Zenon DEF AssetsPart
<1>7. CASE ContextPart
  BY <1>7, Zenon DEF ContextPart
<1>8. CASE UNCHANGED allVars
  BY <1>8, Zenon DEF allVars, hostVars
<1>9. AllNext \/ UNCHANGED allVars
  OBVIOUS
<1>10. QED
  BY <1>1, <1>2, <1>3, <1>4, <1>5, <1>6, <1>7, <1>8, <1>9, Zenon DEF AllNext, Ended

\* The sessions of the sum are those StoreConnections_proofs is about.
Pool == INSTANCE StoreConnections_proofs

LEMMA SameSets ==
  /\ \A S : Conns!IsFiniteSet(S) = Pool!IsFiniteSet(S)
  /\ \A S : Conns!Cardinality(S) = Pool!Cardinality(S)
  BY Zenon DEF Conns!IsFiniteSet, Pool!IsFiniteSet, Conns!Cardinality, Pool!Cardinality

LEMMA SameSessions ==
  /\ Conns!PoolAssumption = Pool!PoolAssumption
  /\ Conns!Init = Pool!Init /\ Conns!Next = Pool!Next
  /\ Conns!TypeOK = Pool!TypeOK /\ Conns!RunsAsCaller = Pool!RunsAsCaller
  /\ Conns!StoredTogether = Pool!StoredTogether
  /\ Conns!PoolSuffices = Pool!PoolSuffices /\ Conns!NotShared = Pool!NotShared
<1> USE DEF Conns!None, Pool!None, Conns!Cross, Pool!Cross, Conns!Gone, Pool!Gone,
  Conns!Threads, Pool!Threads, Conns!Fresh, Pool!Fresh, Conns!Dead, Pool!Dead,
  Conns!Idle, Pool!Idle, Conns!Dies, Pool!Dies, Conns!PutBack, Pool!PutBack,
  Conns!Retire, Pool!Retire, Conns!Scope, Pool!Scope, Conns!Arrive, Pool!Arrive,
  Conns!EnterCross, Pool!EnterCross, Conns!LeaveCross, Pool!LeaveCross,
  Conns!Leave, Pool!Leave, Conns!Call, Pool!Call, Conns!Return, Pool!Return,
  Conns!Raise, Pool!Raise, Conns!Goes, Pool!Goes, Conns!MustKeep, Pool!MustKeep,
  Conns!Probe, Pool!Probe, Conns!Draw, Pool!Draw, Conns!Scoped, Pool!Scoped,
  Conns!Checkout, Pool!Checkout, Conns!Uses, Pool!Uses, Conns!RunAlone, Pool!RunAlone,
  Conns!RunFirst, Pool!RunFirst, Conns!RunSecond, Pool!RunSecond,
  Conns!EndBlock, Pool!EndBlock, Conns!context, Pool!context,
  Conns!effects, Pool!effects
<1>1. Conns!Next = Pool!Next
  BY Zenon DEF Conns!Next, Pool!Next
<1>2. Conns!Init = Pool!Init /\ Conns!TypeOK = Pool!TypeOK
  BY Zenon DEF Conns!Init, Pool!Init, Conns!TypeOK, Pool!TypeOK
<1>3. Conns!PoolAssumption = Pool!PoolAssumption
  BY SameSets, Zenon DEF Conns!PoolAssumption, Pool!PoolAssumption
<1>4. Conns!PoolSuffices = Pool!PoolSuffices
  BY SameSets, Zenon DEF Conns!PoolSuffices, Pool!PoolSuffices
<1>5. /\ Conns!RunsAsCaller = Pool!RunsAsCaller
      /\ Conns!StoredTogether = Pool!StoredTogether /\ Conns!NotShared = Pool!NotShared
  BY Zenon DEF Conns!RunsAsCaller, Pool!RunsAsCaller, Conns!StoredTogether,
     Pool!StoredTogether, Conns!NotShared, Pool!NotShared
<1>6. QED
  BY <1>1, <1>2, <1>3, <1>4, <1>5

LEMMA SessionsHold ==
  AllSpec => [](/\ Conns!TypeOK /\ Conns!RunsAsCaller /\ Conns!StoredTogether
                /\ Conns!PoolSuffices /\ Conns!NotShared)
<1>1. Pool!PoolAssumption
  BY StoreAssumption, SameSessions
<1>2. AllSpec => Pool!Spec
  <2>1. AllInit => Pool!Init
    BY SameSessions DEF AllInit
  <2>2. [AllNext]_allVars => [Pool!Next]_connVars
    BY PartsMove, SameSessions
  <2>3. QED
    BY <2>1, <2>2, PTL DEF AllSpec, Pool!Spec, Pool!connVars, connVars
<1>3. Pool!Spec => /\ []Pool!TypeOK /\ []Pool!RunsAsCaller /\ []Pool!StoredTogether
                   /\ []Pool!PoolSuffices /\ []Pool!NotShared
  BY <1>1, Pool!SessionTypes, Pool!CallersTenant, Pool!BothOrNone, Pool!PoolIsEnough,
     Pool!SessionsAreNotShared
<1>4. /\ Pool!TypeOK => Conns!TypeOK
      /\ Pool!RunsAsCaller => Conns!RunsAsCaller
      /\ Pool!StoredTogether => Conns!StoredTogether
      /\ Pool!PoolSuffices => Conns!PoolSuffices
      /\ Pool!NotShared => Conns!NotShared
  BY SameSessions
<1>5. QED
  BY <1>2, <1>3, <1>4, PTL

-----------------------------------------------------------------------------
(* The life of a process, and what its licence opens.                      *)

LEMMA LifeNumbers ==
  /\ CheckEvery \in Nat /\ Stale \in Nat /\ MaxQueue \in Nat /\ MaxDecided \in Nat
  /\ MaxFaults \in Nat
  /\ Absent # Null /\ 2 \notin {Absent, Null} /\ 0 \notin {Absent, Null}
  <1>1. Service!LicenceAssumption /\ {CheckEvery, Stale, MaxQueue, MaxDecided, MaxFaults} \subseteq Nat
    BY ProcessAssumption DEF Service!LifeAssumption
  <1>2. Absent # Null /\ Absent \notin 0..100 /\ Null \notin 0..100
    BY <1>1 DEF Service!LicenceAssumption
  <1>3. 0 \in 0..100 /\ 2 \in 0..100
    OBVIOUS
  <1>4. QED
    BY <1>1, <1>2, <1>3, Zenon

\* No gate opens for what a payload neither lists nor has by its tier: what it
\* resolves to never has the placeholder, and lists nothing else.
LEMMA GatesStay == Service!GatesStayInTier
<1> SUFFICES ASSUME NEW p \in Service!Payloads
             PROVE  LET bought == Service!Resolve(p)
                        listed == IF p.features = Absent THEN {} ELSE p.features
                        paid == listed \cup Service!Defaults(p).features
                    IN /\ \A f \in Service!Preset["enterprise"].features :
                            Service!Has(bought, f) => f \in paid
                       /\ Service!ActionAllowed(bought, "block_ip") =>
                            \/ "active_response_full" \in paid
                            \/ "block_ip" \in Service!Defaults(p).actions
                       /\ Service!ChannelAllowed(bought, "email") =>
                            \/ "notifications_full" \in paid
                            \/ "email" \in Service!Defaults(p).channels
                       /\ Service!TabAllowed(bought, "hunt") => Service!Tier(p) # "community"
                       /\ p.users = Null => Service!UnderLimit(bought.users, 100)
                       /\ p.users = 2 => ~Service!UnderLimit(bought.users, 2)
  BY Zenon DEF Service!GatesStayInTier
<1> DEFINE bought == Service!Resolve(p)
           listed == IF p.features = Absent THEN {} ELSE p.features
           base == Service!Defaults(p)
           paid == listed \cup base.features
<1>1. /\ bought.features = Service!Features(p) /\ bought.actions = base.actions
      /\ bought.channels = base.channels /\ bought.tabs = base.tabs
      /\ bought.users = IF p.users = Absent THEN base.users ELSE p.users
  BY DEF Service!Resolve
<1>2. base \in {Service!Preset["community"], Service!Preset["team"],
                Service!Preset["enterprise"]}
      /\ (Service!Tier(p) = "community" => base = Service!Preset["community"])
  BY DEF Service!Defaults, Service!Preset
<1>3. "full" \notin base.features
  BY <1>2 DEF Service!Preset
<1>4. bought.features \subseteq paid /\ "full" \notin bought.features
  BY <1>1, <1>3 DEF Service!Features
<1>5. Service!Tier(p) = "community" => base.tabs = {"overview"}
  BY <1>2 DEF Service!Preset
<1> HIDE DEF bought, base, paid
<1>6. \A f : Service!Has(bought, f) => f \in paid
  BY <1>4 DEF Service!Has
<1>7. Service!ActionAllowed(bought, "block_ip") =>
        "active_response_full" \in paid \/ "block_ip" \in base.actions
  BY <1>1, <1>6 DEF Service!ActionAllowed
<1>8. Service!ChannelAllowed(bought, "email") =>
        "notifications_full" \in paid \/ "email" \in base.channels
  BY <1>1, <1>6 DEF Service!ChannelAllowed
<1>9. Service!TabAllowed(bought, "hunt") => Service!Tier(p) # "community"
  BY <1>1, <1>5 DEF Service!TabAllowed
<1>10. p.users = Null => Service!UnderLimit(bought.users, 100)
  BY <1>1, LifeNumbers DEF Service!UnderLimit, Service!Unlimited
<1>11. p.users = 2 => ~Service!UnderLimit(bought.users, 2)
  <2>1. p.users = 2 => bought.users = 2 /\ 2 # Null
    BY <1>1, LifeNumbers, Zenon
  <2>2. 2 # Null => ~Service!UnderLimit(2, 2)
    BY DEF Service!UnderLimit, Service!Unlimited
  <2>3. QED
    BY <2>1, <2>2, Zenon
<1>12. QED
  BY <1>6, <1>7, <1>8, <1>9, <1>10, <1>11 DEF bought, base, paid

\* A lapse is as old as the checks that were missed, and what is over of the
\* interval; what the end leaves behind came after its deadline.
Lapsing(l, d, m) == l <= CheckEvery * m + (CheckEvery - d)
LifeInv ==
  /\ Service!TypeOK /\ lapsed \in Nat /\ missed \in Nat /\ overtime \in Nat /\ ~cut
  /\ Service!Valid => lapsed = 0
  /\ Service!Scheduled => due # Service!None
  /\ Service!Scheduled /\ ~halting => Lapsing(lapsed, due, missed)
  /\ proc = "sentinels" => queued + hand <= overtime

LEMMA LifeInit == Service!Init => LifeInv
  BY LifeNumbers DEF Service!Init, LifeInv, Service!TypeOK, Service!None, Service!Scheduled

LEMMA LifeEnough ==
  LifeInv => Service!TypeOK /\ Service!LapseIsNoticed /\ Service!StopDecides
<1> SUFFICES ASSUME LifeInv PROVE Service!LapseIsNoticed
  BY DEF LifeInv, Service!StopDecides
<1>1. ASSUME NEW l \in Nat, NEW m \in Nat, NEW d \in 0..CheckEvery, Lapsing(l, d, m)
      PROVE  l <= CheckEvery * (1 + m)
  BY <1>1, LifeNumbers DEF Lapsing
<1>2. Service!Scheduled => due \in 0..CheckEvery
  BY LifeNumbers DEF LifeInv, Service!TypeOK, Service!None
<1>3. QED
  BY <1>1, <1>2 DEF LifeInv, Service!LapseIsNoticed

\* A process that is gone has nothing left to lose.
LEMMA GoneIs ==
  ASSUME LifeInv, Service!Gone, ~cut' PROVE LifeInv'
  BY LifeNumbers DEF LifeInv, Service!TypeOK, Service!Gone, Service!Scheduled, Service!None,
     Service!Valid

\* A new start owes nothing.
LEMMA BootLife == ASSUME LifeInv, Service!Boot PROVE LifeInv'
<1>1. Lapsing(0, CheckEvery, 0)
  BY LifeNumbers DEF Lapsing
<1>2. /\ lapsed' = 0 /\ due' = CheckEvery /\ missed' = 0 /\ proc' = "opening"
      /\ beat' = Service!None /\ loop' = "idle"
      /\ UNCHANGED <<overtime, queued, hand, cut>>
  BY DEF Service!Boot
<1>3. Service!TypeOK'
  BY <1>2, LifeNumbers DEF LifeInv, Service!TypeOK, Service!None
<1>4. ~cut' /\ overtime' \in Nat
  BY <1>2 DEF LifeInv
<1>5. due' # Service!None
  BY <1>2, LifeNumbers DEF Service!None
<1>6. QED
  BY <1>1, <1>2, <1>3, <1>4, <1>5 DEF LifeInv

\* What neither the time nor the licence is touched by.
LEMMA LapseStays ==
  ASSUME LifeInv, UNCHANGED <<file, lapsed, due, missed>>,
         Service!Scheduled' => Service!Scheduled,
         Service!Scheduled' /\ ~halting' => ~halting
  PROVE  /\ Service!Valid' => lapsed' = 0
         /\ lapsed' \in Nat /\ missed' \in Nat
         /\ Service!Scheduled' => due' # Service!None
         /\ Service!Scheduled' /\ ~halting' => Lapsing(lapsed, due, missed)'
  BY DEF LifeInv, Service!Valid, Lapsing

LEMMA ServeLife == ASSUME LifeInv, Service!Serve PROVE LifeInv'
<1>1. UNCHANGED <<file, lapsed, due, missed, halting, overtime, queued, hand, cut, loop, beat>>
      /\ proc = "opening" /\ proc' = "serving"
  BY DEF Service!Serve, Service!life, Service!work
<1>2. Service!TypeOK'
  BY <1>1 DEF LifeInv, Service!TypeOK
<1>3. ~cut' /\ overtime' \in Nat
  BY <1>1 DEF LifeInv
<1>4. Service!Scheduled /\ (~halting' => ~halting)
  BY <1>1, Zenon DEF Service!Scheduled
<1>5. QED
  BY <1>1, <1>2, <1>3, <1>4, LapseStays DEF LifeInv

LEMMA CheckLife == ASSUME LifeInv, Service!Check PROVE LifeInv'
<1>1. /\ UNCHANGED <<file, lapsed, proc, missed, overtime, queued, hand, cut, loop, beat>>
      /\ due' = CheckEvery
  BY DEF Service!Check, Service!work
<1>2. Service!TypeOK' /\ due' # Service!None
  BY <1>1, LifeNumbers DEF LifeInv, Service!TypeOK, Service!None
<1>3. ~cut' /\ overtime' \in Nat
  BY <1>1 DEF LifeInv
<1>4. ~halting' => Service!Valid
  BY DEF Service!Check, Service!Refuses, Service!Valid
<1>5. \A m \in Nat : Lapsing(0, CheckEvery, m)
  BY LifeNumbers DEF Lapsing
<1>6. Service!Scheduled' /\ ~halting' => Lapsing(lapsed, due, missed)'
  BY <1>1, <1>4, <1>5 DEF LifeInv
<1>7. QED
  BY <1>1, <1>2, <1>3, <1>6 DEF LifeInv, Service!Valid

LEMMA MissedLife == ASSUME LifeInv, Service!CheckMissed PROVE LifeInv'
<1>1. /\ UNCHANGED <<file, lapsed, proc, halting, overtime, queued, hand, cut, loop, beat>>
      /\ due = 0 /\ due' = CheckEvery /\ missed' = missed + 1
  BY DEF Service!CheckMissed, Service!work
<1>2. Service!TypeOK' /\ due' # Service!None
  BY <1>1, LifeNumbers DEF LifeInv, Service!TypeOK, Service!None
<1>3. ~cut' /\ overtime' \in Nat /\ missed' \in Nat /\ lapsed' \in Nat
  BY <1>1 DEF LifeInv
<1>4. ASSUME NEW l \in Nat, NEW m \in Nat, Lapsing(l, 0, m)
      PROVE  Lapsing(l, CheckEvery, m + 1)
  BY <1>4, LifeNumbers DEF Lapsing
<1>5. Service!Scheduled' /\ ~halting' => Lapsing(lapsed, due, missed)'
  <2>1. Service!Scheduled' /\ ~halting' => Lapsing(lapsed, 0, missed)
    BY <1>1 DEF LifeInv, Service!Scheduled
  <2>2. Lapsing(lapsed, 0, missed) => Lapsing(lapsed, CheckEvery, missed + 1)
    BY <1>4 DEF LifeInv
  <2>3. QED
    BY <1>1, <2>1, <2>2
<1>6. QED
  BY <1>1, <1>2, <1>3, <1>5 DEF LifeInv, Service!Valid, Service!Scheduled

\* An hour makes a lapse one older, and the check one nearer.
LEMMA TickLife == ASSUME LifeInv, Service!Tick PROVE LifeInv'
<1>1. /\ UNCHANGED <<proc, halting, missed, overtime, queued, hand, cut, loop>>
      /\ due # 0 /\ due' = IF due = Service!None THEN Service!None ELSE due - 1
      /\ beat' = IF beat = Service!None THEN Service!None
                 ELSE IF loop = "idle" THEN 0 ELSE Service!Least(beat + 1, Stale + 1)
  BY DEF Service!Tick, Service!work
<1>2. \/ lapsed' = 0
      \/ ~Service!Valid' /\ lapsed' = Service!Least(lapsed + 1, 2 * CheckEvery * (MaxFaults + 1))
  BY DEF Service!Tick, Service!Valid
<1>3. \A d \in -1..CheckEvery : d # 0 => d - 1 \in -1..CheckEvery \/ d = -1
  BY LifeNumbers
<1>4. \A b \in -1..(Stale + 1) : b # -1 => Service!Least(b + 1, Stale + 1) \in -1..(Stale + 1)
  BY LifeNumbers DEF Service!Least
<1>5. Service!TypeOK'
  <2>1. due' \in -1..CheckEvery
    BY <1>1, <1>3, LifeNumbers DEF LifeInv, Service!TypeOK, Service!None
  <2>2. beat' \in -1..(Stale + 1)
    <3>1. 0 \in -1..(Stale + 1) /\ -1 \in -1..(Stale + 1)
      BY LifeNumbers
    <3>2. QED
      BY <1>1, <1>4, <3>1 DEF LifeInv, Service!TypeOK, Service!None
  <2>3. QED
    BY <1>1, <2>1, <2>2 DEF LifeInv, Service!TypeOK, Service!None
<1>6. \A l \in Nat : LET n == Service!Least(l + 1, 2 * CheckEvery * (MaxFaults + 1)) IN
        n \in Nat /\ n <= l + 1
  <2>1. 2 * CheckEvery * (MaxFaults + 1) \in Nat
    <3>1. \A a, b \in Nat : a * b \in Nat
      OBVIOUS
    <3>2. 2 * CheckEvery \in Nat /\ MaxFaults + 1 \in Nat
      BY LifeNumbers
    <3>3. QED
      BY <3>1, <3>2
  <2>2. QED
    BY <2>1 DEF Service!Least
<1>7. PICK l : l = lapsed' /\ l \in Nat /\ (l = 0 \/ l <= lapsed + 1)
               /\ (Service!Valid' => l = 0)
  BY <1>2, <1>6 DEF LifeInv
<1>8. Service!Scheduled => due \in 1..CheckEvery /\ due' = due - 1
  BY <1>1, LifeNumbers DEF LifeInv, Service!TypeOK, Service!None
<1>9. Service!Scheduled => due' # Service!None
  <2>1. \A d \in 1..CheckEvery : d - 1 # -1
    OBVIOUS
  <2>2. QED
    BY <1>8, <2>1 DEF Service!None
<1>10. ASSUME NEW o \in Nat, NEW m \in Nat, NEW d \in 1..CheckEvery, Lapsing(o, d, m),
              NEW n \in Nat, n = 0 \/ n <= o + 1
       PROVE  Lapsing(n, d - 1, m)
  <2>1. CheckEvery * m \in Nat
    BY LifeNumbers
  <2>2. QED
    BY <1>10, <2>1, LifeNumbers DEF Lapsing
<1>11. Service!Scheduled /\ ~halting => Lapsing(lapsed, due, missed)'
  <2>1. Service!Scheduled /\ ~halting => Lapsing(l, due - 1, missed)
    BY <1>7, <1>8, <1>10 DEF LifeInv
  <2>2. QED
    BY <1>1, <1>7, <1>8, <2>1
<1>12. Service!Scheduled' = Service!Scheduled /\ (~halting' => ~halting) /\ ~cut'
  BY <1>1 DEF LifeInv, Service!Scheduled
<1>13. QED
  BY <1>1, <1>5, <1>7, <1>9, <1>11, <1>12 DEF LifeInv, Service!Scheduled

LEMMA FileLife == ASSUME LifeInv, Service!ChangeFile PROVE LifeInv'
<1>1. UNCHANGED <<proc, halting, due, missed, overtime, queued, hand, cut, loop, beat>>
  BY DEF Service!ChangeFile, Service!work
<1>2. (Service!Valid' /\ lapsed' = 0) \/ (~Service!Valid' /\ lapsed' = lapsed)
  BY DEF Service!ChangeFile, Service!Valid
<1>3. ASSUME NEW l \in Nat, NEW m \in Nat, NEW d \in 0..CheckEvery
      PROVE  Lapsing(0, d, m)
  <2>1. CheckEvery * m \in Nat
    BY LifeNumbers
  <2>2. QED
    BY <2>1, LifeNumbers DEF Lapsing
<1>4. Service!Scheduled => due \in 0..CheckEvery
  BY LifeNumbers DEF LifeInv, Service!TypeOK, Service!None
<1>5. Service!Scheduled /\ ~halting => Lapsing(lapsed, due, missed)'
  BY <1>1, <1>2, <1>3, <1>4 DEF LifeInv
<1>6. Service!TypeOK' /\ ~cut'
  BY <1>1 DEF LifeInv, Service!TypeOK
<1>7. QED
  BY <1>1, <1>2, <1>5, <1>6 DEF LifeInv, Service!Scheduled

\* The loop and the workers move what is queued and in hand.
LEMMA WorkLife ==
  ASSUME LifeInv,
         \/ Service!LoopBegin \/ Service!Standby \/ Service!LoopEnd \/ Service!LoopStops
         \/ Service!Take \/ Service!Decide
  PROVE  LifeInv'
<1>1. UNCHANGED <<file, lapsed, due, missed, halting, proc, cut>>
  BY DEF Service!LoopBegin, Service!Standby, Service!LoopEnd, Service!LoopStops,
     Service!Take, Service!Decide, Service!life, Service!work
<1>2. /\ loop' \in {"off", "idle", "cycle"} /\ (beat' = 0 \/ beat' = beat)
      /\ hand' \in 0..1
  BY DEF LifeInv, Service!TypeOK, Service!LoopBegin, Service!Standby, Service!LoopEnd,
     Service!LoopStops, Service!Take, Service!Decide, Service!work
<1>3. \/ UNCHANGED <<queued, hand, overtime>>
      \/ /\ queued < MaxQueue /\ queued' = queued + 1 /\ hand' = hand
         /\ overtime' = IF proc = "sentinels" THEN overtime + 1 ELSE overtime
      \/ /\ queued > 0 /\ queued' = queued - 1 /\ proc # "sentinels" /\ UNCHANGED overtime
      \/ hand = 1 /\ hand' = 0 /\ UNCHANGED <<queued, overtime>>
  BY DEF Service!LoopBegin, Service!Standby, Service!LoopEnd, Service!LoopStops,
     Service!Take, Service!Decide, Service!work
<1>4. /\ queued \in 0..MaxQueue /\ hand \in 0..1 /\ overtime \in Nat /\ MaxQueue \in Nat
      /\ proc = "sentinels" => queued + hand <= overtime
  BY LifeNumbers DEF LifeInv, Service!TypeOK
<1>5. /\ queued' \in 0..MaxQueue /\ overtime' \in Nat
      /\ proc = "sentinels" => queued' + hand' <= overtime'
  <2>1. CASE UNCHANGED <<queued, hand, overtime>>
    BY <2>1, <1>4
  <2>2. CASE /\ queued < MaxQueue /\ queued' = queued + 1 /\ hand' = hand
             /\ overtime' = IF proc = "sentinels" THEN overtime + 1 ELSE overtime
    <3>1. /\ queued + 1 \in 0..MaxQueue
          /\ proc = "sentinels" => (queued + 1) + hand <= overtime + 1
      BY <2>2, <1>4
    <3>2. QED
      BY <3>1, <2>2, <1>4
  <2>3. CASE queued > 0 /\ queued' = queued - 1 /\ proc # "sentinels" /\ UNCHANGED overtime
    BY <2>3, <1>4
  <2>4. CASE hand = 1 /\ hand' = 0 /\ UNCHANGED <<queued, overtime>>
    <3>1. proc = "sentinels" => queued + 0 <= overtime
      BY <2>4, <1>4
    <3>2. QED
      BY <3>1, <2>4, <1>4
  <2>5. QED
    BY <1>3, <2>1, <2>2, <2>3, <2>4
<1>6. beat' \in Service!None..(Stale + 1)
  BY <1>2, LifeNumbers DEF LifeInv, Service!TypeOK, Service!None
<1>7. Service!TypeOK' /\ ~cut'
  BY <1>1, <1>2, <1>5, <1>6 DEF LifeInv, Service!TypeOK
<1>8. Service!Scheduled' = Service!Scheduled /\ (~halting' => ~halting)
  BY <1>1 DEF Service!Scheduled
<1>9. QED
  BY <1>1, <1>5, <1>7, <1>8, LapseStays DEF LifeInv

\* A stop, and what of it the deadline leaves behind.
LEMMA StopLife == ASSUME LifeInv, Service!Stop PROVE LifeInv'
<1>1. /\ proc' = "stopping" /\ due' = Service!None
      /\ UNCHANGED <<file, loop, beat, lapsed, missed, queued, hand, overtime, cut>>
  BY DEF Service!Stop, Service!AtShutdown, Service!work
<1>2. Service!TypeOK' /\ ~cut'
  BY <1>1, LifeNumbers DEF LifeInv, Service!TypeOK, Service!None
<1>3. QED
  BY <1>1, <1>2 DEF LifeInv, Service!Scheduled, Service!Valid

LEMMA SignalLife == ASSUME LifeInv, Service!EarlySignal PROVE LifeInv'
<1>1. /\ UNCHANGED <<file, lapsed, proc, due, missed, loop, beat, queued, hand, overtime, cut>>
      /\ halting'
  BY DEF Service!EarlySignal, Service!work
<1>2. Service!TypeOK' /\ ~cut'
  BY <1>1 DEF LifeInv, Service!TypeOK
<1>3. QED
  BY <1>1, <1>2 DEF LifeInv, Service!Scheduled, Service!Valid

LEMMA DrainedLife == ASSUME LifeInv, Service!Drained PROVE LifeInv'
<1>1. /\ UNCHANGED <<file, lapsed, due, missed, halting, loop, beat, queued, hand, cut>>
      /\ proc' = "sentinels"
      /\ \/ queued = 0 /\ hand = 0 /\ UNCHANGED overtime
         \/ overtime' = queued + hand
  BY DEF Service!Drained, Service!life
<1>2. Service!TypeOK' /\ ~cut'
  BY <1>1 DEF LifeInv, Service!TypeOK
<1>3. queued + hand \in Nat /\ queued + hand <= queued + hand /\ overtime \in Nat
      /\ (queued = 0 /\ hand = 0 => queued + hand <= overtime)
  BY LifeNumbers DEF LifeInv, Service!TypeOK
<1>4. overtime' \in Nat /\ queued' + hand' <= overtime'
  BY <1>1, <1>3
<1>5. QED
  BY <1>1, <1>2, <1>4 DEF LifeInv, Service!Scheduled, Service!Valid

LEMMA ExitLife == ASSUME LifeInv, Service!Exit PROVE LifeInv'
<1>1. ~(queued + hand > overtime)
  <2>1. /\ queued + hand <= overtime /\ queued \in Nat /\ hand \in Nat /\ overtime \in Nat
    BY LifeNumbers DEF LifeInv, Service!Exit, Service!TypeOK
  <2>2. QED
    BY <2>1
<1>2. cut' <=> cut \/ queued + hand > overtime
  BY Zenon DEF Service!Exit
<1>3. ~cut
  BY DEF LifeInv
<1>4. ~cut'
  BY <1>1, <1>2, <1>3, Zenon
<1>5. QED
  BY <1>4, GoneIs DEF Service!Exit

LEMMA LifeNext == ASSUME LifeInv, [Service!Next]_lifeVars PROVE LifeInv'
<1>1. CASE UNCHANGED lifeVars
  <2>1. UNCHANGED <<file, lapsed, proc, halting, due, missed, loop, beat, queued, hand,
                    overtime, cut>>
    BY <1>1 DEF lifeVars
  <2>2. Service!TypeOK' /\ ~cut' /\ (~halting' => ~halting)
    BY <2>1 DEF LifeInv, Service!TypeOK
  <2>3. Service!Scheduled' = Service!Scheduled
    BY <2>1 DEF Service!Scheduled
  <2>4. QED
    BY <2>1, <2>2, <2>3, LapseStays DEF LifeInv
<1>2. CASE Service!NoCertificate \/ Service!Kill
  BY <1>2, GoneIs DEF LifeInv, Service!NoCertificate, Service!Kill
<1>3. CASE Service!Terminate \/ Service!Probe
  BY <1>3, StopLife DEF Service!Terminate, Service!Probe
<1>4. QED
  BY <1>1, <1>2, <1>3, BootLife, ServeLife, CheckLife, MissedLife, TickLife, FileLife,
     WorkLife, SignalLife, DrainedLife, ExitLife
     DEF Service!Next, Service!MainStep, Service!LoopStep, Service!WorkStep

-----------------------------------------------------------------------------
(* The names that leave: the token maps, and the calls that use them.      *)

Prefixes == {"HOST", "USER", "EMAIL"}
\* A token is its value's own, can be restored, and is there for all that is
\* known of a tenant whose rows were read.
MapsTrue ==
  /\ booted \in 0..MaxStarts
  /\ toToken \in [Values -> Names!Token \cup {Names!None}] /\ toOriginal \subseteq Names!Token
  /\ hydrated \subseteq Owners /\ mappings \in [Owners -> SUBSET Names!Token]
  /\ \A v \in Values : toToken[v] # Names!None =>
       toToken[v].of = v /\ toToken[v] \in toOriginal
  /\ \A k \in toOriginal : toToken[k.of] # Names!None
  /\ \A t \in hydrated : \A k \in mappings[t] : toToken[k.of] # Names!None
IsCall(x) ==
  /\ DOMAIN x = {"at", "tenant", "alert", "note", "todo", "made", "used", "raw", "read",
                 "blind"}
  /\ x.at \in {"fields", "data", "note", "load", "sent"}
  /\ x.tenant \in Owners /\ x.alert \in Names!Text /\ x.note \subseteq Values
  /\ x.todo \subseteq Prefixes \X Values /\ x.made \in Names!Token \cup {Names!None}
  /\ x.read \subseteq Names!Token
UsedTrue(x) ==
  x.used \subseteq toOriginal /\ \A k \in x.used : toToken[k.of] = k \/ k.of \in raced
ReadTrue(x) ==
  /\ x.at = "load" =>
       \A k \in mappings[x.tenant] : k \in x.read \/ toToken[k.of] # Names!None
  /\ x.at = "note" /\ ~x.blind => \A k \in x.read : toToken[k.of] # Names!None
  /\ x.at = "sent" /\ ~x.blind => \A k \in x.read : k.of \notin x.note
RawTrue(x) == x.at # "fields" => x.alert.agent \notin x.raw /\ x.alert.user \notin x.raw
CallTrue(x) ==
  x = Names!Away \/ (IsCall(x) /\ UsedTrue(x) /\ ReadTrue(x) /\ RawTrue(x))
NamesInv ==
  /\ MapsTrue
  /\ talk = [c \in Triages |-> talk[c]] /\ \A c \in Triages : CallTrue(talk[c])

LEMMA NoneIsNoToken == Names!None \notin Names!Token /\ \A k \in Names!Token : k.of \in Values
  BY ProcessAssumption DEF Names!TextsAssumption, Names!None, Names!Token

LEMMA AwayIs == Names!Away.at = "away" /\ CallTrue(Names!Away) /\ CallTrue(Names!Away)'
  BY DEF Names!Away, CallTrue

LEMMA NamesInit == Names!Init => NamesInv
<1> SUFFICES ASSUME Names!Init PROVE NamesInv
  OBVIOUS
<1>1. MapsTrue
  <2>1. mappings \in [Owners -> SUBSET Names!Token]
    BY ProcessAssumption DEF Names!Init, Names!TextsAssumption
  <2>2. booted \in 0..MaxStarts
    BY ProcessAssumption DEF Names!Init, Names!TextsAssumption
  <2>3. QED
    BY <2>1, <2>2 DEF Names!Init, MapsTrue
<1>2. QED
  BY <1>1, AwayIs DEF Names!Init, NamesInv

\* The maps only grow, and a token is replaced only where two threads raced.
Grows ==
  /\ toOriginal \subseteq toOriginal' /\ raced \subseteq raced'
  /\ \A v \in Values : toToken[v] # Names!None =>
       toToken'[v] # Names!None /\ (toToken'[v] = toToken[v] \/ v \in raced')
  /\ \A t \in Owners : \A k \in mappings'[t] :
       k \in mappings[t] \/ toToken'[k.of] # Names!None

LEMMA Grown ==
  ASSUME MapsTrue, Grows, NEW x, CallTrue(x)
  PROVE  CallTrue(x)'
<1>1. CASE x = Names!Away
  BY <1>1 DEF CallTrue
<1>2. CASE x # Names!Away
  <2>1. IsCall(x) /\ UsedTrue(x) /\ ReadTrue(x) /\ RawTrue(x)
    BY <1>2 DEF CallTrue
  <2>2. UsedTrue(x)'
    <3>1. \A k \in x.used : k.of \in Values /\ k # Names!None
      BY <2>1, NoneIsNoToken DEF UsedTrue, MapsTrue
    <3>2. QED
      BY <2>1, <3>1 DEF UsedTrue, Grows
  <2>3. ReadTrue(x)'
    <3>1. \A k \in x.read : k.of \in Values
      BY <2>1, NoneIsNoToken DEF IsCall
    <3>2. x.at = "load" =>
            \A k \in mappings'[x.tenant] : k \in x.read \/ toToken'[k.of] # Names!None
      <4>1. \A k \in mappings[x.tenant] : k.of \in Values
        BY <2>1, NoneIsNoToken DEF IsCall, MapsTrue
      <4>2. QED
        BY <2>1, <4>1 DEF ReadTrue, Grows, IsCall
    <3>3. x.at = "note" /\ ~x.blind => \A k \in x.read : toToken'[k.of] # Names!None
      BY <2>1, <3>1 DEF ReadTrue, Grows
    <3>4. QED
      BY <2>1, <3>2, <3>3 DEF ReadTrue
  <2>4. IsCall(x)' /\ RawTrue(x)'
    BY <2>1 DEF IsCall, RawTrue
  <2>5. QED
    BY <2>2, <2>3, <2>4 DEF CallTrue
<1>3. QED
  BY <1>1, <1>2

LEMMA CallSet ==
  ASSUME NamesInv, Grows, MapsTrue', NEW c \in Triages, NEW x, CallTrue(x)',
         talk' = [talk EXCEPT ![c] = x]
  PROVE  NamesInv'
<1>1. talk' = [d \in Triages |-> talk'[d]]
  BY DEF NamesInv
<1>2. \A d \in Triages : CallTrue(talk[d])'
  <2>1. TAKE d \in Triages
  <2>2. CASE d = c
    <3>1. talk'[d] = x
      BY <2>2 DEF NamesInv
    <3>2. QED
      BY <3>1
  <2>3. CASE d # c
    <3>1. talk'[d] = talk[d] /\ CallTrue(talk[d])
      BY <2>3 DEF NamesInv
    <3>2. \A y : CallTrue(y) => CallTrue(y)'
      BY Grown DEF NamesInv
    <3>3. QED
      BY <3>1, <3>2
  <2>4. QED
    BY <2>2, <2>3
<1>3. QED
  BY <1>1, <1>2 DEF NamesInv

LEMMA MapsStay ==
  ASSUME MapsTrue, UNCHANGED <<booted, toToken, toOriginal, hydrated, raced, mappings>>
  PROVE  MapsTrue' /\ Grows
  BY DEF MapsTrue, Grows

\* What a call that was begun is.
LEMMA Begun ==
  ASSUME NamesInv, NEW c \in Triages, talk[c].at # "away"
  PROVE  IsCall(talk[c]) /\ UsedTrue(talk[c]) /\ ReadTrue(talk[c]) /\ RawTrue(talk[c])
  BY AwayIs DEF NamesInv, CallTrue

LEMMA BeginCall == ASSUME NamesInv, NEW c \in Triages, Names!Begin(c) PROVE NamesInv'
<1>1. PICK t \in Owners, a \in Texts, note \in Notes : talk' = [talk EXCEPT ![c] =
         [at |-> "fields", tenant |-> t, alert |-> a, note |-> note,
          todo |-> Names!Named("HOST", {a.agent}) \cup Names!Named("USER", {a.user}),
          made |-> Names!None, used |-> {}, raw |-> {}, read |-> {}, blind |-> FALSE]]
  BY DEF Names!Begin
<1>2. MapsTrue' /\ Grows
  BY MapsStay DEF NamesInv, Names!Begin, Names!maps
<1> DEFINE todo == Names!Named("HOST", {a.agent}) \cup Names!Named("USER", {a.user})
           x == [at |-> "fields", tenant |-> t, alert |-> a, note |-> note, todo |-> todo,
                 made |-> Names!None, used |-> {}, raw |-> {}, read |-> {}, blind |-> FALSE]
<1>3. a \in Names!Text /\ note \subseteq Values
  BY ProcessAssumption DEF Names!TextsAssumption
<1>4. todo \subseteq Prefixes \X Values
  BY <1>3 DEF Names!Named, Names!Text, Prefixes
<1> HIDE DEF todo
<1>5. IsCall(x)
  BY <1>3, <1>4 DEF IsCall
<1>6. CallTrue(x)'
  BY <1>5 DEF CallTrue, IsCall, UsedTrue, ReadTrue, RawTrue
<1>7. talk' = [talk EXCEPT ![c] = x]
  BY <1>1 DEF todo
<1> HIDE DEF x
<1>8. QED
  BY <1>2, <1>6, <1>7, CallSet

\* A token is added to what a call used.
Using(x, k) ==
  [x EXCEPT !.used = @ \cup {k}, !.made = Names!None, !.todo = @ \ {n \in @ : n[2] = k.of}]
LEMMA UsesToken ==
  ASSUME NEW x, x # Names!Away, CallTrue(x)', NEW k, k \in toOriginal',
         toToken'[k.of] = k \/ k.of \in raced'
  PROVE  CallTrue(Using(x, k))'
<1>1. IsCall(x) /\ UsedTrue(x)' /\ ReadTrue(x)' /\ RawTrue(x)
  BY DEF CallTrue, IsCall, RawTrue
<1> DEFINE y == Using(x, k)
<1>2. /\ DOMAIN y = DOMAIN x /\ y.at = x.at /\ y.tenant = x.tenant /\ y.alert = x.alert
      /\ y.note = x.note /\ y.read = x.read /\ y.raw = x.raw
      /\ y.used = x.used \cup {k} /\ y.made = Names!None /\ y.todo \subseteq x.todo
  BY <1>1 DEF Using, IsCall
<1>3. y.blind = x.blind
  BY <1>1 DEF Using, IsCall
<1> HIDE DEF y
<1>4. IsCall(y) /\ RawTrue(y)
  BY <1>1, <1>2 DEF IsCall, RawTrue
<1>5. UsedTrue(y)'
  BY <1>1, <1>2 DEF UsedTrue
<1>6. ReadTrue(y)'
  <2>1. ~y.blind => ~x.blind
    BY <1>3, Zenon
  <2>2. QED
    BY <1>1, <1>2, <2>1 DEF ReadTrue
<1>7. CallTrue(y)'
  BY <1>4, <1>5, <1>6 DEF CallTrue, IsCall, RawTrue
<1>8. QED
  BY <1>7 DEF y

LEMMA LookAt == ASSUME NamesInv, NEW c \in Triages, Names!Look(c) PROVE NamesInv'
<1> SUFFICES ASSUME NEW x, x = talk[c] PROVE NamesInv'
  OBVIOUS
<1>1. x # Names!Away /\ IsCall(x) /\ UsedTrue(x) /\ ReadTrue(x) /\ RawTrue(x)
  BY Begun, AwayIs DEF Names!Look
<1>2. MapsTrue' /\ Grows
  BY MapsStay DEF NamesInv, Names!Look, Names!maps
<1>3. ASSUME NEW w, CallTrue(w)', talk' = [talk EXCEPT ![c] = w] PROVE NamesInv'
  BY <1>2, <1>3, CallSet
<1>4. CallTrue(x)'
  BY <1>1, <1>2, Grown DEF NamesInv, CallTrue
<1>5. PICK n \in x.todo :
        IF toToken[n[2]] # Names!None THEN Names!Uses(c, toToken[n[2]])
        ELSE talk' = [talk EXCEPT ![c].made =
                        [of |-> n[2], as |-> n[1], salt |-> Names!Salt]]
  BY DEF Names!Look
<1>6. n[1] \in Prefixes /\ n[2] \in Values
  BY <1>1 DEF IsCall
<1>7. CASE toToken[n[2]] # Names!None
  <2> DEFINE w == Using(x, toToken[n[2]])
  <2>1. talk' = [talk EXCEPT ![c] = w]
    BY <1>5, <1>7 DEF NamesInv, Names!Uses, Using
  <2>2. toToken[n[2]].of = n[2] /\ toToken[n[2]] \in toOriginal
    BY <1>6, <1>7 DEF NamesInv, MapsTrue
  <2>3. toToken' = toToken /\ toOriginal' = toOriginal
    BY DEF Names!Look, Names!maps
  <2>4. ASSUME NEW k, k = toToken[n[2]] PROVE CallTrue(Using(x, k))'
    BY <1>1, <1>4, <2>2, <2>3, <2>4, UsesToken
  <2>5. ASSUME NEW k, k = toToken[n[2]] PROVE talk' = [talk EXCEPT ![c] = Using(x, k)]
    BY <2>1, <2>5
  <2>6. QED
    BY <2>4, <2>5, <1>3
<1>8. CASE toToken[n[2]] = Names!None
  <2> DEFINE k == [of |-> n[2], as |-> n[1], salt |-> Names!Salt]
  <2>1. k \in Names!Token
    <3>1. Names!Salt \in -1..MaxStarts
      BY ProcessAssumption DEF NamesInv, MapsTrue, Names!Salt, Names!TextsAssumption
    <3>2. QED
      BY <1>6, <3>1 DEF Names!Token, Prefixes
  <2>2. talk' = [talk EXCEPT ![c].made = k]
    BY <1>5, <1>8
  <2> HIDE DEF k
  <2>3. talk' = [talk EXCEPT ![c] = [x EXCEPT !.made = k]]
    BY <2>2 DEF NamesInv
  <2>4. SUFFICES ASSUME NEW w, w = [x EXCEPT !.made = k] PROVE CallTrue(w)'
    BY <2>3, <1>3
  <2>5. /\ DOMAIN w = DOMAIN x /\ w.at = x.at /\ w.tenant = x.tenant /\ w.alert = x.alert
        /\ w.note = x.note /\ w.read = x.read /\ w.raw = x.raw
        /\ w.used = x.used /\ w.made = k /\ w.todo = x.todo
    BY <1>1, <2>4 DEF IsCall
  <2>6. w.blind = x.blind
    BY <1>1, <2>4 DEF IsCall
  <2>7. ~w.blind => ~x.blind
    BY <2>6, Zenon
  <2>8. IsCall(w) /\ RawTrue(w)
    BY <1>1, <2>1, <2>5 DEF IsCall, RawTrue
  <2>9. UsedTrue(w) /\ ReadTrue(w)
    BY <1>1, <2>5, <2>7 DEF UsedTrue, ReadTrue
  <2>10. CallTrue(w)
    BY <2>8, <2>9 DEF CallTrue
  <2>11. QED
    BY <2>10, <1>2, Grown DEF NamesInv
<1>9. QED
  BY <1>7, <1>8

LEMMA PutToken == ASSUME NamesInv, NEW c \in Triages, Names!Put(c) PROVE NamesInv'
<1> SUFFICES ASSUME NEW x, x = talk[c] PROVE NamesInv'
  OBVIOUS
<1>1. x # Names!Away /\ IsCall(x) /\ UsedTrue(x) /\ ReadTrue(x) /\ RawTrue(x)
  BY Begun, AwayIs DEF Names!Put, Names!At
<1> DEFINE k == x.made
<1>2. k \in Names!Token /\ k # Names!None /\ k.of \in Values
  BY <1>1, NoneIsNoToken DEF IsCall, Names!Put
<1>3. /\ toToken' = [toToken EXCEPT ![k.of] = k] /\ toOriginal' = toOriginal \cup {k}
      /\ raced' = IF toToken[k.of] \in {Names!None, k} THEN raced ELSE raced \cup {k.of}
      /\ \/ mappings' = [mappings EXCEPT ![x.tenant] = @ \cup {k}]
         \/ mappings' = mappings
      /\ Names!Uses(c, k)
      /\ UNCHANGED <<booted, hydrated>>
  BY DEF Names!Put, Names!Originals
<1> HIDE DEF k
<1>4. \A v \in Values : toToken'[v] = IF v = k.of THEN k ELSE toToken[v]
  BY <1>3 DEF NamesInv, MapsTrue
<1>5. \A t \in Owners : \A l \in mappings'[t] : l \in mappings[t] \/ l = k
  BY <1>3, <1>1 DEF NamesInv, MapsTrue, IsCall
<1>6. Grows
  <2>1. toOriginal \subseteq toOriginal' /\ raced \subseteq raced'
    BY <1>3
  <2>2. ASSUME NEW v \in Values, toToken[v] # Names!None
        PROVE  toToken'[v] # Names!None /\ (toToken'[v] = toToken[v] \/ v \in raced')
    BY <2>2, <1>2, <1>3, <1>4
  <2>3. ASSUME NEW t \in Owners, NEW l \in mappings'[t]
        PROVE  l \in mappings[t] \/ toToken'[l.of] # Names!None
    BY <2>3, <1>2, <1>4, <1>5
  <2>4. QED
    BY <2>1, <2>2, <2>3 DEF Grows
<1>7. MapsTrue'
  <2>1. /\ toToken' \in [Values -> Names!Token \cup {Names!None}]
        /\ toOriginal' \subseteq Names!Token /\ hydrated' \subseteq Owners
        /\ booted' \in 0..MaxStarts
    BY <1>2, <1>3 DEF NamesInv, MapsTrue
  <2>2. mappings' \in [Owners -> SUBSET Names!Token]
    BY <1>1, <1>2, <1>3 DEF NamesInv, MapsTrue, IsCall
  <2>3. \A v \in Values : toToken'[v] # Names!None =>
          toToken'[v].of = v /\ toToken'[v] \in toOriginal'
    BY <1>2, <1>3, <1>4 DEF NamesInv, MapsTrue
  <2>4. \A l \in toOriginal' : toToken'[l.of] # Names!None
    BY <1>2, <1>3, <1>4, NoneIsNoToken DEF NamesInv, MapsTrue
  <2>5. \A t \in hydrated' : \A l \in mappings'[t] : toToken'[l.of] # Names!None
    <3>1. TAKE t \in hydrated'
    <3>2. TAKE l \in mappings'[t]
    <3>3. t \in Owners /\ t \in hydrated
      BY <1>3 DEF NamesInv, MapsTrue
    <3>4. CASE l = k
      BY <3>4, <1>2, <1>4
    <3>5. CASE l \in mappings[t]
      <4>1. toToken[l.of] # Names!None /\ l.of \in Values
        BY <3>3, <3>5, NoneIsNoToken DEF NamesInv, MapsTrue
      <4>2. QED
        BY <4>1, <1>6 DEF Grows
    <3>6. QED
      BY <3>3, <3>4, <3>5, <1>5
  <2>6. QED
    BY <2>1, <2>2, <2>3, <2>4, <2>5 DEF MapsTrue
<1>8. CallTrue(x)'
  BY <1>1, <1>6, Grown DEF NamesInv, CallTrue
<1>9. CallTrue(Using(x, k))'
  BY <1>1, <1>2, <1>3, <1>4, <1>8, UsesToken
<1>10. talk' = [talk EXCEPT ![c] = Using(x, k)]
  BY <1>3 DEF NamesInv, Names!Uses, Using
<1> HIDE DEF k
<1>11. QED
  BY <1>6, <1>7, <1>9, <1>10, CallSet

LEMMA DataPass == ASSUME NamesInv, NEW c \in Triages, Names!Data(c) PROVE NamesInv'
<1> SUFFICES ASSUME NEW x, x = talk[c] PROVE NamesInv'
  OBVIOUS
<1>1. x # Names!Away /\ IsCall(x) /\ UsedTrue(x) /\ ReadTrue(x) /\ RawTrue(x)
  BY Begun, AwayIs DEF Names!Data, Names!Done, Names!At
<1>2. MapsTrue' /\ Grows
  BY MapsStay DEF NamesInv, Names!Data, Names!maps
<1>3. ASSUME NEW w, CallTrue(w)', talk' = [talk EXCEPT ![c] = w] PROVE NamesInv'
  BY <1>2, <1>3, CallSet
<1> DEFINE a == x.alert
           known == {a.agent, a.user}
           rest == Names!Scrubbed(a, known)
           todo == Names!Named("HOST", {a.identity} \ known)
                     \cup Names!Named("EMAIL", rest.text \cap Emails)
           raw == (rest.text \ Emails) \cup rest.command
<1>4. talk' = [talk EXCEPT ![c].at = "data", ![c].todo = todo, ![c].raw = raw]
  BY DEF Names!Data
<1>5. a \in Names!Text
  BY <1>1 DEF IsCall
<1>6. rest.text = a.text \ known /\ rest.command = a.command \ known
  BY <1>5 DEF Names!Text, Names!Scrubbed
<1>7. todo \subseteq Prefixes \X Values
  BY <1>5, <1>6 DEF Names!Text, Names!Named, Prefixes
<1>8. a.agent \notin raw /\ a.user \notin raw
  BY <1>6
<1> HIDE DEF todo, raw, rest, known
<1>9. talk' = [talk EXCEPT ![c] = [x EXCEPT !.at = "data", !.todo = todo, !.raw = raw]]
  BY <1>4 DEF NamesInv
<1>10. SUFFICES ASSUME NEW w, w = [x EXCEPT !.at = "data", !.todo = todo, !.raw = raw]
                PROVE  CallTrue(w)'
  BY <1>3, <1>9
<1>11. /\ DOMAIN w = DOMAIN x /\ w.at = "data" /\ w.tenant = x.tenant /\ w.alert = a
       /\ w.note = x.note /\ w.read = x.read /\ w.raw = raw
       /\ w.used = x.used /\ w.made = x.made /\ w.todo = todo
  BY <1>1, <1>10 DEF IsCall
<1>12. CallTrue(w)
  BY <1>1, <1>7, <1>8, <1>11 DEF CallTrue, IsCall, UsedTrue, ReadTrue, RawTrue
<1>13. QED
  BY <1>12, <1>2, Grown DEF NamesInv

LEMMA HydrateCall == ASSUME NamesInv, NEW c \in Triages, Names!Hydrate(c) PROVE NamesInv'
<1> SUFFICES ASSUME NEW x, x = talk[c] PROVE NamesInv'
  OBVIOUS
<1>1. x # Names!Away /\ IsCall(x) /\ UsedTrue(x) /\ ReadTrue(x) /\ RawTrue(x)
  BY Begun, AwayIs DEF Names!Hydrate, Names!Done, Names!At
<1>2. MapsTrue' /\ Grows
  BY MapsStay DEF NamesInv, Names!Hydrate, Names!MarkedAtRead
<1>3. ASSUME NEW w, CallTrue(w)', talk' = [talk EXCEPT ![c] = w] PROVE NamesInv'
  BY <1>2, <1>3, CallSet
<1> DEFINE t == x.tenant
           todo == Names!Named("EMAIL", x.note \cap Emails)
<1>4. t \in Owners /\ mappings[t] \subseteq Names!Token /\ x.at = "data"
  BY <1>1 DEF NamesInv, MapsTrue, IsCall, Names!Hydrate, Names!Done, Names!At
<1>5. todo \subseteq Prefixes \X Values
  BY <1>1 DEF IsCall, Names!Named, Prefixes
<1>6. \/ /\ t \in hydrated
         /\ talk' = [talk EXCEPT ![c].at = "note", ![c].read = mappings[t], ![c].todo = todo]
      \/ talk' = [talk EXCEPT ![c].at = "load", ![c].read = mappings[t]]
      \/ talk' = [talk EXCEPT ![c].at = "note", ![c].blind = TRUE, ![c].todo = todo]
  BY DEF Names!Hydrate
<1> HIDE DEF todo
<1>7. CASE /\ t \in hydrated
           /\ talk' = [talk EXCEPT ![c].at = "note", ![c].read = mappings[t],
                                  ![c].todo = todo]
  <2> DEFINE new == [x EXCEPT !.at = "note", !.read = mappings[t], !.todo = todo]
  <2>1. talk' = [talk EXCEPT ![c] = new]
    BY <1>7 DEF NamesInv
  <2>2. SUFFICES ASSUME NEW w, w = new PROVE CallTrue(w)'
    BY <2>1, <1>3
  <2>3. /\ DOMAIN w = DOMAIN x /\ w.at = "note" /\ w.tenant = t /\ w.alert = x.alert
        /\ w.note = x.note /\ w.read = mappings[t] /\ w.raw = x.raw
        /\ w.used = x.used /\ w.made = x.made /\ w.todo = todo
    BY <1>1, <2>2 DEF IsCall
  <2> HIDE DEF new
  <2>4. \A k \in w.read : toToken[k.of] # Names!None
    BY <1>7, <2>3 DEF NamesInv, MapsTrue
  <2>5. IsCall(w) /\ RawTrue(w) /\ UsedTrue(w)
    BY <1>1, <1>4, <1>5, <2>3 DEF IsCall, RawTrue, UsedTrue
  <2>6. ReadTrue(w)
    BY <2>3, <2>4 DEF ReadTrue
  <2>7. CallTrue(w)
    BY <2>5, <2>6 DEF CallTrue
  <2>8. QED
    BY <2>7, <1>2, Grown DEF NamesInv
<1>8. CASE talk' = [talk EXCEPT ![c].at = "load", ![c].read = mappings[t]]
  <2> DEFINE new == [x EXCEPT !.at = "load", !.read = mappings[t]]
  <2>1. talk' = [talk EXCEPT ![c] = new]
    BY <1>8 DEF NamesInv
  <2>2. SUFFICES ASSUME NEW w, w = new PROVE CallTrue(w)'
    BY <2>1, <1>3
  <2>3. /\ DOMAIN w = DOMAIN x /\ w.at = "load" /\ w.tenant = t /\ w.alert = x.alert
        /\ w.note = x.note /\ w.read = mappings[t] /\ w.raw = x.raw
        /\ w.used = x.used /\ w.made = x.made /\ w.todo = x.todo
    BY <1>1, <2>2 DEF IsCall
  <2> HIDE DEF new
  <2>4. IsCall(w) /\ RawTrue(w) /\ UsedTrue(w)
    BY <1>1, <1>4, <2>3 DEF IsCall, RawTrue, UsedTrue
  <2>5. ReadTrue(w)
    BY <2>3 DEF ReadTrue
  <2>6. CallTrue(w)
    BY <2>4, <2>5 DEF CallTrue
  <2>7. QED
    BY <2>6, <1>2, Grown DEF NamesInv
<1>9. CASE talk' = [talk EXCEPT ![c].at = "note", ![c].blind = TRUE, ![c].todo = todo]
  <2> DEFINE new == [x EXCEPT !.at = "note", !.blind = TRUE, !.todo = todo]
  <2>1. talk' = [talk EXCEPT ![c] = new]
    BY <1>9 DEF NamesInv
  <2>2. SUFFICES ASSUME NEW w, w = new PROVE CallTrue(w)'
    BY <2>1, <1>3
  <2>3. /\ DOMAIN w = DOMAIN x /\ w.at = "note" /\ w.tenant = t /\ w.alert = x.alert
        /\ w.note = x.note /\ w.read = x.read /\ w.raw = x.raw
        /\ w.used = x.used /\ w.made = x.made /\ w.todo = todo
    BY <1>1, <2>2 DEF IsCall
  <2>4. w.blind
    BY <1>1, <2>2 DEF IsCall
  <2> HIDE DEF new
  <2>5. IsCall(w) /\ RawTrue(w) /\ UsedTrue(w)
    BY <1>1, <1>4, <1>5, <2>3 DEF IsCall, RawTrue, UsedTrue
  <2>6. ReadTrue(w)
    BY <2>3, <2>4 DEF ReadTrue
  <2>7. CallTrue(w)
    BY <2>5, <2>6 DEF CallTrue
  <2>8. QED
    BY <2>7, <1>2, Grown DEF NamesInv
<1>10. QED
  BY <1>6, <1>7, <1>8, <1>9

LEMMA LoadRows == ASSUME NamesInv, NEW c \in Triages, Names!Load(c) PROVE NamesInv'
<1> SUFFICES ASSUME NEW x, x = talk[c] PROVE NamesInv'
  OBVIOUS
<1>1. x # Names!Away /\ IsCall(x) /\ UsedTrue(x) /\ ReadTrue(x) /\ RawTrue(x)
  BY Begun, AwayIs DEF Names!Load, Names!At
<1> DEFINE new == Names!Loadable(talk[c].read)
           values == {k.of : k \in new}
           t == x.tenant
           todo == Names!Named("EMAIL", x.note \cap Emails)
<1>2. PICK pick \in [values -> new] :
        /\ \A v \in values : pick[v].of = v
        /\ toToken' = [v \in Values |-> IF v \in values THEN pick[v] ELSE toToken[v]]
        /\ toOriginal' = toOriginal \cup {pick[v] : v \in values}
  BY Zenon DEF Names!Load
<1>3. /\ hydrated' = hydrated \cup {t} /\ UNCHANGED <<booted, raced, mappings>>
      /\ talk' = [talk EXCEPT ![c].at = "note", ![c].todo = todo] /\ x.at = "load"
  BY DEF Names!Load, Names!Pass, Names!At
<1>4. new = {k \in x.read : k \notin toOriginal /\ toToken[k.of] = Names!None}
  BY DEF Names!Loadable
<1>5. /\ new \subseteq Names!Token /\ values \subseteq Values /\ t \in Owners
      /\ todo \subseteq Prefixes \X Values
  <2>1. x.read \subseteq Names!Token /\ t \in Owners /\ x.note \subseteq Values
    BY <1>1 DEF IsCall
  <2>2. new \subseteq Names!Token
    BY <1>4, <2>1
  <2>3. todo \subseteq Prefixes \X Values
    BY <2>1 DEF Names!Named, Prefixes
  <2>4. QED
    BY <2>1, <2>2, <2>3, NoneIsNoToken
<1> HIDE DEF new, todo
<1>6. \A v \in values : /\ pick[v] \in new /\ pick[v] \in Names!Token
                        /\ pick[v] # Names!None /\ toToken[v] = Names!None
  BY <1>2, <1>4, <1>5, NoneIsNoToken
<1>7. \A k \in new : k.of \in values
  OBVIOUS
<1> HIDE DEF values
<1>8. \A v \in Values : toToken'[v] = IF v \in values THEN pick[v] ELSE toToken[v]
  BY <1>2
<1>9. \A v \in Values : toToken[v] # Names!None => toToken'[v] = toToken[v]
  BY <1>6, <1>8
<1>10. Grows
  BY <1>2, <1>3, <1>9 DEF Grows
<1>11. ASSUME NEW k \in x.read PROVE toToken'[k.of] # Names!None
  <2>1. k \in Names!Token /\ k.of \in Values
    BY <1>1, NoneIsNoToken DEF IsCall
  <2>2. CASE k \in new
    BY <2>1, <2>2, <1>6, <1>7, <1>8
  <2>3. CASE k \notin new
    <3>1. toToken[k.of] # Names!None
      BY <2>3, <1>4 DEF NamesInv, MapsTrue
    <3>2. QED
      BY <3>1, <2>1, <1>9
  <2>4. QED
    BY <2>2, <2>3
<1>12. MapsTrue'
  <2>1. /\ hydrated' \subseteq Owners /\ booted' \in 0..MaxStarts
        /\ mappings' \in [Owners -> SUBSET Names!Token]
    BY <1>3, <1>5 DEF NamesInv, MapsTrue
  <2>2. /\ toToken' \in [Values -> Names!Token \cup {Names!None}]
        /\ toOriginal' \subseteq Names!Token
    BY <1>2, <1>6 DEF NamesInv, MapsTrue
  <2>3. \A v \in Values : toToken'[v] # Names!None =>
          toToken'[v].of = v /\ toToken'[v] \in toOriginal'
    BY <1>2, <1>8 DEF NamesInv, MapsTrue
  <2>4. \A k \in toOriginal' : toToken'[k.of] # Names!None
    <3>1. TAKE k \in toOriginal'
    <3>2. CASE k \in toOriginal
      <4>1. toToken[k.of] # Names!None /\ k.of \in Values
        BY <3>2, NoneIsNoToken DEF NamesInv, MapsTrue
      <4>2. QED
        BY <4>1, <1>9
    <3>3. CASE \E v \in values : k = pick[v]
      BY <3>3, <1>2, <1>5, <1>6, <1>8
    <3>4. QED
      BY <3>2, <3>3, <1>2
  <2>5. \A o \in hydrated' : \A k \in mappings'[o] : toToken'[k.of] # Names!None
    <3>1. TAKE o \in hydrated'
    <3>2. TAKE k \in mappings'[o]
    <3>3. o \in Owners /\ k \in mappings[o] /\ k.of \in Values
      BY <1>3, <2>1, NoneIsNoToken DEF NamesInv, MapsTrue
    <3>4. k \in x.read \/ toToken[k.of] # Names!None
      BY <3>3, <1>1, <1>3 DEF NamesInv, MapsTrue, ReadTrue
    <3>5. QED
      BY <3>3, <3>4, <1>9, <1>11
  <2>6. QED
    BY <2>1, <2>2, <2>3, <2>4, <2>5 DEF MapsTrue
<1>13. CallTrue(x)'
  BY <1>1, <1>10, Grown DEF NamesInv, CallTrue
<1>14. talk' = [talk EXCEPT ![c] = [x EXCEPT !.at = "note", !.todo = todo]]
  BY <1>3 DEF NamesInv
<1>15. SUFFICES ASSUME NEW w, w = [x EXCEPT !.at = "note", !.todo = todo]
                PROVE  CallTrue(w)'
  BY <1>10, <1>12, <1>14, CallSet
<1>16. /\ DOMAIN w = DOMAIN x /\ w.at = "note" /\ w.tenant = t /\ w.alert = x.alert
       /\ w.note = x.note /\ w.read = x.read /\ w.raw = x.raw
       /\ w.used = x.used /\ w.made = x.made /\ w.todo = todo
  BY <1>1, <1>15 DEF IsCall
<1>17. (IsCall(w) /\ RawTrue(w)) /\ UsedTrue(w)'
  BY <1>1, <1>3, <1>5, <1>13, <1>16 DEF CallTrue, IsCall, RawTrue, UsedTrue
<1>18. ReadTrue(w)'
  BY <1>11, <1>16 DEF ReadTrue
<1>19. QED
  BY <1>17, <1>18 DEF CallTrue, IsCall, RawTrue

LEMMA SendPrompt == ASSUME NamesInv, NEW c \in Triages, Names!Send(c) PROVE NamesInv'
<1> SUFFICES ASSUME NEW x, x = talk[c] PROVE NamesInv'
  OBVIOUS
<1>1. x # Names!Away /\ IsCall(x) /\ UsedTrue(x) /\ ReadTrue(x) /\ RawTrue(x)
  BY Begun, AwayIs DEF Names!Send, Names!Done, Names!At
<1>2. MapsTrue' /\ Grows
  BY MapsStay DEF NamesInv, Names!Send, Names!maps
<1>3. ASSUME NEW w, CallTrue(w)', talk' = [talk EXCEPT ![c] = w] PROVE NamesInv'
  BY <1>2, <1>3, CallSet
<1> DEFINE known == {v \in x.note : toToken[v] # Names!None}
           used == x.used \cup {toToken[v] : v \in known}
           note == x.note \ (known \cup {k.of : k \in x.used})
<1>4. talk' = [talk EXCEPT ![c].at = "sent", ![c].used = used, ![c].note = note]
  BY DEF Names!Send
<1>5. x.at = "note" /\ x.note \subseteq Values
  BY <1>1 DEF Names!Send, Names!Done, Names!At, IsCall
<1>6. used \subseteq toOriginal /\ \A k \in used : toToken[k.of] = k \/ k.of \in raced
  <2>1. ASSUME NEW v \in known
        PROVE  toToken[v] \in toOriginal /\ toToken[v].of = v
    BY <2>1, <1>5 DEF NamesInv, MapsTrue
  <2>2. QED
    BY <2>1, <1>1 DEF UsedTrue
<1>7. note \subseteq Values /\ \A v \in note : toToken[v] = Names!None
  BY <1>5
<1> HIDE DEF used, note, known
<1>8. talk' = [talk EXCEPT ![c] = [x EXCEPT !.at = "sent", !.used = used, !.note = note]]
  BY <1>4 DEF NamesInv
<1>9. SUFFICES ASSUME NEW w, w = [x EXCEPT !.at = "sent", !.used = used, !.note = note]
               PROVE  CallTrue(w)'
  BY <1>3, <1>8
<1>10. /\ DOMAIN w = DOMAIN x /\ w.at = "sent" /\ w.tenant = x.tenant /\ w.alert = x.alert
       /\ w.note = note /\ w.read = x.read /\ w.raw = x.raw
       /\ w.used = used /\ w.made = x.made /\ w.todo = x.todo
  BY <1>1, <1>9 DEF IsCall
<1>11. ~w.blind => ~x.blind
  <2>1. w.blind = x.blind
    BY <1>1, <1>9 DEF IsCall
  <2>2. QED
    BY <2>1, Zenon
<1>12. IsCall(w) /\ RawTrue(w) /\ UsedTrue(w)
  BY <1>1, <1>5, <1>6, <1>7, <1>10 DEF IsCall, RawTrue, UsedTrue
<1>13. ReadTrue(w)
  BY <1>1, <1>5, <1>7, <1>10, <1>11 DEF ReadTrue
<1>14. CallTrue(w)
  BY <1>12, <1>13 DEF CallTrue
<1>15. QED
  BY <1>14, <1>2, Grown DEF NamesInv

\* A process that starts again knows no tokens, and no calls.
LEMMA RestartMaps == ASSUME NamesInv, Names!Restart PROVE NamesInv'
<1>1. MapsTrue'
  BY ProcessAssumption DEF NamesInv, MapsTrue, Names!Restart, Names!TextsAssumption
<1>2. talk' = [c \in Triages |-> Names!Away]
  BY DEF Names!Restart
<1>3. QED
  BY <1>1, <1>2, AwayIs DEF NamesInv

LEMMA NamesNext == ASSUME NamesInv, [Names!Next]_nameVars PROVE NamesInv'
<1>1. CASE UNCHANGED nameVars
  <2>1. MapsTrue' /\ talk' = talk /\ raced' = raced
    BY <1>1, MapsStay DEF NamesInv, nameVars
  <2>2. toToken' = toToken /\ toOriginal' = toOriginal /\ mappings' = mappings
    BY <1>1 DEF nameVars
  <2>3. QED
    BY <2>1, <2>2
       DEF NamesInv, CallTrue, IsCall, UsedTrue, ReadTrue, RawTrue
<1>2. CASE Names!Restart
  BY <1>2, RestartMaps
<1>3. ASSUME NEW c \in Triages, Names!CallStep(c) PROVE NamesInv'
  <2>1. CASE Names!Answered(c)
    <3>1. MapsTrue' /\ Grows
      BY <2>1, MapsStay DEF NamesInv, Names!Answered, Names!maps
    <3>2. talk' = [talk EXCEPT ![c] = Names!Away]
      BY <2>1 DEF Names!Answered
    <3>3. QED
      BY <3>1, <3>2, AwayIs, CallSet
  <2>2. QED
    BY <1>3, <2>1, BeginCall, LookAt, PutToken, DataPass, HydrateCall, LoadRows, SendPrompt
       DEF Names!CallStep
<1>4. QED
  BY <1>1, <1>2, <1>3 DEF Names!Next

LEMMA NamesEnough ==
  NamesInv => /\ Names!TypeOK /\ Names!NamedLeavesNowhere /\ Names!StoredLeavesInNoNote
              /\ Names!AnswersResolve /\ Names!OneName
<1> SUFFICES ASSUME NamesInv
             PROVE  /\ Names!TypeOK /\ Names!NamedLeavesNowhere
                    /\ Names!StoredLeavesInNoNote /\ Names!AnswersResolve /\ Names!OneName
  OBVIOUS
<1>1. Names!TypeOK
  BY DEF NamesInv, MapsTrue, Names!TypeOK
<1>2. Names!NamedLeavesNowhere
  BY Begun DEF Names!NamedLeavesNowhere, Names!At, RawTrue
<1>3. Names!StoredLeavesInNoNote
  BY Begun DEF Names!StoredLeavesInNoNote, Names!At, ReadTrue
<1>4. Names!AnswersResolve
  BY Begun DEF Names!AnswersResolve, Names!At, UsedTrue
<1>5. Names!OneName
  BY Begun DEF Names!OneName, Names!At, UsedTrue
<1>6. QED
  BY <1>1, <1>2, <1>3, <1>4, <1>5

-----------------------------------------------------------------------------
(* The upgrade of the database.                                            *)

\* What 0018 may have left in a row that says n of its host.
Near(h, n) ==
  /\ h \in {Upgrades!NullName, Upgrades!OrNull(Upgrades!Btrim(n)), Upgrades!Coerce(n)}
  /\ n \in {Upgrades!NoRow, Upgrades!Nameless} => h = Upgrades!NullName

\* 0019 makes the name of the host of it.
LEMMA Named19 ==
  ASSUME NEW n, Upgrades!IsName(n), NEW h, Near(h, n), n.edge # "odd"
  PROVE  \/ n = Upgrades!NoRow /\ Upgrades!Renormalise(Upgrades!FillGaps(h, n)) = h
         \/ Upgrades!Renormalise(Upgrades!FillGaps(h, n)) = Upgrades!Coerce(n)
<1> USE DEF Upgrades!NullName, Upgrades!Placeholder, Upgrades!NoRow, Upgrades!Nameless,
  Upgrades!OrNull, Upgrades!Renormalise
<1> DEFINE clean == [core |-> n.core, edge |-> "clean"]
<1>1. /\ Upgrades!Strip(n) = clean /\ Upgrades!BtrimAll(n) = clean
      /\ Upgrades!BtrimAll(clean) = clean
      /\ Upgrades!BtrimAll(Upgrades!NullName) = Upgrades!NullName
      /\ Upgrades!Btrim(n) = IF n.edge = "tabs" THEN n ELSE clean
  BY DEF Upgrades!IsName, Upgrades!Strip, Upgrades!BtrimAll, Upgrades!Btrim, Upgrades!Trims
<1>2. Upgrades!Coerce(n) = IF n = Upgrades!Nameless THEN Upgrades!NullName
                           ELSE Upgrades!OrNull(clean)
  BY <1>1 DEF Upgrades!Coerce
<1>3. CASE n = Upgrades!NoRow \/ n = Upgrades!Nameless
  <2>1. h = Upgrades!NullName
    BY <1>3 DEF Near
  <2>2. Upgrades!FillGaps(h, n) = Upgrades!NullName
    BY <2>1, <1>3 DEF Upgrades!FillGaps
  <2>3. n # Upgrades!NoRow => Upgrades!Coerce(n) = Upgrades!NullName
    BY <1>3 DEF Upgrades!Coerce
  <2>4. QED
    BY <2>1, <2>2, <2>3, <1>1, <1>3
<1>4. CASE ~(n = Upgrades!NoRow \/ n = Upgrades!Nameless)
  <2>1. CASE h = Upgrades!NullName
    <3>1. Upgrades!FillGaps(h, n) = Upgrades!OrNull(clean)
      BY <1>1, <1>4, <2>1 DEF Upgrades!FillGaps
    <3>2. QED
      BY <3>1, <1>1, <1>2, <1>4
  <2>2. CASE h # Upgrades!NullName
    <3>1. Upgrades!FillGaps(h, n) = h
      BY <2>2 DEF Upgrades!FillGaps
    <3>2. h = Upgrades!OrNull(clean) \/ (n.edge = "tabs" /\ h = Upgrades!OrNull(n))
      BY <1>1, <1>2, <1>4, <2>2 DEF Near
    <3>3. CASE h = Upgrades!OrNull(clean)
      BY <3>1, <3>3, <1>1, <1>2, <1>4
    <3>4. CASE n.edge = "tabs" /\ h = Upgrades!OrNull(n)
      <4>1. h = n
        BY <3>4
      <4>2. QED
        BY <3>1, <4>1, <1>1, <1>2, <1>4
    <3>5. QED
      BY <3>2, <3>3, <3>4
  <2>3. QED
    BY <2>1, <2>2
<1>5. QED
  BY <1>3, <1>4

\* What is known of a row, and of a start; no row is there before the tables are,
\* and a start that is refused had nothing to lose all along.
RowTrue(r) ==
  /\ blob[r] = Upgrades!NoRow => host[r] = Upgrades!NullName
  /\ revision < 18 => host[r] = Upgrades!NullName
  /\ revision = 18 => Near(host[r], blob[r])
  /\ revision = 19 /\ blob[r] # Upgrades!NoRow =>
       host[r] = Upgrades!Coerce(blob[r]) \/ r \in outdated \/ blob[r].edge = "odd"
StartTrue(p) ==
  /\ started[p].at = "up" \/ started[p].gate = 2 => revision >= 18
  /\ started[p].at = "upgrade" =>
       started[p].head # 0 /\ (revision = 0 => ~below \/ glitches > 0 \/ moves > 0)
  /\ started[p].at \in {"ask", "decisions", "incidents"} =>
       started[p].head # 0 /\ started[p].gate # 0
  /\ started[p].at = "decisions" /\ started[p].had => Upgrades!Stored # {}
  /\ started[p].at \in {"incidents", "refused"} => ~started[p].had
IsStart(s) ==
  /\ DOMAIN s = {"at", "gate", "head", "says", "had"}
  /\ s.gate \in 0..2 /\ s.head \in {0, 18, 19}
HostsInv ==
  /\ revision \in {0, 17, 18, 19} /\ moves \in Nat /\ glitches \in Nat
  /\ outdated \subseteq Upgrades!Stored
  /\ blob \in [Rows -> Said \cup {Upgrades!NoRow}]
  /\ host = [r \in Rows |-> host[r]]
  /\ started = [p \in Procs |-> started[p]] /\ \A p \in Procs : IsStart(started[p])
  /\ Upgrades!Stored # {} => revision > 0
  /\ \A r \in Rows : RowTrue(r)
  /\ \A p \in Procs : StartTrue(p)

LEMMA HostsInit == Upgrades!Init => HostsInv
<1> SUFFICES ASSUME Upgrades!Init PROVE HostsInv
  OBVIOUS
<1>1. Upgrades!Stored = {}
  BY DEF Upgrades!Init, Upgrades!Stored
<1>2. \A r \in Rows : RowTrue(r)
  BY DEF Upgrades!Init, RowTrue
<1>3. \A p \in Procs : StartTrue(p)
  BY <1>1 DEF Upgrades!Init, StartTrue, Upgrades!Down
<1>4. started = [p \in Procs |-> started[p]] /\ \A p \in Procs : IsStart(started[p])
  BY DEF Upgrades!Init, IsStart, Upgrades!Down
<1>5. QED
  BY <1>1, <1>2, <1>3, <1>4 DEF HostsInv, Upgrades!Init

\* A start goes on; the tables stay.
LEMMA Proceeds ==
  ASSUME HostsInv, NEW p \in Procs, NEW s, IsStart(s), Upgrades!Becomes(p, s),
         UNCHANGED <<below, revision, blob, host, outdated, moves>>,
         glitches' \in Nat, glitches' >= glitches,
         s.at = "up" \/ s.gate = 2 => revision >= 18,
         s.at = "upgrade" =>
           s.head # 0 /\ (revision = 0 => ~below \/ glitches' > 0 \/ moves > 0),
         s.at \in {"ask", "decisions", "incidents"} => s.head # 0 /\ s.gate # 0,
         s.at = "decisions" /\ s.had => Upgrades!Stored # {},
         s.at \in {"incidents", "refused"} => ~s.had
  PROVE  HostsInv'
<1>1. /\ started' = [started EXCEPT ![p] = s]
      /\ started' = [q \in Procs |-> started'[q]] /\ \A q \in Procs : IsStart(started'[q])
  BY DEF HostsInv, Upgrades!Becomes
<1>2. Upgrades!Stored' = Upgrades!Stored
  BY DEF Upgrades!Stored
<1>3. \A q \in Procs : StartTrue(q)'
  <2>1. TAKE q \in Procs
  <2>2. CASE q = p
    <3>1. started'[q] = s
      BY <1>1, <2>2 DEF HostsInv
    <3>2. QED
      BY <3>1, <1>2 DEF StartTrue
  <2>3. CASE q # p
    <3>1. started'[q] = started[q] /\ StartTrue(q)
      BY <1>1, <2>3 DEF HostsInv
    <3>2. glitches > 0 => glitches' > 0
      BY DEF HostsInv
    <3>3. QED
      BY <3>1, <3>2, <1>2 DEF StartTrue
  <2>4. QED
    BY <2>2, <2>3
<1>4. \A r \in Rows : RowTrue(r)'
  BY DEF HostsInv, RowTrue
<1>5. QED
  BY <1>1, <1>2, <1>3, <1>4 DEF HostsInv

LEMMA DownIsFine == IsStart(Upgrades!Down) /\ Upgrades!Down.at = "down" /\ Upgrades!Down.gate = 0
  BY DEF Upgrades!Down, IsStart

LEMMA StartStep ==
  ASSUME HostsInv, NEW p \in Procs,
         Upgrades!Begin(p) \/ Upgrades!Ask(p) \/ Upgrades!Look(p) \/ Upgrades!Stop(p)
  PROVE  HostsInv'
<1>1. IsStart(started[p]) /\ StartTrue(p) /\ glitches \in Nat
      /\ revision \in {0, 17, 18, 19}
  BY DEF HostsInv
<1>2. UNCHANGED <<below, revision, blob, host, outdated, moves>>
  BY DEF Upgrades!Begin, Upgrades!Ask, Upgrades!Look, Upgrades!Stop, Upgrades!table
<1>3. UNCHANGED glitches \/ glitches' = glitches + 1
  BY DEF Upgrades!Begin, Upgrades!Ask, Upgrades!Look, Upgrades!Stop, Upgrades!Fault
<1>4. glitches' \in Nat /\ glitches' >= glitches /\ (glitches' # glitches => glitches' > 0)
  BY <1>1, <1>3
\* The two gates pass a start on.
<1>5. ASSUME NEW x, Upgrades!Passes(p, x), started[p].head # 0,
             started[p].gate = 1 /\ revision = 0 => ~below \/ glitches' > 0,
             started[p].gate # 1 => revision >= 18
      PROVE  HostsInv'
  <2>1. CASE started[p].gate = 1
    <3> DEFINE s == [started[p] EXCEPT !.at = "upgrade"]
    <3>1. Upgrades!Becomes(p, s)
      BY <1>5, <2>1 DEF Upgrades!Passes
    <3>2. IsStart(s) /\ s.at = "upgrade" /\ s.gate = 1 /\ s.head # 0
      BY <1>1, <1>5, <2>1 DEF IsStart
    <3> HIDE DEF s
    <3>3. QED
      BY <3>1, <3>2, <1>2, <1>4, <1>5, <2>1, Proceeds
  <2>2. CASE started[p].gate # 1
    <3> DEFINE s == [started[p] EXCEPT !.at = "up", !.says = x]
    <3>1. Upgrades!Becomes(p, s)
      BY <1>5, <2>2 DEF Upgrades!Passes
    <3>2. IsStart(s) /\ s.at = "up"
      BY <1>1, <1>5 DEF IsStart
    <3> HIDE DEF s
    <3>3. QED
      BY <3>1, <3>2, <1>2, <1>4, <1>5, <2>2, Proceeds
  <2>3. QED
    BY <2>1, <2>2
<1>6. ASSUME Upgrades!Becomes(p, Upgrades!Down) PROVE HostsInv'
  BY <1>6, <1>2, <1>4, Proceeds, DownIsFine DEF Upgrades!Down
<1>7. CASE Upgrades!Begin(p)
  <2>1. PICK head \in {18, 19} :
          Upgrades!Becomes(p, [Upgrades!Down EXCEPT !.at = "ask", !.gate = 1, !.head = head])
    BY <1>7 DEF Upgrades!Begin
  <2> DEFINE s == [Upgrades!Down EXCEPT !.at = "ask", !.gate = 1, !.head = head]
  <2>2. IsStart(s) /\ s.at = "ask" /\ s.gate = 1 /\ s.head # 0
    BY DEF IsStart, Upgrades!Down
  <2>3. Upgrades!Becomes(p, s)
    BY <2>1
  <2> HIDE DEF s
  <2>4. QED
    BY <2>2, <2>3, <1>2, <1>4, Proceeds
<1>8. CASE Upgrades!Stop(p)
  BY <1>6, <1>8 DEF Upgrades!Stop
<1>9. CASE Upgrades!Ask(p)
  <2>0. /\ started[p].at = "ask" /\ started[p].head # 0 /\ started[p].gate # 0
        /\ started[p].gate # 1 => revision >= 18
    BY <1>1, <1>9 DEF Upgrades!Ask, StartTrue, IsStart
  <2>1. CASE below /\ Upgrades!Becomes(p, [started[p] EXCEPT !.at = "decisions",
                                             !.had = Upgrades!Stored # {}])
    <3> DEFINE s == [started[p] EXCEPT !.at = "decisions", !.had = (Upgrades!Stored # {})]
    <3>1. /\ IsStart(s) /\ s.at = "decisions" /\ s.had = (Upgrades!Stored # {})
          /\ s.gate = started[p].gate /\ s.head # 0 /\ s.gate # 0
      BY <1>1, <2>0 DEF IsStart
    <3>2. Upgrades!Becomes(p, s)
      BY <2>1
    <3> HIDE DEF s
    <3>3. s.had => Upgrades!Stored # {}
      BY <3>1, Zenon
    <3>4. QED
      BY <3>1, <3>2, <3>3, <2>0, <1>1, <1>2, <1>4, Proceeds
  <2>2. CASE ~below /\ Upgrades!Passes(p, FALSE)
    BY <2>0, <2>2, <1>5
  <2>3. CASE Upgrades!Fault /\ IF started[p].gate = 1 THEN Upgrades!Passes(p, FALSE)
                               ELSE Upgrades!Becomes(p, Upgrades!Down)
    <3>1. glitches' > 0
      BY <2>3, <1>1 DEF Upgrades!Fault
    <3>2. QED
      BY <3>1, <2>0, <2>3, <1>5, <1>6
  <2>4. QED
    BY <1>9, <2>1, <2>2, <2>3 DEF Upgrades!Ask
<1>10. CASE Upgrades!Look(p)
  <2>0. /\ started[p].at \in {"decisions", "incidents"} /\ started[p].head # 0
        /\ started[p].gate # 0 /\ (started[p].gate # 1 => revision >= 18)
        /\ started[p].at = "decisions" /\ started[p].had => Upgrades!Sees("decisions")
        /\ started[p].at = "incidents" => ~started[p].had
    BY <1>1, <1>10 DEF Upgrades!Look, StartTrue, IsStart, HostsInv, Upgrades!Sees,
       Upgrades!Scope
  <2>1. CASE Upgrades!Sees(started[p].at) /\ Upgrades!Passes(p, TRUE)
    <3>1. revision # 0
      BY <1>1, <2>1 DEF Upgrades!Sees
    <3>2. QED
      BY <3>1, <2>0, <2>1, <1>5
  <2>2. CASE /\ ~Upgrades!Sees("decisions") /\ started[p].at = "decisions"
             /\ Upgrades!Becomes(p, [started[p] EXCEPT !.at = "incidents"])
    <3> DEFINE s == [started[p] EXCEPT !.at = "incidents"]
    <3>1. /\ IsStart(s) /\ s.at = "incidents" /\ s.head # 0 /\ ~s.had
          /\ s.gate = started[p].gate
      BY <1>1, <2>0, <2>2 DEF IsStart
    <3>2. Upgrades!Becomes(p, s)
      BY <2>2
    <3> HIDE DEF s
    <3>3. QED
      BY <3>1, <3>2, <2>0, <1>1, <1>2, <1>4, Proceeds DEF StartTrue
  <2>3. CASE /\ started[p].at = "incidents"
             /\ Upgrades!Becomes(p, [started[p] EXCEPT !.at = "refused"])
    <3> DEFINE s == [started[p] EXCEPT !.at = "refused"]
    <3>1. IsStart(s) /\ s.at = "refused" /\ ~s.had /\ s.gate = started[p].gate
      BY <1>1, <2>0, <2>3 DEF IsStart
    <3>2. Upgrades!Becomes(p, s)
      BY <2>3
    <3> HIDE DEF s
    <3>3. QED
      BY <3>1, <3>2, <1>1, <1>2, <1>4, Proceeds DEF StartTrue
  <2>4. CASE Upgrades!Fault /\ Upgrades!Passes(p, TRUE)
    <3>1. glitches' > 0
      BY <2>4, <1>1 DEF Upgrades!Fault
    <3>2. QED
      BY <3>1, <2>0, <2>4, <1>5
  <2>5. QED
    BY <1>10, <2>0, <2>1, <2>2, <2>3, <2>4 DEF Upgrades!Look, Upgrades!AfterFault
<1>11. QED
  BY <1>7, <1>8, <1>9, <1>10

\* The migrations of a start, from 17 or 18 on or of an empty database.
LEMMA Migrated ==
  ASSUME HostsInv, NEW p \in Procs, NEW r \in Rows,
         started[p].head \in {18, 19}, revision <= started[p].head,
         revision' = started[p].head, blob' = blob, outdated' = outdated,
         host' = [q \in Rows |->
             LET h == IF revision < 18 THEN Upgrades!Backfill(host[q], blob[q]) ELSE host[q] IN
             IF revision < 19 /\ started[p].head = 19
             THEN Upgrades!Renormalise(Upgrades!FillGaps(h, blob[q])) ELSE h]
  PROVE  RowTrue(r)'
<1> DEFINE n == blob[r]
           h == IF revision < 18 THEN Upgrades!Backfill(host[r], blob[r]) ELSE host[r]
<1>1. RowTrue(r) /\ revision \in {0, 17, 18, 19}
  BY DEF HostsInv
<1>2. Upgrades!IsName(n)
  <2>1. n \in Said \/ n = Upgrades!NoRow
    BY DEF HostsInv
  <2>2. QED
    BY <2>1, StoreAssumption DEF Upgrades!NamesAssumption, Upgrades!IsName, Upgrades!NoRow
<1>3. revision < 19 => Near(h, n)
  <2>1. CASE revision < 18
    BY <1>1, <2>1 DEF RowTrue, Near, Upgrades!Backfill
  <2>2. CASE revision = 18
    BY <1>1, <2>2 DEF RowTrue
  <2>3. QED
    BY <1>1, <2>1, <2>2
<1>4. host'[r] = IF revision < 19 /\ started[p].head = 19
                 THEN Upgrades!Renormalise(Upgrades!FillGaps(h, n)) ELSE h
  OBVIOUS
<1>5. n = Upgrades!NoRow => h = Upgrades!NullName
  BY <1>1 DEF RowTrue, Upgrades!Backfill
<1>6. n = Upgrades!NoRow =>
        Upgrades!Renormalise(Upgrades!FillGaps(h, n)) = Upgrades!NullName
  BY <1>5 DEF Upgrades!Renormalise, Upgrades!FillGaps, Upgrades!OrNull,
     Upgrades!BtrimAll, Upgrades!Trims, Upgrades!NullName, Upgrades!Placeholder
<1> HIDE DEF h
<1>7. CASE revision = 19
  BY <1>1, <1>4, <1>7 DEF RowTrue, h
<1>8. CASE revision < 19 /\ started[p].head = 19
  <2>1. n.edge # "odd" /\ n # Upgrades!NoRow => host'[r] = Upgrades!Coerce(n)
    BY <1>2, <1>3, <1>4, <1>8, Named19
  <2>2. n = Upgrades!NoRow => host'[r] = Upgrades!NullName
    BY <1>4, <1>6, <1>8
  <2>3. QED
    BY <2>1, <2>2, <1>8 DEF RowTrue
<1>9. CASE revision < 19 /\ started[p].head = 18
  BY <1>3, <1>4, <1>5, <1>9 DEF RowTrue
<1>10. QED
  BY <1>1, <1>7, <1>8, <1>9

LEMMA UpgradeStep == ASSUME HostsInv, NEW p \in Procs, Upgrades!Upgrade(p) PROVE HostsInv'
<1>1. /\ IsStart(started[p]) /\ StartTrue(p) /\ started[p].at = "upgrade"
      /\ glitches \in Nat /\ revision \in {0, 17, 18, 19}
  BY DEF HostsInv, Upgrades!Upgrade
<1>2. CASE Upgrades!Becomes(p, Upgrades!Down) /\ UNCHANGED <<revision, host>>
  <2>1. UNCHANGED <<below, revision, blob, host, outdated, moves>>
    BY <1>2 DEF Upgrades!Upgrade
  <2>2. glitches' \in Nat /\ glitches' >= glitches
    BY <1>1 DEF Upgrades!Upgrade, Upgrades!Fault
  <2>3. QED
    BY <1>2, <2>1, <2>2, DownIsFine, Proceeds
<1>3. CASE /\ revision <= started[p].head /\ revision' = started[p].head
           /\ host' = [r \in Rows |->
                LET h == IF revision < 18 THEN Upgrades!Backfill(host[r], blob[r])
                         ELSE host[r] IN
                IF revision < 19 /\ started[p].head = 19
                THEN Upgrades!Renormalise(Upgrades!FillGaps(h, blob[r])) ELSE h]
           /\ Upgrades!Becomes(p, [started[p] EXCEPT !.at = "ask", !.gate = 2])
           /\ UNCHANGED glitches
  <2> DEFINE s == [started[p] EXCEPT !.at = "ask", !.gate = 2]
  <2>1. /\ started[p].head \in {18, 19} /\ IsStart(s) /\ s.at = "ask" /\ s.gate = 2
        /\ s.head = started[p].head
    BY <1>1 DEF StartTrue, IsStart
  <2>2. /\ UNCHANGED <<below, blob, outdated, moves, glitches>>
        /\ started' = [started EXCEPT ![p] = s]
        /\ revision' \in {18, 19} /\ revision' >= revision
    BY <1>1, <1>3, <2>1 DEF Upgrades!Upgrade, Upgrades!Becomes
  <2>3. \A r \in Rows : RowTrue(r)'
    BY <1>3, <2>1, <2>2, Migrated
  <2>4. Upgrades!Stored' = Upgrades!Stored
    BY <2>2 DEF Upgrades!Stored
  <2> HIDE DEF s
  <2>5. \A q \in Procs : IsStart(started'[q]) /\ StartTrue(q)'
    <3>1. TAKE q \in Procs
    <3>2. CASE q = p
      <4>1. started'[q] = s
        BY <2>2, <3>2 DEF HostsInv
      <4>2. QED
        BY <4>1, <2>1, <2>2 DEF StartTrue
    <3>3. CASE q # p
      <4>1. started'[q] = started[q] /\ StartTrue(q) /\ IsStart(started[q])
        BY <2>2, <3>3 DEF HostsInv
      <4>2. QED
        BY <4>1, <1>1, <2>2, <2>4 DEF StartTrue
    <3>4. QED
      BY <3>2, <3>3
  <2>6. host' = [r \in Rows |-> host'[r]] /\ started' = [q \in Procs |-> started'[q]]
    BY <1>3, <2>2 DEF HostsInv
  <2>7. QED
    BY <2>2, <2>3, <2>4, <2>5, <2>6 DEF HostsInv
<1>4. QED
  BY <1>2, <1>3 DEF Upgrades!Upgrade

LEMMA CoercedIsNear == \A n : n # Upgrades!NoRow => Near(Upgrades!Coerce(n), n)
  BY DEF Near, Upgrades!Coerce, Upgrades!NullName

\* A row is written once, by a release that names its host, or by one that does not.
LEMMA SaveStep ==
  ASSUME HostsInv, Upgrades!OldSave \/ \E p \in Procs : Upgrades!Save(p)
  PROVE  HostsInv'
<1>1. PICK r \in Rows \ Upgrades!Stored, n \in Said :
        /\ blob' = [blob EXCEPT ![r] = n]
        /\ \/ /\ revision > 0 /\ UNCHANGED host
              /\ outdated' = IF revision > 17 THEN outdated \cup {r} ELSE outdated
           \/ /\ host' = [host EXCEPT ![r] = Upgrades!Coerce(n)] /\ UNCHANGED outdated
              /\ \E p \in Procs : started[p].at = "up"
  BY DEF Upgrades!OldSave, Upgrades!Save
<1>2. UNCHANGED <<below, revision, started, moves, glitches>>
  BY DEF Upgrades!OldSave, Upgrades!Save
<1>3. /\ revision \in {0, 17, 18, 19} /\ n # Upgrades!NoRow /\ blob[r] = Upgrades!NoRow
      /\ host[r] = Upgrades!NullName /\ (UNCHANGED host \/ revision >= 18) /\ revision > 0
      /\ r \in Rows
  BY <1>1, StoreAssumption DEF HostsInv, RowTrue, StartTrue, Upgrades!Stored,
     Upgrades!NamesAssumption
<1>4. Upgrades!Stored' = Upgrades!Stored \cup {r}
  BY <1>1, <1>3 DEF HostsInv, Upgrades!Stored
<1>5. /\ blob' \in [Rows -> Said \cup {Upgrades!NoRow}]
      /\ host' = [q \in Rows |-> host'[q]]
  BY <1>1 DEF HostsInv
<1>6. \A q \in Rows : RowTrue(q)'
  <2>1. TAKE q \in Rows
  <2>2. CASE q = r
    <3>1. blob'[r] = n
      BY <1>1, <1>3 DEF HostsInv
    <3>2. CASE UNCHANGED host
      <4>1. Near(Upgrades!NullName, n)
        BY DEF Near
      <4>2. revision > 17 /\ ~(\E p \in Procs : host' = [host EXCEPT ![r] = Upgrades!Coerce(n)])
              => r \in outdated'
        BY <1>1
      <4>3. host'[r] = Upgrades!NullName
        BY <1>3, <3>2
      <4>4. r \in outdated' \/ revision < 18 \/ host'[r] = Upgrades!Coerce(n)
        BY <1>1, <1>3 DEF HostsInv
      <4>5. QED
        BY <4>1, <4>3, <4>4, <3>1, <1>2, <1>3, <2>2 DEF RowTrue
    <3>3. CASE ~UNCHANGED host
      <4>1. host'[r] = Upgrades!Coerce(n) /\ revision >= 18
        BY <1>1, <1>3, <3>3 DEF HostsInv
      <4>2. QED
        BY <4>1, <3>1, <1>2, <1>3, <2>2, CoercedIsNear DEF RowTrue
    <3>4. QED
      BY <3>2, <3>3
  <2>3. CASE q # r
    <3>1. /\ RowTrue(q) /\ blob'[q] = blob[q] /\ host'[q] = host[q]
          /\ q \in outdated => q \in outdated'
      BY <1>1, <2>3 DEF HostsInv
    <3>2. QED
      BY <3>1, <1>2 DEF RowTrue
  <2>4. QED
    BY <2>2, <2>3
<1>7. \A q \in Procs : StartTrue(q)'
  BY <1>2, <1>4 DEF HostsInv, StartTrue
<1>8. outdated' \subseteq Upgrades!Stored'
  BY <1>1, <1>4 DEF HostsInv
<1>9. QED
  BY <1>2, <1>3, <1>5, <1>6, <1>7, <1>8 DEF HostsInv

LEMMA MoveStep == ASSUME HostsInv, Upgrades!MoveServer PROVE HostsInv'
<1>1. /\ UNCHANGED <<revision, blob, host, outdated, started, glitches>>
      /\ moves' \in Nat /\ moves' > 0
  BY DEF HostsInv, Upgrades!MoveServer, Upgrades!table
<1>2. Upgrades!Stored' = Upgrades!Stored
  BY <1>1 DEF Upgrades!Stored
<1>3. (\A r \in Rows : RowTrue(r)') /\ \A q \in Procs : StartTrue(q)'
  BY <1>1, <1>2 DEF HostsInv, RowTrue, StartTrue
<1>4. QED
  BY <1>1, <1>2, <1>3 DEF HostsInv

LEMMA HostsNext == HostsInv /\ [Upgrades!Next]_upgradeVars => HostsInv'
<1> SUFFICES ASSUME HostsInv, [Upgrades!Next]_upgradeVars PROVE HostsInv'
  OBVIOUS
<1>1. CASE UNCHANGED upgradeVars
  <2>1. Upgrades!Stored' = Upgrades!Stored
    BY <1>1 DEF upgradeVars, Upgrades!Stored
  <2>2. (\A r \in Rows : RowTrue(r)') /\ \A q \in Procs : StartTrue(q)'
    BY <1>1, <2>1 DEF HostsInv, RowTrue, StartTrue, upgradeVars
  <2>3. QED
    BY <1>1, <2>1, <2>2 DEF HostsInv, upgradeVars
<1>2. CASE Upgrades!Next
  BY <1>2, StartStep, UpgradeStep, SaveStep, MoveStep DEF Upgrades!Next
<1>3. QED
  BY <1>1, <1>2

LEMMA HostsEnough ==
  HostsInv => Upgrades!TypeOK /\ Upgrades!NeverBricked /\ Upgrades!OneNamePerHost
<1> SUFFICES ASSUME HostsInv
    PROVE Upgrades!TypeOK /\ Upgrades!NeverBricked /\ Upgrades!OneNamePerHost
  OBVIOUS
<1>1. Upgrades!TypeOK
  BY DEF HostsInv, IsStart, Upgrades!TypeOK
<1>2. Upgrades!NeverBricked
  BY DEF HostsInv, StartTrue, Upgrades!NeverBricked
<1>3. Upgrades!OneNamePerHost
  BY DEF HostsInv, RowTrue, Upgrades!OneNamePerHost, Upgrades!Stored
<1>4. QED
  BY <1>1, <1>2, <1>3

\* Only Upgrade migrates an empty database, and only Save and Upgrade name a host.
LEMMA NotBelow ==
  HostsInv /\ [Upgrades!Next]_upgradeVars /\ revision = 0 /\ revision' > 0 =>
    ~below \/ glitches > 0 \/ moves > 0
<1> SUFFICES ASSUME HostsInv, [Upgrades!Next]_upgradeVars, revision = 0, revision' > 0
             PROVE  ~below \/ glitches > 0 \/ moves > 0
  OBVIOUS
<1>1. revision' # revision
  OBVIOUS
<1>2. \E p \in Procs : started[p].at = "upgrade"
  BY <1>1 DEF upgradeVars, Upgrades!Next, Upgrades!Begin, Upgrades!Ask, Upgrades!Look,
     Upgrades!Upgrade, Upgrades!Save, Upgrades!Stop, Upgrades!OldSave, Upgrades!MoveServer
<1>3. QED
  BY <1>2 DEF HostsInv, StartTrue

LEMMA GoodNamesStay ==
  HostsInv /\ [Upgrades!Next]_upgradeVars =>
    \A r \in Rows : /\ host[r] # Upgrades!NullName /\ host[r].edge = "clean"
                    /\ host[r] # Upgrades!Placeholder
      => host'[r] = host[r]
<1> SUFFICES ASSUME HostsInv, [Upgrades!Next]_upgradeVars, NEW r \in Rows,
                    host[r] # Upgrades!NullName, host[r].edge = "clean",
                    host[r] # Upgrades!Placeholder
             PROVE  host'[r] = host[r]
  OBVIOUS
<1>1. CASE UNCHANGED host
  BY <1>1
<1>2. CASE \E p \in Procs : Upgrades!Save(p)
  <2>1. PICK q \in Rows \ Upgrades!Stored, n \in Said :
          host' = [host EXCEPT ![q] = Upgrades!Coerce(n)]
    BY <1>2 DEF Upgrades!Save
  <2>2. q # r
    BY <2>1 DEF HostsInv, RowTrue, Upgrades!Stored
  <2>3. QED
    BY <2>1, <2>2 DEF HostsInv
<1>3. CASE ~UNCHANGED host /\ \E p \in Procs : Upgrades!Upgrade(p)
  <2>1. /\ Upgrades!Backfill(host[r], blob[r]) = host[r]
        /\ Upgrades!FillGaps(host[r], blob[r]) = host[r]
        /\ Upgrades!Renormalise(host[r]) = host[r]
    BY DEF Upgrades!Backfill, Upgrades!FillGaps, Upgrades!Renormalise, Upgrades!OrNull,
       Upgrades!BtrimAll, Upgrades!Trims
  <2>2. QED
    BY <1>3, <2>1 DEF Upgrades!Upgrade
<1>4. QED
  BY <1>1, <1>2, <1>3 DEF upgradeVars, Upgrades!Next, Upgrades!Begin, Upgrades!Ask,
     Upgrades!Look, Upgrades!Stop, Upgrades!OldSave, Upgrades!MoveServer, Upgrades!table

-----------------------------------------------------------------------------
(* What alerts are told of their hosts: the inventory.                     *)

Tiers == {Inventory!Unlisted, Inventory!Unknown, Inventory!Critical}
IsJob(j) ==
  /\ DOMAIN j = {"at", "tenant", "got", "fresh"}
  /\ j.tenant \in Tenants /\ j.got \in [Hosts -> Tiers]
  /\ j.at = "keep" /\ j.fresh => j.got = inventory[j.tenant]
\* What was not changed since it was kept is in the slice, and a load that failed
\* is known until the next one succeeds.
AssetsInv ==
  /\ inventory \in [Tenants -> [Hosts -> Tiers]] /\ slice \in [Tenants -> [Hosts -> Tiers]]
  /\ failed \subseteq Tenants /\ cooling \subseteq Tenants /\ lost \subseteq failed
  /\ job = [th \in Loaders |-> job[th]] /\ \A th \in Loaders : IsJob(job[th])
  /\ \A t \in Tenants \ behind : inventory[t] # Inventory!Nowhere => slice[t] = inventory[t]

LEMMA NowhereIs == Inventory!Nowhere \in [Hosts -> Tiers] /\ IsJob(Inventory!Idle)
  /\ Inventory!Idle.at = "idle"
  BY ProcessAssumption DEF Inventory!AssetsAssumption, Inventory!Nowhere, Tiers, IsJob,
     Inventory!Idle

LEMMA AssetsInit == Inventory!Init => AssetsInv
<1> SUFFICES ASSUME Inventory!Init PROVE AssetsInv
  OBVIOUS
<1>1. inventory \in [Tenants -> [Hosts -> Tiers]] /\ slice \in [Tenants -> [Hosts -> Tiers]]
  BY NowhereIs DEF Inventory!Init, Tiers
<1>2. \A th \in Loaders : job[th] = Inventory!Idle
                          \/ job[th] = [Inventory!Idle EXCEPT !.at = "read"]
  BY DEF Inventory!Init
<1>3. IsJob([Inventory!Idle EXCEPT !.at = "read"])
  BY NowhereIs DEF IsJob
<1>4. job = [th \in Loaders |-> job[th]]
  BY DEF Inventory!Init
<1>5. \A th \in Loaders : IsJob(job[th])
  BY <1>2, <1>3, NowhereIs
<1>6. QED
  BY <1>1, <1>4, <1>5 DEF AssetsInv, Inventory!Init

LEMMA EditStep ==
  ASSUME AssetsInv, NEW t \in Tenants, NEW new \in [Hosts -> Tiers], Inventory!Edited(t, new)
  PROVE  AssetsInv'
<1>1. /\ inventory' = [inventory EXCEPT ![t] = new] /\ inventory'[t] = new
      /\ \A x \in Tenants \ {t} : inventory'[x] = inventory[x]
      /\ inventory' \in [Tenants -> [Hosts -> Tiers]]
      /\ UNCHANGED <<slice, failed, cooling, lost>>
  BY DEF Inventory!Edited, AssetsInv
<1>2. \A th \in Loaders : IsJob(job[th])'
  <2>1. TAKE th \in Loaders
  <2>2. IsJob(job[th])
    BY DEF AssetsInv
  <2>3. CASE job[th].at = "keep" /\ job[th].tenant = t /\ new # inventory[t]
    <3>1. job'[th] = [job[th] EXCEPT !.fresh = FALSE]
      BY <2>3 DEF Inventory!Edited
    <3>2. QED
      BY <2>2, <3>1 DEF IsJob
  <2>4. CASE ~(job[th].at = "keep" /\ job[th].tenant = t /\ new # inventory[t])
    <3>1. job'[th] = job[th]
      BY <2>4 DEF Inventory!Edited
    <3>2. QED
      BY <2>2, <2>4, <3>1, <1>1 DEF IsJob
  <2>5. QED
    BY <2>3, <2>4
<1>3. \A x \in Tenants \ behind' : inventory'[x] # Inventory!Nowhere => slice'[x] = inventory'[x]
  <2>1. behind' = IF new = inventory[t] THEN behind ELSE behind \cup {t}
    BY DEF Inventory!Edited
  <2>2. QED
    BY <2>1, <1>1 DEF AssetsInv
<1>4. job' = [th \in Loaders |-> job'[th]]
  BY DEF Inventory!Edited
<1>5. QED
  BY <1>1, <1>2, <1>3, <1>4 DEF AssetsInv

\* A thread goes on with its load; the rows stay.
LEMMA JobSet ==
  ASSUME AssetsInv, NEW th \in Loaders, NEW j, IsJob(j), job' = [job EXCEPT ![th] = j],
         UNCHANGED inventory
  PROVE  job' = [x \in Loaders |-> job'[x]] /\ \A x \in Loaders : IsJob(job[x])'
<1>1. job' = [x \in Loaders |-> job'[x]]
  BY DEF AssetsInv
<1>2. \A x \in Loaders : IsJob(job[x])'
  <2>1. TAKE x \in Loaders
  <2>2. CASE x = th
    <3>1. job'[x] = j
      BY <2>2 DEF AssetsInv
    <3>2. QED
      BY <3>1 DEF IsJob
  <2>3. CASE x # th
    <3>1. job'[x] = job[x] /\ IsJob(job[x])
      BY <2>3 DEF AssetsInv
    <3>2. QED
      BY <3>1 DEF IsJob
  <2>4. QED
    BY <2>2, <2>3
<1>3. QED
  BY <1>1, <1>2

LEMMA BeginLoad ==
  ASSUME AssetsInv, NEW th \in Loaders, NEW t \in Tenants,
         Inventory!AskReload(th, t) \/ Inventory!Heal(th, t)
  PROVE  AssetsInv'
<1> DEFINE j == [Inventory!Idle EXCEPT !.at = "read", !.tenant = t]
<1>1. IsJob(j)
  BY NowhereIs DEF IsJob
<1>2. /\ job' = [job EXCEPT ![th] = j] /\ cooling' \subseteq Tenants
      /\ UNCHANGED <<inventory, slice, failed, lost, behind>>
  BY DEF Inventory!AskReload, Inventory!Heal, Inventory!Begin, AssetsInv
<1> HIDE DEF j
<1>3. QED
  BY <1>1, <1>2, JobSet DEF AssetsInv

LEMMA ReadStep == ASSUME AssetsInv, NEW th \in Loaders, Inventory!Read(th) PROVE AssetsInv'
<1> DEFINE t == job[th].tenant
           j == [job[th] EXCEPT !.at = "keep", !.got = inventory[t]]
<1>1. IsJob(job[th]) /\ t \in Tenants
  BY DEF AssetsInv, IsJob
<1>2. IsJob(j)
  BY <1>1 DEF IsJob, AssetsInv
<1>3. CASE job' = [job EXCEPT ![th] = j] /\ UNCHANGED <<failed, lost>>
  <2>1. UNCHANGED <<inventory, slice, cooling, behind>>
    BY DEF Inventory!Read
  <2> HIDE DEF j
  <2>2. QED
    BY <1>2, <1>3, <2>1, JobSet DEF AssetsInv
<1>4. CASE /\ job' = [job EXCEPT ![th] = Inventory!Idle]
           /\ failed' = failed \cup {t} /\ lost' = lost \cup {t}
  <2>1. UNCHANGED <<inventory, slice, cooling, behind>>
    BY DEF Inventory!Read
  <2>2. failed' \subseteq Tenants /\ lost' \subseteq failed'
    BY <1>1, <1>4 DEF AssetsInv
  <2>3. job' = [x \in Loaders |-> job'[x]] /\ \A x \in Loaders : IsJob(job[x])'
    BY <1>4, <2>1, NowhereIs, JobSet
  <2>4. QED
    BY <2>1, <2>2, <2>3 DEF AssetsInv
<1>5. QED
  BY <1>3, <1>4 DEF Inventory!Read, Inventory!Failing

LEMMA KeepStep == ASSUME AssetsInv, NEW th \in Loaders, Inventory!Keep(th) PROVE AssetsInv'
<1> DEFINE t == job[th].tenant
           got == job[th].got
<1>1. /\ IsJob(job[th]) /\ job[th].at = "keep" /\ t \in Tenants /\ got \in [Hosts -> Tiers]
      /\ job[th].fresh => got = inventory[t]
  BY DEF AssetsInv, IsJob, Inventory!Keep
<1>2. /\ job' = [job EXCEPT ![th] = Inventory!Idle] /\ UNCHANGED <<inventory, cooling>>
      /\ lost' = lost \ {t}
      /\ behind' = IF job[th].fresh THEN behind \ {t} ELSE behind \cup {t}
      /\ IF got = Inventory!Nowhere THEN UNCHANGED <<slice, failed>>
         ELSE slice' = [slice EXCEPT ![t] = got] /\ failed' = failed \ {t}
  BY DEF Inventory!Keep, Inventory!SliceOf
<1>3. job' = [x \in Loaders |-> job'[x]] /\ \A x \in Loaders : IsJob(job[x])'
  BY <1>2, NowhereIs, JobSet
<1>4. /\ slice' \in [Tenants -> [Hosts -> Tiers]]
      /\ failed' \subseteq Tenants /\ lost' \subseteq failed'
  BY <1>1, <1>2 DEF AssetsInv
<1>5. \A x \in Tenants \ behind' : inventory'[x] # Inventory!Nowhere => slice'[x] = inventory'[x]
  <2>1. SUFFICES ASSUME NEW x \in Tenants \ behind', inventory[x] # Inventory!Nowhere
                 PROVE  slice'[x] = inventory[x]
    BY <1>2
  <2>2. CASE x = t
    <3>1. job[th].fresh
      BY <1>2, <2>1, <2>2
    <3>2. got = inventory[t] /\ got # Inventory!Nowhere
      BY <3>1, <1>1, <2>1, <2>2
    <3>3. QED
      BY <3>2, <1>1, <1>2, <2>2 DEF AssetsInv
  <2>3. CASE x # t
    <3>1. x \notin behind /\ slice'[x] = slice[x]
      BY <1>1, <1>2, <2>1, <2>3 DEF AssetsInv
    <3>2. QED
      BY <3>1, <2>1 DEF AssetsInv
  <2>4. QED
    BY <2>2, <2>3
<1>6. QED
  BY <1>2, <1>3, <1>4, <1>5 DEF AssetsInv

LEMMA AssetsNext == AssetsInv /\ [Inventory!Next]_assetVars => AssetsInv'
<1> SUFFICES ASSUME AssetsInv, [Inventory!Next]_assetVars PROVE AssetsInv'
  OBVIOUS
<1>1. CASE UNCHANGED assetVars
  BY <1>1 DEF AssetsInv, IsJob, assetVars
<1>2. ASSUME NEW t \in Tenants, Inventory!Classify(t) \/ Inventory!Discover(t)
      PROVE  AssetsInv'
  <2>1. inventory[t] \in [Hosts -> Tiers]
    BY DEF AssetsInv
  <2>2. CASE Inventory!Classify(t)
    <3>1. PICK h \in Hosts, tier \in Tiers :
            Inventory!Edited(t, [inventory[t] EXCEPT ![h] = tier])
      BY <2>2 DEF Inventory!Classify, Tiers
    <3>2. [inventory[t] EXCEPT ![h] = tier] \in [Hosts -> Tiers]
      BY <2>1
    <3>3. QED
      BY <3>1, <3>2, EditStep
  <2>3. CASE Inventory!Discover(t)
    <3>1. PICK found \in SUBSET Hosts : Inventory!Edited(t, Inventory!Discovered(t, found))
      BY <2>3 DEF Inventory!Discover
    <3>2. Inventory!Discovered(t, found) \in [Hosts -> Tiers]
      BY <2>1 DEF Inventory!Discovered, Tiers
    <3>3. QED
      BY <3>1, <3>2, EditStep
  <2>4. QED
    BY <1>2, <2>2, <2>3
<1>3. ASSUME NEW t \in Tenants, Inventory!CoolsDown(t) PROVE AssetsInv'
  BY <1>3 DEF Inventory!CoolsDown, AssetsInv, IsJob
<1>4. QED
  BY <1>1, <1>2, <1>3, BeginLoad, ReadStep, KeepStep DEF Inventory!Next

LEMMA AssetsEnough ==
  AssetsInv => /\ Inventory!TypeOK /\ Inventory!TrustedIsRecorded /\ Inventory!DoubtIsSaid
               /\ Inventory!DiscoveryAddsOnly /\ Inventory!NoUserIsHidden
<1> SUFFICES ASSUME AssetsInv
    PROVE /\ Inventory!TypeOK /\ Inventory!TrustedIsRecorded /\ Inventory!DoubtIsSaid
          /\ Inventory!DiscoveryAddsOnly /\ Inventory!NoUserIsHidden
  OBVIOUS
<1>1. Inventory!TypeOK
  BY DEF AssetsInv, Inventory!TypeOK, Tiers
<1>2. Inventory!TrustedIsRecorded
  BY DEF AssetsInv, Inventory!TrustedIsRecorded, Inventory!Tier, Inventory!Found,
     Inventory!ByPattern, Inventory!SliceOf
<1>3. Inventory!DoubtIsSaid
  <2>1. SUFFICES ASSUME NEW t \in Tenants, NEW h \in Hosts, Inventory!Trusted(t, h),
                        h \notin Patterned
                 PROVE  /\ t \notin lost
                        /\ slice[t] # Inventory!Nowhere \/ shared # Inventory!Nowhere
    BY DEF Inventory!DoubtIsSaid
  <2>2. /\ t \notin failed
        /\ \/ Inventory!Found(t, h) # Inventory!Unlisted
           \/ slice[t] # Inventory!Nowhere \/ shared # Inventory!Nowhere
    BY <2>1 DEF Inventory!Trusted, Inventory!ByPattern, Inventory!SliceOf
  <2>3. Inventory!Nowhere[h] = Inventory!Unlisted
    BY DEF Inventory!Nowhere
  <2>4. QED
    BY <2>2, <2>3 DEF AssetsInv, Inventory!Found, Inventory!SliceOf
<1>4. Inventory!DiscoveryAddsOnly
  BY DEF Inventory!DiscoveryAddsOnly, Inventory!Discovered
<1>5. Inventory!NoUserIsHidden
  BY DEF Inventory!NoUserIsHidden, Inventory!UserRisk, Inventory!WithUser,
     Inventory!WithStranger, Inventory!Multipliers, Inventory!Stranger
<1>6. QED
  BY <1>1, <1>2, <1>3, <1>4, <1>5

-----------------------------------------------------------------------------
(* What alerts are told of their hosts: vulnerabilities and integrity.     *)

First1 == Context!Sources[1]
Second2 == Context!Sources[2]
IsResult(x) ==
  /\ DOMAIN x = {"found", "missed", "old"} /\ x.found \subseteq Context!Kinds
IsWork(w) == DOMAIN w = {"at", "tenant", "agent", "scoped", "result"}
\* What there is to be found of an agent.
Truth(a) == IF a \in mapped THEN posture[a] ELSE posture[a] \ {"cve"}
Own(x, t, a) == x.found # {} => Enrolled[a] = t
Complete(x, t, a) ==
  t # Nobody /\ Enrolled[a] = t /\ ~x.old /\ "all" \notin x.missed =>
    x.found = Truth(a) \ x.missed

EntryTrue(t, a) ==
  kept[<<t, a>>] = Context!None
  \/ /\ IsResult(kept[<<t, a>>]) /\ kept[<<t, a>>].missed \subseteq Context!Kinds
     /\ Own(kept[<<t, a>>], t, a) /\ Complete(kept[<<t, a>>], t, a)
AtScope(w) ==
  /\ w.tenant \in Tenants /\ look = "vuln" /\ ~w.scoped
  /\ w.result.found = {} /\ w.result.missed = {}
AtFirst(w) ==
  /\ w.tenant \in Tenants /\ w.result.found = {} /\ w.result.missed \subseteq {First1}
  /\ w.scoped => look = "vuln" /\ Enrolled[w.agent] = w.tenant
  /\ look # "vuln" => w.result.missed = {}
  /\ look = "vuln" /\ w.result.missed = {} /\ ~w.result.old =>
       (w.scoped <=> w.agent \in mapped /\ Enrolled[w.agent] = w.tenant)
  /\ w.result.missed # {} => ~w.scoped
AtSecond(w) ==
  /\ w.tenant \in Tenants /\ w.result.missed \subseteq {First1}
  /\ Own(w.result, w.tenant, w.agent)
  /\ Enrolled[w.agent] = w.tenant /\ ~w.result.old =>
       w.result.found = (Truth(w.agent) \cap {First1}) \ w.result.missed
WorkTrue(w) ==
  /\ IsWork(w)
  /\ w.at = "idle"
     \/ /\ w.agent \in Agents /\ w.tenant \in Tenants \cup {Nobody} /\ IsResult(w.result)
        /\ \/ w.at = "scope" /\ AtScope(w)
           \/ w.at = "first" /\ AtFirst(w)
           \/ w.at = "second" /\ AtSecond(w)
           \/ w.at = "told" /\ Own(w.result, w.tenant, w.agent)
                            /\ Complete(w.result, w.tenant, w.agent)
ContextInv ==
  /\ look \in {"vuln", "integrity"} /\ mapped \subseteq Agents
  /\ posture = [a \in Agents |-> posture[a]] /\ \A a \in Agents : posture[a] \subseteq Context!Kinds
  /\ kept = [k \in Tenants \X Agents |-> kept[k]]
  /\ \A t \in Tenants, a \in Agents : EntryTrue(t, a)
  /\ work = [th \in Loaders |-> work[th]] /\ \A th \in Loaders : WorkTrue(work[th])

LEMMA SourcesAre ==
  ContextInv =>
    /\ Context!Kinds = {First1, Second2} /\ First1 # Second2 /\ Second2 # "cve"
    /\ First1 = "cve" <=> look = "vuln"
    /\ Context!Kinds \subseteq {"cve", "sca", "rootcheck", "fim"}
  BY DEF ContextInv, Context!Kinds, Context!Sources, First1, Second2

LEMMA IdleIs == WorkTrue(Context!Idle) /\ Context!Idle.at = "idle" /\ IsWork(Context!Idle)
                /\ Context!Idle.scoped = FALSE /\ Context!Idle.result = Context!Nothing
  BY DEF WorkTrue, IsWork, Context!Idle

LEMMA NothingIs ==
  /\ IsResult(Context!Nothing) /\ Context!Nothing.found = {} /\ Context!Nothing.missed = {}
  /\ ~Context!Nothing.old
  BY DEF Context!Nothing, IsResult

LEMMA ContextInit == Context!Init => ContextInv
<1> SUFFICES ASSUME Context!Init PROVE ContextInv
  OBVIOUS
<1>1. /\ kept = [k \in Tenants \X Agents |-> kept[k]]
      /\ \A t \in Tenants, a \in Agents : kept[<<t, a>>] = Context!None
  BY DEF Context!Init
<1>2. \A th \in Loaders : work[th] = Context!Idle
  BY DEF Context!Init
<1>3. work = [th \in Loaders |-> work[th]] /\ posture = [a \in Agents |-> posture[a]]
  BY DEF Context!Init
<1>4. \A a \in Agents : posture[a] \subseteq Context!Kinds
  BY DEF Context!Init
<1>5. QED
  BY <1>1, <1>2, <1>3, <1>4, IdleIs DEF ContextInv, EntryTrue, Context!Init

\* A thread goes on with its alert; hosts and cache stay.
LEMMA WorkSet ==
  ASSUME ContextInv, NEW th \in Loaders, NEW w, WorkTrue(w), work' = [work EXCEPT ![th] = w],
         UNCHANGED <<look, posture, mapped>>, kept' = [k \in Tenants \X Agents |-> kept'[k]],
         \A t \in Tenants, a \in Agents : EntryTrue(t, a)'
  PROVE  ContextInv'
<1>1. work' = [x \in Loaders |-> work'[x]]
  BY DEF ContextInv
<1>2. \A x : WorkTrue(x)' <=> WorkTrue(x)
  BY DEF WorkTrue, IsWork, IsResult, Own, Complete, AtScope, AtFirst, AtSecond, Truth,
     Context!Kinds, Context!Sources, First1
<1>3. \A x \in Loaders : WorkTrue(work'[x])
  BY DEF ContextInv
<1>4. UNCHANGED Context!Kinds
  BY DEF Context!Kinds, Context!Sources
<1>5. QED
  BY <1>1, <1>2, <1>3, <1>4 DEF ContextInv

LEMMA KeptStays ==
  ASSUME ContextInv, UNCHANGED <<look, posture, mapped, kept>>
  PROVE  /\ kept' = [k \in Tenants \X Agents |-> kept'[k]]
         /\ \A t \in Tenants, a \in Agents : EntryTrue(t, a)'
<1>1. Context!Kinds' = Context!Kinds /\ \A a : Truth(a)' = Truth(a)
  BY DEF Context!Kinds, Context!Sources, Truth
<1>2. \A x : IsResult(x)' <=> IsResult(x)
  BY <1>1, Zenon DEF IsResult
<1>3. \A x, t, a : /\ Own(x, t, a)' <=> Own(x, t, a)
                  /\ Complete(x, t, a)' <=> Complete(x, t, a)
  BY <1>1, Zenon DEF Own, Complete
<1>4. \A t \in Tenants, a \in Agents : EntryTrue(t, a)'
  <2> SUFFICES ASSUME NEW t \in Tenants, NEW a \in Agents PROVE EntryTrue(t, a)'
    OBVIOUS
  <2>1. EntryTrue(t, a)
    BY DEF ContextInv
  <2>2. kept' = kept
    OBVIOUS
  <2>3. QED
    BY <1>1, <1>2, <1>3, <2>1, <2>2, Zenon DEF EntryTrue
<1>5. QED
  BY <1>4 DEF ContextInv

\* An answer in which everything was missed is never wrong.
LEMMA AllMissed ==
  ASSUME NEW w, IsWork(w), w.agent \in Agents, w.tenant \in Tenants \cup {Nobody},
         w.at = "told", w.result.found = {}, DOMAIN w.result = {"found", "missed", "old"},
         "all" \in w.result.missed
  PROVE  WorkTrue(w)
  BY DEF WorkTrue, IsResult, Own, Complete

LEMMA BeginWork == ASSUME ContextInv, NEW th \in Loaders, Context!Start(th) PROVE ContextInv'
<1>1. PICK t \in Tenants \cup {Nobody}, a \in Agents :
        LET new == [Context!Idle EXCEPT !.tenant = t, !.agent = a] IN
        \/ work' = [work EXCEPT ![th] = [new EXCEPT !.at = "told", !.result.missed = {"all"}]]
        \/ /\ t # Nobody
           /\ work' = [work EXCEPT ![th] =
                IF kept[<<t, a>>] # Context!None
                THEN [new EXCEPT !.at = "told", !.result = kept[<<t, a>>]]
                ELSE [new EXCEPT !.at = IF look = "vuln" THEN "scope" ELSE "first"]]
  BY DEF Context!Start, Context!Key
<1>2. UNCHANGED <<look, posture, mapped, kept>>
  BY DEF Context!Start
<1> DEFINE new == [Context!Idle EXCEPT !.tenant = t, !.agent = a]
<1>3. /\ IsWork(new) /\ new.tenant = t /\ new.agent = a /\ ~new.scoped
      /\ new.result = Context!Nothing
  BY IdleIs DEF IsWork
<1> HIDE DEF new
<1>4. ASSUME NEW w, WorkTrue(w), work' = [work EXCEPT ![th] = w] PROVE ContextInv'
  BY <1>2, <1>4, KeptStays, WorkSet
<1>5. CASE work' = [work EXCEPT ![th] = [new EXCEPT !.at = "told", !.result.missed = {"all"}]]
  <2> DEFINE w == [new EXCEPT !.at = "told", !.result.missed = {"all"}]
  <2>1. /\ IsWork(w) /\ w.at = "told" /\ w.tenant = t /\ w.agent = a
        /\ w.result = [Context!Nothing EXCEPT !.missed = {"all"}]
    BY <1>3 DEF IsWork
  <2>2. /\ w.result.found = {} /\ DOMAIN w.result = {"found", "missed", "old"}
        /\ "all" \in w.result.missed
    BY <2>1, NothingIs DEF IsResult
  <2> HIDE DEF w
  <2>3. WorkTrue(w)
    BY <2>1, <2>2, AllMissed
  <2>4. QED
    BY <2>3, <1>4, <1>5 DEF w
<1>6. CASE t # Nobody /\ kept[<<t, a>>] # Context!None
           /\ work' = [work EXCEPT ![th] = [new EXCEPT !.at = "told", !.result = kept[<<t, a>>]]]
  <2> DEFINE w == [new EXCEPT !.at = "told", !.result = kept[<<t, a>>]]
  <2>1. /\ IsWork(w) /\ w.at = "told" /\ w.tenant = t /\ w.agent = a
        /\ w.result = kept[<<t, a>>]
    BY <1>3 DEF IsWork
  <2>2. EntryTrue(t, a)
    BY <1>6 DEF ContextInv
  <2> HIDE DEF w
  <2>3. WorkTrue(w)
    BY <2>1, <2>2, <1>6 DEF WorkTrue, EntryTrue
  <2>4. QED
    BY <2>3, <1>4, <1>6 DEF w
<1>7. CASE t # Nobody /\ look = "vuln"
           /\ work' = [work EXCEPT ![th] = [new EXCEPT !.at = "scope"]]
  <2> DEFINE w == [new EXCEPT !.at = "scope"]
  <2>1. /\ IsWork(w) /\ w.at = "scope" /\ w.tenant = t /\ w.agent = a /\ ~w.scoped
        /\ w.result = Context!Nothing
    BY <1>3 DEF IsWork
  <2> HIDE DEF w
  <2>2. WorkTrue(w)
    BY <2>1, <1>7, NothingIs DEF WorkTrue, AtScope
  <2>3. QED
    BY <2>2, <1>4, <1>7 DEF w
<1>8. CASE t # Nobody /\ look # "vuln"
           /\ work' = [work EXCEPT ![th] = [new EXCEPT !.at = "first"]]
  <2> DEFINE w == [new EXCEPT !.at = "first"]
  <2>1. /\ IsWork(w) /\ w.at = "first" /\ w.tenant = t /\ w.agent = a /\ ~w.scoped
        /\ w.result = Context!Nothing
    BY <1>3 DEF IsWork
  <2> HIDE DEF w
  <2>2. WorkTrue(w)
    BY <2>1, <1>8, NothingIs DEF WorkTrue, AtFirst
  <2>3. QED
    BY <2>2, <1>4, <1>8 DEF w
<1>9. QED
  BY <1>1, <1>5, <1>6, <1>7, <1>8 DEF new

LEMMA ScopeStep == ASSUME ContextInv, NEW th \in Loaders, Context!Scope(th) PROVE ContextInv'
<1>1. UNCHANGED <<look, posture, mapped, kept>> /\ work[th].at = "scope"
  BY DEF Context!Scope
<1>2. WorkTrue(work[th])
  BY DEF ContextInv
<1>3. ASSUME NEW w, WorkTrue(w), work' = [work EXCEPT ![th] = w] PROVE ContextInv'
  BY <1>1, <1>3, KeptStays, WorkSet
<1>4. CASE work' = [work EXCEPT ![th].at = "first",
                      ![th].scoped = Context!Allows(work[th].tenant, work[th].agent)]
  <2> DEFINE x == Context!Allows(work[th].tenant, work[th].agent)
             w == [work[th] EXCEPT !.at = "first", !.scoped = x]
  <2>1. /\ IsWork(w) /\ w.at = "first" /\ w.tenant = work[th].tenant
        /\ w.agent = work[th].agent /\ w.scoped = x /\ w.result = work[th].result
    BY <1>2 DEF IsWork, WorkTrue
  <2>2. work' = [work EXCEPT ![th] = w]
    BY <1>4 DEF ContextInv
  <2> HIDE DEF w
  <2>3. w.scoped <=> x
    BY <2>1, Zenon
  <2>4. x <=> work[th].agent \in mapped /\ Enrolled[work[th].agent] = work[th].tenant
    BY DEF Context!Allows
  <2>5. WorkTrue(w)
    BY <1>1, <1>2, <2>1, <2>3, <2>4 DEF WorkTrue, AtScope, AtFirst
  <2>6. QED
    BY <2>2, <2>5, <1>3
<1>5. CASE work' = [work EXCEPT ![th].at = "first",
                      ![th].result = Context!Missed(th, Context!Sources[1])]
  <2> DEFINE x == Context!Missed(th, Context!Sources[1])
             w == [work[th] EXCEPT !.at = "first", !.result = x]
  <2>1. /\ IsWork(w) /\ w.at = "first" /\ w.tenant = work[th].tenant
        /\ w.agent = work[th].agent /\ w.scoped = work[th].scoped /\ w.result = x
    BY <1>2 DEF IsWork, WorkTrue
  <2>2. work' = [work EXCEPT ![th] = w]
    BY <1>5 DEF ContextInv
  <2>3. IsResult(x) /\ x.found = {} /\ x.missed = {First1}
    BY <1>1, <1>2 DEF WorkTrue, AtScope, IsResult, Context!Missed, First1
  <2> HIDE DEF w, x
  <2>4. WorkTrue(w)
    BY <1>1, <1>2, <2>1, <2>3 DEF WorkTrue, AtScope, AtFirst
  <2>5. QED
    BY <2>2, <2>4, <1>3
<1>6. QED
  BY <1>4, <1>5 DEF Context!Scope

\* What the first source says, or is missed of it.
LEMMA FirstStep == ASSUME ContextInv, NEW th \in Loaders, Context!First(th) PROVE ContextInv'
<1>1. UNCHANGED <<look, posture, mapped, kept>> /\ work[th].at = "first"
  BY DEF Context!First
<1>2. WorkTrue(work[th]) /\ AtFirst(work[th]) /\ IsResult(work[th].result)
      /\ work[th].agent \in Agents
  BY <1>1 DEF ContextInv, WorkTrue
<1>3. ASSUME NEW w, WorkTrue(w), work' = [work EXCEPT ![th] = w] PROVE ContextInv'
  BY <1>1, <1>3, KeptStays, WorkSet
<1>4. ASSUME NEW x, IsResult(x), x.old = work[th].result.old, x.missed \subseteq {First1},
             Own(x, work[th].tenant, work[th].agent),
             Enrolled[work[th].agent] = work[th].tenant /\ ~x.old =>
               x.found = (Truth(work[th].agent) \cap {First1}) \ x.missed,
             work' = [work EXCEPT ![th].at = "second", ![th].result = x]
      PROVE  ContextInv'
  <2> DEFINE w == [work[th] EXCEPT !.at = "second", !.result = x]
  <2>1. /\ IsWork(w) /\ w.at = "second" /\ w.tenant = work[th].tenant
        /\ w.agent = work[th].agent /\ w.result = x
    BY <1>2 DEF IsWork, WorkTrue
  <2>2. work' = [work EXCEPT ![th] = w]
    BY <1>4 DEF ContextInv
  <2> HIDE DEF w
  <2>3. WorkTrue(w)
    BY <1>2, <1>4, <2>1 DEF WorkTrue, AtFirst, AtSecond
  <2>4. QED
    BY <2>2, <2>3, <1>3
<1>5. CASE work' = [work EXCEPT ![th].at = "second",
                      ![th].result = Context!Found(th, Context!Sources[1])]
  <2> DEFINE x == Context!Found(th, Context!Sources[1])
  <2>1. /\ DOMAIN x = {"found", "missed", "old"} /\ x.old = work[th].result.old
        /\ x.missed = work[th].result.missed
        /\ x.found = work[th].result.found \cup Context!Says(th, First1)
    BY <1>2 DEF Context!Found, IsResult, First1
  <2>2. x.found = Context!Says(th, First1) /\ x.missed \subseteq {First1}
    BY <2>1, <1>2 DEF AtFirst
  <2> HIDE DEF x
  <2>3. Context!Says(th, First1) \subseteq {First1} /\ IsResult(x)
    BY <2>1, <2>2, SourcesAre DEF Context!Says, IsResult
  <2>4. Own(x, work[th].tenant, work[th].agent)
    BY <2>2, <1>2 DEF Own, Context!Says, AtFirst
  <2>5. ASSUME Enrolled[work[th].agent] = work[th].tenant, ~x.old
        PROVE  x.found = (Truth(work[th].agent) \cap {First1}) \ x.missed
    <3>1. CASE look = "vuln" /\ x.missed = {}
      <4>1. First1 = "cve" /\ (work[th].scoped <=> work[th].agent \in mapped)
        BY <3>1, <2>1, <2>5, <1>2, SourcesAre DEF AtFirst
      <4>2. x.found = IF work[th].scoped THEN posture[work[th].agent] \cap {First1} ELSE {}
        BY <4>1, <2>2 DEF Context!Says
      <4>3. QED
        BY <4>1, <4>2, <3>1 DEF Truth
    <3>2. CASE look = "vuln" /\ x.missed # {}
      <4>1. First1 = "cve" /\ ~work[th].scoped /\ x.missed = {First1}
        BY <3>2, <2>1, <2>2, <1>2, SourcesAre DEF AtFirst
      <4>2. x.found = {}
        BY <4>1, <2>2 DEF Context!Says
      <4>3. QED
        BY <4>1, <4>2
    <3>3. CASE look # "vuln"
      <4>1. First1 # "cve" /\ x.missed = {}
        BY <3>3, <2>1, <1>2, SourcesAre DEF AtFirst
      <4>2. x.found = posture[work[th].agent] \cap {First1}
        BY <4>1, <2>2, <2>5 DEF Context!Says
      <4>3. QED
        BY <4>1, <4>2 DEF Truth
    <3>4. QED
      BY <3>1, <3>2, <3>3
  <2>6. work' = [work EXCEPT ![th].at = "second", ![th].result = x]
    BY <1>5 DEF x
  <2>7. QED
    BY <2>1, <2>2, <2>3, <2>4, <2>5, <2>6, <1>4
<1>6. CASE work' = [work EXCEPT ![th].at = "told",
                      ![th].result = [Context!Nothing EXCEPT !.missed = {"all"}]]
  <2> DEFINE w == [work[th] EXCEPT !.at = "told",
                     !.result = [Context!Nothing EXCEPT !.missed = {"all"}]]
  <2>1. /\ IsWork(w) /\ w.at = "told" /\ w.tenant = work[th].tenant
        /\ w.agent = work[th].agent
        /\ w.result = [Context!Nothing EXCEPT !.missed = {"all"}]
    BY <1>2 DEF IsWork, WorkTrue
  <2>2. /\ w.result.found = {} /\ DOMAIN w.result = {"found", "missed", "old"}
        /\ "all" \in w.result.missed
    BY <2>1, NothingIs DEF IsResult
  <2>3. work' = [work EXCEPT ![th] = w]
    BY <1>6 DEF ContextInv
  <2> HIDE DEF w
  <2>4. WorkTrue(w)
    BY <2>1, <2>2, <1>2, AllMissed DEF AtFirst
  <2>5. QED
    BY <2>3, <2>4, <1>3
<1>7. CASE look # "vuln" /\ work' = [work EXCEPT ![th].at = "second",
                      ![th].result = Context!Missed(th, Context!Sources[1])]
  <2> DEFINE x == Context!Missed(th, Context!Sources[1])
  <2>1. /\ IsResult(x) /\ x.old = work[th].result.old /\ x.found = {}
        /\ x.missed = {First1}
    BY <1>2, <1>7 DEF Context!Missed, IsResult, First1, AtFirst
  <2> HIDE DEF x
  <2>2. Own(x, work[th].tenant, work[th].agent)
    BY <2>1 DEF Own
  <2>3. work' = [work EXCEPT ![th].at = "second", ![th].result = x]
    BY <1>7 DEF x
  <2>4. QED
    BY <2>1, <2>2, <2>3, <1>4
<1>8. QED
  BY <1>5, <1>6, <1>7 DEF Context!First, Context!OnFailedSearch, Context!Degrades

\* What the second source says; the answer is complete, and kept.
LEMMA SecondStep == ASSUME ContextInv, NEW th \in Loaders, Context!Second(th) PROVE ContextInv'
<1> DEFINE t == work[th].tenant
           a == work[th].agent
           r == work[th].result
<1>1. UNCHANGED <<look, posture, mapped>> /\ work[th].at = "second"
  BY DEF Context!Second
<1>2. IsWork(work[th]) /\ AtSecond(work[th]) /\ IsResult(r) /\ a \in Agents /\ t \in Tenants
  BY <1>1 DEF ContextInv, WorkTrue, AtSecond
<1>3. ASSUME NEW x, IsResult(x), x.missed \subseteq Context!Kinds, Own(x, t, a), Complete(x, t, a),
             work' = [work EXCEPT ![th].at = "told", ![th].scoped = FALSE, ![th].result = x],
             kept' = [kept EXCEPT ![<<t, a>>] = x]
      PROVE  ContextInv'
  <2> DEFINE w == [work[th] EXCEPT !.at = "told", !.scoped = FALSE, !.result = x]
  <2>1. IsWork(w) /\ w.at = "told" /\ w.tenant = t /\ w.agent = a /\ w.result = x
    BY <1>2 DEF IsWork
  <2>2. work' = [work EXCEPT ![th] = w]
    BY <1>3 DEF ContextInv
  <2> HIDE DEF w
  <2>3. WorkTrue(w)
    BY <1>2, <1>3, <2>1 DEF WorkTrue
  <2>4. kept' = [k \in Tenants \X Agents |-> kept'[k]]
    BY <1>3 DEF ContextInv
  <2>5. UNCHANGED Context!Kinds
    BY <1>1 DEF Context!Kinds, Context!Sources
  <2>6. \A s \in Tenants, b \in Agents : EntryTrue(s, b)'
    <3>1. TAKE s \in Tenants, b \in Agents
    <3>2. CASE s = t /\ b = a
      <4>1. kept'[<<s, b>>] = x
        BY <1>2, <1>3, <3>2 DEF ContextInv
      <4>2. QED
        BY <4>1, <3>2, <1>1, <1>3, <2>5 DEF EntryTrue, IsResult, Own, Complete, Truth
    <3>3. CASE ~(s = t /\ b = a)
      <4>1. kept'[<<s, b>>] = kept[<<s, b>>] /\ EntryTrue(s, b)
        BY <1>3, <3>3 DEF ContextInv
      <4>2. QED
        BY <4>1, <1>1, <2>5 DEF EntryTrue, IsResult, Own, Complete, Truth, Context!None
    <3>4. QED
      BY <3>2, <3>3
  <2>7. QED
    BY <1>1, <2>2, <2>3, <2>4, <2>6, WorkSet
<1>4. Truth(a) \subseteq {First1, Second2} /\ (Second2 \in Truth(a) <=> Second2 \in posture[a])
  BY <1>2, SourcesAre DEF Truth, ContextInv
<1>5. CASE /\ work' = [work EXCEPT ![th].at = "told", ![th].scoped = FALSE,
                         ![th].result = Context!Found(th, Context!Sources[2])]
           /\ kept' = [kept EXCEPT ![<<t, a>>] = Context!Found(th, Context!Sources[2])]
  <2> DEFINE x == Context!Found(th, Context!Sources[2])
  <2>1. /\ DOMAIN x = {"found", "missed", "old"} /\ x.old = r.old /\ x.missed = r.missed
        /\ x.found = r.found \cup Context!Says(th, Second2)
    BY <1>2 DEF Context!Found, IsResult, Second2
  <2>2. Context!Says(th, Second2) = IF Enrolled[a] = t THEN posture[a] \cap {Second2} ELSE {}
    BY SourcesAre DEF Context!Says
  <2> HIDE DEF x
  <2>3. IsResult(x) /\ x.missed \subseteq Context!Kinds
    BY <2>1, <2>2, <1>2, SourcesAre DEF IsResult, AtSecond
  <2>4. Own(x, t, a)
    BY <2>1, <2>2, <1>2 DEF Own, AtSecond
  <2>5. Complete(x, t, a)
    BY <2>1, <2>2, <1>2, <1>4, SourcesAre DEF Complete, AtSecond
  <2>6. QED
    BY <2>3, <2>4, <2>5, <1>3, <1>5 DEF x
<1>6. CASE /\ work' = [work EXCEPT ![th].at = "told", ![th].scoped = FALSE,
                         ![th].result = Context!Missed(th, Context!Sources[2])]
           /\ kept' = [kept EXCEPT ![<<t, a>>] = Context!Missed(th, Context!Sources[2])]
  <2> DEFINE x == Context!Missed(th, Context!Sources[2])
  <2>1. /\ DOMAIN x = {"found", "missed", "old"} /\ x.old = r.old
        /\ x.missed = r.missed \cup {Second2} /\ x.found = r.found
    BY <1>2 DEF Context!Missed, IsResult, Second2
  <2> HIDE DEF x
  <2>2. IsResult(x) /\ x.missed \subseteq Context!Kinds
    BY <2>1, <1>2, SourcesAre DEF IsResult, AtSecond
  <2>3. Own(x, t, a)
    BY <2>1, <1>2 DEF Own, AtSecond
  <2>4. Complete(x, t, a)
    BY <2>1, <1>2, <1>4, SourcesAre DEF Complete, AtSecond
  <2>5. QED
    BY <2>2, <2>3, <2>4, <1>3, <1>6 DEF x
<1>7. QED
  BY <1>5, <1>6 DEF Context!Second, Context!Key

LEMMA DoneStep == ASSUME ContextInv, NEW th \in Loaders, Context!Done(th) PROVE ContextInv'
<1>1. UNCHANGED <<look, posture, mapped, kept>> /\ work' = [work EXCEPT ![th] = Context!Idle]
  BY DEF Context!Done
<1>2. QED
  BY <1>1, IdleIs, KeptStays, WorkSet

LEMMA ExpireStep == ASSUME ContextInv, NEW k \in DOMAIN kept, Context!Expire(k) PROVE ContextInv'
<1>1. kept' = [kept EXCEPT ![k] = Context!None] /\ UNCHANGED <<look, posture, mapped, work>>
  BY DEF Context!Expire
<1>2. kept' = [q \in Tenants \X Agents |-> kept'[q]] /\ UNCHANGED Context!Kinds
  BY <1>1 DEF ContextInv, Context!Kinds, Context!Sources
<1>3. \A t \in Tenants, a \in Agents : EntryTrue(t, a)'
  <2>1. TAKE t \in Tenants, a \in Agents
  <2>2. kept'[<<t, a>>] \in {kept[<<t, a>>], Context!None} /\ EntryTrue(t, a)
    BY <1>1 DEF ContextInv
  <2>3. QED
    BY <2>2, <1>1, <1>2 DEF EntryTrue, IsResult, Own, Complete, Truth, Context!None
<1>4. \A x : WorkTrue(x)' <=> WorkTrue(x)
  BY <1>1, <1>2 DEF WorkTrue, IsWork, IsResult, Own, Complete, AtScope, AtFirst, AtSecond, Truth,
     Context!Sources, First1
<1>5. QED
  BY <1>1, <1>2, <1>3, <1>4 DEF ContextInv

\* What changes on a host makes what was read of it old.
LEMMA ChangeStep == ASSUME ContextInv, NEW a \in Agents, Context!Change(a) PROVE ContextInv'
<1>1. /\ UNCHANGED look /\ mapped' \subseteq Agents
      /\ posture' = [b \in Agents |-> posture'[b]]
      /\ \A b \in Agents : posture'[b] \subseteq Context!Kinds
      /\ \A b \in Agents \ {a} : posture'[b] = posture[b] /\ (b \in mapped' <=> b \in mapped)
  BY DEF Context!Change, ContextInv
<1>2. UNCHANGED <<Context!Kinds, First1>>
  BY <1>1 DEF Context!Kinds, Context!Sources, First1
<1>3. \A b \in Agents \ {a} : Truth(b)' = Truth(b)
  BY <1>1 DEF Truth
<1>4. kept' = [k \in Tenants \X Agents |-> kept'[k]] /\ work' = [th \in Loaders |-> work'[th]]
  BY DEF Context!Change, Context!Outdated, ContextInv
<1>5. \A t \in Tenants, b \in Agents : EntryTrue(t, b)'
  <2>1. TAKE t \in Tenants, b \in Agents
  <2>2. EntryTrue(t, b) /\ <<t, b>> \in DOMAIN kept
    BY DEF ContextInv
  <2>3. CASE b = a /\ kept[<<t, b>>] # Context!None
    <3>1. kept'[<<t, b>>] = [kept[<<t, b>>] EXCEPT !.old = TRUE]
      BY <2>2, <2>3 DEF Context!Change, Context!Outdated
    <3>2. QED
      BY <3>1, <2>2, <2>3, <1>2 DEF EntryTrue, IsResult, Own, Complete
  <2>4. CASE ~(b = a /\ kept[<<t, b>>] # Context!None)
    <3>1. kept'[<<t, b>>] = kept[<<t, b>>]
      BY <2>2, <2>4 DEF Context!Change, Context!Outdated
    <3>2. QED
      BY <3>1, <2>2, <2>4, <1>2, <1>3 DEF EntryTrue, IsResult, Own, Complete, Context!None
  <2>5. QED
    BY <2>3, <2>4
<1>6. \A th \in Loaders : WorkTrue(work[th])'
  <2>1. TAKE th \in Loaders
  <2>2. WorkTrue(work[th])
    BY DEF ContextInv
  <2>3. CASE work[th].at # "idle" /\ work[th].agent = a
    <3>1. work'[th] = [work[th] EXCEPT !.result.old = TRUE]
      BY <2>3 DEF Context!Change, Context!Outdated
    <3> DEFINE w == [work[th] EXCEPT !.result.old = TRUE]
    <3>2. /\ IsWork(w) /\ w.at = work[th].at /\ w.tenant = work[th].tenant
          /\ w.agent = work[th].agent /\ w.scoped = work[th].scoped
          /\ w.result = [work[th].result EXCEPT !.old = TRUE]
      BY <2>2 DEF WorkTrue, IsWork
    <3>3. /\ IsResult(w.result) /\ w.result.old /\ w.result.found = work[th].result.found
          /\ w.result.missed = work[th].result.missed
      BY <3>2, <2>2, <2>3 DEF WorkTrue, IsResult
    <3> HIDE DEF w
    <3>4. w.scoped <=> work[th].scoped
      BY <3>2, Zenon
    <3>5. ASSUME NEW x, x = w PROVE WorkTrue(x)'
      BY <3>5, <3>2, <3>3, <3>4, <2>2, <2>3, <1>1, <1>2 DEF WorkTrue, IsWork, IsResult, Own,
         Complete, AtScope, AtFirst, AtSecond
    <3>6. work'[th] = w
      BY <3>1 DEF w
    <3>7. QED
      BY <3>5, <3>6
  <2>4. CASE ~(work[th].at # "idle" /\ work[th].agent = a)
    <3>1. work'[th] = work[th]
      BY <2>4 DEF Context!Change, Context!Outdated
    <3>2. QED
      BY <3>1, <2>2, <2>4, <1>1, <1>2, <1>3 DEF WorkTrue, IsWork, IsResult, Own,
         Complete, AtScope, AtFirst, AtSecond
  <2>5. QED
    BY <2>3, <2>4
<1>7. QED
  BY <1>1, <1>2, <1>4, <1>5, <1>6 DEF ContextInv

LEMMA ContextNext == ContextInv /\ [Context!Next]_contextVars => ContextInv'
<1> SUFFICES ASSUME ContextInv, [Context!Next]_contextVars PROVE ContextInv'
  OBVIOUS
<1>1. CASE UNCHANGED contextVars
  <2>1. UNCHANGED <<Context!Kinds, First1>>
    BY <1>1 DEF contextVars, Context!Kinds, Context!Sources, First1
  <2>2. \A t \in Tenants, a \in Agents : EntryTrue(t, a)'
    BY <1>1, <2>1 DEF ContextInv, contextVars, EntryTrue, IsResult, Own, Complete, Truth,
       Context!None
  <2>3. \A th \in Loaders : WorkTrue(work[th])'
    BY <1>1, <2>1 DEF ContextInv, contextVars, WorkTrue, IsWork, IsResult, Own, Complete,
       AtScope, AtFirst, AtSecond, Truth
  <2>4. QED
    BY <1>1, <2>1, <2>2, <2>3 DEF ContextInv, contextVars
<1>2. QED
  BY <1>1, BeginWork, ScopeStep, FirstStep, SecondStep, DoneStep, ExpireStep, ChangeStep
     DEF Context!Next

LEMMA Bounded ==
  ASSUME ContextInv, NEW found \in SUBSET Context!Kinds
  PROVE  Context!Multiplier(found) \in 100..Context!Ceiling
<1>1. CASE look = "vuln"
  BY <1>1 DEF Context!Multiplier, Context!Capped, Context!Product, Context!Ceiling,
     Context!Factor, Context!Sources
<1>2. CASE look = "integrity"
  BY <1>2 DEF Context!Multiplier, Context!Capped, Context!Product, Context!Ceiling,
     Context!Factor, Context!Sources
<1>3. QED
  BY <1>1, <1>2 DEF ContextInv

LEMMA ContextEnough ==
  ContextInv => /\ Context!TypeOK /\ Context!OwnHostsOnly /\ Context!ToldAsItIs
                /\ Context!FailureIsNotKept /\ Context!SharpenedOnly
<1> SUFFICES ASSUME ContextInv
    PROVE /\ Context!TypeOK /\ Context!OwnHostsOnly /\ Context!ToldAsItIs
          /\ Context!FailureIsNotKept /\ Context!SharpenedOnly
  OBVIOUS
<1>1. \A w \in Context!Told :
        /\ w.agent \in Agents /\ w.tenant \in Tenants \cup {Nobody} /\ IsResult(w.result)
        /\ Own(w.result, w.tenant, w.agent) /\ Complete(w.result, w.tenant, w.agent)
  BY DEF ContextInv, WorkTrue, Context!Told
<1>2. Context!TypeOK
  BY <1>1 DEF ContextInv, Context!TypeOK, IsResult
<1>3. Context!OwnHostsOnly /\ Context!ToldAsItIs
  BY <1>1 DEF Context!OwnHostsOnly, Context!ToldAsItIs, Own, Complete, Truth
<1>4. Context!SharpenedOnly
  BY <1>1, Bounded DEF Context!SharpenedOnly, IsResult
<1>5. Context!FailureIsNotKept
  <2>1. SUFFICES ASSUME NEW k \in DOMAIN kept, kept[k] # Context!None
                 PROVE  kept[k].missed \subseteq {"cve", "sca", "rootcheck", "fim"}
    BY DEF Context!FailureIsNotKept
  <2>2. PICK t \in Tenants, a \in Agents : k = <<t, a>>
    BY DEF ContextInv
  <2>3. QED
    BY <2>1, <2>2, SourcesAre DEF ContextInv, EntryTrue
<1>6. QED
  BY <1>2, <1>3, <1>4, <1>5

-----------------------------------------------------------------------------
(* All parts.                                                              *)

\* Each part has its own variables, so each invariant holds whichever part runs;
\* the inventory and the loop are types of a part that is there.
PartsInv ==
  /\ part = "loop" => TypeOK
  /\ LifeInv /\ NamesInv /\ HostsInv /\ ContextInv
  /\ part = "assets" => AssetsInv

LEMMA PartsHold == AllSpec => []PartsInv
<1>1. AllInit => PartsInv
  BY TypeInit, LifeInit, NamesInit, HostsInit, ContextInit, AssetsInit DEF AllInit, PartsInv
<1>2. PartsInv /\ [AllNext]_allVars => PartsInv'
  <2> SUFFICES ASSUME PartsInv, [AllNext]_allVars PROVE PartsInv'
    OBVIOUS
  <2>1. part' = part
    BY PartsMove
  <2>2. part = "loop" => TypeOK'
    <3>1. [Next]_vars
      BY PartsMove
    <3>2. QED
      BY <3>1, TypeNext DEF PartsInv
  <2>3. LifeInv'
    <3>1. [Service!Next]_lifeVars
      BY PartsMove
    <3>2. QED
      BY <3>1, LifeNext DEF PartsInv
  <2>4. NamesInv'
    <3>1. [Names!Next]_nameVars
      BY PartsMove
    <3>2. QED
      BY <3>1, NamesNext DEF PartsInv
  <2>5. HostsInv'
    <3>1. [Upgrades!Next]_upgradeVars
      BY PartsMove
    <3>2. QED
      BY <3>1, HostsNext DEF PartsInv
  <2>6. ContextInv'
    <3>1. [Context!Next]_contextVars
      BY PartsMove
    <3>2. QED
      BY <3>1, ContextNext DEF PartsInv
  <2>7. part = "assets" => AssetsInv'
    <3>1. [Inventory!Next]_assetVars
      BY PartsMove
    <3>2. QED
      BY <3>1, AssetsNext DEF PartsInv
  <2>8. QED
    BY <2>1, <2>2, <2>3, <2>4, <2>5, <2>6, <2>7 DEF PartsInv
<1>3. QED
  BY <1>1, <1>2, PTL DEF AllSpec

\* A process goes on for one interval after its licence lapsed and no longer, ends
\* with nothing in hand, and opens no gate beyond its tier (main.py:1087, 2087,
\* licensing.py:470); what it sends to a model names nothing that the alert names
\* or the tenant stored, under one name that can be restored (anonymizer.py:360,
\* 470, 525, 621); and what it tells of a host is the tenant's own, and so
\* (enrichers/__init__.py:174, 235, 355, 1266, 1489).
THEOREM ProcessIsSound == AllSpec => []ProcessHolds
<1>1. PartsInv => ProcessHolds
  BY LifeEnough, GatesStay, NamesEnough, AssetsEnough, ContextEnough
     DEF PartsInv, ProcessHolds, LifeHolds, NamesHold, ContextHolds
<1>2. QED
  BY <1>1, PartsHold, PTL

\* Every statement runs for its own tenant, a block is durable together or not at
\* all, no thread finds the pool empty or shares a session (store.py:1161, 1556,
\* 1754); no start is refused that has something to lose, nothing is migrated into
\* a database of an unsupported server (pg_version.py:329, main.py:2104), and a
\* host has one name, which stays (0019_backfill_host_pg14.py:17).
THEOREM StoreIsSound == AllSpec => StoreHolds
<1>1. AllSpec => []ConnectionsHold
  <2>1. PartsInv /\ (/\ Conns!TypeOK /\ Conns!RunsAsCaller /\ Conns!StoredTogether
                     /\ Conns!PoolSuffices /\ Conns!NotShared) => ConnectionsHold
    BY DEF PartsInv, ConnectionsHold
  <2>2. QED
    BY <2>1, PartsHold, SessionsHold, PTL
<1>2. AllSpec => [](part = "hosts" => /\ Upgrades!TypeOK /\ Upgrades!NeverBricked
                                       /\ Upgrades!OneNamePerHost)
  <2>1. PartsInv => (part = "hosts" => /\ Upgrades!TypeOK /\ Upgrades!NeverBricked
                                        /\ Upgrades!OneNamePerHost)
    BY HostsEnough DEF PartsInv
  <2>2. QED
    BY <2>1, PartsHold, PTL
<1>3. AllSpec => Upgrades!NothingMigratedBelow
  <2>1. PartsInv /\ [AllNext]_allVars =>
          [revision = 0 /\ revision' > 0 => ~below \/ glitches > 0 \/ moves > 0]_upgradeVars
    <3> SUFFICES ASSUME PartsInv, [AllNext]_allVars
        PROVE (revision = 0 /\ revision' > 0 => ~below \/ glitches > 0 \/ moves > 0)
      OBVIOUS
    <3>1. HostsInv /\ [Upgrades!Next]_upgradeVars
      BY PartsMove DEF PartsInv
    <3>2. QED
      BY <3>1, NotBelow
  <2>2. QED
    BY <2>1, PartsHold, PTL DEF AllSpec, Upgrades!NothingMigratedBelow, Upgrades!hostVars,
       upgradeVars
<1>4. AllSpec => Upgrades!NamesStay
  <2>1. PartsInv /\ [AllNext]_allVars =>
          [\A r \in Rows : host[r] # Upgrades!NullName /\ host[r].edge = "clean"
                          /\ host[r] # Upgrades!Placeholder
             => host'[r] = host[r]]_upgradeVars
    <3> SUFFICES ASSUME PartsInv, [AllNext]_allVars
        PROVE \A r \in Rows : host[r] # Upgrades!NullName /\ host[r].edge = "clean"
                             /\ host[r] # Upgrades!Placeholder
                => host'[r] = host[r]
      OBVIOUS
    <3>1. HostsInv /\ [Upgrades!Next]_upgradeVars
      BY PartsMove DEF PartsInv
    <3>2. QED
      BY <3>1, GoodNamesStay
  <2>2. QED
    BY <2>1, PartsHold, PTL DEF AllSpec, Upgrades!NamesStay, Upgrades!hostVars, upgradeVars
<1>5. QED
  BY <1>1, <1>2, <1>3, <1>4 DEF StoreHolds, UpgradesHold
=============================================================================
