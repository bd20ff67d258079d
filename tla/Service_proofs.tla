--------------------------- MODULE Service_proofs ---------------------------
(***************************************************************************)
(* The background work of a process, proved for any number of alerts,      *)
(* workers, incidents and feeds, any length of the queue and of the        *)
(* buffer, and any number of outages and faults: first the dispatcher,     *)
(* then the buffer of enriched alerts and the threat intelligence, then    *)
(* what the run checks of them and, from SlaAnnouncer_proofs, of the       *)
(* announcer.                                                              *)
(***************************************************************************)
EXTENDS MCService, Sequences, FiniteSetTheorems, TLAPS

\* What every item is, wherever it is, apart from what the counters say.
Shape ==
  /\ queue \subseteq Items /\ putting \subseteq Items /\ owed \subseteq Items
  /\ seq \in Nat \ {0}
  /\ inflight \subseteq Alerts
  /\ held \in [Workers -> Items]
  /\ exited \subseteq Workers
  /\ unfinished \in Int /\ signalled \in 0..Cardinality(Workers)
  /\ phase \in {"running", "draining", "signalling", "joining", "stopped"}
  /\ timedOut \in BOOLEAN

\* Sentinels are numbered, are only in the queue, and only once stop() puts
\* them; a worker that left holds nothing.
Places ==
  /\ \A i \in queue : IsSentinel(i) => i = Sentinel(i.seq) /\ i.seq \in 1..signalled
  /\ \A i \in queue \cup putting : ~IsSentinel(i) => i = ItemOf(i.alert, i.seq)
  /\ \A i \in putting \cup owed : ~IsSentinel(i)
  /\ \A i, j \in putting : i = j
  /\ \A w \in Workers : IsSentinel(held[w]) => held[w] = Idle
  /\ \A w \in exited : held[w] = Idle
  /\ phase \in {"running", "draining"} => signalled = 0

\* An alert in flight is one item, in one place.
Copies ==
  /\ putting \cap queue = {}
  /\ \A w \in Workers : held[w] # Idle => held[w] \notin putting \cup queue
  /\ \A v, w \in Workers : held[v] = held[w] /\ held[v] # Idle => v = w
  /\ \A i, j \in InPool : i.alert = j.alert /\ ~IsSentinel(i) => i = j
  /\ \A i \in InPool : ~IsSentinel(i) => i.alert \in inflight
  /\ \A a \in inflight : \E i \in InPool : ~IsSentinel(i) /\ i.alert = a

\* Whatever is submitted after stop() began is a new item.
Owes ==
  /\ \A i \in owed \cup InPool : ~IsSentinel(i) => i.seq < seq
  /\ putting \cap owed = {}
  /\ CleanDrain

LEMMA ItemFacts ==
  /\ \A a \in Alerts, n \in Nat :
       /\ ItemOf(a, n) \in Items /\ ~IsSentinel(ItemOf(a, n))
       /\ ItemOf(a, n).alert = a /\ ItemOf(a, n).seq = n
  /\ \A n \in Nat : Sentinel(n) \in Items /\ IsSentinel(Sentinel(n))
                    /\ Sentinel(n).seq = n
  /\ Idle \in Items /\ IsSentinel(Idle) /\ Idle.seq = 0
  /\ \A i \in Items : ~IsSentinel(i) => i.alert \in Alerts
  /\ \A i, j : i.alert = j.alert => (IsSentinel(i) <=> IsSentinel(j))
  BY DispatcherAssumption DEF ItemOf, Sentinel, Idle, IsSentinel, Items

-----------------------------------------------------------------------------
(* Items and places.                                                       *)

LEMMA ShapeInit == Init => Shape /\ Places /\ Copies /\ Owes
<1> SUFFICES ASSUME Init PROVE Shape /\ Places /\ Copies /\ Owes
  OBVIOUS
<1>1. Cardinality(Workers) \in Nat
  BY DispatcherAssumption, FS_CardinalityType
<1>2. Shape
  <2>1. Idle \in Items
    BY ItemFacts
  <2>2. held \in [Workers -> Items] /\ signalled \in 0..Cardinality(Workers)
    BY <1>1, <2>1 DEF Init
  <2>3. seq \in Nat \ {0} /\ unfinished \in Int
    BY DEF Init
  <2>4. QED
    BY <2>2, <2>3 DEF Init, Shape
<1>3. Places /\ Copies /\ Owes
  BY ItemFacts DEF Init, Places, Copies, Owes, CleanDrain, InPool
<1>4. QED
  BY <1>2, <1>3

LEMMA ShapeNext == Shape /\ Places /\ [Next]_vars => Shape'
<1> SUFFICES ASSUME Shape, Places, [Next]_vars PROVE Shape'
  OBVIOUS
<1> USE ItemFacts DEF Shape
<1>0. Cardinality(Workers) \in Nat
  BY DispatcherAssumption, FS_CardinalityType
<1>1. ASSUME NEW a \in Alerts, Submit(a) PROVE Shape'
  BY <1>1 DEF Submit, stopVars
<1>2. CASE Put
  BY <1>2 DEF Put, stopVars
<1>3. ASSUME NEW w \in Workers, NEW i \in queue, Take(w, i) PROVE Shape'
  BY <1>3 DEF Take, stopVars
<1>4. ASSUME NEW w \in Workers, NEW i \in queue, Exit(w, i) PROVE Shape'
  BY <1>4 DEF Exit, stopVars
<1>5. ASSUME NEW w \in Workers, Finish(w) PROVE Shape'
  BY <1>5 DEF Finish, stopVars
<1>6. CASE BeginStop
  BY <1>6 DEF BeginStop
<1>7. CASE Drained \/ DrainTimesOut
  BY <1>7 DEF Drained, DrainTimesOut
<1>8. CASE Signal
  BY <1>0, <1>8 DEF Signal
<1>9. CASE StartJoining \/ Joined
  BY <1>9 DEF StartJoining, Joined
<1>10. CASE UNCHANGED vars
  BY <1>10 DEF vars, stopVars
<1>11. QED
  BY <1>1, <1>2, <1>3, <1>4, <1>5, <1>6, <1>7, <1>8, <1>9, <1>10
  DEF Next, GetStep, StopStep

LEMMA PlacesNext == Shape /\ Places /\ [Next]_vars => Places'
<1> SUFFICES ASSUME Shape, Places, [Next]_vars PROVE Places'
  OBVIOUS
<1> USE ItemFacts DEF Shape, Places
<1>1. ASSUME NEW a \in Alerts, Submit(a) PROVE Places'
  BY <1>1 DEF Submit, stopVars
<1>2. CASE Put
  BY <1>2 DEF Put, stopVars
<1>3. ASSUME NEW w \in Workers, NEW i \in queue, Take(w, i) PROVE Places'
  BY <1>3 DEF Take, stopVars
<1>4. ASSUME NEW w \in Workers, NEW i \in queue, Exit(w, i) PROVE Places'
  BY <1>4 DEF Exit, stopVars
<1>5. ASSUME NEW w \in Workers, Finish(w) PROVE Places'
  BY <1>5 DEF Finish, stopVars
<1>6. CASE BeginStop
  BY <1>6 DEF BeginStop
<1>7. CASE Drained \/ DrainTimesOut
  BY <1>7 DEF Drained, DrainTimesOut
<1>8. CASE Signal
  BY <1>8 DEF Signal
<1>9. CASE StartJoining \/ Joined
  BY <1>9 DEF StartJoining, Joined
<1>10. CASE UNCHANGED vars
  BY <1>10 DEF vars, stopVars
<1>11. QED
  BY <1>1, <1>2, <1>3, <1>4, <1>5, <1>6, <1>7, <1>8, <1>9, <1>10
  DEF Next, GetStep, StopStep

LEMMA CopiesNext == Shape /\ Places /\ Copies /\ [Next]_vars => Copies'
<1> SUFFICES ASSUME Shape, Places, Copies, [Next]_vars PROVE Copies'
  OBVIOUS
<1> USE ItemFacts DEF Shape, Copies, InPool
<1>1. ASSUME NEW a \in Alerts, Submit(a) PROVE Copies'
  BY <1>1 DEF Submit, stopVars
<1>2. CASE Put
  BY <1>2 DEF Put, stopVars, Places
<1>3. ASSUME NEW w \in Workers, NEW i \in queue, Take(w, i) PROVE Copies'
  BY <1>3 DEF Take, stopVars
<1>4. ASSUME NEW w \in Workers, NEW i \in queue, Exit(w, i) PROVE Copies'
  BY <1>4 DEF Exit, stopVars
<1>5. ASSUME NEW w \in Workers, Finish(w) PROVE Copies'
  BY <1>5 DEF Finish, stopVars, Places
<1>6. CASE BeginStop \/ Drained \/ DrainTimesOut \/ StartJoining \/ Joined
  BY <1>6 DEF BeginStop, Drained, DrainTimesOut, StartJoining, Joined
<1>7. CASE Signal
  BY <1>7 DEF Signal, Places
<1>8. CASE UNCHANGED vars
  BY <1>8 DEF vars, stopVars
<1>9. QED
  BY <1>1, <1>2, <1>3, <1>4, <1>5, <1>6, <1>7, <1>8 DEF Next, GetStep, StopStep

-----------------------------------------------------------------------------
(* The counters.                                                           *)

Sentinels == {i \in queue : IsSentinel(i)}

\* The drain waits for `unfinished`; the sentinels in the queue are those put
\* and not yet taken, one for each worker that is still there.
Counts ==
  /\ IsFiniteSet(queue) /\ Cardinality(queue) <= QueueCap
  /\ TasksCounted
  /\ Cardinality(Sentinels) = signalled - Cardinality(exited)
  /\ phase \in {"joining", "stopped"} => signalled = Cardinality(Workers)

LEMMA CountsInit == Init => Counts
<1> SUFFICES ASSUME Init PROVE Counts
  OBVIOUS
<1>1. queue = {} /\ Busy = {} /\ Sentinels = {} /\ exited = {}
  BY DEF Init, Busy, Sentinels
<1>2. QED
  BY <1>1, DispatcherAssumption, FS_EmptySet DEF Init, Counts, TasksCounted

\* Sets of workers, and of sentinels, are finite.
LEMMA Finite ==
  ASSUME Shape, IsFiniteSet(queue)
  PROVE  /\ IsFiniteSet(Busy) /\ Cardinality(Busy) \in Nat
         /\ IsFiniteSet(exited) /\ Cardinality(exited) \in Nat
         /\ IsFiniteSet(Sentinels) /\ Cardinality(Sentinels) \in Nat
         /\ Cardinality(queue) \in Nat /\ Cardinality(Workers) \in Nat
<1>1. Busy \subseteq Workers /\ exited \subseteq Workers /\ Sentinels \subseteq queue
  BY DEF Busy, Shape, Sentinels
<1>2. IsFiniteSet(Busy) /\ IsFiniteSet(exited) /\ IsFiniteSet(Sentinels)
  BY <1>1, DispatcherAssumption, FS_Subset
<1>3. QED
  BY <1>2, DispatcherAssumption, FS_CardinalityType

LEMMA CountsNext == Shape /\ Places /\ Copies /\ Counts /\ [Next]_vars => Counts'
<1> SUFFICES ASSUME Shape, Places, Copies, Counts, [Next]_vars PROVE Counts'
  OBVIOUS
<1> USE ItemFacts, DispatcherAssumption
<1>0. /\ IsFiniteSet(queue) /\ IsFiniteSet(Busy) /\ IsFiniteSet(exited)
      /\ IsFiniteSet(Sentinels)
      /\ {Cardinality(queue), Cardinality(Busy), Cardinality(exited),
          Cardinality(Sentinels), Cardinality(Workers)} \subseteq Nat
  BY Finite DEF Counts
<1>1. ASSUME NEW a \in Alerts, Submit(a) PROVE Counts'
  BY <1>1 DEF Submit, stopVars, Counts, TasksCounted, Busy, Sentinels
<1>2. CASE Put
  <2>1. PICK x \in putting : putting = {x}
    BY <1>2 DEF Put, Places
  <2>2. x \notin queue /\ ~IsSentinel(x) /\ queue' = queue \cup {x}
    BY <1>2, <2>1 DEF Put, Places, Copies
  <2>3. IsFiniteSet(queue') /\ Cardinality(queue') = Cardinality(queue) + 1
    BY <1>0, <2>2, FS_AddElement
  <2>4. Sentinels' = Sentinels /\ Busy' = Busy
    BY <1>2, <2>2 DEF Put, Sentinels, Busy
  <2>5. Cardinality(queue) + 1 <= QueueCap
    BY <1>0, <1>2 DEF Put
  <2>6. QED
    BY <1>0, <1>2, <2>3, <2>4, <2>5 DEF Put, stopVars, Counts, TasksCounted, Shape
<1>3. ASSUME NEW w \in Workers, NEW i \in queue, Take(w, i) PROVE Counts'
  <2>1. IsFiniteSet(queue') /\ Cardinality(queue') = Cardinality(queue) - 1
    BY <1>0, <1>3, FS_RemoveElement DEF Take
  <2>2. Busy' = Busy \cup {w} /\ w \notin Busy
    BY <1>3 DEF Take, Busy, Shape
  <2>3. Cardinality(Busy') = Cardinality(Busy) + 1
    BY <1>0, <2>2, FS_AddElement
  <2>4. Sentinels' = Sentinels
    BY <1>3 DEF Take, Sentinels
  <2>5. QED
    BY <1>0, <1>3, <2>1, <2>3, <2>4 DEF Take, stopVars, Counts, TasksCounted, Shape
<1>4. ASSUME NEW w \in Workers, NEW i \in queue, Exit(w, i) PROVE Counts'
  <2>1. IsFiniteSet(queue') /\ Cardinality(queue') = Cardinality(queue) - 1
    BY <1>0, <1>4, FS_RemoveElement DEF Exit
  <2>2. Busy' = Busy
    BY <1>4 DEF Exit, Busy
  <2>3. Cardinality(exited') = Cardinality(exited) + 1
    BY <1>0, <1>4, FS_AddElement DEF Exit
  <2>4. Sentinels' = Sentinels \ {i} /\ i \in Sentinels
    BY <1>4 DEF Exit, Sentinels
  <2>5. Cardinality(Sentinels') = Cardinality(Sentinels) - 1
    BY <1>0, <2>4, FS_RemoveElement
  <2>6. QED
    BY <1>0, <1>4, <2>1, <2>2, <2>3, <2>5 DEF Exit, stopVars, Counts, TasksCounted, Shape
<1>5. ASSUME NEW w \in Workers, Finish(w) PROVE Counts'
  <2>1. w \in Busy /\ Busy' = Busy \ {w}
    BY <1>5 DEF Finish, Busy, Places, Shape, stopVars
  <2>2. Cardinality(Busy') = Cardinality(Busy) - 1
    BY <1>0, <2>1, FS_RemoveElement
  <2>3. Sentinels' = Sentinels
    BY <1>5 DEF Finish, Sentinels
  <2>4. QED
    BY <1>0, <1>5, <2>2, <2>3 DEF Finish, stopVars, Counts, TasksCounted, Shape
<1>6. CASE BeginStop \/ Drained \/ DrainTimesOut \/ StartJoining \/ Joined
  <2>1. UNCHANGED <<queue, held, exited, unfinished, signalled>>
    BY <1>6 DEF BeginStop, Drained, DrainTimesOut, StartJoining, Joined
  <2>2. phase' \in {"joining", "stopped"} => signalled = Cardinality(Workers)
    BY <1>6 DEF BeginStop, Drained, DrainTimesOut, StartJoining, Joined, Counts
  <2>3. Busy' = Busy /\ Sentinels' = Sentinels
    BY <2>1 DEF Busy, Sentinels
  <2>4. QED
    BY <2>1, <2>2, <2>3 DEF Counts, TasksCounted
<1>7. CASE Signal
  <2> DEFINE x == Sentinel(signalled + 1)
  <2>1. x \notin queue /\ IsSentinel(x)
    BY <1>7 DEF Signal, Places, Shape
  <2>2. IsFiniteSet(queue') /\ Cardinality(queue') = Cardinality(queue) + 1
    BY <1>0, <1>7, <2>1, FS_AddElement DEF Signal
  <2>3. Sentinels' = Sentinels \cup {x} /\ x \notin Sentinels /\ Busy' = Busy
    BY <1>7, <2>1 DEF Signal, Sentinels, Busy
  <2>4. Cardinality(Sentinels') = Cardinality(Sentinels) + 1
    BY <1>0, <2>3, FS_AddElement
  <2>5. Cardinality(queue) + 1 <= QueueCap
    BY <1>0, <1>7 DEF Signal
  <2>6. QED
    BY <1>0, <1>7, <2>2, <2>3, <2>4, <2>5 DEF Signal, Counts, TasksCounted, Shape
<1>8. CASE UNCHANGED vars
  BY <1>8 DEF vars, stopVars, Counts, TasksCounted, Busy, Sentinels
<1>9. QED
  BY <1>1, <1>2, <1>3, <1>4, <1>5, <1>6, <1>7, <1>8 DEF Next, GetStep, StopStep

-----------------------------------------------------------------------------
(* What stop() began with.                                                 *)

LEMMA OwesNext ==
  Shape /\ Places /\ Copies /\ Counts /\ Owes /\ [Next]_vars => Owes'
<1> SUFFICES ASSUME Shape, Places, Copies, Counts, Owes, [Next]_vars PROVE Owes'
  OBVIOUS
<1> USE ItemFacts DEF Shape, Owes, CleanDrain, InPool
<1>1. ASSUME NEW a \in Alerts, Submit(a) PROVE Owes'
  <2> DEFINE x == ItemOf(a, seq)
  <2>1. x.seq = seq /\ x \notin owed
    <3>1. x.seq = seq /\ ~IsSentinel(x)
      OBVIOUS
    <3>2. QED
      BY <3>1
  <2>2. putting' = {x} /\ putting = {} /\ InPool' = InPool \cup {x}
    BY <1>1 DEF Submit
  <2>3. seq' = seq + 1 /\ owed' = owed /\ phase' = phase /\ timedOut' = timedOut
    BY <1>1 DEF Submit, stopVars
  <2>4. \A i \in owed' \cup InPool' : ~IsSentinel(i) => i.seq < seq'
    <3> HIDE DEF x
    <3>1. \A i \in owed \cup InPool : ~IsSentinel(i) => i.seq \in Nat /\ i.seq < seq
      BY DEF Items
    <3>2. QED
      BY <2>1, <2>2, <2>3, <3>1
  <2>5. QED
    BY <2>1, <2>2, <2>3, <2>4
<1>2. CASE Put
  <2>1. InPool' = InPool
    BY <1>2 DEF Put
  <2>2. QED
    BY <1>2, <2>1 DEF Put, stopVars
<1>3. ASSUME NEW w \in Workers, NEW i \in queue, Take(w, i) PROVE Owes'
  BY <1>3 DEF Take, stopVars
<1>4. ASSUME NEW w \in Workers, NEW i \in queue, Exit(w, i) PROVE Owes'
  BY <1>4 DEF Exit, stopVars
<1>5. ASSUME NEW w \in Workers, Finish(w) PROVE Owes'
  BY <1>5 DEF Finish, stopVars, Places
<1>6. CASE BeginStop
  BY <1>6 DEF BeginStop, Copies
<1>7. CASE Drained
  <2>1. queue = {} /\ Busy = {}
    <3>1. /\ IsFiniteSet(queue) /\ IsFiniteSet(Busy)
          /\ Cardinality(queue) \in Nat /\ Cardinality(Busy) \in Nat
      BY Finite DEF Counts
    <3>2. Cardinality(queue) = 0 /\ Cardinality(Busy) = 0
      BY <1>7, <3>1 DEF Drained, Counts, TasksCounted
    <3>3. QED
      BY <3>1, <3>2, FS_EmptySet
  <2>2. \A w \in Workers : held[w] = Idle
    BY <2>1 DEF Busy, Places
  <2>3. QED
    BY <1>7, <2>1, <2>2 DEF Drained, Places
<1>8. CASE DrainTimesOut \/ StartJoining \/ Joined
  BY <1>8 DEF DrainTimesOut, StartJoining, Joined
<1>9. CASE Signal
  BY <1>9 DEF Signal, Places
<1>10. CASE UNCHANGED vars
  BY <1>10 DEF vars, stopVars
<1>11. QED
  BY <1>1, <1>2, <1>3, <1>4, <1>5, <1>6, <1>7, <1>8, <1>9, <1>10
  DEF Next, GetStep, StopStep

-----------------------------------------------------------------------------
(* The theorems.                                                           *)

IInv == Shape /\ Places /\ Copies /\ Counts /\ Owes

LEMMA InvStep == IInv /\ [Next]_vars => IInv'
BY ShapeNext, PlacesNext, CopiesNext, CountsNext, OwesNext DEF IInv

LEMMA TypesEnough == IInv => TypeOK
<1> SUFFICES ASSUME IInv PROVE TypeOK
  OBVIOUS
<1>1. Cardinality(queue) \in Nat /\ Cardinality(Busy) \in Nat
  BY Finite DEF IInv, Counts
<1>2. unfinished \in Nat
  BY <1>1 DEF IInv, Counts, TasksCounted
<1>3. QED
  BY <1>2 DEF IInv, Counts, Shape, TypeOK

LEMMA Invariance == Spec => []IInv
<1>1. Init => IInv
  BY ShapeInit, CountsInit DEF IInv
<1>2. QED
  BY <1>1, InvStep, PTL DEF Spec

\* Every variable keeps its type, and the queue its limit: the counter of
\* unfinished tasks never goes below zero.
THEOREM DispatcherTypes == Spec => []TypeOK
BY TypesEnough, Invariance, PTL

\* The counter queue.join() waits for (triage_dispatcher.py:163) is what is
\* queued plus what is in the workers' hands.
THEOREM DrainCounts == Spec => []TasksCounted
<1>1. IInv => TasksCounted
  BY DEF IInv, Counts
<1>2. QED
  BY <1>1, Invariance, PTL

\* A drain that ended in time left nothing of what it found
\* (triage_dispatcher.py:144).
THEOREM DrainIsClean == Spec => []CleanDrain
<1>1. IInv => CleanDrain
  BY DEF IInv, Owes
<1>2. QED
  BY <1>1, Invariance, PTL

\* After the last sentinel no worker takes an alert: there is a sentinel for
\* each worker that is left, and it sorts first (triage_dispatcher.py:151).
THEOREM StopStops == Spec => NoWorkAfterSentinels
<1>1. IInv /\ [Next]_vars =>
        \A w \in Workers : phase \in {"joining", "stopped"} =>
          held'[w] \in {held[w], Idle}
  <2> SUFFICES ASSUME IInv, [Next]_vars, NEW w \in Workers,
                      phase \in {"joining", "stopped"}
               PROVE  held'[w] \in {held[w], Idle}
    OBVIOUS
  <2>1. ASSUME NEW v \in Workers, NEW i \in queue, Take(v, i) PROVE FALSE
    <3>1. /\ IsFiniteSet(Sentinels) /\ Cardinality(Sentinels) \in Nat
          /\ IsFiniteSet(exited) /\ Cardinality(exited) \in Nat
          /\ Cardinality(Workers) \in Nat
      BY Finite DEF IInv, Counts
    <3>2. Cardinality(exited) # Cardinality(Workers)
      BY <2>1, DispatcherAssumption, FS_Subset DEF Take, IInv, Shape
    <3>3. Cardinality(Sentinels) # 0
      BY <3>1, <3>2 DEF IInv, Counts
    <3>4. PICK j \in Sentinels : TRUE
      BY <3>1, <3>3, FS_EmptySet
    <3>5. j \in queue /\ j # i /\ j.tier = -1
      BY <2>1, <3>4 DEF Sentinels, Take, IInv, Places, Sentinel
    <3>6. i.tier \in {0, 1}
      BY <2>1 DEF Take, IInv, Places, ItemOf
    <3>7. QED
      BY <2>1, <3>5, <3>6 DEF Take, IsTop, Before
  <2>2. QED
    BY <2>1
    DEF Next, GetStep, StopStep, vars, stopVars, Submit, Put, Exit, Finish, BeginStop,
        Drained, DrainTimesOut, Signal, StartJoining, Joined, IInv, Shape
<1>2. QED
  BY <1>1, Invariance, PTL DEF Spec, NoWorkAfterSentinels

-----------------------------------------------------------------------------
(* The pool.                                                               *)

Work == {i \in putting \cup queue : ~IsSentinel(i)}
Waiting == {i.alert : i \in Work}
Working == [w \in Workers |-> held[w].alert]

LEMMA PoolStep ==
  IInv /\ [Next]_vars => [Pool!PoolNext]_(Pool!pool)
<1> SUFFICES ASSUME IInv, [Next]_vars PROVE [Pool!PoolNext]_(Pool!pool)
  OBVIOUS
<1> USE ItemFacts DEF IInv
<1>1. ASSUME UNCHANGED <<Waiting, Working>> PROVE [Pool!PoolNext]_(Pool!pool)
  BY <1>1 DEF Waiting, Working, Work, Pool!pool
<1>2. ASSUME NEW a \in Alerts, Submit(a) PROVE Pool!Accept(a)
  <2>1. a \notin Waiting /\ (\A w \in Workers : a # Working[w])
    <3>1. a \notin inflight /\ a # NoAlert
      BY <1>2, DispatcherAssumption DEF Submit
    <3>2. \A i \in InPool : i.alert = a => FALSE
      BY <3>1 DEF Copies, IsSentinel
    <3>3. QED
      BY <3>2 DEF Waiting, Working, Work, InPool
  <2>2. Work' = Work \cup {ItemOf(a, seq)}
    BY <1>2 DEF Submit, Work, Shape
  <2>3. Waiting' = Waiting \cup {a} /\ Working' = Working
    BY <1>2, <2>2 DEF Submit, Waiting, Working, Shape
  <2>4. QED
    BY <2>1, <2>3 DEF Pool!Accept, Pool!InPool, Waiting, Working, Work
<1>3. CASE Put
  <2>1. Work' = Work
    BY <1>3 DEF Put, Work
  <2>2. Waiting' = Waiting /\ Working' = Working
    BY <1>3, <2>1 DEF Put, Waiting, Working
  <2>3. QED
    BY <1>1, <2>2
<1>4. ASSUME NEW w \in Workers, NEW i \in queue, Take(w, i) PROVE Pool!Take(w, i.alert)
  <2>1. Work' = Work \ {i} /\ i \in Work
    BY <1>4 DEF Take, Work, Copies
  <2>2. \A j \in Work : j.alert = i.alert => j = i
    BY <2>1 DEF Work, Copies, InPool
  <2>3. Waiting' = Waiting \ {i.alert} /\ i.alert \in Waiting
    <3>1. \A x : x \in Waiting' <=> \E j \in Work \ {i} : j.alert = x
      BY <2>1 DEF Waiting
    <3>2. \A x : x \in Waiting <=> \E j \in Work : j.alert = x
      BY DEF Waiting
    <3>3. \A x : x \in Waiting' <=> x \in Waiting /\ x # i.alert
      BY <2>1, <2>2, <3>1, <3>2
    <3>4. i.alert \in Waiting
      BY <2>1, <3>2
    <3>5. Waiting' = Waiting \ {i.alert}
      BY <3>3
    <3>6. QED
      BY <3>4, <3>5
  <2>4. Working[w] = NoAlert /\ Working' = [Working EXCEPT ![w] = i.alert]
    <3>1. held[w] = Idle /\ Idle.alert = NoAlert
      BY <1>4 DEF Take, Idle, Sentinel
    <3>2. held' = [held EXCEPT ![w] = i] /\ held \in [Workers -> Items]
      BY <1>4 DEF Take, Shape
    <3>3. QED
      BY <3>1, <3>2 DEF Working
  <2>5. QED
    BY <2>3, <2>4 DEF Pool!Take, Waiting, Working, Work
<1>5. ASSUME NEW w \in Workers, NEW i \in queue, Exit(w, i)
      PROVE [Pool!PoolNext]_(Pool!pool)
  <2>1. Work' = Work
    BY <1>5 DEF Exit, Work
  <2>2. Waiting' = Waiting /\ Working' = Working
    BY <1>5, <2>1 DEF Exit, Waiting, Working
  <2>3. QED
    BY <1>1, <2>2
<1>6. ASSUME NEW w \in Workers, Finish(w) PROVE Pool!Finished(w)
  <2>1. Working[w] # NoAlert
    BY <1>6 DEF Finish, Working, Places, IsSentinel
  <2>2. Work' = Work
    BY <1>6 DEF Finish, Work, stopVars
  <2>3. Waiting' = Waiting /\ Working' = [Working EXCEPT ![w] = NoAlert]
    BY <1>6, <2>2 DEF Finish, Waiting, Working, Shape, Idle, Sentinel
  <2>4. QED
    BY <2>1, <2>3 DEF Pool!Finished, Waiting, Working, Work
<1>7. CASE BeginStop \/ Drained \/ DrainTimesOut \/ StartJoining \/ Joined
           \/ UNCHANGED vars
  <2>1. UNCHANGED <<putting, queue, held>>
    BY <1>7
    DEF BeginStop, Drained, DrainTimesOut, StartJoining, Joined, vars
  <2>2. QED
    BY <1>1, <2>1 DEF Waiting, Working, Work
<1>8. CASE Signal
  <2>1. Work' = Work
    BY <1>8 DEF Signal, Work, Shape
  <2>2. Waiting' = Waiting /\ Working' = Working
    BY <1>8, <2>1 DEF Signal, Waiting, Working
  <2>3. QED
    BY <1>1, <2>2
<1>9. CASE \E a \in Alerts : Submit(a)
  BY <1>9, <1>2 DEF Pool!PoolNext
<1>10. CASE \E w \in Workers : GetStep(w) \/ Finish(w)
  <2>1. ASSUME NEW w \in Workers, NEW i \in queue, Take(w, i)
        PROVE [Pool!PoolNext]_(Pool!pool)
    <3>1. i \in Items /\ ~IsSentinel(i)
      BY <2>1 DEF Take, Shape
    <3>2. i.alert \in Alerts
      BY <3>1
    <3>3. Pool!Take(w, i.alert)
      BY <2>1, <1>4
    <3>4. QED
      BY <3>2, <3>3 DEF Pool!PoolNext
  <2>2. ASSUME NEW w \in Workers, Finish(w) PROVE [Pool!PoolNext]_(Pool!pool)
    BY <2>2, <1>6 DEF Pool!PoolNext
  <2>3. QED
    BY <1>10, <2>1, <2>2, <1>5 DEF GetStep
<1>11. QED
  BY <1>3, <1>7, <1>8, <1>9, <1>10 DEF Next, StopStep

\* The heap, the blocking put, the in-flight set and the `finally` of the
\* worker loop together are the pool the alert loop relies on
\* (triage_dispatcher.py:209-231 and 273-294).
THEOREM IsPool == Spec => ImplementsPool
<1>1. Init => Pool!PoolInit
  <2> SUFFICES ASSUME Init PROVE Pool!PoolInit
    OBVIOUS
  <2>1. putting \cup queue = {} /\ held = [w \in Workers |-> Idle]
    BY DEF Init
  <2>2. QED
    BY <2>1 DEF Pool!PoolInit, Idle, Sentinel
<1>2. QED
  BY <1>1, PoolStep, Invariance, PTL DEF Spec, ImplementsPool, Pool!PoolSpec

-----------------------------------------------------------------------------
(* The order.                                                              *)

\* Workers take alerts in the order the queue promises
\* (triage_dispatcher.py:44-73): confirmed ones first, then by risk, then in
\* the order they were submitted.
THEOREM UrgentFirst == Spec => MostUrgentFirst
<1>1. ASSUME IInv, [Next]_vars, NEW w \in Workers, held'[w] # held[w], held'[w] # Idle,
             NEW j \in queue \ {held'[w]}
      PROVE  LET a == held'[w].alert  b == j.alert IN
             /\ ~IsSentinel(j)
             /\ b \in Malicious => a \in Malicious
             /\ (a \in Malicious <=> b \in Malicious) =>
                  \/ RiskOf(a) > RiskOf(b)
                  \/ RiskOf(a) = RiskOf(b) /\ held'[w].seq < j.seq
  <2> DEFINE i == held'[w]
  <2>1. IsTop(i) /\ ~IsSentinel(i)
    BY <1>1
    DEF Next, GetStep, StopStep, vars, stopVars, Submit, Put, Take, Exit, Finish,
        BeginStop, Drained, DrainTimesOut, Signal, StartJoining, Joined, IInv, Shape
  <2>2. i \in queue /\ Before(i, j)
    BY <1>1, <2>1 DEF IsTop
  <2>3. i \in Items /\ j \in Items /\ i.alert \in Alerts
    BY <1>1, <2>1, <2>2, ItemFacts DEF IInv, Shape
  <2>4. i = ItemOf(i.alert, i.seq)
    BY <1>1, <2>1, <2>2 DEF IInv, Places
  <2> HIDE DEF i
  <2>5. /\ i.tier = IF i.alert \in Malicious THEN 0 ELSE 1
        /\ i.priority = -RiskOf(i.alert)
    BY <2>4 DEF ItemOf
  <2>6. ~IsSentinel(j)
    <3>1. ASSUME IsSentinel(j) PROVE j.tier = -1
      BY <1>1, <3>1 DEF IInv, Places, Sentinel
    <3>2. QED
      BY <3>1, <2>2, <2>5 DEF Before
  <2>7. j = ItemOf(j.alert, j.seq) /\ j.alert \in Alerts
    BY <1>1, <2>3, <2>6, ItemFacts DEF IInv, Places
  <2>8. /\ j.tier = IF j.alert \in Malicious THEN 0 ELSE 1
        /\ j.priority = -RiskOf(j.alert)
    BY <2>7 DEF ItemOf
  <2>9. RiskOf(i.alert) \in Nat /\ RiskOf(j.alert) \in Nat
    BY <2>3, <2>7, DispatcherAssumption
  <2>10. QED
    BY <2>2, <2>5, <2>6, <2>8, <2>9 DEF Before, i
<1>2. IInv /\ [Next]_vars =>
        \A w \in Workers :
          held'[w] # held[w] /\ held'[w] # Idle =>
            \A j \in queue \ {held'[w]} :
              LET a == held'[w].alert  b == j.alert IN
              /\ ~IsSentinel(j)
              /\ b \in Malicious => a \in Malicious
              /\ (a \in Malicious <=> b \in Malicious) =>
                   \/ RiskOf(a) > RiskOf(b)
                   \/ RiskOf(a) = RiskOf(b) /\ held'[w].seq < j.seq
  BY <1>1
<1>3. QED
  BY <1>2, Invariance, PTL DEF Spec, MostUrgentFirst

-----------------------------------------------------------------------------
(* The buffer of enriched alerts.                                          *)

Elements(s) == {s[i] : i \in 1..Len(s)}
Buffered == Elements(buffer)

\* What is buffered, and by which way an alert may have left.
Kept == todo \cup indexed \cup rejected \cup overflowed \cup popped

BufferShape ==
  /\ Buffer!TypeOK /\ up \in BOOLEAN /\ outages \in Nat /\ raced \in BOOLEAN
  /\ flush \in {"send", "pop"} => head.alert \in Enriched
  /\ flush = "pop" => head.said \in {"ok", "reject"}
  /\ flush = "pop" /\ head.said = "ok" => head.alert \in indexed

\* The alert under way is the oldest one, until another makes room.
HeadTrue ==
  flush \in {"send", "pop"} /\ ~raced => buffer # <<>> /\ Head(buffer) = head.alert

BufferInv ==
  /\ BufferShape /\ HeadTrue
  /\ popped # {} => raced
  /\ Enriched \subseteq Kept \cup Buffered

LEMMA Size == MAX_SIZE \in Nat /\ MAX_SIZE > 0
  BY BufferAssumption DEF Buffer!SizesAssumption

LEMMA HeadAndTail ==
  ASSUME NEW S, NEW s \in Seq(S), s # <<>>
  PROVE  /\ Head(s) \in S /\ Tail(s) \in Seq(S) /\ Len(Tail(s)) = Len(s) - 1
         /\ Len(s) \in Nat /\ Len(s) > 0
         /\ Elements(s) \subseteq Elements(Tail(s)) \cup {Head(s)}
<1>1. /\ Head(s) \in S /\ Tail(s) \in Seq(S) /\ Len(Tail(s)) = Len(s) - 1
      /\ Len(s) \in Nat /\ Len(s) > 0 /\ Head(s) = s[1]
  OBVIOUS
<1>2. ASSUME NEW i \in 1..Len(s), i # 1
      PROVE  \E j \in 1..Len(Tail(s)) : s[i] = Tail(s)[j]
  <2>1. i - 1 \in 1..Len(Tail(s)) /\ Tail(s)[i - 1] = s[i]
    BY <1>1, <1>2
  <2>2. QED
    BY <2>1
<1>3. QED
  BY <1>1, <1>2 DEF Elements

LEMMA Appended ==
  ASSUME NEW S, NEW s \in Seq(S), NEW a \in S
  PROVE  /\ Append(s, a) \in Seq(S) /\ Len(Append(s, a)) = Len(s) + 1 /\ Append(s, a) # <<>>
         /\ s # <<>> => Head(Append(s, a)) = Head(s)
         /\ Elements(s) \cup {a} \subseteq Elements(Append(s, a))
<1>1. /\ Append(s, a) \in Seq(S) /\ Len(Append(s, a)) = Len(s) + 1 /\ Append(s, a) # <<>>
      /\ s # <<>> => Head(Append(s, a)) = Head(s)
      /\ Len(s) \in Nat
  OBVIOUS
<1>2. \A i \in 1..Len(s) : i \in 1..(Len(s) + 1) /\ Append(s, a)[i] = s[i]
  BY <1>1
<1>3. Append(s, a)[Len(s) + 1] = a /\ Len(s) + 1 \in 1..(Len(s) + 1)
  BY <1>1
<1>4. QED
  BY <1>1, <1>2, <1>3 DEF Elements

LEMMA BufferInit == Buffer!Init => BufferInv
<1> SUFFICES ASSUME Buffer!Init PROVE BufferInv
  OBVIOUS
<1>1. BufferShape
  <2>1. up \in BOOLEAN /\ raced \in BOOLEAN
    BY Zenon DEF Buffer!Init
  <2>2. Buffer!TypeOK /\ outages \in Nat /\ flush = "idle"
    BY Size DEF Buffer!Init, Buffer!TypeOK
  <2>3. QED
    BY <2>1, <2>2 DEF BufferShape
<1>2. QED
  BY <1>1 DEF Buffer!Init, BufferInv, HeadTrue, Kept

LEMMA BufferIdle ==
  BufferInv /\ (Buffer!Flips \/ UNCHANGED bufferVars) => BufferInv'
<1> SUFFICES ASSUME BufferInv, Buffer!Flips \/ UNCHANGED bufferVars PROVE BufferInv'
  OBVIOUS
<1>1. UNCHANGED <<todo, buffer, flush, to_try, head, indexed, rejected, overflowed,
                  popped, raced>>
  BY DEF Buffer!Flips, Buffer!job, Buffer!index, bufferVars
<1>2. outages' \in Nat
  BY DEF Buffer!Flips, bufferVars, BufferInv, BufferShape
<1>3. up' \in BOOLEAN
  BY Zenon DEF Buffer!Flips, bufferVars, BufferInv, BufferShape
<1>4. BufferShape'
  BY <1>1, <1>2, <1>3 DEF BufferInv, BufferShape, Buffer!TypeOK
<1>5. QED
  BY <1>1, <1>4 DEF BufferInv, HeadTrue, Kept, Buffered

\* deque.append: the oldest one makes room in a full buffer.
LEMMA BufferAppends ==
  ASSUME BufferInv, NEW a \in Enriched, Buffer!Buffer(a)
  PROVE  /\ buffer' \in Seq(Enriched) /\ Len(buffer') <= MAX_SIZE
         /\ overflowed' \subseteq Enriched /\ overflowed \subseteq overflowed'
         /\ raced' \in BOOLEAN /\ (raced => raced')
         /\ Buffered \cup {a} \subseteq Buffered' \cup overflowed'
         /\ ~raced' /\ flush \in {"send", "pop"} =>
              buffer' # <<>> /\ Head(buffer') = Head(buffer)
<1> DEFINE full == Len(buffer) >= MAX_SIZE
           rest == IF full THEN Tail(buffer) ELSE buffer
<1>1. /\ buffer' = Append(rest, a)
      /\ overflowed' = IF full THEN overflowed \cup {Head(buffer)} ELSE overflowed
  BY DEF Buffer!Buffer
<1>2. buffer \in Seq(Enriched) /\ Len(buffer) \in Nat /\ Len(buffer) <= MAX_SIZE
      /\ overflowed \subseteq Enriched
  BY DEF BufferInv, BufferShape, Buffer!TypeOK
<1>3. full => buffer # <<>>
  BY <1>2, Size
<1>4. /\ rest \in Seq(Enriched) /\ Len(rest) + 1 <= MAX_SIZE /\ Len(rest) \in Nat
      /\ Buffered \subseteq Elements(rest) \cup overflowed'
      /\ overflowed' \subseteq Enriched /\ overflowed \subseteq overflowed'
  <2>1. CASE full
    BY <1>1, <1>2, <1>3, <2>1, HeadAndTail, Size DEF Buffered
  <2>2. CASE ~full
    BY <1>1, <1>2, <2>2, Size DEF Buffered
  <2>3. QED
    BY <2>1, <2>2
<1>5. raced' \in BOOLEAN /\ (raced => raced')
  BY Zenon DEF Buffer!Buffer, BufferInv, BufferShape
<1>6. ~raced' /\ flush \in {"send", "pop"} => ~full /\ ~raced
  BY Zenon DEF Buffer!Buffer
<1>7. ~raced' /\ flush \in {"send", "pop"} => buffer # <<>> /\ rest = buffer
  BY <1>6 DEF BufferInv, HeadTrue
<1> HIDE DEF rest, full
<1>8. /\ buffer' \in Seq(Enriched) /\ Len(buffer') = Len(rest) + 1 /\ buffer' # <<>>
      /\ rest # <<>> => Head(buffer') = Head(rest)
      /\ Elements(rest) \cup {a} \subseteq Buffered'
  BY <1>1, <1>4, Appended DEF Buffered
<1>9. QED
  BY <1>4, <1>5, <1>7, <1>8

LEMMA BufferEnrich ==
  ASSUME BufferInv, NEW a \in Enriched, Buffer!Enrich(a)
  PROVE  BufferInv'
<1>1. /\ todo' = todo \ {a}
      /\ UNCHANGED <<up, outages, flush, to_try, head, rejected, popped>>
  BY DEF Buffer!Enrich, Buffer!job
<1>2. CASE indexed' = indexed \cup {a} /\ UNCHANGED <<buffer, overflowed, raced>>
  <2>1. BufferShape'
    BY <1>1, <1>2 DEF BufferInv, BufferShape, Buffer!TypeOK
  <2>2. HeadTrue' /\ (popped # {} => raced)'
    BY <1>1, <1>2 DEF BufferInv, HeadTrue
  <2>3. (Enriched \subseteq Kept \cup Buffered)'
    BY <1>1, <1>2 DEF BufferInv, Kept, Buffered
  <2>4. QED
    BY <2>1, <2>2, <2>3 DEF BufferInv
<1>3. CASE Buffer!Buffer(a) /\ UNCHANGED indexed
  <2>1. /\ buffer' \in Seq(Enriched) /\ Len(buffer') <= MAX_SIZE
        /\ overflowed' \subseteq Enriched /\ overflowed \subseteq overflowed'
        /\ raced' \in BOOLEAN /\ (raced => raced')
        /\ Buffered \cup {a} \subseteq Buffered' \cup overflowed'
        /\ ~raced' /\ flush \in {"send", "pop"} =>
             buffer' # <<>> /\ Head(buffer') = Head(buffer)
    BY <1>3, BufferAppends
  <2>2. BufferShape'
    BY <1>1, <1>3, <2>1 DEF BufferInv, BufferShape, Buffer!TypeOK
  <2>3. HeadTrue' /\ (popped # {} => raced)'
    BY <1>1, <2>1 DEF BufferInv, HeadTrue
  <2>4. (Enriched \subseteq Kept \cup Buffered)'
    BY <1>1, <1>3, <2>1 DEF BufferInv, Kept
  <2>5. QED
    BY <2>2, <2>3, <2>4 DEF BufferInv
<1>4. QED
  BY <1>2, <1>3 DEF Buffer!Enrich

LEMMA BufferBegin == BufferInv /\ Buffer!BeginFlush => BufferInv'
<1> SUFFICES ASSUME BufferInv, Buffer!BeginFlush PROVE BufferInv'
  OBVIOUS
<1>1. /\ flush' = "peek" /\ to_try' = Len(buffer)
      /\ UNCHANGED <<todo, buffer, up, head, indexed, rejected, overflowed, outages,
                     popped, raced>>
  BY DEF Buffer!BeginFlush, Buffer!index
<1>2. Len(buffer) \in 0..MAX_SIZE
  BY Size DEF BufferInv, BufferShape, Buffer!TypeOK
<1>3. BufferShape'
  BY <1>1, <1>2 DEF BufferInv, BufferShape, Buffer!TypeOK
<1>4. QED
  BY <1>1, <1>3 DEF BufferInv, HeadTrue, Kept, Buffered

LEMMA BufferPeek == BufferInv /\ Buffer!Peek => BufferInv'
<1> SUFFICES ASSUME BufferInv, Buffer!Peek PROVE BufferInv'
  OBVIOUS
<1>1. UNCHANGED <<todo, buffer, up, indexed, rejected, overflowed, outages, popped, raced>>
  BY DEF Buffer!Peek, Buffer!index
<1>2. (popped # {} => raced)' /\ (Enriched \subseteq Kept \cup Buffered)'
  BY <1>1 DEF BufferInv, Kept, Buffered
<1>3. CASE flush' = "idle" /\ UNCHANGED <<head, to_try>>
  BY <1>1, <1>2, <1>3 DEF BufferInv, BufferShape, Buffer!TypeOK, HeadTrue
<1>4. CASE /\ to_try # 0 /\ buffer # <<>>
           /\ head' = [Buffer!Nothing EXCEPT !.alert = Head(buffer)]
           /\ to_try' = to_try - 1 /\ flush' = "send"
  <2>1. head'.alert = Head(buffer) /\ Head(buffer) \in Enriched
    BY <1>4 DEF Buffer!Nothing, BufferInv, BufferShape, Buffer!TypeOK
  <2>2. to_try - 1 \in 0..MAX_SIZE
    BY <1>4, Size DEF BufferInv, BufferShape, Buffer!TypeOK
  <2>3. BufferShape'
    BY <1>1, <1>4, <2>1, <2>2 DEF BufferInv, BufferShape, Buffer!TypeOK
  <2>4. QED
    BY <1>1, <1>2, <1>4, <2>1, <2>3 DEF BufferInv, HeadTrue
<1>5. QED
  BY <1>3, <1>4 DEF Buffer!Peek

LEMMA BufferSend == BufferInv /\ Buffer!Send => BufferInv'
<1> SUFFICES ASSUME BufferInv, Buffer!Send PROVE BufferInv'
  OBVIOUS
<1> DEFINE a == head.alert
           said == Buffer!Says(a)
<1>1. /\ flush = "send" /\ head' = [alert |-> a, said |-> said]
      /\ indexed' = IF said = "ok" THEN indexed \cup {a} ELSE indexed
      /\ flush' = IF said = "down" THEN "idle" ELSE "pop"
      /\ UNCHANGED <<todo, buffer, up, to_try, rejected, overflowed, outages, popped, raced>>
  BY DEF Buffer!Send, Buffer!Ends
<1>2. a \in Enriched /\ said \in {"down", "reject", "ok"}
  BY <1>1 DEF BufferInv, BufferShape, Buffer!Says
<1> HIDE DEF a, said
<1>3. head'.alert = a /\ head'.said = said
  BY <1>1
<1>4. BufferShape'
  BY <1>1, <1>2, <1>3 DEF BufferInv, BufferShape, Buffer!TypeOK
<1>5. HeadTrue'
  BY <1>1, <1>3 DEF BufferInv, HeadTrue, a
<1>6. QED
  BY <1>1, <1>4, <1>5 DEF BufferInv, Kept, Buffered

LEMMA BufferPop == BufferInv /\ Buffer!Pop => BufferInv'
<1> SUFFICES ASSUME BufferInv, Buffer!Pop PROVE BufferInv'
  OBVIOUS
<1> DEFINE left == IF buffer = <<>> THEN buffer ELSE Tail(buffer)
           gone == Buffered \ Elements(left)
<1>1. /\ flush = "pop" /\ flush' = "peek" /\ buffer' = left
      /\ rejected' = IF head.said = "reject" THEN rejected \cup {head.alert} ELSE rejected
      /\ popped' = popped \cup (gone \ {head.alert})
      /\ UNCHANGED <<todo, up, to_try, head, indexed, overflowed, outages, raced>>
  BY DEF Buffer!Pop, Buffer!PopLeft, Buffer!Gone, Buffered, Elements
<1>2. /\ buffer \in Seq(Enriched) /\ Len(buffer) <= MAX_SIZE /\ head.alert \in Enriched
      /\ Len(buffer) \in Nat
  BY <1>1 DEF BufferInv, BufferShape, Buffer!TypeOK
<1>3. left \in Seq(Enriched) /\ Len(left) <= MAX_SIZE
  BY <1>2, Size, HeadAndTail
<1>4. /\ buffer # <<>> => gone \subseteq {Head(buffer)} /\ Head(buffer) \in Enriched
      /\ buffer = <<>> => gone = {}
  BY <1>2, HeadAndTail DEF Buffered
<1>5. gone \subseteq Enriched
  BY <1>4
<1>6. Buffered' = Elements(left)
  BY <1>1 DEF Buffered
<1> HIDE DEF left
<1>7. BufferShape'
  BY <1>1, <1>2, <1>3, <1>5 DEF BufferInv, BufferShape, Buffer!TypeOK
<1>8. HeadTrue'
  BY <1>1 DEF HeadTrue
<1>9. (popped # {} => raced)'
  <2>1. CASE raced
    BY <1>1, <2>1
  <2>2. CASE ~raced
    <3>1. Head(buffer) = head.alert /\ buffer # <<>> /\ popped = {}
      BY <1>1, <2>2 DEF BufferInv, HeadTrue
    <3>2. popped' = {}
      BY <1>1, <1>4, <3>1
    <3>3. QED
      BY <3>2
  <2>3. QED
    BY <2>1, <2>2
<1>10. (Enriched \subseteq Kept \cup Buffered)'
  <2>1. head.alert \in indexed \cup rejected'
    BY <1>1 DEF BufferInv, BufferShape
  <2>2. Buffered \subseteq Buffered' \cup gone
    BY <1>6
  <2>3. gone \subseteq popped' \cup {head.alert}
    BY <1>1
  <2> HIDE DEF gone
  <2>4. rejected \subseteq rejected' /\ popped \subseteq popped'
    BY <1>1
  <2>5. QED
    BY <1>1, <2>1, <2>2, <2>3, <2>4 DEF BufferInv, Kept
<1>11. QED
  BY <1>7, <1>8, <1>9, <1>10 DEF BufferInv

LEMMA BufferStep == BufferInv /\ [Buffer!Next]_bufferVars => BufferInv'
  BY BufferIdle, BufferEnrich, BufferBegin, BufferPeek, BufferSend, BufferPop
  DEF Buffer!Next, Buffer!FlushStep

LEMMA BufferEnough == BufferInv => Buffer!TypeOK /\ Buffer!LossIsAccounted
  BY DEF BufferInv, BufferShape, Buffer!LossIsAccounted, Kept, Buffered, Elements

-----------------------------------------------------------------------------
(* Threat intelligence.                                                    *)

\* A cycle that is under way is at one of the feeds.
AtFeed == feedAt \in 0..Len(Order) /\ (step # "idle" => feedAt \in 1..Len(Order))

\* While a live answer is to be remembered its row is active, says what it said,
\* and outlasts it; and no alert waits for another live answer.
Live == "abuseipdb"
KnownTrue ==
  /\ known \in Nat
  /\ clock <= known => /\ ioc[Live].active /\ ioc[Live].sev = Feeds!High
                       /\ ioc[Live].exp >= known /\ enrich.at # "live"

FeedsInv ==
  /\ Feeds!TypeOK /\ clock \in 1..MaxTime /\ enrich = [at |-> enrich.at, sev |-> enrich.sev]
  /\ AtFeed /\ KnownTrue /\ Feeds!NotDroppedEarly

\* A step of the catalogue's row and of the enrichment.
KevKept == "kev" \in cve => "kev" \in cve'
Recalls ==
  enrich.at = "away" /\ enrich'.at # "away" /\ clock <= known => enrich'.sev >= Feeds!High

LEMMA FeedFacts ==
  /\ Len(Order) \in Nat \ {0} /\ Live \notin Feeds!Feeds /\ Reported \subseteq 1..3
  /\ ListedFor \in Nat /\ LiveFor \in Nat /\ MaxTime \in Nat \ {0}
  /\ \A n \in 1..Len(Order) : Order[n] \in Feeds!Feeds
  /\ Feeds!Sources = Feeds!Feeds \cup {Live}
BY FeedsAreNamed DEF Feeds!FeedsAssumption, Feeds!Feeds, Feeds!Sources, Feeds!Low, Feeds!High, Live

\* The worst of the active rows.
LEMMA WorstIs ==
  ASSUME Feeds!TypeOK
  PROVE  /\ Feeds!Worst(Feeds!Sources) \in 0..3
         /\ \A s \in Feeds!Sources : ioc[s].active => ioc[s].sev <= Feeds!Worst(Feeds!Sources)
<1> DEFINE listed == {ioc[s].sev : s \in {t \in Feeds!Sources : ioc[t].active}} \cup {0}
<1>1. listed \subseteq 0..3 /\ 0 \in listed
  BY DEF Feeds!TypeOK, Feeds!High
<1>2. \A s \in Feeds!Sources : ioc[s].active => ioc[s].sev \in listed
  OBVIOUS
<1>3. Feeds!Worst(Feeds!Sources) = CHOOSE m \in listed : \A n \in listed : n <= m
  BY DEF Feeds!Worst
<1> HIDE DEF listed
<1>4. \E m \in listed : \A n \in listed : n <= m
  <2>1. \A n \in listed : n \in {0, 1, 2, 3}
    BY <1>1
  <2>2. CASE 3 \in listed
    BY <2>1, <2>2
  <2>3. CASE 3 \notin listed /\ 2 \in listed
    BY <2>1, <2>3
  <2>4. CASE 3 \notin listed /\ 2 \notin listed /\ 1 \in listed
    BY <2>1, <2>4
  <2>5. CASE 3 \notin listed /\ 2 \notin listed /\ 1 \notin listed
    BY <1>1, <2>1, <2>5
  <2>6. QED
    BY <2>2, <2>3, <2>4, <2>5
<1>5. /\ Feeds!Worst(Feeds!Sources) \in listed
      /\ \A n \in listed : n <= Feeds!Worst(Feeds!Sources)
  BY <1>3, <1>4
<1>6. QED
  BY <1>1, <1>2, <1>5

LEMMA FeedsInit == Feeds!Init => FeedsInv
<1> SUFFICES ASSUME Feeds!Init PROVE FeedsInv
  OBVIOUS
<1>1. /\ clock = 1 /\ known = 0 /\ cve = {} /\ feedAt = 0 /\ step = "idle"
      /\ enrich = [at |-> "away", sev |-> 0]
      /\ ioc = [s \in Feeds!Sources |-> [sev |-> 0, exp |-> 0, active |-> FALSE]]
  BY DEF Feeds!Init, Feeds!NoRow, Feeds!Away
<1>2. clock \in 1..MaxTime /\ AtFeed /\ KnownTrue
  BY <1>1, FeedFacts DEF AtFeed, KnownTrue
<1>3. Feeds!TypeOK /\ Feeds!NotDroppedEarly
  BY <1>1, FeedFacts DEF Feeds!TypeOK, Feeds!NotDroppedEarly, Feeds!High, Feeds!Critical
<1>4. QED
  BY <1>1, <1>2, <1>3 DEF FeedsInv

\* A step that leaves the rows and the enrichment alone.
LEMMA CycleOnly ==
  ASSUME FeedsInv, UNCHANGED <<clock, ioc, enrich, known>>,
         cve' = cve \cup {"kev"} \/ cve' = cve, AtFeed'
  PROVE  FeedsInv' /\ KevKept /\ Recalls
<1>1. KnownTrue' /\ Feeds!NotDroppedEarly'
  BY DEF FeedsInv, KnownTrue, Feeds!NotDroppedEarly
<1>2. Feeds!TypeOK'
  BY DEF FeedsInv, Feeds!TypeOK, AtFeed
<1>3. QED
  BY <1>1, <1>2 DEF FeedsInv, KevKept, Recalls

LEMMA FeedsTick == ASSUME FeedsInv, Feeds!Tick PROVE FeedsInv' /\ KevKept /\ Recalls
<1>1. /\ clock < MaxTime /\ clock' = clock + 1 /\ clock \in 1..MaxTime
      /\ UNCHANGED <<ioc, cve, feedAt, step, enrich, known>>
  BY DEF Feeds!Tick, Feeds!cycle, FeedsInv
<1>2. clock' \in 1..MaxTime /\ clock \in Nat /\ clock' \in Nat /\ clock < clock'
  BY <1>1, FeedFacts
<1>3. KnownTrue'
  BY <1>1, <1>2 DEF FeedsInv, KnownTrue
<1>4. Feeds!NotDroppedEarly'
  <2> SUFFICES ASSUME NEW s \in Feeds!Sources, ioc[s].exp # 0, ~ioc[s].active
               PROVE  ioc[s].exp < clock'
    BY <1>1 DEF Feeds!NotDroppedEarly
  <2>1. ioc[s].exp < clock /\ ioc[s].exp \in Nat
    BY FeedFacts DEF FeedsInv, Feeds!NotDroppedEarly, Feeds!TypeOK
  <2>2. QED
    BY <1>2, <2>1
<1>5. Feeds!TypeOK' /\ AtFeed'
  BY <1>1 DEF FeedsInv, Feeds!TypeOK, AtFeed
<1>6. QED
  BY <1>1, <1>2, <1>3, <1>4, <1>5 DEF FeedsInv, KevKept, Recalls

\* Where the cycle goes on.
LEMMA CycleGoes ==
  ASSUME FeedsInv
  PROVE  /\ step # "idle" /\ Feeds!NextFeed => AtFeed'
         /\ Feeds!GivesUp => AtFeed'
         /\ \A s : step # "idle" /\ Feeds!Goes(s) => AtFeed'
<1>1. feedAt \in 0..Len(Order) /\ Len(Order) \in Nat /\ (step # "idle" => feedAt \in 1..Len(Order))
  BY FeedFacts DEF FeedsInv, AtFeed
<1>2. step # "idle" /\ feedAt # Len(Order) => feedAt + 1 \in 1..Len(Order)
  BY <1>1
<1>3. 0 \in 0..Len(Order)
  BY <1>1
<1>4. Feeds!GivesUp => AtFeed'
  BY <1>3 DEF Feeds!GivesUp, AtFeed
<1>5. step # "idle" /\ Feeds!NextFeed => AtFeed'
  <2> SUFFICES ASSUME step # "idle", Feeds!NextFeed PROVE AtFeed'
    OBVIOUS
  <2>1. CASE feedAt = Len(Order)
    BY <1>4, <2>1 DEF Feeds!NextFeed
  <2>2. CASE feedAt # Len(Order)
    <3>1. feedAt' \in 1..Len(Order)
      BY <1>2, <2>2 DEF Feeds!NextFeed
    <3>2. \A n \in 1..Len(Order) : n \in 0..Len(Order)
      BY <1>1
    <3>3. QED
      BY <3>1, <3>2 DEF AtFeed
  <2>3. QED
    BY <2>1, <2>2
<1>6. \A s : step # "idle" /\ Feeds!Goes(s) => AtFeed'
  BY <1>1 DEF Feeds!Goes, AtFeed
<1>7. QED
  BY <1>4, <1>5, <1>6

\* A new report of a source.
LEMMA Upserted ==
  ASSUME FeedsInv, NEW s \in Feeds!Sources, NEW sev \in 1..3, NEW days \in {ListedFor, LiveFor},
         Feeds!Upsert(s, sev, days), clock' = clock,
         s = Live => (clock > known' \/ (sev = 3 /\ known' = clock + days)),
         s # Live => known' = known /\ enrich' = enrich,
         known' \in Nat, clock <= known' => enrich'.at # "live"
  PROVE  /\ ioc' \in [Feeds!Sources -> [sev : 0..Feeds!High,
                         exp : 0..MaxTime + ListedFor + LiveFor, active : BOOLEAN]]
         /\ KnownTrue' /\ Feeds!NotDroppedEarly'
<1> DEFINE row == [sev |-> sev, exp |-> clock + days, active |-> TRUE]
<1>1. ioc' = [ioc EXCEPT ![s] = row] /\ clock \in 1..MaxTime
  BY DEF Feeds!Upsert, FeedsInv
<1>2. clock + days \in 0..MaxTime + ListedFor + LiveFor
  BY <1>1, FeedFacts
<1>3. row \in [sev : 0..Feeds!High, exp : 0..MaxTime + ListedFor + LiveFor, active : BOOLEAN]
  BY <1>2 DEF Feeds!High
<1>4. row.sev = sev /\ row.exp = clock + days /\ row.active = TRUE
  OBVIOUS
<1> HIDE DEF row
<1>5. ioc' \in [Feeds!Sources -> [sev : 0..Feeds!High,
                         exp : 0..MaxTime + ListedFor + LiveFor, active : BOOLEAN]]
  BY <1>1, <1>3 DEF FeedsInv, Feeds!TypeOK
<1>6. ioc'[s] = row /\ \A t \in Feeds!Sources : t # s => ioc'[t] = ioc[t]
  BY <1>1 DEF FeedsInv, Feeds!TypeOK
<1>7. Feeds!NotDroppedEarly'
  BY <1>4, <1>6 DEF FeedsInv, Feeds!NotDroppedEarly
<1>8. KnownTrue'
  <2>1. CASE s # Live
    BY <1>6, <2>1, FeedFacts DEF FeedsInv, KnownTrue
  <2>2. CASE s = Live
    <3>1. clock \in Nat
      BY <1>1, FeedFacts
    <3>2. CASE clock > known'
      BY <3>1, <3>2 DEF KnownTrue
    <3>3. CASE sev = 3 /\ known' = clock + days
      <4>1. ioc'[Live].exp = known' /\ ioc'[Live].sev = 3 /\ ioc'[Live].active = TRUE
        BY <1>4, <1>6, <2>2, <3>3
      <4>2. QED
        BY <4>1 DEF KnownTrue, Feeds!High
    <3>4. QED
      BY <2>2, <3>2, <3>3
  <2>3. QED
    BY <2>1, <2>2
<1>9. QED
  BY <1>5, <1>7, <1>8

LEMMA FeedsStore == ASSUME FeedsInv, Feeds!Store PROVE FeedsInv' /\ KevKept /\ Recalls
<1>1. step # "idle" /\ AtFeed' /\ UNCHANGED <<clock, cache, token, enrich, known>>
  BY CycleGoes DEF Feeds!Store, Feeds!lookup
<1>2. CASE UNCHANGED ioc /\ (cve' = cve \cup {"kev"} \/ cve' = cve)
  BY <1>1, <1>2, CycleOnly
<1>3. ASSUME NEW sev \in Reported, Feeds!Upsert(Order[feedAt], sev, ListedFor), UNCHANGED cve
      PROVE  FeedsInv' /\ KevKept /\ Recalls
  <2>1. Order[feedAt] \in Feeds!Sources /\ Order[feedAt] # Live /\ sev \in 1..3
    BY <1>1, FeedFacts DEF FeedsInv, AtFeed
  <2>2. known' \in Nat /\ (clock <= known' => enrich'.at # "live")
    BY <1>1 DEF FeedsInv, KnownTrue
  <2>3. /\ ioc' \in [Feeds!Sources -> [sev : 0..Feeds!High,
                         exp : 0..MaxTime + ListedFor + LiveFor, active : BOOLEAN]]
        /\ KnownTrue' /\ Feeds!NotDroppedEarly'
    BY <1>1, <1>3, <2>1, <2>2, Upserted
  <2>4. Feeds!TypeOK'
    BY <1>1, <1>3, <2>3 DEF FeedsInv, Feeds!TypeOK, AtFeed
  <2>5. QED
    BY <1>1, <1>3, <2>3, <2>4 DEF FeedsInv, KevKept, Recalls
<1>4. QED
  BY <1>2, <1>3 DEF Feeds!Store, Feeds!UpsertCve

LEMMA FeedsCycle == ASSUME FeedsInv, Feeds!CycleStep PROVE FeedsInv' /\ KevKept /\ Recalls
<1>1. ASSUME AtFeed', UNCHANGED <<clock, ioc, cve, cache, token, enrich, known>>
      PROVE  FeedsInv' /\ KevKept /\ Recalls
  BY <1>1, CycleOnly
<1>2. CASE Feeds!BeginCycle
  <2>1. 1 \in 1..Len(Order) /\ 1 \in 0..Len(Order)
    BY FeedFacts
  <2>2. QED
    BY <1>1, <1>2, <2>1 DEF Feeds!BeginCycle, Feeds!lookup, AtFeed
<1>3. CASE Feeds!Check \/ Feeds!Fetch
  BY <1>1, <1>3, CycleGoes DEF Feeds!Check, Feeds!Fetch, Feeds!lookup
<1>4. CASE Feeds!ReportSuccess \/ Feeds!RecordError
  BY <1>1, <1>4, CycleGoes
     DEF Feeds!ReportSuccess, Feeds!RecordError, Feeds!AfterError, Feeds!lookup
<1>5. QED
  BY <1>2, <1>3, <1>4, FeedsStore DEF Feeds!CycleStep

LEMMA FeedsCleanup == ASSUME FeedsInv, Feeds!Cleanup PROVE FeedsInv' /\ KevKept /\ Recalls
<1> DEFINE Cleaned(s) == IF Feeds!Expired(s) THEN [ioc[s] EXCEPT !.active = FALSE] ELSE ioc[s]
<1>1. /\ ioc' = [s \in Feeds!Sources |-> Cleaned(s)]
      /\ UNCHANGED <<clock, cve, feedAt, step, enrich, known>>
  BY DEF Feeds!Cleanup, Feeds!cycle, Feeds!lookup
<1>2. ASSUME NEW s \in Feeds!Sources
      PROVE  /\ Cleaned(s) \in [sev : 0..Feeds!High, exp : 0..MaxTime + ListedFor + LiveFor,
                             active : BOOLEAN]
             /\ Cleaned(s).exp = ioc[s].exp /\ Cleaned(s).sev = ioc[s].sev
             /\ Cleaned(s).active = (ioc[s].active /\ ~(ioc[s].exp < clock))
  <2>1. ioc[s] \in [sev : 0..Feeds!High, exp : 0..MaxTime + ListedFor + LiveFor, active : BOOLEAN]
    BY DEF FeedsInv, Feeds!TypeOK
  <2>2. CASE Feeds!Expired(s)
    BY <2>1, <2>2 DEF Feeds!Expired
  <2>3. CASE ~Feeds!Expired(s)
    BY <2>1, <2>3 DEF Feeds!Expired
  <2>4. QED
    BY <2>2, <2>3
<1> HIDE DEF Cleaned
<1>3. \A s \in Feeds!Sources : ioc'[s] = Cleaned(s)
  BY <1>1
<1>4. Feeds!TypeOK' /\ AtFeed'
  BY <1>1, <1>2 DEF FeedsInv, Feeds!TypeOK, AtFeed
<1>5. Feeds!NotDroppedEarly'
  <2> SUFFICES ASSUME NEW s \in Feeds!Sources, ioc'[s].exp # 0, ~ioc'[s].active
               PROVE  ioc'[s].exp < clock'
    BY DEF Feeds!NotDroppedEarly
  <2>1. ioc'[s].exp = ioc[s].exp /\ (~ioc[s].active \/ ioc[s].exp < clock)
    BY <1>2, <1>3
  <2>2. QED
    BY <1>1, <2>1 DEF FeedsInv, Feeds!NotDroppedEarly
<1>6. KnownTrue'
  <2> SUFFICES ASSUME clock <= known
               PROVE  /\ ioc'[Live].active /\ ioc'[Live].sev = Feeds!High
                      /\ ioc'[Live].exp >= known /\ enrich.at # "live"
    BY <1>1 DEF FeedsInv, KnownTrue
  <2>1. /\ ioc[Live].active /\ ioc[Live].sev = Feeds!High /\ ioc[Live].exp >= known
        /\ enrich.at # "live" /\ known \in Nat
    BY DEF FeedsInv, KnownTrue
  <2>2. Live \in Feeds!Sources /\ clock \in Nat /\ ioc[Live].exp \in Nat
    BY FeedFacts DEF FeedsInv, Feeds!TypeOK
  <2>3. ~(ioc[Live].exp < clock)
    BY <2>1, <2>2
  <2>4. QED
    BY <1>2, <1>3, <2>1, <2>2, <2>3
<1>7. QED
  BY <1>1, <1>4, <1>5, <1>6 DEF FeedsInv, KevKept, Recalls

\* A step of the enrichment that leaves the rows alone.
LEMMA EnrichOnly ==
  ASSUME FeedsInv, UNCHANGED <<clock, ioc, feedAt, step, known>>,
         NEW w, NEW sev \in 0..4, enrich' = [at |-> w, sev |-> sev],
         w = "live" => clock > known,
         cve' = cve \cup {"epss"} \/ cve' = cve
  PROVE  FeedsInv' /\ KevKept /\ (enrich.at # "away" \/ w = "away" => Recalls)
<1>1. enrich'.at = w /\ enrich'.sev = sev /\ enrich' = [at |-> enrich'.at, sev |-> enrich'.sev]
  OBVIOUS
<1>2. clock \in Nat /\ known \in Nat
  BY FeedFacts DEF FeedsInv, KnownTrue
<1>3. KnownTrue'
  BY <1>1, <1>2 DEF FeedsInv, KnownTrue
<1>4. Feeds!NotDroppedEarly' /\ AtFeed' /\ Feeds!TypeOK'
  BY <1>1 DEF FeedsInv, Feeds!NotDroppedEarly, AtFeed, Feeds!TypeOK, Feeds!Critical
<1>5. QED
  BY <1>1, <1>3, <1>4 DEF FeedsInv, KevKept, Recalls

LEMMA FeedsLookUp == ASSUME FeedsInv, Feeds!LookUp PROVE FeedsInv' /\ KevKept /\ Recalls
<1>1. enrich.at = "away" /\ UNCHANGED <<clock, ioc, cve, feedAt, step, known>>
  BY DEF Feeds!LookUp, Feeds!cycle
<1> DEFINE worst == Feeds!Worst(Feeds!Sources)
<1>2. /\ worst \in 0..3 /\ \A s \in Feeds!Sources : ioc[s].active => ioc[s].sev <= worst
  BY WorstIs DEF FeedsInv
<1>3. clock <= known => worst = 3
  <2>1. ASSUME clock <= known PROVE worst = 3
    <3>1. ioc[Live].active /\ ioc[Live].sev = 3 /\ Live \in Feeds!Sources
      BY <2>1, FeedFacts DEF FeedsInv, KnownTrue, Feeds!High
    <3>2. 3 <= worst
      BY <1>2, <3>1
    <3>3. QED
      BY <1>2, <3>2
  <2>2. QED
    BY <2>1
<1>4. clock \in Nat /\ known \in Nat
  BY FeedFacts DEF FeedsInv, KnownTrue
<1>5. CASE enrich' = [at |-> IF worst = 0 THEN "live" ELSE "cve", sev |-> worst]
  <2> DEFINE w == IF worst = 0 THEN "live" ELSE "cve"
  <2>1. worst \in 0..4 /\ (w = "live" => clock > known)
    BY <1>2, <1>3, <1>4
  <2>2. enrich' = [at |-> w, sev |-> worst] /\ enrich'.sev = worst
    BY <1>5
  <2> HIDE DEF w, worst
  <2>3. FeedsInv' /\ KevKept
    BY <1>1, <2>1, <2>2, EnrichOnly
  <2>4. Recalls
    BY <1>3, <2>2 DEF Recalls, Feeds!High
  <2>5. QED
    BY <2>3, <2>4
<1>6. CASE enrich' = [at |-> "away", sev |-> 0]
  <2>1. 0 \in 0..4
    OBVIOUS
  <2>2. QED
    BY <1>1, <1>6, <2>1, EnrichOnly
<1>7. QED
  BY <1>5, <1>6 DEF Feeds!LookUp, Feeds!Away

LEMMA FeedsLive == ASSUME FeedsInv, Feeds!LiveLookUp PROVE FeedsInv' /\ KevKept /\ Recalls
<1>1. /\ enrich.at = "live" /\ UNCHANGED <<clock, cve, feedAt, step>>
      /\ clock > known /\ enrich.sev \in 0..4 /\ clock \in Nat /\ known \in Nat
      /\ enrich = [at |-> "live", sev |-> enrich.sev]
  BY FeedFacts DEF Feeds!LiveLookUp, Feeds!cycle, FeedsInv, KnownTrue, Feeds!TypeOK, Feeds!Critical
<1>2. CASE UNCHANGED <<ioc, known>> /\ enrich' = [enrich EXCEPT !.at = "cve"]
  <2>1. enrich' = [at |-> "cve", sev |-> enrich.sev]
    BY <1>1, <1>2
  <2>2. QED
    BY <1>1, <1>2, <2>1, EnrichOnly
<1>3. CASE /\ UNCHANGED <<ioc, known>> /\ cache \in {1, 3}
           /\ enrich' = [at |-> "cve", sev |-> cache]
  <2>1. cache \in 0..4
    BY <1>3
  <2>2. QED
    BY <1>1, <1>3, <2>1, EnrichOnly
<1>4. ASSUME NEW sev \in {1, 3}, Feeds!Upsert(Live, sev, LiveFor),
             enrich' = [at |-> "cve", sev |-> sev],
             known' = IF sev = 3 THEN clock + LiveFor ELSE known
      PROVE  FeedsInv' /\ KevKept /\ Recalls
  <2>1. sev \in 1..3 /\ LiveFor \in Nat /\ Live \in Feeds!Sources /\ sev \in 0..4
    BY FeedFacts
  <2>2. clock + LiveFor \in Nat
    BY <1>1, <2>1
  <2>3. known' \in Nat /\ (clock > known' \/ (sev = 3 /\ known' = clock + LiveFor))
    BY <1>1, <1>4, <2>2
  <2>4. enrich'.at = "cve" /\ enrich'.sev = sev
    BY <1>4
  <2>5. /\ ioc' \in [Feeds!Sources -> [sev : 0..Feeds!High,
                         exp : 0..MaxTime + ListedFor + LiveFor, active : BOOLEAN]]
        /\ KnownTrue' /\ Feeds!NotDroppedEarly'
    BY <1>1, <1>4, <2>1, <2>3, <2>4, Upserted
  <2>6. Feeds!TypeOK' /\ AtFeed'
    BY <1>1, <2>1, <2>4, <2>5 DEF FeedsInv, Feeds!TypeOK, AtFeed, Feeds!Critical
  <2>7. QED
    BY <1>1, <1>4, <2>4, <2>5, <2>6 DEF FeedsInv, KevKept, Recalls
<1>5. QED
  BY <1>2, <1>3, <1>4 DEF Feeds!LiveLookUp, Feeds!Remembered, Feeds!Low, Feeds!High, Live

LEMMA FeedsCve ==
  ASSUME FeedsInv, Feeds!ReadCve \/ Feeds!AskEpss \/ Feeds!Answered
  PROVE  FeedsInv' /\ KevKept /\ Recalls
<1>1. /\ enrich.at # "away" /\ UNCHANGED <<clock, ioc, feedAt, step, known>>
      /\ cve' = cve \cup {"epss"} \/ cve' = cve
      /\ enrich.sev \in 0..4 /\ enrich = [at |-> enrich.at, sev |-> enrich.sev]
  BY DEF Feeds!ReadCve, Feeds!AskEpss, Feeds!Answered, Feeds!UpsertCve, Feeds!cycle, FeedsInv,
     Feeds!TypeOK, Feeds!Critical
<1>2. \E w \in {"epss", "done", "away"}, sev \in 0..4 : enrich' = [at |-> w, sev |-> sev]
  <2>1. CASE Feeds!ReadCve
    <3>1. Feeds!Severity(cve) \in 0..4
      BY <1>1 DEF Feeds!Severity, Feeds!Critical
    <3>2. QED
      BY <2>1, <3>1 DEF Feeds!ReadCve
  <2>2. CASE Feeds!AskEpss
    <3>1. Feeds!Severity(cve') \in 0..4
      BY <1>1 DEF Feeds!Severity, Feeds!Critical
    <3>2. [enrich EXCEPT !.at = "done"] = [at |-> "done", sev |-> enrich.sev]
      BY <1>1
    <3>3. QED
      BY <1>1, <2>2, <3>1, <3>2 DEF Feeds!AskEpss
  <2>3. CASE Feeds!Answered
    <3>1. enrich' = [at |-> "away", sev |-> 0] /\ 0 \in 0..4
      BY <2>3 DEF Feeds!Answered, Feeds!Away
    <3>2. QED
      BY <3>1
  <2>4. QED
    BY <2>1, <2>2, <2>3
<1>3. PICK w \in {"epss", "done", "away"}, sev \in 0..4 : enrich' = [at |-> w, sev |-> sev]
  BY <1>2
<1>4. QED
  BY <1>1, <1>3, EnrichOnly

LEMMA FeedsCrash == ASSUME FeedsInv, Feeds!Crash PROVE FeedsInv' /\ KevKept /\ Recalls
<1>1. /\ feedAt' = 0 /\ step' = "idle" /\ enrich' = [at |-> "away", sev |-> 0]
      /\ UNCHANGED <<clock, ioc, cve, known>>
  BY DEF Feeds!Crash, Feeds!Away
<1>2. 0 \in 0..Len(Order) /\ enrich'.at = "away" /\ enrich'.sev = 0
  BY <1>1, FeedFacts
<1>3. KnownTrue' /\ AtFeed' /\ Feeds!NotDroppedEarly'
  BY <1>1, <1>2 DEF FeedsInv, KnownTrue, AtFeed, Feeds!NotDroppedEarly
<1>4. Feeds!TypeOK'
  BY <1>1, <1>2 DEF FeedsInv, Feeds!TypeOK, Feeds!Critical
<1>5. QED
  BY <1>1, <1>2, <1>3, <1>4 DEF FeedsInv, KevKept, Recalls

LEMMA FeedsStep ==
  FeedsInv /\ [Feeds!Next]_feedVars => FeedsInv' /\ [KevKept]_feedVars /\ [Recalls]_feedVars
<1> SUFFICES ASSUME FeedsInv, [Feeds!Next]_feedVars
             PROVE  FeedsInv' /\ [KevKept]_feedVars /\ [Recalls]_feedVars
  OBVIOUS
<1>1. CASE UNCHANGED feedVars
  BY <1>1 DEF feedVars, FeedsInv, Feeds!TypeOK, AtFeed, KnownTrue, Feeds!NotDroppedEarly
<1>2. CASE Feeds!Next
  BY <1>2, FeedsTick, FeedsCleanup, FeedsCrash, FeedsCycle, FeedsLookUp, FeedsLive, FeedsCve
     DEF Feeds!Next
<1>3. QED
  BY <1>1, <1>2

-----------------------------------------------------------------------------
(* The sum.                                                                *)

\* A step of the sum is a step of one part, and leaves the others alone.
LEMMA PartsMove ==
  [AllNext]_allVars => /\ [Next]_vars /\ [Buffer!Next]_bufferVars /\ [Sla!Next]_slaVars
                       /\ [Feeds!Next]_feedVars
  BY DEF AllNext, DispatcherPart, BufferPart, SlaPart, FeedsPart, allVars

\* Whatever the order of appends, overflows, outages and flushes: an enriched
\* alert the index did not take is in the buffer until it is indexed, rejected
\* or dropped for room, but for one that the overflow raced (inmem_buffer.py:87);
\* queue, hands and buffer hold what they should, in their bounds.
THEOREM NoAlertIsLost == AllSpec => []NothingLost
<1>1. AllInit => IInv /\ BufferInv
  BY ShapeInit, CountsInit, BufferInit DEF AllInit, IInv
<1>2. IInv /\ BufferInv /\ [AllNext]_allVars => (IInv /\ BufferInv)'
  BY PartsMove, InvStep, BufferStep
<1>3. IInv /\ BufferInv => NothingLost
  BY TypesEnough, BufferEnough DEF NothingLost
<1>4. QED
  BY <1>1, <1>2, <1>3, PTL DEF AllSpec

\* The announcer of the sum is the one SlaAnnouncer_proofs is about.
Told == INSTANCE SlaAnnouncer_proofs

LEMMA SameSla ==
  /\ Sla!AnnouncerAssumption = Told!AnnouncerAssumption
  /\ Sla!LedgerOutlivesRounds = Told!LedgerOutlivesRounds
  /\ Sla!Init = Told!Init /\ Sla!Next = Told!Next
  /\ Sla!TypeOK = Told!TypeOK /\ Sla!RetriesAreCapped = Told!RetriesAreCapped
<1> USE DEF Sla!Breaches, Told!Breaches, Sla!Missed, Told!Missed,
  Sla!passVars, Told!passVars, Sla!Forget, Told!Forget,
  Sla!DeadlinePasses, Told!DeadlinePasses, Sla!FirstResponse, Told!FirstResponse,
  Sla!Resolve, Told!Resolve, Sla!EscalateTier, Told!EscalateTier,
  Sla!Works, Told!Works, Sla!Possible, Told!Possible,
  Sla!Delivered, Told!Delivered, Sla!BeginPass, Told!BeginPass,
  Sla!Abandoned, Told!Abandoned, Sla!LeastTried, Told!LeastTried,
  Sla!Announce, Told!Announce, Sla!Outdated, Told!Outdated,
  Sla!Prune, Told!Prune, Sla!Touched, Told!Touched, Sla!EndPass, Told!EndPass,
  Sla!OtherPass, Told!OtherPass, Sla!Restart, Told!Restart,
  Sla!PassStep, Told!PassStep, Sla!DeskStep, Told!DeskStep
<1>1. Sla!Next = Told!Next
  BY Zenon DEF Sla!Next, Told!Next
<1>2. Sla!AnnouncerAssumption = Told!AnnouncerAssumption
  BY Zenon DEF Sla!AnnouncerAssumption, Told!AnnouncerAssumption
<1>3. Sla!LedgerOutlivesRounds = Told!LedgerOutlivesRounds
  BY Zenon DEF Sla!LedgerOutlivesRounds, Told!LedgerOutlivesRounds
<1>4. Sla!Init = Told!Init
  BY Zenon DEF Sla!Init, Told!Init
<1>5. Sla!TypeOK = Told!TypeOK
  BY Zenon DEF Sla!TypeOK, Told!TypeOK
<1>6. Sla!RetriesAreCapped = Told!RetriesAreCapped
  BY Zenon DEF Sla!RetriesAreCapped, Told!RetriesAreCapped
<1>7. QED
  BY <1>1, <1>2, <1>3, <1>4, <1>5, <1>6

LEMMA SlaMoves == [AllNext]_allVars => [Told!Next]_slaVars
  BY PartsMove, SameSla

LEMMA SlaBegins == AllInit => Told!Init
  BY SameSla DEF AllInit

\* A missed deadline is announced at most MaxAttempts times (sla.py:316), none that
\* is recorded as told is announced again (sla.py:161) but by a pass that could not
\* read the record, and the least tried come first (sla.py:376).
THEOREM AnnouncementsAreKept == AllSpec => AnnouncementsHold
<1>1. Told!AnnouncerAssumption /\ Told!LedgerOutlivesRounds
  BY SlaAssumption, SameSla
<1>2. AllSpec => Told!Spec
  <2>1. Told!slaVars = slaVars
    BY DEF Told!slaVars, slaVars
  <2>2. AllSpec => [][Told!Next]_slaVars
    BY SlaMoves, PTL DEF AllSpec
  <2>3. QED
    BY <2>1, <2>2, SlaBegins, PTL DEF AllSpec, Told!Spec, Told!slaVars, slaVars
<1>3. Told!Spec => []Told!TypeOK /\ []Told!RetriesAreCapped /\ Told!ToldOnce /\ Told!NoBreachOutranked
  BY <1>1, Told!AnnouncerTypes, Told!CeilingHolds, Told!NoneToldTwice, Told!LeastTriedFirst
<1>4. Told!ToldOnce => Sla!ToldOnce
  BY DEF Told!ToldOnce, Sla!ToldOnce, Told!slaVars, Sla!slaVars, Told!Breaches, Sla!Breaches
<1>5. Told!NoBreachOutranked => Sla!NoBreachOutranked
  BY DEF Told!NoBreachOutranked, Sla!NoBreachOutranked, Told!slaVars, Sla!slaVars
<1>6. (Told!TypeOK => Sla!TypeOK) /\ (Told!RetriesAreCapped => Sla!RetriesAreCapped)
  BY SameSla
<1>7. QED
  BY <1>2, <1>3, <1>4, <1>5, <1>6, PTL DEF AnnouncementsHold

\* Whatever feeds fail and whenever the process restarts: a CVE once listed as
\* exploited stays listed beside what EPSS stores (store.py:6719), no indicator is
\* dropped before its last report expires (store.py:6762), and while a live answer
\* lasts, every enrichment that gets an answer from the store has it
\* (abuseipdb.py:76).
THEOREM IntelligenceIsKept == AllSpec => FeedsHold
<1>1. AllInit => FeedsInv
  BY FeedsInit DEF AllInit
<1>2. FeedsInv /\ [AllNext]_allVars => FeedsInv' /\ [KevKept]_feedVars /\ [Recalls]_feedVars
  BY PartsMove, FeedsStep
<1>3. FeedsInv => Feeds!TypeOK /\ Feeds!NotDroppedEarly
  BY DEF FeedsInv
<1>4. [][KevKept]_feedVars => Feeds!KevStays
  BY DEF KevKept, Feeds!KevStays, Feeds!feedVars, feedVars
<1>5. [][Recalls]_feedVars => Feeds!RemembersVerdict
  BY DEF Recalls, Feeds!RemembersVerdict, Feeds!feedVars, feedVars
<1>6. QED
  BY <1>1, <1>2, <1>3, <1>4, <1>5, PTL DEF AllSpec, FeedsHold
=============================================================================
