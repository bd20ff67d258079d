-------------------------- MODULE ModelCalls_proofs --------------------------
(***************************************************************************)
(* The calls of the language model, proved for any number of workers and   *)
(* callers, any cap and costs, any pace, permits and thresholds, and any   *)
(* number of faults: the spend cap (BudgetGuard), then the two backends    *)
(* (LlmBackend, TenantBackend), then what the run budget checks of them.   *)
(***************************************************************************)
EXTENDS MCModelCalls, FiniteSetTheorems, TLAPS

\* The rows a purge would leave.
Live == rows \ stale

\* Workers that may call and have no live row, rows that stand for no worker.
Exposed == {w \in Workers : pc[w] = "calling" /\ mine[w] \notin Live}
Orphans == rows \ Owned

\* A reservation belongs to one worker, and to one that may call.
MineTrue ==
  /\ \A v, w \in Workers : mine[v] = mine[w] /\ mine[v] # 0 => v = w
  /\ \A w \in Workers : mine[w] # 0 => pc[w] = "calling"

RowsInv ==
  /\ TypeOK /\ MineTrue
  /\ Cardinality(Exposed) <= faults
  /\ Cardinality(Orphans) <= leaks

-----------------------------------------------------------------------------
(* Finite sets.                                                            *)

LEMMA RowIdsFinite == RowIds \subseteq Nat \ {0} /\ IsFiniteSet(RowIds)
<1>1. Cardinality(Workers) \in Nat
  BY BudgetAssumption, FS_CardinalityType
<1>2. Cardinality(Workers) + MaxLeaks \in Nat
  BY <1>1, BudgetAssumption
<1>3. IsFiniteSet(RowIds)
  BY <1>2, FS_Interval DEF RowIds
<1>4. QED
  BY <1>2, <1>3 DEF RowIds

\* Every set the invariants count is finite.
LEMMA Counted ==
  ASSUME TypeOK
  PROVE  /\ IsFiniteSet(rows) /\ IsFiniteSet(Live) /\ IsFiniteSet(Exposed)
         /\ IsFiniteSet(Orphans)
         /\ Cardinality(rows) \in Nat /\ Cardinality(Live) \in Nat
         /\ Cardinality(Exposed) \in Nat /\ Cardinality(Orphans) \in Nat
<1>1. IsFiniteSet(rows)
  BY RowIdsFinite, FS_Subset DEF TypeOK
<1>2. IsFiniteSet(Live) /\ IsFiniteSet(Orphans)
  BY <1>1, FS_Subset DEF Live, Orphans
<1>3. IsFiniteSet(Exposed)
  BY BudgetAssumption, FS_Subset DEF Exposed
<1>4. QED
  BY <1>1, <1>2, <1>3, FS_CardinalityType

\* A set that grows by one element at most.
LEMMA GrowsByOne ==
  ASSUME NEW S, NEW T, NEW x, IsFiniteSet(S), T \subseteq S \cup {x}
  PROVE  /\ IsFiniteSet(T) /\ Cardinality(T) \in Nat /\ Cardinality(S) \in Nat
         /\ Cardinality(T) <= Cardinality(S) + 1
<1>1. /\ IsFiniteSet(S \cup {x})
      /\ Cardinality(S \cup {x}) = IF x \in S THEN Cardinality(S) ELSE Cardinality(S) + 1
  BY FS_AddElement
<1>2. IsFiniteSet(T) /\ Cardinality(T) <= Cardinality(S \cup {x})
  BY <1>1, FS_Subset
<1>3. Cardinality(S) \in Nat /\ Cardinality(T) \in Nat
  BY <1>2, FS_CardinalityType
<1>4. QED
  BY <1>1, <1>2, <1>3

LEMMA Shrinks ==
  ASSUME NEW S, NEW T, IsFiniteSet(S), T \subseteq S
  PROVE  /\ IsFiniteSet(T) /\ Cardinality(T) \in Nat /\ Cardinality(S) \in Nat
         /\ Cardinality(T) <= Cardinality(S)
  BY FS_Subset, FS_CardinalityType

LEMMA OneOrNone ==
  ASSUME NEW x, NEW S
  PROVE  Cardinality({x} \cap S) = IF x \in S THEN 1 ELSE 0
<1>1. CASE x \in S
  <2>1. {x} \cap S = {x}
    BY <1>1
  <2>2. QED
    BY <1>1, <2>1, FS_Singleton
<1>2. CASE x \notin S
  <2>1. {x} \cap S = {}
    BY <1>2
  <2>2. QED
    BY <1>2, <2>1, FS_EmptySet
<1>3. QED
  BY <1>1, <1>2

-----------------------------------------------------------------------------
(* Types.                                                                  *)

LEMMA TypeInit == Init => TypeOK
  BY BudgetAssumption DEF Init, TypeOK

LEMMA TypeStep == TypeOK /\ [Next]_vars => TypeOK'
<1> SUFFICES ASSUME TypeOK, [Next]_vars PROVE TypeOK'
  OBVIOUS
<1> USE DEF TypeOK
<1>1. CASE UNCHANGED vars
  BY <1>1 DEF vars
<1>2. ASSUME NEW w \in Workers, Ask(w) PROVE TypeOK'
  BY <1>2 DEF Ask, history
<1>3. ASSUME NEW w \in Workers, ReadSpend(w) PROVE TypeOK'
  BY <1>3 DEF ReadSpend
<1>4. ASSUME NEW w \in Workers, Admit(w) PROVE TypeOK'
  BY <1>4 DEF Admit, Unlock, Larger
<1>5. ASSUME NEW w \in Workers, Refuse(w) PROVE TypeOK'
  BY <1>5 DEF Refuse, Unlock, history
<1>6. ASSUME NEW w \in Workers, FailOpen(w) PROVE TypeOK'
  BY <1>6, BudgetAssumption DEF FailOpen, Unlock
<1>7. ASSUME NEW w \in Workers, Record(w) PROVE TypeOK'
  BY <1>7, BudgetAssumption DEF Record, history
<1>8. ASSUME NEW w \in Workers, Release(w) PROVE TypeOK'
  <2>1. Cardinality({mine[w]} \cap rows) \in Nat
    BY OneOrNone
  <2>2. QED
    BY <1>8, <2>1, BudgetAssumption DEF Release
<1>9. ASSUME NEW w \in Workers, ReleaseFails(w) PROVE TypeOK'
  BY <1>9, BudgetAssumption DEF ReleaseFails
<1>10. ASSUME NEW w \in Workers, Crash(w) PROVE TypeOK'
  BY <1>10, BudgetAssumption DEF Crash, Unlock
<1>11. ASSUME NEW id \in RowIds, Expire(id) PROVE TypeOK'
  BY <1>11, BudgetAssumption DEF Expire
<1>12. QED
  BY <1>1, <1>2, <1>3, <1>4, <1>5, <1>6, <1>7, <1>8, <1>9, <1>10, <1>11
     DEF Next, Section, Call

-----------------------------------------------------------------------------
(* Rows and calls.                                                         *)

LEMMA MineStep ==
  ASSUME RowsInv, [Next]_vars
  PROVE  MineTrue'
<1> USE DEF RowsInv, TypeOK, MineTrue
<1>1. CASE UNCHANGED vars
  BY <1>1 DEF vars
<1>2. ASSUME NEW w \in Workers, Ask(w) PROVE MineTrue'
  BY <1>2 DEF Ask
<1>3. ASSUME NEW w \in Workers, ReadSpend(w) PROVE MineTrue'
  BY <1>3 DEF ReadSpend
<1>4. ASSUME NEW w \in Workers, Admit(w) PROVE MineTrue'
  BY <1>4, RowIdsFinite DEF Admit, Owned
<1>5. ASSUME NEW w \in Workers, Refuse(w) PROVE MineTrue'
  BY <1>5 DEF Refuse
<1>6. ASSUME NEW w \in Workers, FailOpen(w) PROVE MineTrue'
  BY <1>6 DEF FailOpen
<1>7. ASSUME NEW w \in Workers, Record(w) PROVE MineTrue'
  BY <1>7 DEF Record
<1>8. ASSUME NEW w \in Workers, Release(w) PROVE MineTrue'
  BY <1>8 DEF Release
<1>9. ASSUME NEW w \in Workers, ReleaseFails(w) PROVE MineTrue'
  BY <1>9 DEF ReleaseFails
<1>10. ASSUME NEW w \in Workers, Crash(w) PROVE MineTrue'
  BY <1>10 DEF Crash
<1>11. ASSUME NEW id \in RowIds, Expire(id) PROVE MineTrue'
  BY <1>11 DEF Expire
<1>12. QED
  BY <1>1, <1>2, <1>3, <1>4, <1>5, <1>6, <1>7, <1>8, <1>9, <1>10, <1>11
     DEF Next, Section, Call

\* What each step does to the two sets that are counted.
LEMMA ExposedKept ==
  ASSUME RowsInv, Exposed' \subseteq Exposed, faults' = faults
  PROVE  Cardinality(Exposed') <= faults'
<1>1. IsFiniteSet(Exposed) /\ Cardinality(Exposed) <= faults /\ faults \in Nat
  BY Counted, BudgetAssumption DEF RowsInv, TypeOK
<1>2. QED
  BY <1>1, Shrinks

LEMMA ExposedGrows ==
  ASSUME RowsInv, NEW w \in Workers, Exposed' \subseteq Exposed \cup {w},
         faults' = faults + 1
  PROVE  Cardinality(Exposed') <= faults'
<1>1. IsFiniteSet(Exposed) /\ Cardinality(Exposed) <= faults /\ faults \in Nat
  BY Counted, BudgetAssumption DEF RowsInv, TypeOK
<1>2. /\ Cardinality(Exposed') \in Nat /\ Cardinality(Exposed) \in Nat
      /\ Cardinality(Exposed') <= Cardinality(Exposed) + 1
  BY <1>1, GrowsByOne
<1>3. QED
  BY <1>1, <1>2

LEMMA OrphansKept ==
  ASSUME RowsInv, Orphans' \subseteq Orphans, leaks' = leaks
  PROVE  Cardinality(Orphans') <= leaks'
<1>1. IsFiniteSet(Orphans) /\ Cardinality(Orphans) <= leaks /\ leaks \in Nat
  BY Counted, BudgetAssumption DEF RowsInv, TypeOK
<1>2. QED
  BY <1>1, Shrinks

LEMMA OrphansGrow ==
  ASSUME RowsInv, NEW id, Orphans' \subseteq Orphans \cup {id}, leaks' = leaks + 1
  PROVE  Cardinality(Orphans') <= leaks'
<1>1. IsFiniteSet(Orphans) /\ Cardinality(Orphans) <= leaks /\ leaks \in Nat
  BY Counted, BudgetAssumption DEF RowsInv, TypeOK
<1>2. /\ Cardinality(Orphans') \in Nat /\ Cardinality(Orphans) \in Nat
      /\ Cardinality(Orphans') <= Cardinality(Orphans) + 1
  BY <1>1, GrowsByOne
<1>3. QED
  BY <1>1, <1>2

\* A live row belongs to the worker that has it for its own: no other worker
\* loses its row with it.
LEMMA RowsStep ==
  ASSUME RowsInv, [Next]_vars
  PROVE  RowsInv'
<1> DEFINE Counts == Cardinality(Exposed) <= faults /\ Cardinality(Orphans) <= leaks
<1>t. TypeOK /\ TypeOK' /\ MineTrue
  BY TypeStep DEF RowsInv
<1>z. 0 \notin RowIds
  BY RowIdsFinite
<1>1. ASSUME UNCHANGED vars PROVE Counts'
  BY <1>1 DEF vars, RowsInv, Exposed, Orphans, Live, Owned
<1>2. ASSUME NEW w \in Workers, Ask(w) PROVE Counts'
  <2>1. Exposed' \subseteq Exposed /\ Orphans' \subseteq Orphans
    BY <1>2, <1>t DEF Ask, Exposed, Orphans, Live, Owned, TypeOK
  <2>2. QED
    BY <1>2, <2>1, ExposedKept, OrphansKept DEF Ask, history
<1>3. ASSUME NEW w \in Workers, ReadSpend(w) PROVE Counts'
  <2>1. Exposed' \subseteq Exposed /\ Orphans' \subseteq Orphans
    BY <1>3, <1>t DEF ReadSpend, Exposed, Orphans, Live, Owned, TypeOK
  <2>2. QED
    BY <1>3, <2>1, ExposedKept, OrphansKept DEF ReadSpend
<1>4. ASSUME NEW w \in Workers, Admit(w) PROVE Counts'
  <2>1. PICK id \in RowIds \ (rows \cup Owned) :
          rows' = Live \cup {id} /\ mine' = [mine EXCEPT ![w] = id]
    BY <1>4 DEF Admit, Live
  <2>2. Live' = Live \cup {id}
    BY <1>4, <2>1 DEF Admit, Live
  <2>3. Exposed' \subseteq Exposed
    BY <1>4, <1>t, <2>1, <2>2 DEF Admit, Exposed, TypeOK
  <2>4. mine[w] = 0
    BY <1>4, <1>t DEF Admit, MineTrue
  <2>5. Owned' = Owned \cup {id}
    BY <1>t, <1>z, <2>1, <2>4 DEF Owned, TypeOK
  <2>6. Orphans' \subseteq Orphans
    BY <2>1, <2>5 DEF Orphans, Live
  <2>7. QED
    BY <1>4, <2>3, <2>6, ExposedKept, OrphansKept DEF Admit
<1>5. ASSUME NEW w \in Workers, Refuse(w) PROVE Counts'
  <2>1. Exposed' \subseteq Exposed /\ Orphans' \subseteq Orphans
    BY <1>5, <1>t DEF Refuse, Exposed, Orphans, Live, Owned, TypeOK
  <2>2. QED
    BY <1>5, <2>1, ExposedKept, OrphansKept DEF Refuse, history
<1>6. ASSUME NEW w \in Workers, FailOpen(w) PROVE Counts'
  <2>1. Exposed' \subseteq Exposed \cup {w} /\ Orphans' \subseteq Orphans
    BY <1>6, <1>t DEF FailOpen, Exposed, Orphans, Live, Owned, TypeOK
  <2>2. QED
    BY <1>6, <2>1, ExposedGrows, OrphansKept DEF FailOpen
<1>7. ASSUME NEW w \in Workers, Record(w) PROVE Counts'
  <2>1. Exposed' \subseteq Exposed /\ Orphans' \subseteq Orphans
    BY <1>7, <1>t DEF Record, Exposed, Orphans, Live, Owned, TypeOK
  <2>2. QED
    BY <1>7, <2>1, ExposedKept, OrphansKept DEF Record, history
<1>8. ASSUME NEW w \in Workers, Release(w) PROVE Counts'
  <2>1. Live' = Live \ {mine[w]}
    BY <1>8 DEF Release, Live
  <2>2. Exposed' \subseteq Exposed
    BY <1>8, <1>t, <1>z, <2>1 DEF Release, Exposed, MineTrue, TypeOK, Live
  <2>3. Owned \subseteq Owned' \cup {mine[w]}
    BY <1>8, <1>t DEF Release, Owned, TypeOK
  <2>4. Orphans' \subseteq Orphans
    BY <1>8, <2>3 DEF Release, Orphans
  <2>5. QED
    BY <1>8, <2>2, <2>4, ExposedKept, OrphansKept DEF Release
<1>9. ASSUME NEW w \in Workers, ReleaseFails(w) PROVE Counts'
  <2>1. Exposed' \subseteq Exposed
    BY <1>9, <1>t DEF ReleaseFails, Exposed, Live, TypeOK
  <2>2. Owned \subseteq Owned' \cup {mine[w]}
    BY <1>9, <1>t DEF ReleaseFails, Owned, TypeOK
  <2>3. Orphans' \subseteq Orphans \cup {mine[w]}
    BY <1>9, <2>2 DEF ReleaseFails, Orphans
  <2>4. QED
    BY <1>9, <2>1, <2>3, ExposedKept, OrphansGrow DEF ReleaseFails
<1>10. ASSUME NEW w \in Workers, Crash(w) PROVE Counts'
  <2>1. Exposed' \subseteq Exposed
    BY <1>10, <1>t DEF Crash, Exposed, Live, TypeOK
  <2>2. Owned \subseteq Owned' \cup {mine[w]}
    BY <1>10, <1>t DEF Crash, Owned, TypeOK
  <2>3. Orphans' \subseteq Orphans \cup {mine[w]}
    BY <1>10, <2>2 DEF Crash, Orphans
  <2>4. QED
    BY <1>10, <2>1, <2>3, ExposedKept, OrphansGrow DEF Crash
<1>11. ASSUME NEW id \in RowIds, Expire(id) PROVE Counts'
  <2>1. Live' = Live \ {id} /\ pc' = pc /\ mine' = mine
    BY <1>11 DEF Expire, Live
  <2>2. Orphans' \subseteq Orphans /\ leaks' = leaks
    BY <1>11 DEF Expire, Orphans, Owned
  <2>3. CASE id \in Owned
    <3>1. PICK v \in Workers : mine[v] = id
      BY <2>3 DEF Owned
    <3>2. Exposed' \subseteq Exposed \cup {v}
      BY <1>t, <1>z, <2>1, <3>1 DEF Exposed, MineTrue
    <3>3. faults' = faults + 1
      BY <1>11, <2>3 DEF Expire
    <3>4. QED
      BY <2>2, <3>2, <3>3, ExposedGrows, OrphansKept
  <2>4. CASE id \notin Owned
    <3>1. Exposed' \subseteq Exposed
      BY <1>z, <2>1, <2>4 DEF Exposed, Owned
    <3>2. faults' = faults
      BY <1>11, <2>4 DEF Expire
    <3>3. QED
      BY <2>2, <3>1, <3>2, ExposedKept, OrphansKept
  <2>5. QED
    BY <2>3, <2>4
<1>12. Counts'
  <2> HIDE DEF Counts
  <2>1. QED
    BY <1>1, <1>2, <1>3, <1>4, <1>5, <1>6, <1>7, <1>8, <1>9, <1>10, <1>11
       DEF Next, Section, Call
<1>13. QED
  BY <1>t, <1>12, MineStep DEF RowsInv

LEMMA RowsInit == Init => RowsInv
<1> SUFFICES ASSUME Init PROVE RowsInv
  OBVIOUS
<1>1. Exposed = {} /\ Orphans = {}
  BY DEF Init, Exposed, Orphans
<1>2. Cardinality({}) = 0
  BY FS_EmptySet
<1>3. QED
  BY <1>1, <1>2, TypeInit DEF Init, RowsInv, MineTrue

LEMMA RowsAlways == Spec => []RowsInv
  BY RowsInit, RowsStep, PTL DEF Spec

\* A worker without a row is one without a live row.
LEMMA RowsEnough == RowsInv => RowsAreCalls
<1> SUFFICES ASSUME RowsInv PROVE RowsAreCalls
  OBVIOUS
<1> DEFINE Rowless == {w \in Workers : pc[w] = "calling" /\ mine[w] \notin rows}
<1>1. Rowless \subseteq Exposed
  BY DEF Exposed, Live
<1>2. /\ Cardinality(Rowless) \in Nat /\ Cardinality(Exposed) \in Nat
      /\ Cardinality(Rowless) <= Cardinality(Exposed)
  <2>1. IsFiniteSet(Exposed)
    BY Counted DEF RowsInv
  <2>2. QED
    BY <1>1, <2>1, Shrinks
<1>3. Cardinality(Rowless) <= faults
  BY <1>2, BudgetAssumption DEF RowsInv, TypeOK
<1>4. QED
  BY <1>3 DEF RowsInv, RowsAreCalls, MineTrue, Orphans

\* Every variable keeps its type: the spend and the counters are numbers, stale
\* rows are rows, a worker has one reservation or none.
THEOREM BudgetTypes == Spec => []TypeOK
  BY RowsAlways, PTL DEF RowsInv

\* The reservations of reserve() and release() (cost_controls.py): but for as
\* many as failed open or outlived their row, every triage that may call has a
\* row, and but for as many as were left behind every row has a triage.
THEOREM RowsStandForCalls == Spec => []RowsAreCalls
  BY RowsAlways, RowsEnough, PTL

-----------------------------------------------------------------------------
(* The cap.  A unit of what is still to come is one call that a triage may  *)
(* yet make: spent and what is to come grow only by admissions.             *)

ToCome == {p \in Workers \X (1..CallsPerTriage) :
             pc[p[1]] = "calling" /\ calls[p[1]] < p[2]}
Committed == spent + MaxCost * Cardinality(ToCome)

\* One worker is inside the section; what was committed when it read the spend
\* is covered by the rows that are left, those that went away, and faults.
SectionInv ==
  \A w \in Workers : pc[w] = "reading" <=> lock = w

CoveredInv ==
  (\E w \in Workers : pc[w] = "reading") =>
    Committed <= seen + Est * (Cardinality(Live) + slipped + faults)

CapInv == Committed < Cap + Est * (1 + worst + faults)

IInv == RowsInv /\ SectionInv /\ (CallsPerTriage * MaxCost <= Est => CoveredInv /\ CapInv)

-----------------------------------------------------------------------------
(* What is to come.                                                        *)

LEMMA ToComeFinite ==
  ASSUME RowsInv
  PROVE  IsFiniteSet(ToCome) /\ Cardinality(ToCome) \in Nat
<1>1. IsFiniteSet(1..CallsPerTriage)
  BY BudgetAssumption, FS_Interval
<1>2. IsFiniteSet(Workers \X (1..CallsPerTriage))
  BY <1>1, BudgetAssumption, FS_Product
<1>3. QED
  BY <1>2, Shrinks DEF ToCome

\* Every worker that may call has a live row of its own or is exposed.
LEMMA CallersCovered ==
  ASSUME RowsInv
  PROVE  LET C == {w \in Workers : pc[w] = "calling"} IN
         /\ IsFiniteSet(C) /\ Cardinality(C) \in Nat
         /\ Cardinality(C) <= Cardinality(Live) + faults
<1> DEFINE C == {w \in Workers : pc[w] = "calling"}
           Held == {w \in C : mine[w] \in Live}
           f == [w \in Held |-> mine[w]]
<1>1. IsFiniteSet(C) /\ Cardinality(C) \in Nat
  BY BudgetAssumption, Shrinks
<1>2. f \in Injection(Held, Live)
  <2>1. \A v, w \in Held : f[v] = f[w] => v = w
    BY RowIdsFinite DEF RowsInv, MineTrue, TypeOK, Live
  <2>2. f \in [Held -> Live]
    OBVIOUS
  <2>3. QED
    BY <2>1, <2>2 DEF Injection, IsInjective
<1>3. IsFiniteSet(Live) /\ Cardinality(Live) \in Nat /\ IsFiniteSet(Exposed)
      /\ Cardinality(Exposed) \in Nat /\ Cardinality(Exposed) <= faults
  BY Counted DEF RowsInv
<1>4. IsFiniteSet(Held) /\ Cardinality(Held) <= Cardinality(Live)
  BY <1>2, <1>3, FS_Injection
<1>5. C = Held \cup Exposed
  BY DEF Exposed
<1>6. /\ Cardinality(Held) \in Nat
      /\ Cardinality(C) = Cardinality(Held) + Cardinality(Exposed) - Cardinality(Held \cap Exposed)
      /\ Cardinality(Held \cap Exposed) \in Nat
  BY <1>3, <1>4, <1>5, FS_Union, FS_Intersection, FS_CardinalityType
<1>7. faults \in Nat
  BY BudgetAssumption DEF RowsInv, TypeOK
<1> HIDE DEF C, Held, f
<1>8. Cardinality(C) <= Cardinality(Live) + faults
  BY <1>1, <1>3, <1>4, <1>6, <1>7
<1>9. QED
  BY <1>1, <1>8 DEF C

\* Arithmetic of caps.
LEMMA Scaled ==
  ASSUME NEW a \in Nat, NEW b \in Nat, NEW c \in Nat, b <= c
  PROVE  a * b \in Nat /\ a * c \in Nat /\ a * b <= a * c
<1>1. a * c = a * b + a * (c - b)
  OBVIOUS
<1>2. a * (c - b) >= 0
  OBVIOUS
<1>3. a * b \in Nat /\ a * c \in Nat /\ a * (c - b) \in Int
  OBVIOUS
<1>4. QED
  BY <1>1, <1>2, <1>3

LEMMA OneMore ==
  ASSUME NEW a \in Nat, NEW b \in Nat
  PROVE  a * (b + 1) = a * b + a /\ a * b \in Nat
  OBVIOUS

LEMMA Numbers ==
  ASSUME RowsInv
  PROVE  /\ Committed \in Nat /\ Cardinality(Live) \in Nat /\ Cardinality(ToCome) \in Nat
         /\ spent \in Nat /\ seen \in Nat /\ slipped \in Nat /\ worst \in Nat
         /\ faults \in Nat /\ Est \in Nat /\ Cap \in Nat /\ MaxCost \in Nat
         /\ CallsPerTriage \in Nat
<1>1. spent \in Nat /\ seen \in Nat /\ slipped \in Nat /\ worst \in Nat /\ faults \in Nat
  BY BudgetAssumption DEF RowsInv, TypeOK
<1>2. Cardinality(Live) \in Nat /\ Cardinality(ToCome) \in Nat
  BY Counted, ToComeFinite DEF RowsInv
<1>3. MaxCost * Cardinality(ToCome) \in Nat
  BY <1>2, BudgetAssumption
<1>4. QED
  BY <1>1, <1>2, <1>3, BudgetAssumption DEF Committed

-----------------------------------------------------------------------------
(* What a step does to what is committed.                                  *)

LEMMA CommittedFalls ==
  ASSUME RowsInv, spent' = spent, ToCome' \subseteq ToCome
  PROVE  Committed' \in Nat /\ Committed' <= Committed
<1>1. Cardinality(ToCome') \in Nat /\ Cardinality(ToCome') <= Cardinality(ToCome)
  BY ToComeFinite, Shrinks
<1>2. /\ MaxCost * Cardinality(ToCome') \in Nat /\ MaxCost * Cardinality(ToCome) \in Nat
      /\ MaxCost * Cardinality(ToCome') <= MaxCost * Cardinality(ToCome)
  BY <1>1, Numbers, Scaled
<1>3. QED
  BY <1>2, Numbers DEF Committed

LEMMA RecordCommits ==
  ASSUME RowsInv, NEW w \in Workers, Record(w)
  PROVE  Committed' \in Nat /\ Committed' <= Committed
<1> DEFINE u == <<w, calls[w] + 1>>
<1>1. calls[w] \in 0..CallsPerTriage /\ calls[w] < CallsPerTriage
  BY DEF Record, RowsInv, TypeOK
<1>2. u \in ToCome
  BY <1>1, BudgetAssumption DEF Record, ToCome
<1>3. ToCome' \subseteq ToCome \ {u}
  <2> SUFFICES ASSUME NEW p \in ToCome' PROVE p \in ToCome \ {u}
    OBVIOUS
  <2>1. /\ p \in Workers \X (1..CallsPerTriage)
        /\ pc'[p[1]] = "calling" /\ calls'[p[1]] < p[2]
    BY DEF ToCome
  <2>2. PICK v \in Workers, k \in 1..CallsPerTriage : p = <<v, k>>
    BY <2>1
  <2>3. calls[v] \in Nat /\ calls[w] \in Nat
    BY DEF RowsInv, TypeOK
  <2>4. pc[v] = "calling" /\ calls'[v] < k /\ calls' = [calls EXCEPT ![w] = @ + 1]
    BY <2>1, <2>2 DEF Record
  <2>5. CASE v = w
    BY <2>2, <2>3, <2>4, <2>5 DEF RowsInv, TypeOK, ToCome
  <2>6. CASE v # w
    BY <2>2, <2>3, <2>4, <2>6 DEF RowsInv, TypeOK, ToCome
  <2>7. QED
    BY <2>5, <2>6
<1>4. /\ IsFiniteSet(ToCome \ {u})
      /\ Cardinality(ToCome \ {u}) = Cardinality(ToCome) - 1
  BY <1>2, ToComeFinite, FS_RemoveElement
<1>5. Cardinality(ToCome') \in Nat /\ Cardinality(ToCome') + 1 <= Cardinality(ToCome)
  BY <1>3, <1>4, ToComeFinite, Shrinks
<1>6. /\ MaxCost * (Cardinality(ToCome') + 1) <= MaxCost * Cardinality(ToCome)
      /\ MaxCost * (Cardinality(ToCome') + 1) = MaxCost * Cardinality(ToCome') + MaxCost
      /\ MaxCost * Cardinality(ToCome') \in Nat /\ MaxCost * Cardinality(ToCome) \in Nat
  BY <1>5, Numbers, Scaled, OneMore
<1>7. PICK cost \in 0..MaxCost : spent' = spent + cost
  BY DEF Record
<1>8. QED
  BY <1>6, <1>7, Numbers DEF Committed

\* A triage that is let in commits one estimate at most.
LEMMA EntryCommits ==
  ASSUME RowsInv, CallsPerTriage * MaxCost <= Est, NEW w \in Workers,
         spent' = spent, calls' = calls, pc' = [pc EXCEPT ![w] = "calling"]
  PROVE  Committed' \in Nat /\ Committed' <= Committed + Est
<1> DEFINE New == {w} \X (1..CallsPerTriage)
<1>1. /\ IsFiniteSet(New) /\ Cardinality(New) = CallsPerTriage
  <2> DEFINE Numbered == 1..CallsPerTriage
  <2>1. IsFiniteSet({w}) /\ Cardinality({w}) = 1
    BY FS_Singleton
  <2>2. IsFiniteSet(Numbered) /\ Cardinality(Numbered) = CallsPerTriage
    BY BudgetAssumption, FS_Interval
  <2>3. /\ IsFiniteSet({w} \X Numbered)
        /\ Cardinality({w} \X Numbered) = Cardinality({w}) * Cardinality(Numbered)
    <3> HIDE DEF Numbered
    <3>1. QED
      BY <2>1, <2>2, FS_Product
  <2>4. QED
    BY <2>1, <2>2, <2>3, BudgetAssumption
<1>2. ToCome' \subseteq ToCome \cup New
  BY DEF ToCome, RowsInv, TypeOK
<1>3. /\ IsFiniteSet(ToCome \cup New)
      /\ Cardinality(ToCome \cup New) <= Cardinality(ToCome) + CallsPerTriage
      /\ Cardinality(ToCome \cup New) \in Nat
  <2>1. /\ IsFiniteSet(ToCome \cup New) /\ IsFiniteSet(ToCome \cap New)
        /\ Cardinality(ToCome \cup New)
             = Cardinality(ToCome) + Cardinality(New) - Cardinality(ToCome \cap New)
    BY <1>1, ToComeFinite, FS_Union, FS_Intersection
  <2>2. Cardinality(ToCome \cap New) \in Nat /\ Cardinality(ToCome \cup New) \in Nat
    BY <2>1, FS_CardinalityType
  <2>3. QED
    BY <1>1, <2>1, <2>2, Numbers
<1>4. /\ Cardinality(ToCome') \in Nat
      /\ Cardinality(ToCome') <= Cardinality(ToCome) + CallsPerTriage
  <2>1. /\ Cardinality(ToCome') \in Nat
        /\ Cardinality(ToCome') <= Cardinality(ToCome \cup New)
    BY <1>2, <1>3, Shrinks
  <2>2. QED
    BY <1>3, <2>1, Numbers
<1>5. /\ MaxCost * Cardinality(ToCome') \in Nat
      /\ MaxCost * Cardinality(ToCome') <= MaxCost * (Cardinality(ToCome) + CallsPerTriage)
  BY <1>4, Numbers, Scaled
<1>6. /\ MaxCost * (Cardinality(ToCome) + CallsPerTriage)
           = MaxCost * Cardinality(ToCome) + CallsPerTriage * MaxCost
      /\ MaxCost * Cardinality(ToCome) \in Nat /\ CallsPerTriage * MaxCost \in Nat
  BY Numbers
<1>7. QED
  BY <1>5, <1>6, Numbers DEF Committed

-----------------------------------------------------------------------------
(* The section.                                                            *)

LEMMA SectionStep ==
  ASSUME IInv, [Next]_vars
  PROVE  SectionInv'
<1> USE DEF IInv, RowsInv, TypeOK, SectionInv
<1>1. CASE UNCHANGED vars
  BY <1>1 DEF vars
<1>2. ASSUME NEW w \in Workers, Ask(w) PROVE SectionInv'
  BY <1>2 DEF Ask
<1>3. ASSUME NEW w \in Workers, ReadSpend(w) PROVE SectionInv'
  BY <1>3, BudgetAssumption DEF ReadSpend
<1>4. ASSUME NEW w \in Workers, Admit(w) PROVE SectionInv'
  BY <1>4, BudgetAssumption DEF Admit, Unlock
<1>5. ASSUME NEW w \in Workers, Refuse(w) PROVE SectionInv'
  BY <1>5, BudgetAssumption DEF Refuse, Unlock
<1>6. ASSUME NEW w \in Workers, FailOpen(w) PROVE SectionInv'
  BY <1>6, BudgetAssumption DEF FailOpen, Unlock
<1>7. ASSUME NEW w \in Workers, Record(w) PROVE SectionInv'
  BY <1>7 DEF Record
<1>8. ASSUME NEW w \in Workers, Release(w) PROVE SectionInv'
  BY <1>8 DEF Release
<1>9. ASSUME NEW w \in Workers, ReleaseFails(w) PROVE SectionInv'
  BY <1>9 DEF ReleaseFails
<1>10. ASSUME NEW w \in Workers, Crash(w) PROVE SectionInv'
  BY <1>10, BudgetAssumption DEF Crash, Unlock
<1>11. ASSUME NEW id \in RowIds, Expire(id) PROVE SectionInv'
  BY <1>11 DEF Expire
<1>12. QED
  BY <1>1, <1>2, <1>3, <1>4, <1>5, <1>6, <1>7, <1>8, <1>9, <1>10, <1>11
     DEF Next, Section, Call

\* What is counted are numbers, before and after a step.
Counting ==
  /\ Committed \in Nat /\ Cardinality(Live) \in Nat /\ spent \in Nat /\ seen \in Nat
  /\ slipped \in Nat /\ worst \in Nat /\ faults \in Nat

LEMMA CountingNow == RowsInv => Counting
  BY Numbers DEF Counting

LEMMA CountingThen == RowsInv' => Counting'
  BY CountingNow, PTL

\* A smaller sum stays below a larger bound.
LEMMA BoundGrows ==
  ASSUME NEW c \in Nat, NEW d \in Nat, d <= c, NEW s \in Nat, NEW e \in Nat,
         NEW k \in Nat, NEW m \in Nat, k <= m
  PROVE  /\ c <= s + e * k => d <= s + e * m
         /\ c < s + e * k => d < s + e * m
<1>1. e * k \in Nat /\ e * m \in Nat /\ e * k <= e * m
  BY Scaled
<1>2. QED
  BY <1>1

LEMMA ThreeNumbers ==
  ASSUME NEW a \in Nat, NEW b \in Nat, NEW c \in Nat, NEW d \in Nat
  PROVE  a + b + c \in Nat /\ (c <= d => a + b + c <= a + b + d)
  OBVIOUS

\* A step that commits no more, and takes no cover away, keeps both bounds.
LEMMA CoverKept ==
  ASSUME RowsInv, RowsInv', CoveredInv, CapInv, seen' = seen,
         (\E w \in Workers : pc'[w] = "reading") => \E w \in Workers : pc[w] = "reading",
         Committed' <= Committed,
         Cardinality(Live) + slipped + faults <= Cardinality(Live') + slipped' + faults',
         faults <= faults', worst' = worst
  PROVE  CoveredInv' /\ CapInv'
<1> DEFINE Cover == Cardinality(Live) + slipped + faults
           Slack == 1 + worst + faults
<1>1. Counting /\ Counting' /\ Est \in Nat /\ Cap \in Nat
  BY CountingNow, CountingThen, BudgetAssumption
<1>2. /\ Cover \in Nat /\ Cover' \in Nat /\ Cover <= Cover'
      /\ Slack \in Nat /\ Slack' \in Nat /\ Slack <= Slack'
  BY <1>1, ThreeNumbers DEF Counting
<1>3. Committed < Cap + Est * Slack
  BY DEF CapInv
<1> HIDE DEF Cover, Slack
<1>4. Committed' < Cap + Est * Slack'
  BY <1>1, <1>2, <1>3, BoundGrows DEF Counting
<1>5. ASSUME Committed <= seen + Est * Cover PROVE Committed' <= seen + Est * Cover'
  BY <1>1, <1>2, <1>5, BoundGrows DEF Counting
<1>6. QED
  BY <1>4, <1>5 DEF CoveredInv, CapInv, Cover, Slack

-----------------------------------------------------------------------------
(* The cap: one lemma per step that changes what the bounds compare.       *)

\* The first read: what is committed beyond the spend is covered by the rows of
\* those that may call, or by faults.
LEMMA ReadCovers ==
  ASSUME RowsInv, RowsInv', CallsPerTriage * MaxCost <= Est,
         NEW w \in Workers, ReadSpend(w), CapInv
  PROVE  CoveredInv' /\ CapInv'
<1> DEFINE Admitted == {v \in Workers : pc[v] = "calling"}
           Numbered == 1..CallsPerTriage
           n == Cardinality(Admitted)
           c == Cardinality(ToCome)
           k == Cardinality(Live) + faults
<1>1. /\ ToCome' = ToCome /\ Live' = Live /\ spent' = spent /\ seen' = spent
      /\ slipped' = 0 /\ faults' = faults /\ worst' = worst
  BY DEF ReadSpend, ToCome, Live, RowsInv, TypeOK
<1>2. IsFiniteSet(Admitted) /\ n \in Nat /\ n <= k
  BY CallersCovered
<1>3. c \in Nat /\ c <= n * CallsPerTriage
  <2>1. IsFiniteSet(Numbered) /\ Cardinality(Numbered) = CallsPerTriage
    BY BudgetAssumption, FS_Interval
  <2>2. ToCome \subseteq Admitted \X Numbered
    BY DEF ToCome
  <2> HIDE DEF Admitted, Numbered
  <2>3. /\ IsFiniteSet(Admitted \X Numbered)
        /\ Cardinality(Admitted \X Numbered) = n * CallsPerTriage
    BY <1>2, <2>1, FS_Product
  <2>4. QED
    BY <2>2, <2>3, Shrinks
<1>4. k \in Nat /\ Est \in Nat /\ spent \in Nat /\ CallsPerTriage \in Nat /\ MaxCost \in Nat
  BY Numbers
<1> HIDE DEF c, n, k
<1>5. MaxCost * c <= Est * k
  <2>1. MaxCost * c <= MaxCost * (n * CallsPerTriage)
    BY <1>2, <1>3, <1>4, Scaled
  <2>2. MaxCost * (n * CallsPerTriage) = n * (CallsPerTriage * MaxCost)
    BY <1>2, <1>4
  <2>3. n * (CallsPerTriage * MaxCost) <= n * Est
    BY <1>2, <1>4, Scaled
  <2>4. n * Est = Est * n /\ Est * n <= Est * k
    BY <1>2, <1>4, Scaled
  <2>5. /\ MaxCost * c \in Nat /\ MaxCost * (n * CallsPerTriage) \in Nat
        /\ n * (CallsPerTriage * MaxCost) \in Nat /\ n * Est \in Nat /\ Est * k \in Nat
    BY <1>2, <1>3, <1>4
  <2>6. QED
    BY <2>1, <2>2, <2>3, <2>4, <2>5
<1>6. Committed' <= spent + Est * k
  <2>1. MaxCost * c \in Nat /\ Est * k \in Nat
    BY <1>3, <1>4
  <2>2. Committed' = spent + MaxCost * c
    BY <1>1 DEF Committed, c
  <2>3. QED
    BY <1>4, <1>5, <2>1, <2>2
<1>7. Cardinality(Live') + slipped' + faults' = k
  <2>1. Cardinality(Live) + 0 + faults = k
    BY Numbers DEF k
  <2>2. QED
    BY <1>1, <2>1
<1>8. CoveredInv'
  BY <1>1, <1>6, <1>7 DEF CoveredInv
<1>9. CapInv'
  BY <1>1 DEF CapInv, Committed
<1>10. QED
  BY <1>8, <1>9

\* The admission: below the cap with every reservation counted, there is room
\* for one estimate more.
LEMMA AdmitCovers ==
  ASSUME IInv, RowsInv', SectionInv', CallsPerTriage * MaxCost <= Est,
         NEW w \in Workers, Admit(w)
  PROVE  CoveredInv' /\ CapInv'
<1> DEFINE l == Cardinality(Live)
           top == Larger(worst, slipped)
<1>1. RowsInv /\ SectionInv /\ CoveredInv /\ pc[w] = "reading"
  BY DEF IInv, Admit
<1>2. /\ l \in Nat /\ seen \in Nat /\ slipped \in Nat /\ worst \in Nat /\ faults \in Nat
      /\ Est \in Nat /\ Cap \in Nat /\ Committed \in Nat
  BY <1>1, Numbers
<1>3. seen + Est * l < Cap
  BY DEF Admit, Total, Live
<1>4. Committed <= seen + Est * (l + slipped + faults)
  BY <1>1 DEF CoveredInv
<1>5. Committed' \in Nat /\ Committed' <= Committed + Est
  BY <1>1, EntryCommits DEF Admit
<1>6. top \in Nat /\ slipped <= top
  BY <1>2 DEF Larger
<1>7. worst' = top /\ faults' = faults
  BY DEF Admit
<1> HIDE DEF l, top
<1>8. Committed + Est < Cap + Est * (1 + top + faults)
  <2>1. Est * (l + slipped + faults) = Est * l + Est * (slipped + faults)
    BY <1>2
  <2>2. Est * (1 + slipped + faults) = Est + Est * (slipped + faults)
    BY <1>2
  <2>3. Est * (1 + slipped + faults) <= Est * (1 + top + faults)
    BY <1>2, <1>6, Scaled
  <2>4. /\ Est * l \in Nat /\ Est * (slipped + faults) \in Nat
        /\ Est * (1 + slipped + faults) \in Nat /\ Est * (1 + top + faults) \in Nat
    BY <1>2, <1>6
  <2>5. QED
    BY <1>2, <1>3, <1>4, <2>1, <2>2, <2>3, <2>4
<1>9. Committed' < Cap + Est * (1 + top + faults)
  <2>1. Est * (1 + top + faults) \in Nat
    BY <1>2, <1>6
  <2> DEFINE new == Committed'
  <2>2. new \in Nat /\ new <= Committed + Est
    BY <1>5
  <2> HIDE DEF new
  <2>3. new < Cap + Est * (1 + top + faults)
    BY <1>2, <1>8, <2>1, <2>2
  <2>4. QED
    BY <2>3 DEF new
<1>10. CapInv'
  BY <1>7, <1>9 DEF CapInv
<1>11. ~(\E v \in Workers : pc'[v] = "reading")
  <2>1. lock = w
    BY <1>1 DEF SectionInv
  <2>2. \A v \in Workers : lock' # v
    BY <2>1, BudgetAssumption DEF Admit, Unlock
  <2>3. QED
    BY <2>2 DEF SectionInv
<1>12. QED
  BY <1>10, <1>11 DEF CoveredInv

\* A call that is let through by a fault takes one estimate, and counts.
LEMMA OneEstimate ==
  ASSUME NEW c \in Nat, NEW d \in Nat, NEW e \in Nat, d <= c + e, NEW s \in Nat,
         NEW k \in Nat
  PROVE  /\ c <= s + e * k => d <= s + e * (k + 1)
         /\ c < s + e * k => d < s + e * (k + 1)
<1>1. e * (k + 1) = e * k + e /\ e * k \in Nat
  BY OneMore
<1>2. QED
  BY <1>1

LEMMA FailOpenCovers ==
  ASSUME IInv, RowsInv', CallsPerTriage * MaxCost <= Est,
         NEW w \in Workers, FailOpen(w)
  PROVE  CoveredInv' /\ CapInv'
<1> DEFINE k == Cardinality(Live) + slipped + faults
           m == 1 + worst + faults
<1>1. RowsInv /\ CoveredInv /\ CapInv
  BY DEF IInv
<1>2. /\ k \in Nat /\ m \in Nat /\ seen \in Nat /\ Est \in Nat /\ Cap \in Nat
      /\ Committed \in Nat
  BY <1>1, Numbers
<1>3. Committed' \in Nat /\ Committed' <= Committed + Est
  BY <1>1, EntryCommits DEF FailOpen
<1>4. /\ Cardinality(Live') + slipped' + faults' = k + 1
      /\ 1 + worst' + faults' = m + 1
  <2>1. Live' = Live /\ slipped' = slipped /\ worst' = worst /\ faults' = faults + 1
    BY DEF FailOpen, Live
  <2>2. /\ Cardinality(Live) + slipped + (faults + 1) = k + 1
        /\ 1 + worst + (faults + 1) = m + 1
    BY <1>1, Numbers
  <2>3. QED
    BY <2>1, <2>2
<1>5. (\E v \in Workers : pc'[v] = "reading") => \E v \in Workers : pc[v] = "reading"
  BY <1>1 DEF FailOpen, RowsInv, TypeOK
<1>6. (\E v \in Workers : pc[v] = "reading") => Committed <= seen + Est * k
  BY <1>1 DEF CoveredInv
<1>7. Committed < Cap + Est * m
  BY <1>1 DEF CapInv
<1> HIDE DEF k, m
<1>8. Committed' < Cap + Est * (m + 1)
  BY <1>2, <1>3, <1>7, OneEstimate
<1>9. (\E v \in Workers : pc'[v] = "reading") => Committed' <= seen + Est * (k + 1)
  BY <1>2, <1>3, <1>5, <1>6, OneEstimate
<1>10. seen' = seen
  BY DEF FailOpen
<1>11. QED
  BY <1>4, <1>8, <1>9, <1>10 DEF CoveredInv, CapInv

\* A live row that goes away is counted once, as slipped or as a fault.
LEMMA CoverMoves ==
  ASSUME RowsInv, NEW id, Live' = Live \ {id}
  PROVE  /\ id \in Live => Cardinality(Live') + 1 = Cardinality(Live)
         /\ id \notin Live => Live' = Live
<1>1. IsFiniteSet(Live) /\ Cardinality(Live) \in Nat
  BY Counted DEF RowsInv
<1>2. id \in Live => Cardinality(Live') = Cardinality(Live) - 1
  BY <1>1, FS_RemoveElement
<1>3. QED
  BY <1>1, <1>2

LEMMA ReleaseCovers ==
  ASSUME IInv, RowsInv', CallsPerTriage * MaxCost <= Est,
         NEW w \in Workers, Release(w)
  PROVE  CoveredInv' /\ CapInv'
<1> DEFINE l == Cardinality(Live)
           l1 == Cardinality(Live')
           out == Cardinality({mine[w]} \cap rows)
<1>1. RowsInv /\ CoveredInv /\ CapInv
  BY DEF IInv
<1>2. Live' = Live \ {mine[w]} /\ Live \subseteq rows
  BY DEF Release, Live
<1>3. /\ mine[w] \in Live => l1 + 1 = l
      /\ mine[w] \notin Live => l1 = l
  BY <1>1, <1>2, CoverMoves
<1>4. out = IF mine[w] \in rows THEN 1 ELSE 0
  BY OneOrNone
<1>5. l \in Nat /\ l1 \in Nat /\ slipped \in Nat /\ faults \in Nat
  BY <1>1, Numbers, CountingThen DEF Counting
<1>6. /\ slipped' = slipped + out /\ faults' = faults /\ worst' = worst /\ seen' = seen
      /\ spent' = spent
  BY DEF Release
<1>7. l + slipped + faults <= l1 + (slipped + out) + faults
  <2> HIDE DEF l, l1, out
  <2>1. QED
    BY <1>2, <1>3, <1>4, <1>5
<1>8. Committed' <= Committed
  <2>1. ToCome' \subseteq ToCome
    BY <1>1 DEF Release, ToCome, RowsInv, TypeOK
  <2>2. QED
    BY <1>1, <1>6, <2>1, CommittedFalls
<1>9. (\E v \in Workers : pc'[v] = "reading") => \E v \in Workers : pc[v] = "reading"
  BY <1>1 DEF Release, RowsInv, TypeOK
<1>10. faults <= faults'
  BY <1>5, <1>6
<1>11. QED
  BY <1>1, <1>6, <1>7, <1>8, <1>9, <1>10, CoverKept

LEMMA ExpireCovers ==
  ASSUME IInv, RowsInv', CallsPerTriage * MaxCost <= Est,
         NEW id \in RowIds, Expire(id)
  PROVE  CoveredInv' /\ CapInv'
<1> DEFINE l == Cardinality(Live)
           l1 == Cardinality(Live')
<1>1. RowsInv /\ CoveredInv /\ CapInv
  BY DEF IInv
<1>2. Live' = Live \ {id} /\ id \in Live
  BY DEF Expire, Live
<1>3. l1 + 1 = l
  BY <1>1, <1>2, CoverMoves
<1>4. l \in Nat /\ l1 \in Nat /\ slipped \in Nat /\ faults \in Nat
  BY <1>1, Numbers, CountingThen DEF Counting
<1>5. l + slipped + faults <= l1 + slipped' + faults' /\ faults <= faults'
  <2>1. /\ l + slipped + faults <= l1 + (slipped + 1) + faults
        /\ l + slipped + faults <= l1 + slipped + (faults + 1)
        /\ faults <= faults + 1
    <3> HIDE DEF l, l1
    <3>1. QED
      BY <1>3, <1>4
  <2>2. CASE id \in Owned
    <3>1. faults' = faults + 1 /\ slipped' = slipped
      BY <2>2 DEF Expire
    <3>2. QED
      BY <2>1, <3>1
  <2>3. CASE id \notin Owned
    <3>1. slipped' = slipped + 1 /\ faults' = faults
      BY <2>3 DEF Expire
    <3>2. QED
      BY <1>4, <2>1, <3>1
  <2>4. QED
    BY <2>2, <2>3
<1>6. Committed' <= Committed
  <2>1. ToCome' = ToCome /\ spent' = spent
    BY DEF Expire, ToCome
  <2>2. QED
    BY <1>1, <2>1, CommittedFalls
<1>7. worst' = worst /\ seen' = seen /\ pc' = pc
  BY DEF Expire
<1>8. QED
  BY <1>1, <1>5, <1>6, <1>7, CoverKept

\* The other steps leave rows, slipped reads and faults alone.
LEMMA OthersCover ==
  ASSUME IInv, RowsInv', CallsPerTriage * MaxCost <= Est,
         Live' = Live, UNCHANGED <<seen, slipped, worst, faults>>,
         Committed' <= Committed,
         (\E v \in Workers : pc'[v] = "reading") => \E v \in Workers : pc[v] = "reading"
  PROVE  CoveredInv' /\ CapInv'
<1>1. RowsInv /\ CoveredInv /\ CapInv
  BY DEF IInv
<1>2. Cardinality(Live) \in Nat /\ slipped \in Nat /\ faults \in Nat
  BY <1>1, Numbers
<1>3. /\ Cardinality(Live) + slipped + faults <= Cardinality(Live) + slipped + faults
      /\ faults <= faults
  BY <1>2
<1>4. /\ Cardinality(Live) + slipped + faults <= Cardinality(Live') + slipped' + faults'
      /\ faults <= faults'
  BY <1>3
<1>5. QED
  BY <1>1, <1>4, CoverKept

LEMMA CapStep ==
  ASSUME IInv, [Next]_vars, RowsInv', SectionInv', CallsPerTriage * MaxCost <= Est
  PROVE  CoveredInv' /\ CapInv'
<1>i. RowsInv /\ CoveredInv /\ CapInv
  BY DEF IInv
<1>t. pc \in [Workers -> {"idle", "waiting", "reading", "calling"}]
  BY <1>i DEF RowsInv, TypeOK
<1> DEFINE Goal == CoveredInv' /\ CapInv'
<1> HIDE DEF Goal
<1>1. ASSUME UNCHANGED vars PROVE Goal
  <2>1. Live' = Live /\ ToCome' = ToCome /\ pc' = pc
    BY <1>1 DEF vars, Live, ToCome
  <2>2. QED
    BY <1>1, <1>i, <2>1, CommittedFalls, OthersCover DEF vars, Goal
<1>2. ASSUME NEW w \in Workers, Ask(w) PROVE Goal
  <2>1. Live' = Live /\ ToCome' \subseteq ToCome
    BY <1>2, <1>t DEF Ask, Live, ToCome
  <2>2. \A v \in Workers : pc'[v] = "reading" => pc[v] = "reading"
    BY <1>2, <1>t DEF Ask
  <2>3. QED
    BY <1>2, <1>i, <2>1, <2>2, CommittedFalls, OthersCover DEF Ask, history, Goal
<1>3. ASSUME NEW w \in Workers, ReadSpend(w) PROVE Goal
  BY <1>3, <1>i, ReadCovers DEF Goal
<1>4. ASSUME NEW w \in Workers, Admit(w) PROVE Goal
  BY <1>4, AdmitCovers DEF Goal
<1>5. ASSUME NEW w \in Workers, Refuse(w) PROVE Goal
  <2>1. Live' = Live /\ ToCome' \subseteq ToCome
    BY <1>5, <1>t DEF Refuse, Live, ToCome
  <2>2. \A v \in Workers : pc'[v] = "reading" => pc[v] = "reading"
    BY <1>5, <1>t DEF Refuse
  <2>3. QED
    BY <1>5, <1>i, <2>1, <2>2, CommittedFalls, OthersCover DEF Refuse, history, Goal
<1>6. ASSUME NEW w \in Workers, FailOpen(w) PROVE Goal
  BY <1>6, FailOpenCovers DEF Goal
<1>7. ASSUME NEW w \in Workers, Record(w) PROVE Goal
  <2>1. Live' = Live /\ pc' = pc
    BY <1>7 DEF Record, Live
  <2>2. QED
    BY <1>7, <1>i, <2>1, RecordCommits, OthersCover DEF Record, history, Goal
<1>8. ASSUME NEW w \in Workers, Release(w) PROVE Goal
  BY <1>8, ReleaseCovers DEF Goal
<1>9. ASSUME NEW w \in Workers, ReleaseFails(w) PROVE Goal
  <2>1. Live' = Live /\ ToCome' \subseteq ToCome
    BY <1>9, <1>t, <1>i DEF ReleaseFails, Live, ToCome, RowsInv, TypeOK
  <2>2. \A v \in Workers : pc'[v] = "reading" => pc[v] = "reading"
    BY <1>9, <1>t DEF ReleaseFails
  <2>3. QED
    BY <1>9, <1>i, <2>1, <2>2, CommittedFalls, OthersCover DEF ReleaseFails, Goal
<1>10. ASSUME NEW w \in Workers, Crash(w) PROVE Goal
  <2>1. Live' = Live /\ ToCome' \subseteq ToCome
    BY <1>10, <1>t, <1>i DEF Crash, Live, ToCome, RowsInv, TypeOK
  <2>2. \A v \in Workers : pc'[v] = "reading" => pc[v] = "reading"
    BY <1>10, <1>t DEF Crash
  <2>3. QED
    BY <1>10, <1>i, <2>1, <2>2, CommittedFalls, OthersCover DEF Crash, Goal
<1>11. ASSUME NEW id \in RowIds, Expire(id) PROVE Goal
  BY <1>11, ExpireCovers DEF Goal
<1>12. Goal
  BY <1>1, <1>2, <1>3, <1>4, <1>5, <1>6, <1>7, <1>8, <1>9, <1>10, <1>11
     DEF Next, Section, Call
<1>13. QED
  BY <1>12 DEF Goal

LEMMA InvInit == Init => IInv
<1> SUFFICES ASSUME Init PROVE IInv
  OBVIOUS
<1>1. RowsInv /\ SectionInv
  BY RowsInit, BudgetAssumption DEF Init, SectionInv
<1>2. Committed = 0
  <2>1. ToCome = {}
    BY DEF Init, ToCome
  <2>2. MaxCost * 0 = 0
    BY BudgetAssumption
  <2>3. QED
    BY <2>1, <2>2, FS_EmptySet DEF Init, Committed
<1>3. 0 < Cap + Est * (1 + 0 + 0)
  BY BudgetAssumption
<1>4. CoveredInv /\ CapInv
  BY <1>2, <1>3 DEF Init, CoveredInv, CapInv
<1>5. QED
  BY <1>1, <1>4 DEF IInv

LEMMA InvStep == IInv /\ [Next]_vars => IInv'
<1> SUFFICES ASSUME IInv, [Next]_vars PROVE IInv'
  OBVIOUS
<1>1. RowsInv' /\ SectionInv'
  BY RowsStep, SectionStep DEF IInv
<1>2. QED
  BY <1>1, CapStep DEF IInv

LEMMA InvAlways == Spec => []IInv
  BY InvInit, InvStep, PTL DEF Spec

LEMMA CapEnough == IInv => OvershootAccounted
<1> SUFFICES ASSUME IInv, CallsPerTriage * MaxCost <= Est
             PROVE  spent < Cap + Est * (1 + worst + faults)
  BY DEF OvershootAccounted
<1>1. RowsInv /\ CapInv
  BY DEF IInv
<1>2. spent <= Committed
  <2>1. MaxCost * Cardinality(ToCome) \in Nat
    BY <1>1, Numbers
  <2>2. QED
    BY <1>1, <2>1, Numbers DEF Committed
<1>3. Est * (1 + worst + faults) \in Nat
  BY <1>1, Numbers
<1>4. QED
  BY <1>1, <1>2, <1>3, Numbers DEF CapInv

\* The cap of a tenant (cost_controls.py): whatever the interleaving of reads,
\* admissions, calls, releases and crashes, when an estimate covers a triage's
\* calls the spend passes the cap by one triage, one per fault and one per
\* reservation that went away between the two reads of one section.
THEOREM OvershootBounded == Spec => []OvershootAccounted
  BY InvAlways, CapEnough, PTL

\* pg_advisory_xact_lock: whoever compares spend and rows is alone in the section.
THEOREM SectionExclusive == Spec => []SectionInv
  BY InvAlways, PTL DEF IInv

-----------------------------------------------------------------------------
(* The backend of the process.                                             *)

\* Callers that have a slot and were not admitted, those whose slot has come at
\* a time v, the others, and the attempts that were begun.
Asleep == {c \in Callers : step[c] = "asleep"}
Due(v) == {c \in Asleep : slot[c] <= v}
Later(v) == {c \in Asleep : slot[c] > v}
Begun == {p \in Callers \X (1..Attempts) : p[2] <= attempt[p[1]]}

LlmShape ==
  /\ permits \in Permits
  /\ now \in Nat /\ last \in Int /\ -Cooldown <= last
  /\ slot \in [Callers -> Nat] /\ attempt \in [Callers -> 0..Attempts]
  /\ step \in [Callers -> {"idle", "asleep", "calling", "answered", "billed", "done"}]
  /\ lastUsage \in Callers \cup {Nobody} /\ taken \in [Callers -> Callers \cup {Nobody}]
  /\ starts \in Nat /\ failed \in Nat

\* Were all that sleep admitted at a later time v whose slot has come by then,
\* the pace would still be kept; and the last slot is near, by those that wait.
OnTime(v) == Cooldown * (starts + Cardinality(Due(v)) - 1) <= v
Near(v) == last <= v + Cooldown * Cardinality(Later(v))

Paced ==
  /\ \A v \in Nat : now <= v => OnTime(v) /\ Near(v)
  /\ Cooldown * (starts + Cardinality(Asleep) - 1) <= last
  /\ \A c \in Asleep : slot[c] <= last

\* The clock does not run away: only a sleeper makes it tick.
Bounded ==
  /\ last <= MaxTime + Cooldown * (Cardinality(Begun) - 1)
  /\ now <= MaxTime \/ now <= last

\* An instance has its own copies of the operators on finite sets.
LEMMA SameOperators ==
  \A S : /\ Llm!Cardinality(S) = Cardinality(S) /\ Tenant!Cardinality(S) = Cardinality(S)
         /\ Llm!IsFiniteSet(S) = IsFiniteSet(S) /\ Tenant!IsFiniteSet(S) = IsFiniteSet(S)
  BY Zenon DEF Llm!Cardinality, Tenant!Cardinality, Cardinality,
               Llm!IsFiniteSet, Tenant!IsFiniteSet, IsFiniteSet

LEMMA CallsNumbers ==
  /\ IsFiniteSet(Callers) /\ Cooldown \in Nat /\ Cooldown > 0
  /\ Attempts \in Nat /\ Attempts > 0 /\ MaxTime \in Nat /\ Threshold \in Nat
  /\ MaxOutages \in Nat /\ MaxFailed \in Nat
  BY CallsAssumption, SameOperators DEF Llm!BackendAssumption, Tenant!BreakerAssumption

LEMMA SleepersFinite ==
  /\ IsFiniteSet(Asleep) /\ Cardinality(Asleep) \in Nat
  /\ \A v : /\ IsFiniteSet(Due(v)) /\ Cardinality(Due(v)) \in Nat
            /\ IsFiniteSet(Later(v)) /\ Cardinality(Later(v)) \in Nat
<1>1. IsFiniteSet(Asleep)
  BY CallsNumbers, FS_Subset DEF Asleep
<1>2. \A v : IsFiniteSet(Due(v)) /\ IsFiniteSet(Later(v))
  BY <1>1, FS_Subset DEF Due, Later
<1>3. QED
  BY <1>1, <1>2, FS_CardinalityType

LEMMA BegunFinite == IsFiniteSet(Begun) /\ Cardinality(Begun) \in Nat
<1>1. IsFiniteSet(1..Attempts)
  BY CallsNumbers, FS_Interval
<1>2. IsFiniteSet(Callers \X (1..Attempts))
  BY <1>1, CallsNumbers, FS_Product
<1>3. QED
  BY <1>2, FS_Subset, FS_CardinalityType DEF Begun

\* Multiples of the cooldown.
LEMMA Multiples ==
  ASSUME NEW a \in Int, NEW b \in Int
  PROVE  /\ Cooldown * a \in Int
         /\ Cooldown * (a + 1) = Cooldown * a + Cooldown
         /\ a <= b => Cooldown * a <= Cooldown * b
<1>1. Cooldown \in Int /\ Cooldown >= 0
  BY CallsNumbers
<1>2. \A k \in Int : k >= 0 => \A x, y \in Int : x <= y => k * x <= k * y
  OBVIOUS
<1>3. QED
  BY <1>1, <1>2

LEMMA MultiplesBelow ==
  ASSUME NEW a \in Int, NEW n \in Nat, Cooldown * a <= n
  PROVE  a <= n \div Cooldown
<1> DEFINE q == n \div Cooldown
<1>1. q \in Int /\ n < Cooldown * (q + 1)
  BY CallsNumbers
<1> HIDE DEF q
<1>2. CASE a >= q + 1
  <2>1. Cooldown * (q + 1) <= Cooldown * a /\ Cooldown * a \in Int /\ Cooldown * (q + 1) \in Int
    BY <1>1, <1>2, Multiples
  <2>2. QED
    BY <1>1, <2>1
<1>3. QED
  BY <1>1, <1>2 DEF q

LEMMA WithoutOne ==
  ASSUME NEW S, IsFiniteSet(S), NEW x \in S
  PROVE  /\ Cardinality(S \ {x}) \in Nat
         /\ Cardinality(S) = Cardinality(S \ {x}) + 1
<1>1. IsFiniteSet(S \ {x}) /\ Cardinality(S \ {x}) = Cardinality(S) - 1
  BY FS_RemoveElement
<1>2. Cardinality(S) \in Nat /\ Cardinality(S \ {x}) \in Nat
  BY <1>1, FS_CardinalityType
<1>3. QED
  BY <1>1, <1>2

LlmClock == LlmShape /\ Paced /\ Bounded

\* A step that neither reserves nor admits leaves the sleepers alone.
LEMMA SleepersAlone ==
  ASSUME LlmClock, Asleep' = Asleep,
         UNCHANGED <<now, last, slot, attempt, starts>>
  PROVE  Paced' /\ Bounded'
<1>1. /\ \A v : Due(v)' = Due(v) /\ Later(v)' = Later(v)
      /\ Begun' = Begun
  BY DEF Due, Later, Begun
<1>2. QED
  BY <1>1 DEF LlmClock, Paced, Bounded, OnTime, Near

LEMMA TickPaces ==
  ASSUME LlmClock, Llm!Tick
  PROVE  Paced' /\ Bounded'
<1>1. now' = now + 1 /\ UNCHANGED <<last, slot, step, attempt, starts>>
  BY DEF Llm!Tick, Llm!seen
<1>2. /\ Asleep' = Asleep /\ Begun' = Begun
      /\ \A v : Due(v)' = Due(v) /\ Later(v)' = Later(v)
  BY <1>1 DEF Asleep, Due, Later, Begun
<1>3. \A v \in Nat : now + 1 <= v => now <= v
  BY DEF LlmClock, LlmShape
<1>4. Paced'
  BY <1>1, <1>2, <1>3 DEF LlmClock, Paced, OnTime, Near
<1>5. now + 1 <= MaxTime \/ now + 1 <= last
  <2>1. CASE now < MaxTime
    BY <2>1, CallsNumbers DEF LlmClock, LlmShape
  <2>2. CASE \E c \in Callers : step[c] = "asleep" /\ now < slot[c]
    <3>1. PICK c \in Asleep : now < slot[c] /\ slot[c] \in Nat
      BY <2>2 DEF Asleep, LlmClock, LlmShape
    <3>2. QED
      BY <3>1 DEF LlmClock, LlmShape, Paced
  <2>3. QED
    BY <2>1, <2>2 DEF Llm!Tick
<1>6. QED
  BY <1>1, <1>2, <1>4, <1>5 DEF LlmClock, Bounded

LEMMA StartPaces ==
  ASSUME LlmClock, NEW c \in Callers, Llm!Start(c)
  PROVE  Paced' /\ Bounded'
<1>1. /\ UNCHANGED <<now, last, slot, attempt>> /\ starts' = starts + 1
      /\ step' = [step EXCEPT ![c] = "calling"]
      /\ c \in Asleep /\ slot[c] <= now /\ slot[c] \in Nat
  BY DEF Llm!Start, Llm!clock, Llm!Goto, Asleep, LlmClock, LlmShape
<1>2. Asleep' = Asleep \ {c} /\ Begun' = Begun
  BY <1>1 DEF Asleep, Begun, LlmClock, LlmShape
<1>3. \A v : Due(v)' = Due(v) \ {c} /\ Later(v)' = Later(v) \ {c}
  BY <1>1, <1>2 DEF Due, Later
<1>4. \A v \in Nat : now <= v => c \in Due(v) /\ c \notin Later(v)
  BY <1>1 DEF Due, Later, LlmClock, LlmShape
<1>5. ASSUME NEW S, IsFiniteSet(S), c \in S
      PROVE  starts + 1 + Cardinality(S \ {c}) - 1 = starts + Cardinality(S) - 1
  <2>1. starts \in Nat
    BY DEF LlmClock, LlmShape
  <2> HIDE DEF LlmClock
  <2>2. QED
    BY <1>5, <2>1, WithoutOne
<1>6. (starts + Cardinality(Asleep) - 1)' = starts + Cardinality(Asleep) - 1
  BY <1>1, <1>2, <1>5, SleepersFinite
<1>7. \A v \in Nat : now <= v => Later(v)' = Later(v)
  BY <1>3, <1>4
<1>8. \A v \in Nat : now <= v => OnTime(v)' /\ Near(v)'
  <2> SUFFICES ASSUME NEW v \in Nat, now <= v  PROVE OnTime(v)' /\ Near(v)'
    OBVIOUS
  <2>1. OnTime(v) /\ Near(v)
    BY DEF LlmClock, Paced
  <2>2. (starts + Cardinality(Due(v)) - 1)' = starts + Cardinality(Due(v)) - 1
    BY <1>1, <1>3, <1>4, <1>5, SleepersFinite
  <2>5. OnTime(v)'
    BY <2>1, <2>2 DEF OnTime
  <2>3. Near(v)'
    BY <1>1, <1>7, <2>1 DEF Near
  <2>4. QED
    BY <2>3, <2>5
<1>9. (\A d \in Asleep : slot[d] <= last)'
  BY <1>1, <1>2 DEF LlmClock, Paced
<1>10. (Cooldown * (starts + Cardinality(Asleep) - 1) <= last)'
  BY <1>1, <1>2, <1>6 DEF LlmClock, Paced
<1>11. QED
  BY <1>1, <1>2, <1>8, <1>9, <1>10 DEF LlmClock, Paced, Bounded

LEMMA NextSlotIs ==
  ASSUME LlmClock
  PROVE  /\ Llm!NextSlot \in Nat /\ last + Cooldown <= Llm!NextSlot /\ now <= Llm!NextSlot
         /\ Llm!NextSlot = now \/ Llm!NextSlot = last + Cooldown
<1>1. last \in Int /\ now \in Nat /\ Cooldown \in Nat
  BY CallsNumbers DEF LlmClock, LlmShape
<1>2. QED
  BY <1>1 DEF Llm!NextSlot

LEMMA ReservePaces ==
  ASSUME LlmClock, NEW c \in Callers, Llm!Reserve(c)
  PROVE  Paced' /\ Bounded'
<1> DEFINE s == Llm!NextSlot
           k == Cardinality(Asleep)
           b == Cardinality(Begun)
<1>1. /\ UNCHANGED <<now, starts>> /\ last' = s
      /\ slot' = [slot EXCEPT ![c] = s] /\ step' = [step EXCEPT ![c] = "asleep"]
      /\ attempt' = [attempt EXCEPT ![c] = @ + 1] /\ attempt[c] < Attempts
      /\ c \notin Asleep
  BY DEF Llm!Reserve, Llm!Goto, Llm!seen, Asleep
<1>2. /\ s \in Nat /\ last + Cooldown <= s /\ now <= s
      /\ s = now \/ s = last + Cooldown
  BY NextSlotIs
<1>3. /\ last \in Int /\ now \in Nat /\ starts \in Nat /\ Cooldown \in Nat /\ MaxTime \in Nat
      /\ k \in Nat /\ b \in Nat
  BY CallsNumbers, SleepersFinite, BegunFinite DEF LlmClock, LlmShape
<1> HIDE DEF s
<1>4. Asleep' = Asleep \cup {c} /\ \A d \in Asleep : slot'[d] = slot[d]
  BY <1>1 DEF Asleep, LlmClock, LlmShape
<1>5. slot'[c] = s
  BY <1>1 DEF LlmClock, LlmShape
<1>6. Cardinality(Asleep') = k + 1
  BY <1>1, <1>4, SleepersFinite, FS_AddElement
<1>7. Cardinality(Begun') = b + 1
  <2> DEFINE p == <<c, attempt[c] + 1>>
  <2>1. attempt \in [Callers -> 0..Attempts] /\ Attempts \in Nat
    BY CallsNumbers DEF LlmClock, LlmShape
  <2>2. p \notin Begun /\ p \in Callers \X (1..Attempts)
    BY <1>1, <2>1 DEF Begun
  <2>3. \A q \in Callers \X (1..Attempts) :
          q[2] <= attempt'[q[1]] <=> q[2] <= attempt[q[1]] \/ q = p
    BY <1>1, <2>1
  <2>4. Begun' = Begun \cup {p}
    BY <2>2, <2>3 DEF Begun
  <2> HIDE DEF p
  <2>5. QED
    BY <2>2, <2>4, BegunFinite, FS_AddElement
<1> HIDE DEF k, b
<1>8. Cooldown * (starts + k) <= s
  <2>1. Cooldown * (starts + k - 1) <= last
    BY DEF LlmClock, Paced, k
  <2>2. Cooldown * ((starts + k - 1) + 1) = Cooldown * (starts + k - 1) + Cooldown
    BY <1>3, Multiples
  <2>3. (starts + k - 1) + 1 = starts + k /\ Cooldown * (starts + k - 1) \in Int
    BY <1>3, Multiples
  <2>4. QED
    BY <1>2, <1>3, <2>1, <2>2, <2>3
<1>9. (Cooldown * (starts + Cardinality(Asleep) - 1) <= last)'
  <2>1. (starts + Cardinality(Asleep) - 1)' = starts + k
    BY <1>1, <1>3, <1>6
  <2>2. QED
    BY <1>1, <1>8, <2>1
<1>10. (\A d \in Asleep : slot[d] <= last)'
  <2>1. ASSUME NEW d \in Asleep PROVE slot'[d] <= s
    <3>1. slot[d] <= last /\ slot[d] \in Nat
      BY DEF LlmClock, LlmShape, Paced, Asleep
    <3>2. QED
      BY <1>2, <1>3, <1>4, <3>1
  <2>2. QED
    BY <1>1, <1>2, <1>4, <1>5, <2>1
<1>11. ASSUME NEW v \in Nat, now <= v, s <= v PROVE OnTime(v)' /\ Near(v)'
  <2>1. Due(v)' = Due(v) \cup {c} /\ Later(v)' = Later(v)
    BY <1>1, <1>2, <1>4, <1>5, <1>11 DEF Due, Later
  <2>2. c \notin Due(v) /\ Due(v) \subseteq Asleep
    BY <1>1 DEF Due
  <2>3. Cardinality(Due(v)') = Cardinality(Due(v)) + 1
    BY <2>1, <2>2, SleepersFinite, FS_AddElement
  <2>4. Cardinality(Due(v)) <= k /\ Cardinality(Due(v)) \in Nat
    BY <2>2, SleepersFinite, FS_Subset DEF k
  <2>5. (starts + Cardinality(Due(v)) - 1)' = starts + Cardinality(Due(v))
    BY <1>1, <1>3, <2>3, <2>4
  <2>6. Cooldown * (starts + Cardinality(Due(v))) <= Cooldown * (starts + k)
    BY <1>3, <2>4, Multiples
  <2>7. Cooldown * (starts + Cardinality(Due(v))) \in Int /\ Cooldown * (starts + k) \in Int
    BY <1>3, <2>4, Multiples
  <2>8. Cooldown * (starts + Cardinality(Due(v))) <= v
    BY <1>2, <1>8, <1>11, <2>6, <2>7
  <2>9. OnTime(v)'
    BY <2>5, <2>8 DEF OnTime
  <2>10. Cardinality(Later(v)) \in Nat /\ 0 <= Cooldown * Cardinality(Later(v))
    <3>1. Cardinality(Later(v)) \in Nat
      BY SleepersFinite
    <3>2. QED
      BY <1>3, <3>1
  <2>11. s <= v + Cooldown * Cardinality(Later(v))
    <3>1. Cooldown * Cardinality(Later(v)) \in Int
      BY <2>10, Multiples
    <3>2. QED
      BY <1>2, <1>11, <2>10, <3>1
  <2>12. Near(v)'
    BY <1>1, <2>1, <2>11 DEF Near
  <2>13. QED
    BY <2>9, <2>12
<1>12. ASSUME NEW v \in Nat, now <= v, v < s PROVE OnTime(v)' /\ Near(v)'
  <2>1. Due(v)' = Due(v) /\ Later(v)' = Later(v) \cup {c} /\ c \notin Later(v)
    BY <1>1, <1>2, <1>4, <1>5, <1>12 DEF Due, Later
  <2>2. OnTime(v) /\ Near(v)
    BY <1>12 DEF LlmClock, Paced
  <2>3. OnTime(v)'
    BY <1>1, <2>1, <2>2 DEF OnTime
  <2> DEFINE n == Cardinality(Later(v))
  <2>4. n \in Nat /\ Cardinality(Later(v)') = n + 1
    BY <2>1, SleepersFinite, FS_AddElement
  <2>5. last <= v + Cooldown * n
    BY <2>2 DEF Near
  <2> HIDE DEF n
  <2>6. s <= v + Cooldown * (n + 1)
    <3>1. Cooldown * (n + 1) = Cooldown * n + Cooldown /\ Cooldown * n \in Int
      BY <2>4, Multiples
    <3>2. s = last + Cooldown
      BY <1>2, <1>3, <1>12
    <3>3. QED
      BY <1>3, <2>5, <3>1, <3>2
  <2>7. Near(v)'
    BY <1>1, <2>4, <2>6 DEF Near
  <2>8. QED
    BY <2>3, <2>7
<1>13. Paced'
  <2>1. \A v \in Nat : now <= v => OnTime(v)' /\ Near(v)'
    BY <1>2, <1>11, <1>12
  <2>2. QED
    BY <1>1, <1>9, <1>10, <2>1 DEF Paced
<1>14. s <= MaxTime + Cooldown * b
  <2>1. last <= MaxTime + Cooldown * (b - 1) /\ (now <= MaxTime \/ now <= last)
    BY DEF LlmClock, Bounded, b
  <2>2. Cooldown * ((b - 1) + 1) = Cooldown * (b - 1) + Cooldown /\ Cooldown * (b - 1) \in Int
    BY <1>3, Multiples
  <2>3. (b - 1) + 1 = b /\ 0 <= Cooldown * b
    BY <1>3
  <2>4. QED
    BY <1>2, <1>3, <2>1, <2>2, <2>3
<1>15. Bounded'
  <2>1. (Cardinality(Begun) - 1)' = b
    BY <1>3, <1>7
  <2>2. now' <= last'
    BY <1>1, <1>2
  <2>3. QED
    BY <1>1, <1>14, <2>1, <2>2 DEF Bounded
<1>16. QED
  BY <1>13, <1>15

\* Whoever was in the semaphore with another one is noted; the counts a caller
\* finds or took are its own, or those of one it was together with.
Usage ==
  /\ \A c, d \in Llm!Inside : c # d => <<c, d>> \in together
  /\ \A c \in Callers : step[c] = "answered" =>
       lastUsage \in Callers /\ (lastUsage # c => <<c, lastUsage>> \in together)
  /\ \A c \in Callers : step[c] = "billed" =>
       taken[c] \in Callers /\ (taken[c] # c => <<c, taken[c]>> \in together)
  /\ charged \subseteq Callers \X Callers /\ Llm!UsageStaysInside

Bills ==
  /\ paid \in [Callers -> Nat] /\ answers \in [Callers -> Nat]
  /\ Llm!AnswersArePaid

LlmInv == LlmShape /\ Paced /\ Bounded /\ Usage /\ Bills

LEMMA LlmInit == Llm!Init => LlmInv
<1> SUFFICES ASSUME Llm!Init PROVE LlmInv
  OBVIOUS
<1> USE DEF Llm!Init
<1>1. LlmShape
  BY CallsNumbers DEF LlmShape
<1>2. Asleep = {} /\ Begun = {} /\ \A v : Due(v) = {} /\ Later(v) = {}
  BY CallsNumbers DEF Asleep, Begun, Due, Later
<1>3. Cooldown * (0 + 0 - 1) = -Cooldown /\ Cooldown * 0 = 0
      /\ Cooldown * (0 - 1) = -Cooldown
  BY CallsNumbers
<1>4. \A v \in Nat : OnTime(v) /\ Near(v)
  BY <1>2, <1>3, CallsNumbers, FS_EmptySet DEF OnTime, Near
<1>5. Paced /\ Bounded
  BY <1>2, <1>3, <1>4, CallsNumbers, FS_EmptySet DEF Paced, Bounded
<1>6. Usage /\ Bills
  BY DEF Usage, Bills, Llm!Inside, Llm!UsageStaysInside, Llm!AnswersArePaid
<1>7. QED
  BY <1>1, <1>5, <1>6 DEF LlmInv

LEMMA LlmTick == LlmInv /\ Llm!Tick => LlmInv'
<1> SUFFICES ASSUME LlmInv, Llm!Tick PROVE LlmInv'
  OBVIOUS
<1>1. Paced' /\ Bounded'
  BY TickPaces DEF LlmInv, LlmClock
<1>2. LlmShape'
  BY DEF LlmInv, LlmShape, Llm!Tick, Llm!seen, Llm!bills
<1>3. Usage' /\ Bills'
  BY DEF LlmInv, Usage, Bills, Llm!Tick, Llm!seen, Llm!bills, Llm!Inside,
         Llm!UsageStaysInside, Llm!AnswersArePaid
<1>4. QED
  BY <1>1, <1>2, <1>3 DEF LlmInv

LEMMA LlmReserve ==
  ASSUME LlmInv, NEW c \in Callers, Llm!Reserve(c)
  PROVE  LlmInv'
<1>1. Paced' /\ Bounded'
  BY ReservePaces DEF LlmInv, LlmClock
<1>2. /\ step[c] = "idle" /\ attempt[c] < Attempts
      /\ slot' = [slot EXCEPT ![c] = Llm!NextSlot] /\ last' = Llm!NextSlot
      /\ attempt' = [attempt EXCEPT ![c] = @ + 1] /\ step' = [step EXCEPT ![c] = "asleep"]
      /\ UNCHANGED <<permits, now, lastUsage, taken, paid, charged, answers, together,
                     starts, failed>>
  BY DEF Llm!Reserve, Llm!Goto, Llm!bills, Llm!seen
<1>3. Llm!NextSlot \in Nat /\ -Cooldown <= Llm!NextSlot
  BY NextSlotIs, CallsNumbers DEF LlmInv, LlmClock
<1>4. LlmShape'
  BY <1>2, <1>3, CallsNumbers DEF LlmInv, LlmShape
<1>5. Usage' /\ Bills'
  BY <1>2 DEF LlmInv, LlmShape, Usage, Bills, Llm!Inside,
         Llm!UsageStaysInside, Llm!AnswersArePaid
<1>6. QED
  BY <1>1, <1>4, <1>5 DEF LlmInv

LEMMA LlmStart ==
  ASSUME LlmInv, NEW c \in Callers, Llm!Start(c)
  PROVE  LlmInv'
<1>1. Paced' /\ Bounded'
  BY StartPaces DEF LlmInv, LlmClock
<1>2. /\ step[c] = "asleep" /\ step' = [step EXCEPT ![c] = "calling"]
      /\ together' = together \cup ({c} \X Llm!Inside) \cup (Llm!Inside \X {c})
      /\ starts' = starts + 1
      /\ UNCHANGED <<permits, now, last, slot, attempt, lastUsage, taken, paid, charged,
                     answers, failed>>
  BY DEF Llm!Start, Llm!Goto, Llm!clock, Llm!bills
<1>3. LlmShape'
  BY <1>2 DEF LlmInv, LlmShape
<1>4. Llm!Inside' = Llm!Inside \cup {c}
  BY <1>2 DEF Llm!Inside, LlmInv, LlmShape
<1>5. Usage'
  BY <1>2, <1>4 DEF LlmInv, LlmShape, Usage, Llm!UsageStaysInside
<1>6. Bills'
  BY <1>2 DEF LlmInv, LlmShape, Bills, Llm!AnswersArePaid
<1>7. QED
  BY <1>1, <1>3, <1>5, <1>6 DEF LlmInv

\* What the other steps of a caller have in common.
LEMMA LlmAside ==
  ASSUME LlmInv, NEW c \in Callers, NEW s \in {"idle", "answered", "billed", "done"},
         step[c] \notin {"idle", "asleep"}, step' = [step EXCEPT ![c] = s],
         UNCHANGED <<permits, now, last, slot, attempt, starts>>,
         lastUsage' \in Callers \cup {Nobody},
         taken' \in [Callers -> Callers \cup {Nobody}], failed' \in Nat
  PROVE  LlmShape' /\ Paced' /\ Bounded'
<1>1. Asleep' = Asleep
  BY DEF Asleep, LlmInv, LlmShape
<1>2. Paced' /\ Bounded'
  BY <1>1, SleepersAlone DEF LlmInv, LlmClock
<1>3. LlmShape'
  BY DEF LlmInv, LlmShape
<1>4. QED
  BY <1>2, <1>3

LEMMA LlmAnswer ==
  ASSUME LlmInv, NEW c \in Callers, Llm!Answer(c)
  PROVE  LlmInv'
<1>1. /\ step[c] = "calling" /\ step' = [step EXCEPT ![c] = "answered"]
      /\ lastUsage' = c /\ answers' = [answers EXCEPT ![c] = @ + 1]
      /\ UNCHANGED <<permits, now, last, slot, attempt, taken, paid, charged, together,
                     starts, failed>>
  BY DEF Llm!Answer, Llm!Goto, Llm!clock, Llm!bills
<1>2. LlmShape' /\ Paced' /\ Bounded'
  BY <1>1, LlmAside DEF LlmInv, LlmShape
<1>3. Llm!Inside' = Llm!Inside /\ c \in Llm!Inside
  BY <1>1 DEF Llm!Inside, LlmInv, LlmShape
<1>4. \A d \in Callers : step'[d] = "answered" => d = c \/ step[d] = "answered"
  BY <1>1 DEF LlmInv, LlmShape
<1>5. \A d \in Callers : step[d] = "answered" => d \in Llm!Inside
  BY DEF Llm!Inside
<1>6. Usage'
  BY <1>1, <1>3, <1>4, <1>5 DEF LlmInv, LlmShape, Usage, Llm!UsageStaysInside
<1>7. Bills'
  BY <1>1 DEF LlmInv, LlmShape, Bills, Llm!AnswersArePaid
<1>8. QED
  BY <1>2, <1>6, <1>7 DEF LlmInv

LEMMA LlmTakeUsage ==
  ASSUME LlmInv, NEW c \in Callers, Llm!TakeUsage(c)
  PROVE  LlmInv'
<1>1. /\ step[c] = "answered" /\ step' = [step EXCEPT ![c] = "billed"]
      /\ taken' = [taken EXCEPT ![c] = lastUsage]
      /\ UNCHANGED <<permits, now, last, slot, attempt, lastUsage, paid, charged, answers,
                     together, starts, failed>>
  BY DEF Llm!TakeUsage, Llm!Goto, Llm!clock, Llm!bills, Llm!seen
<1>2. LlmShape' /\ Paced' /\ Bounded'
  BY <1>1, LlmAside DEF LlmInv, LlmShape
<1>3. Llm!Inside' \subseteq Llm!Inside
  BY <1>1 DEF Llm!Inside, LlmInv, LlmShape
<1>4. Usage'
  BY <1>1, <1>3 DEF LlmInv, LlmShape, Usage, Llm!UsageStaysInside
<1>5. Bills'
  BY <1>1 DEF LlmInv, LlmShape, Bills, Llm!AnswersArePaid
<1>6. QED
  BY <1>2, <1>4, <1>5 DEF LlmInv

LEMMA LlmFinish ==
  ASSUME LlmInv, NEW c \in Callers, NEW parsed \in BOOLEAN, Llm!Finish(c, parsed)
  PROVE  LlmInv'
<1>1. PICK s \in {"idle", "done"} : step' = [step EXCEPT ![c] = s]
  BY DEF Llm!Finish, Llm!Goto, Llm!Raise
<1>2. /\ step[c] = "billed"
      /\ paid' = [paid EXCEPT ![c] = @ + 1]
      /\ charged' = charged \cup {<<c, taken[c]>>}
      /\ UNCHANGED <<permits, now, last, slot, attempt, lastUsage, taken, answers,
                     together, starts>>
  BY DEF Llm!Finish, Llm!Track, Llm!UsageOf, Llm!clock, Llm!seen
<1>3. failed' \in Nat
  BY DEF Llm!Finish, Llm!Fail, LlmInv, LlmShape
<1>4. LlmShape' /\ Paced' /\ Bounded'
  BY <1>1, <1>2, <1>3, LlmAside DEF LlmInv, LlmShape
<1>5. Llm!Inside' \subseteq Llm!Inside
  BY <1>1, <1>2 DEF Llm!Inside, LlmInv, LlmShape
<1>6. Usage'
  BY <1>1, <1>2, <1>5 DEF LlmInv, LlmShape, Usage, Llm!UsageStaysInside
<1>7. Bills'
  BY <1>1, <1>2 DEF LlmInv, LlmShape, Bills, Llm!AnswersArePaid
<1>8. QED
  BY <1>4, <1>6, <1>7 DEF LlmInv

LEMMA LlmCallFails ==
  ASSUME LlmInv, NEW c \in Callers, Llm!CallFails(c)
  PROVE  LlmInv'
<1>1. PICK s \in {"idle", "done"} : step' = [step EXCEPT ![c] = s]
  BY DEF Llm!CallFails, Llm!Goto, Llm!Raise
<1>2. /\ step[c] = "calling"
      /\ UNCHANGED <<permits, now, last, slot, attempt, lastUsage, taken, paid, charged,
                     answers, together, starts>>
  BY DEF Llm!CallFails, Llm!clock, Llm!bills, Llm!seen
<1>3. failed' \in Nat
  BY DEF Llm!CallFails, Llm!Fail, LlmInv, LlmShape
<1>4. LlmShape' /\ Paced' /\ Bounded'
  BY <1>1, <1>2, <1>3, LlmAside DEF LlmInv, LlmShape
<1>5. Llm!Inside' \subseteq Llm!Inside
  BY <1>1, <1>2 DEF Llm!Inside, LlmInv, LlmShape
<1>6. Usage'
  BY <1>1, <1>2, <1>5 DEF LlmInv, LlmShape, Usage, Llm!UsageStaysInside
<1>7. Bills'
  BY <1>1, <1>2 DEF LlmInv, LlmShape, Bills, Llm!AnswersArePaid
<1>8. QED
  BY <1>4, <1>6, <1>7 DEF LlmInv

LEMMA LlmIdle == LlmInv /\ UNCHANGED llmVars => LlmInv'
<1> SUFFICES ASSUME LlmInv, UNCHANGED llmVars PROVE LlmInv'
  OBVIOUS
<1>1. LlmShape' /\ Asleep' = Asleep /\ UNCHANGED <<now, last, slot, attempt, starts>>
  BY DEF LlmInv, LlmShape, llmVars, Asleep
<1>2. Paced' /\ Bounded'
  BY <1>1, SleepersAlone DEF LlmInv, LlmClock
<1>3. Usage' /\ Bills'
  BY DEF LlmInv, Usage, Bills, llmVars, Llm!Inside, Llm!UsageStaysInside,
         Llm!AnswersArePaid
<1>4. QED
  BY <1>1, <1>2, <1>3 DEF LlmInv

LEMMA LlmStep == LlmInv /\ [Llm!Next]_llmVars => LlmInv'
  BY LlmTick, LlmReserve, LlmStart, LlmAnswer, LlmTakeUsage, LlmFinish, LlmCallFails,
     LlmIdle DEF Llm!Next, Llm!CallStep

\* What the run checks of this backend.
LEMMA LlmEnough ==
  LlmInv => Llm!TypeOK /\ Llm!CallsArePaced /\ Llm!UsageStaysInside /\ Llm!AnswersArePaid
<1> SUFFICES ASSUME LlmInv
             PROVE  Llm!TypeOK /\ Llm!CallsArePaced
  BY DEF LlmInv, Usage, Bills
<1> DEFINE n == Cardinality(Callers)
           b == Cardinality(Begun)
           d == Cardinality(Due(now))
           l == Cardinality(Later(now))
<1>1. /\ now \in Nat /\ last \in Int /\ starts \in Nat /\ n \in Nat /\ b \in Nat
      /\ d \in Nat /\ l \in Nat /\ Cooldown \in Nat /\ MaxTime \in Nat /\ Attempts \in Nat
  BY CallsNumbers, SleepersFinite, BegunFinite, FS_CardinalityType DEF LlmInv, LlmShape
<1>2. l <= n
  BY CallsNumbers, FS_Subset DEF Later, Asleep
<1>3. b <= n * Attempts
  <2>1. IsFiniteSet(1..Attempts) /\ Cardinality(1..Attempts) = Attempts
    BY CallsNumbers, FS_Interval
  <2>2. /\ IsFiniteSet(Callers \X (1..Attempts))
        /\ Cardinality(Callers \X (1..Attempts)) = n * Attempts
    BY <2>1, CallsNumbers, FS_Product
  <2>3. QED
    BY <2>2, FS_Subset DEF Begun
<1>4. OnTime(now) /\ Near(now) /\ Bounded
  BY <1>1 DEF LlmInv, Paced
<1>5. Cooldown * (starts + d - 1) <= now /\ last <= now + Cooldown * l
  BY <1>4 DEF OnTime, Near
<1>6. last <= MaxTime + Cooldown * (b - 1) /\ (now <= MaxTime \/ now <= last)
  BY <1>4 DEF Bounded
<1> HIDE DEF n, b, d, l
<1>7. starts <= now \div Cooldown + 1
  <2>1. Cooldown * (starts - 1) <= now
    <3>1. Cooldown * (starts - 1) <= Cooldown * (starts + d - 1)
      BY <1>1, Multiples
    <3>2. Cooldown * (starts - 1) \in Int /\ Cooldown * (starts + d - 1) \in Int
      BY <1>1, Multiples
    <3>3. QED
      BY <1>1, <1>5, <3>1, <3>2
  <2>2. starts - 1 <= now \div Cooldown
    BY <1>1, <2>1, MultiplesBelow
  <2>3. now \div Cooldown \in Int
    BY <1>1, CallsNumbers
  <2>4. QED
    BY <1>1, <2>2, <2>3
<1>8. last <= now + Cooldown * n
  <2>1. Cooldown * l <= Cooldown * n /\ Cooldown * l \in Int /\ Cooldown * n \in Int
    BY <1>1, <1>2, Multiples
  <2>2. QED
    BY <1>1, <1>5, <2>1
<1>9. now <= MaxTime + Cooldown * (n * Attempts)
  <2>1. n * Attempts \in Nat
    BY <1>1
  <2>2. /\ Cooldown * (b - 1) <= Cooldown * (n * Attempts)
        /\ Cooldown * (b - 1) \in Int /\ Cooldown * (n * Attempts) \in Int
        /\ 0 <= Cooldown * (n * Attempts)
    <3>1. b - 1 <= n * Attempts /\ b - 1 \in Int /\ 0 <= n * Attempts
      BY <1>1, <1>3, <2>1
    <3>2. Cooldown * 0 <= Cooldown * (n * Attempts) /\ Cooldown * 0 = 0
      BY <1>1, <2>1, <3>1, Multiples
    <3>3. QED
      BY <2>1, <3>1, <3>2, Multiples
  <2>3. QED
    BY <1>1, <1>6, <2>2
<1>10. Cooldown * (n * Attempts) = Cooldown * Attempts * n
  BY <1>1
<1>11. Llm!Cardinality(Callers) = n
  BY SameOperators DEF n
<1>12. Llm!TypeOK
  BY <1>1, <1>8, <1>9, <1>10, <1>11 DEF Llm!TypeOK, LlmInv, LlmShape, Usage
<1>13. QED
  BY <1>7, <1>12 DEF Llm!CallsArePaced

-----------------------------------------------------------------------------
(* The backend of a tenant.                                                *)

\* Callers that found no provider; each of them creates one, and nobody becomes
\* one of them once there is a breaker.
Creating == {c \in Callers : at[c] = "creating"}

TenantInv ==
  /\ Tenant!TypeOK
  /\ breaker = made /\ made + Cardinality(Creating) <= Cardinality(Callers)
  /\ \A c \in Callers : at[c] = "failed" => held[c] # 0

LEMMA BreakersAre ==
  /\ Tenant!Breakers = 1..Cardinality(Callers) /\ Cardinality(Callers) \in Nat
  /\ IsFiniteSet(Creating) /\ Cardinality(Creating) \in Nat
  /\ Cardinality(Creating) <= Cardinality(Callers)
<1>1. IsFiniteSet(Creating) /\ Cardinality(Creating) <= Cardinality(Callers)
  BY CallsNumbers, FS_Subset DEF Creating
<1>2. QED
  BY <1>1, CallsNumbers, SameOperators, FS_CardinalityType DEF Tenant!Breakers

LEMMA TenantInit == Tenant!Init => TenantInv
<1> SUFFICES ASSUME Tenant!Init PROVE TenantInv
  OBVIOUS
<1>1. Creating = {}
  BY DEF Tenant!Init, Creating
<1>2. made + Cardinality(Creating) <= Cardinality(Callers)
  BY <1>1, BreakersAre, FS_EmptySet DEF Tenant!Init
<1>3. Tenant!TypeOK
  BY CallsNumbers DEF Tenant!Init, Tenant!TypeOK
<1>4. QED
  BY <1>2, <1>3 DEF Tenant!Init, TenantInv

\* A caller that moves without creating anything.
LEMMA TenantAside ==
  ASSUME TenantInv, Tenant!TypeOK', UNCHANGED <<made, breaker>>, Creating' = Creating,
         \A c \in Callers : at'[c] = "failed" => held'[c] # 0
  PROVE  TenantInv'
  BY DEF TenantInv

LEMMA TenantWorld ==
  TenantInv /\ (Tenant!GoesDown \/ Tenant!ComesUp \/ UNCHANGED tenantVars) => TenantInv'
<1> SUFFICES ASSUME TenantInv, Tenant!GoesDown \/ Tenant!ComesUp \/ UNCHANGED tenantVars
             PROVE  TenantInv'
  OBVIOUS
<1>1. UNCHANGED <<made, breaker, state, count, rested, at, held, read>>
  BY DEF Tenant!GoesDown, Tenant!ComesUp, Tenant!breakers, tenantVars
<1>2. outages' \in 0..MaxOutages /\ up' \in BOOLEAN
  <2>1. outages' \in 0..MaxOutages
    BY CallsNumbers, SMT DEF Tenant!GoesDown, Tenant!ComesUp, TenantInv, Tenant!TypeOK,
                             tenantVars
  <2>2. up' \in BOOLEAN
    BY Zenon DEF Tenant!GoesDown, Tenant!ComesUp, TenantInv, Tenant!TypeOK, tenantVars
  <2>3. QED
    BY <2>1, <2>2
<1>3. Tenant!TypeOK'
  BY <1>1, <1>2 DEF TenantInv, Tenant!TypeOK
<1>4. QED
  BY <1>1, <1>3, TenantAside DEF Creating, TenantInv

LEMMA TenantRest ==
  ASSUME TenantInv, NEW b \in Tenant!Breakers, Tenant!Rest(b)
  PROVE  TenantInv'
<1>1. /\ rested' = [rested EXCEPT ![b] = TRUE]
      /\ UNCHANGED <<up, outages, made, breaker, state, count, at, held, read>>
  BY DEF Tenant!Rest, Tenant!world
<1>2. Tenant!TypeOK'
  BY <1>1 DEF TenantInv, Tenant!TypeOK
<1>3. QED
  BY <1>1, <1>2, TenantAside DEF Creating, TenantInv

LEMMA TenantAsk ==
  ASSUME TenantInv, NEW c \in Callers, Tenant!Ask(c)
  PROVE  TenantInv'
<1>1. /\ at[c] = "idle" /\ at' = [at EXCEPT ![c] = "admitted"]
      /\ held' = [held EXCEPT ![c] = breaker]
      /\ state' \in {state, [state EXCEPT ![breaker] = "half_open"]}
      /\ UNCHANGED <<up, outages, made, breaker, count, rested, read>>
  BY DEF Tenant!Ask, Tenant!Lookup, Tenant!Goto, Tenant!world
<1>2. Tenant!TypeOK'
  BY <1>1 DEF TenantInv, Tenant!TypeOK
<1>3. QED
  BY <1>1, <1>2, TenantAside DEF Creating, TenantInv, Tenant!TypeOK

LEMMA TenantFind ==
  ASSUME TenantInv, NEW c \in Callers, Tenant!FindProvider(c)
  PROVE  TenantInv'
<1>1. /\ at' = [at EXCEPT ![c] = IF breaker = 0 THEN "creating" ELSE "calling"]
      /\ at[c] = "admitted"
      /\ UNCHANGED <<up, outages, made, breaker, state, count, rested, held, read>>
  BY DEF Tenant!FindProvider, Tenant!Goto, Tenant!world, Tenant!breakers
<1>2. Tenant!TypeOK'
  BY <1>1 DEF TenantInv, Tenant!TypeOK
<1>3. \A d \in Callers : at'[d] = "failed" => held'[d] # 0
  BY <1>1 DEF TenantInv, Tenant!TypeOK
<1>4. CASE breaker # 0
  BY <1>1, <1>2, <1>3, <1>4, TenantAside DEF Creating, TenantInv, Tenant!TypeOK
<1>5. CASE breaker = 0
  <2>1. Cardinality(Creating') <= Cardinality(Callers) /\ Cardinality(Creating') \in Nat
    <3>1. Creating' \in SUBSET Callers
      BY DEF Creating
    <3>2. QED
      BY <3>1, CallsNumbers, FS_Subset, FS_CardinalityType
  <2>2. made' = 0 /\ breaker' = 0
    BY <1>1, <1>5 DEF TenantInv
  <2>3. 0 + Cardinality(Creating') <= Cardinality(Callers)
    BY <2>1
  <2>4. QED
    BY <1>2, <1>3, <2>2, <2>3 DEF TenantInv
<1>6. QED
  BY <1>4, <1>5

LEMMA TenantCreate ==
  ASSUME TenantInv, NEW c \in Callers, Tenant!CreateProvider(c)
  PROVE  TenantInv'
<1>1. /\ at[c] = "creating" /\ at' = [at EXCEPT ![c] = "calling"]
      /\ made' = made + 1 /\ breaker' = made + 1
      /\ UNCHANGED <<up, outages, state, count, rested, held, read>>
  BY DEF Tenant!CreateProvider, Tenant!Goto, Tenant!world
<1>2. Creating' = Creating \ {c} /\ c \in Creating
  BY <1>1 DEF Creating, TenantInv, Tenant!TypeOK
<1>3. /\ Cardinality(Creating) = Cardinality(Creating \ {c}) + 1
      /\ Cardinality(Creating \ {c}) \in Nat
  BY <1>2, BreakersAre, WithoutOne
<1>4. made \in Nat /\ made + Cardinality(Creating) <= Cardinality(Callers)
  BY BreakersAre DEF TenantInv, Tenant!TypeOK
<1>5. made + 1 \in 1..Cardinality(Callers)
      /\ made + 1 + Cardinality(Creating \ {c}) <= Cardinality(Callers)
  BY <1>3, <1>4, BreakersAre
<1>6. Tenant!TypeOK'
  BY <1>1, <1>5, BreakersAre DEF TenantInv, Tenant!TypeOK
<1>7. \A d \in Callers : at'[d] = "failed" => held'[d] # 0
  BY <1>1 DEF TenantInv, Tenant!TypeOK
<1>8. QED
  BY <1>1, <1>2, <1>5, <1>6, <1>7 DEF TenantInv

LEMMA TenantSucceed ==
  ASSUME TenantInv, NEW c \in Callers, Tenant!Succeed(c)
  PROVE  TenantInv'
<1>1. /\ at[c] = "calling" /\ at' = [at EXCEPT ![c] = "idle"]
      /\ UNCHANGED <<up, outages, made, breaker, rested, held, read>>
  BY DEF Tenant!Succeed, Tenant!Goto, Tenant!world
<1>2. /\ state' \in [Tenant!Breakers -> {"closed", "open", "half_open"}]
      /\ count' \in [Tenant!Breakers -> 0..Threshold]
  BY CallsNumbers DEF Tenant!Succeed, Tenant!Close, TenantInv, Tenant!TypeOK
<1>3. Tenant!TypeOK'
  BY <1>1, <1>2 DEF TenantInv, Tenant!TypeOK
<1>4. QED
  BY <1>1, <1>3, TenantAside DEF Creating, TenantInv, Tenant!TypeOK

LEMMA TenantFails ==
  ASSUME TenantInv, NEW c \in Callers, Tenant!Fails(c)
  PROVE  TenantInv'
<1>1. /\ at[c] = "calling"
      /\ read' = [read EXCEPT ![c] = IF held[c] = 0 THEN 0 ELSE count[held[c]]]
      /\ at' = [at EXCEPT ![c] = IF held[c] = 0 THEN "idle" ELSE "failed"]
      /\ UNCHANGED <<up, outages, made, breaker, state, count, rested, held>>
  BY DEF Tenant!Fails, Tenant!Goto, Tenant!world, Tenant!breakers
<1>2. read' \in [Callers -> 0..Threshold]
  BY <1>1, CallsNumbers DEF TenantInv, Tenant!TypeOK
<1>3. Tenant!TypeOK'
  BY <1>1, <1>2 DEF TenantInv, Tenant!TypeOK
<1>4. QED
  BY <1>1, <1>3, TenantAside DEF Creating, TenantInv, Tenant!TypeOK

LEMMA TenantRecord ==
  ASSUME TenantInv, NEW c \in Callers, Tenant!RecordFailure(c)
  PROVE  TenantInv'
<1> DEFINE b == held[c]
           n == IF read[c] < Threshold THEN read[c] + 1 ELSE Threshold
<1>1. /\ at[c] = "failed" /\ at' = [at EXCEPT ![c] = "idle"]
      /\ count' = [count EXCEPT ![b] = n] /\ rested' = [rested EXCEPT ![b] = FALSE]
      /\ state' \in {state, [state EXCEPT ![b] = "open"]}
      /\ UNCHANGED <<up, outages, made, breaker, held, read>>
  BY DEF Tenant!RecordFailure, Tenant!Goto, Tenant!world
<1>2. n \in 0..Threshold /\ b \in Tenant!Breakers
  BY <1>1, CallsNumbers DEF TenantInv, Tenant!TypeOK
<1> HIDE DEF b, n
<1>3. Tenant!TypeOK'
  BY <1>1, <1>2 DEF TenantInv, Tenant!TypeOK
<1>4. QED
  BY <1>1, <1>3, TenantAside DEF Creating, TenantInv, Tenant!TypeOK

LEMMA TenantStep == TenantInv /\ [Tenant!Next]_tenantVars => TenantInv'
  BY TenantWorld, TenantRest, TenantAsk, TenantFind, TenantCreate, TenantSucceed,
     TenantFails, TenantRecord DEF Tenant!Next, Tenant!CallStep

-----------------------------------------------------------------------------
(* The sum.                                                                *)

\* A step of the sum is a step of one part, and leaves the others alone.
LEMMA PartsMove ==
  [AllNext]_allVars =>
    /\ [Next]_vars /\ [Llm!Next]_llmVars /\ [Tenant!Next]_tenantVars
  BY DEF AllNext, BudgetPart, LlmPart, TenantPart, Ended, allVars

\* However many workers share the backend of the process, whatever its pace and
\* its permits: calls start at the pace (claude_backend.py:145), tokens are
\* charged to another call only if both were inside the semaphore together
\* (claude_backend.py:180), an answer is paid for once (claude_backend.py:224);
\* and the clock, the breakers and all else stay in their bounds.
THEOREM CallsArePacedAndPaid == AllSpec => []CallsHold
<1>1. AllInit => TypeOK /\ LlmInv /\ TenantInv
  BY TypeInit, LlmInit, TenantInit DEF AllInit
<1>2. TypeOK /\ LlmInv /\ TenantInv /\ [AllNext]_allVars => (TypeOK /\ LlmInv /\ TenantInv)'
  BY PartsMove, TypeStep, LlmStep, TenantStep
<1>3. TypeOK /\ LlmInv /\ TenantInv => CallsHold
  BY LlmEnough DEF TenantInv, CallsHold
<1>4. QED
  BY <1>1, <1>2, <1>3, PTL DEF AllSpec
=============================================================================
