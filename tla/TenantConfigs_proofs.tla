------------------------ MODULE TenantConfigs_proofs ------------------------
(***************************************************************************)
(* What the run of TenantConfigs checks for three keys and three restarts, *)
(* proved for any number of keys, restarts, fields, updates and builders.  *)
(* TLC evaluates ConfigsAssumption where MCCaseWork gives the parameters.  *)
(***************************************************************************)
EXTENDS TenantConfigs, TLAPS

-----------------------------------------------------------------------------
(* The inductive invariant.                                                *)

\* The environment is the one on file, but for the current key: the operator
\* may have started the process with none, a damaged or a stray one, and the
\* process may have made one up.  Keys on file are numbered by their generation.
KeysTrue ==
  /\ multi \in BOOLEAN
  /\ safe.made \in 1..MaxKeys /\ safe.gen = safe.made /\ safe.key = safe.made
  /\ safe.old = safe.made - 1
  /\ genCur = safe.gen /\ keyOld = safe.old
  /\ keyCur \in {safe.key, Missing, Invalid, Stray, MadeUp}

\* A row was written under a key that is still on file, or a stray one; it has a
\* model of its own; before there is a row nothing was read or built from it.
RowTrue ==
  /\ row # NoRow =>
       /\ row.key \in {safe.key, safe.old, Stray} \ {Missing}
       /\ "llm" \in row.fields /\ row.fields \subseteq Fields \cup {"llm"}
  /\ row = NoRow =>
       /\ cachedCfg = Nil /\ backend = Nil /\ acked = {}
       /\ \A b \in Builders : building[b] = Nil
       /\ \A a \in Admins : basis[a] = NoRow

\* Whatever was read from a row is a configuration with a model of its own.
ReadTrue ==
  /\ building \in [Builders -> (SUBSET (Fields \cup {"llm"})) \cup {Nil}]
  /\ \A b \in Builders : building[b] # Nil => "llm" \in building[b]
  /\ cachedCfg # Nil => "llm" \in cachedCfg /\ cachedCfg \subseteq Fields \cup {"llm"}
  /\ backend # Nil => "llm" \in backend /\ backend \subseteq Fields \cup {"llm"}

\* What is under construction is what the row says, until a reload overtakes it.
FreshTrue ==
  ~crossed =>
    /\ cachedCfg # Nil => cachedCfg = row.fields
    /\ backend # Nil => backend = row.fields
    /\ \A b \in Builders : building[b] # Nil => building[b] = row.fields

\* An update has read a row that can be one, and the present one when no other
\* update is under way.
BasisTrue ==
  /\ basis \in [Admins -> [gen : Int, key : Int, fields : SUBSET (Fields \cup {"llm"})]]
  /\ \A a \in Admins : basis[a] # NoRow => "llm" \in basis[a].fields
  /\ ~mixed =>
       /\ \A a \in Admins : basis[a] # NoRow => basis[a] = row
       /\ \A a, o \in Admins : basis[a] # NoRow /\ basis[o] # NoRow => a = o

RowShape == row \in [gen : Int, key : Int, fields : SUBSET (Fields \cup {"llm"})]

IInv ==
  /\ ConfigsAssumption
  /\ KeysTrue /\ RowShape /\ RowTrue /\ ReadTrue /\ FreshTrue /\ BasisTrue
  /\ FieldsSurvive

LEMMA Distinct ==
  /\ "llm" \notin Nil /\ "llm" \notin Unread /\ "llm" \notin {"global"}
  /\ NoRow.fields = {}
  BY DEF Nil, Unread, NoRow

LEMMA InitInv == ConfigsAssumption /\ Init => IInv
<1> SUFFICES ASSUME ConfigsAssumption, Init  PROVE IInv
  OBVIOUS
<1> USE DEF Init
<1>1. KeysTrue
  BY DEF ConfigsAssumption, KeysTrue, Missing
<1>2. RowShape
  BY DEF RowShape, NoRow, Missing
<1>3. RowTrue
  BY DEF RowTrue, NoRow, Missing
<1>4. ReadTrue
  BY DEF ReadTrue
<1>5. FreshTrue
  BY DEF FreshTrue
<1>6. BasisTrue
  BY DEF BasisTrue, NoRow, Missing
<1>7. QED
  BY <1>1, <1>2, <1>3, <1>4, <1>5, <1>6 DEF IInv, FieldsSurvive

-----------------------------------------------------------------------------
(* Keys.                                                                   *)

LEMMA UseMakesOneUp ==
  ASSUME KeysTrue
  PROVE  KeyAfterUse \in {safe.key, Missing, Invalid, Stray, MadeUp}
  BY DEF KeysTrue, KeyAfterUse

LEMMA WritableKeys ==
  ASSUME KeysTrue, Writable
  PROVE  keyCur \in {safe.key, Stray} \ {Missing}
  BY DEF KeysTrue, Writable, Missing, Invalid, MadeUp, Stray

LEMMA Decrypted ==
  ASSUME NEW r, Decrypt(r) # Unread
  PROVE  Decrypt(r) = r.fields
  BY DEF Decrypt

\* Only the operator changes the environment, but for the key a process makes up.
LEMMA KeysKept ==
  ASSUME KeysTrue, UNCHANGED <<multi, genCur, keyOld, safe>>,
         keyCur' \in {keyCur, KeyAfterUse}
  PROVE  KeysTrue'
  BY UseMakesOneUp DEF KeysTrue

LEMMA KeysNext ==
  ASSUME ConfigsAssumption, KeysTrue, [Next]_configVars
  PROVE  KeysTrue'
<1>1. ASSUME NEW k \in {safe.key, Missing, Invalid, Stray}, RestartWith(k)
      PROVE  KeysTrue'
  BY <1>1 DEF RestartWith, Restart, KeysTrue
<1>2. CASE Rotate
  <2>1. safe.made \in Nat /\ MaxKeys \in Nat /\ safe.made < MaxKeys
    BY <1>2 DEF Rotate, KeysTrue, ConfigsAssumption
  <2>2. safe' = [gen |-> safe.gen + 1, key |-> safe.made + 1, old |-> safe.key,
                 made |-> safe.made + 1]
    BY <1>2 DEF Rotate
  <2>3. /\ genCur' = safe.gen + 1 /\ keyCur' = safe.made + 1 /\ keyOld' = safe.key
        /\ multi' = multi
    BY <1>2, <2>2 DEF Rotate, Restart
  <2>4. safe.made + 1 \in 1..MaxKeys /\ safe.made = safe.made + 1 - 1
    BY <2>1
  <2>5. QED
    BY <2>2, <2>3, <2>4 DEF KeysTrue
<1>3. ASSUME NEW b \in Builders, Fetch(b) \/ Keep(b)  PROVE KeysTrue'
  BY <1>3, KeysKept DEF Fetch, Keep, env
<1>4. ASSUME NEW a \in Admins,
             BeginUpdate(a) \/ \E f \in Fields : FinishUpdate(a, f)
      PROVE  KeysTrue'
  BY <1>4, KeysKept DEF BeginUpdate, FinishUpdate, env
<1>5. CASE Create \/ UseKey \/ Rewrite \/ UNCHANGED configVars
  BY <1>5, KeysKept DEF Create, UseKey, Rewrite, configVars, env
<1>6. QED
  BY <1>1, <1>2, <1>3, <1>4, <1>5 DEF Next

-----------------------------------------------------------------------------
(* The registry.                                                           *)

\* Steps that leave the row and the updates alone.
LEMMA RowStays ==
  ASSUME RowShape, RowTrue, BasisTrue, FieldsSurvive, row # NoRow,
         KeysTrue, safe' = safe,
         UNCHANGED <<row, basis, acked, mixed>>
  PROVE  RowShape' /\ RowTrue' /\ BasisTrue' /\ FieldsSurvive'
  BY DEF RowShape, RowTrue, BasisTrue, FieldsSurvive

LEMMA FetchInv ==
  ASSUME IInv, NEW b \in Builders, Fetch(b)
  PROVE  IInv'
<1> USE DEF IInv
<1>1. KeysTrue'
  BY KeysNext DEF Next
<1>2. /\ row # NoRow
      /\ UNCHANGED <<safe, row, cachedCfg, backend, basis, acked, mixed, crossed>>
  BY DEF Fetch, history
<1>3. RowShape' /\ RowTrue' /\ BasisTrue' /\ FieldsSurvive'
  BY <1>2, RowStays
<1>4. \/ building' = building
      \/ cachedCfg # Nil /\ building' = [building EXCEPT ![b] = cachedCfg]
      \/ /\ cachedCfg = Nil /\ Decrypt(row) # Unread
         /\ building' = [building EXCEPT ![b] = Decrypt(row)]
  BY DEF Fetch
<1>5. "llm" \in row.fields /\ row.fields \subseteq Fields \cup {"llm"}
  BY <1>2 DEF RowTrue
<1>6. ReadTrue'
  BY <1>2, <1>4, <1>5, Decrypted DEF ReadTrue
<1>7. FreshTrue'
  BY <1>2, <1>4, Decrypted DEF FreshTrue, ReadTrue
<1>8. QED
  BY <1>1, <1>3, <1>6, <1>7 DEF ConfigsAssumption

LEMMA KeepInv ==
  ASSUME IInv, NEW b \in Builders, Keep(b)
  PROVE  IInv'
<1> USE DEF IInv
<1>1. KeysTrue'
  BY KeysNext DEF Next
<1>2. /\ building[b] # Nil /\ cachedCfg' = building[b]
      /\ building' = [building EXCEPT ![b] = Nil]
      /\ UNCHANGED <<safe, row, basis, acked, mixed, crossed>>
  BY DEF Keep, history, env
<1>3. row # NoRow
  BY <1>2 DEF RowTrue
<1>4. RowShape' /\ RowTrue' /\ BasisTrue' /\ FieldsSurvive'
  BY <1>2, <1>3, RowStays
<1>5. "llm" \in building[b] /\ building[b] \subseteq Fields \cup {"llm"}
  BY <1>2 DEF ReadTrue
<1>6. backend' = building[b]
  BY <1>5 DEF Keep
<1>7. ReadTrue'
  BY <1>2, <1>5, <1>6 DEF ReadTrue
<1>8. FreshTrue'
  BY <1>2, <1>6 DEF FreshTrue, ReadTrue
<1>9. QED
  BY <1>1, <1>4, <1>7, <1>8 DEF ConfigsAssumption

-----------------------------------------------------------------------------
(* Updates of the row.                                                     *)

LEMMA CreateInv ==
  ASSUME IInv, Create
  PROVE  IInv'
<1> USE DEF IInv
<1>1. KeysTrue'
  BY KeysNext DEF Next
<1>2. /\ row = NoRow /\ row' = [gen |-> genCur, key |-> keyCur, fields |-> {"llm"}]
      /\ acked' = {"llm"}
      /\ UNCHANGED <<safe, keyCur, genCur, cachedCfg, backend, building, basis, mixed>>
  BY DEF Create, Encrypted, env, registry, history
<1>3. /\ keyCur \in {safe.key, Stray} \ {Missing}
      /\ keyCur \in Int /\ genCur \in Int
  <2>1. keyCur \in {safe.key, Stray} \ {Missing}
    BY WritableKeys DEF Create
  <2>2. safe.key \in Int /\ genCur \in Int /\ Stray \in Int
    BY DEF KeysTrue, Stray
  <2>3. QED
    BY <2>1, <2>2
<1>4. row' # NoRow
  BY <1>2, Distinct
<1>5. /\ cachedCfg = Nil /\ backend = Nil
      /\ \A b \in Builders : building[b] = Nil
      /\ \A a \in Admins : basis[a] = NoRow
  BY <1>2 DEF RowTrue
<1>6. RowShape' /\ RowTrue'
  BY <1>2, <1>3, <1>4 DEF RowShape, RowTrue
<1>7. ReadTrue' /\ FreshTrue'
  BY <1>2, <1>5 DEF ReadTrue, FreshTrue
<1>8. BasisTrue' /\ FieldsSurvive'
  BY <1>2, <1>5 DEF BasisTrue, FieldsSurvive
<1>9. QED
  BY <1>1, <1>6, <1>7, <1>8 DEF ConfigsAssumption

LEMMA UseKeyInv ==
  ASSUME IInv, UseKey \/ UNCHANGED configVars
  PROVE  IInv'
<1> USE DEF IInv
<1>1. KeysTrue'
  BY KeysNext DEF Next
<1>2. UNCHANGED <<safe, row, cachedCfg, backend, building, basis, acked, mixed, crossed>>
  BY DEF UseKey, configVars, registry, history, env
<1>3. RowShape' /\ RowTrue'
  BY <1>2 DEF RowShape, RowTrue
<1>4. ReadTrue' /\ FreshTrue'
  BY <1>2 DEF ReadTrue, FreshTrue
<1>5. BasisTrue' /\ FieldsSurvive'
  BY <1>2 DEF BasisTrue, FieldsSurvive
<1>6. QED
  BY <1>1, <1>3, <1>4, <1>5 DEF ConfigsAssumption

LEMMA BeginUpdateInv ==
  ASSUME IInv, NEW a \in Admins, BeginUpdate(a)
  PROVE  IInv'
<1> USE DEF IInv
<1>1. KeysTrue'
  BY KeysNext DEF Next
<1>2. /\ row # NoRow /\ basis[a] = NoRow /\ basis' = [basis EXCEPT ![a] = row]
      /\ mixed' = (mixed \/ \E o \in Admins \ {a} : basis[o] # NoRow)
      /\ UNCHANGED <<safe, row, cachedCfg, backend, building, acked, crossed>>
  BY DEF BeginUpdate, env, registry
<1>3. RowShape' /\ RowTrue'
  BY <1>2 DEF RowShape, RowTrue
<1>4. ReadTrue' /\ FreshTrue'
  BY <1>2 DEF ReadTrue, FreshTrue
<1>5. BasisTrue'
  <2>1. \A o \in Admins : basis'[o] = IF o = a THEN row ELSE basis[o]
    BY <1>2 DEF BasisTrue
  <2>2. basis' \in [Admins -> [gen : Int, key : Int, fields : SUBSET (Fields \cup {"llm"})]]
    BY <1>2 DEF BasisTrue, RowShape
  <2>3. \A o \in Admins : basis'[o] # NoRow => "llm" \in basis'[o].fields
    BY <1>2, <2>1 DEF BasisTrue, RowTrue
  <2>4. ASSUME ~mixed'  PROVE ~mixed /\ \A o \in Admins : o # a => basis'[o] = NoRow
    BY <1>2, <2>1, <2>4
  <2>5. QED
    BY <1>2, <2>1, <2>2, <2>3, <2>4 DEF BasisTrue
<1>6. FieldsSurvive'
  BY <1>2 DEF FieldsSurvive
<1>7. QED
  BY <1>1, <1>3, <1>4, <1>5, <1>6 DEF ConfigsAssumption

\* The row and the registry after an update whose row could be read.
LEMMA FinishUpdateInv ==
  ASSUME IInv, NEW a \in Admins, NEW f \in Fields, FinishUpdate(a, f)
  PROVE  IInv'
<1> USE DEF IInv
<1>1. KeysTrue'
  BY KeysNext DEF Next
<1> DEFINE old == Decrypt(basis[a])
           stored == old # Unread /\ Writable
<1>2. /\ basis[a] # NoRow /\ basis' = [basis EXCEPT ![a] = NoRow]
      /\ UNCHANGED <<safe, building, mixed>>
      /\ stored => /\ row' = Encrypted(old \cup {f}) /\ acked' = acked \cup {f}
                   /\ Reload
                   /\ crossed' = (crossed \/ \E b \in Builders : building[b] # Nil)
      /\ ~stored => UNCHANGED <<row, acked, cachedCfg, backend, crossed>>
  BY DEF FinishUpdate
<1>3. row # NoRow
  BY <1>2 DEF RowTrue
<1>4. \A o \in Admins : basis'[o] = IF o = a THEN NoRow ELSE basis[o]
  BY <1>2 DEF BasisTrue
<1>5. CASE ~stored
  <2>1. RowShape' /\ RowTrue'
    BY <1>2, <1>3, <1>5 DEF RowShape, RowTrue
  <2>2. ReadTrue' /\ FreshTrue'
    BY <1>2, <1>5 DEF ReadTrue, FreshTrue
  <2>3. FieldsSurvive'
    BY <1>2, <1>5 DEF FieldsSurvive
  <2>4. basis' \in [Admins -> [gen : Int, key : Int, fields : SUBSET (Fields \cup {"llm"})]]
    BY <1>2 DEF BasisTrue, NoRow, Missing
  <2>5. BasisTrue'
    BY <1>2, <1>4, <1>5, <2>4 DEF BasisTrue
  <2>6. QED
    BY <1>1, <2>1, <2>2, <2>3, <2>5 DEF ConfigsAssumption
<1>6. CASE stored
  <2>1. old = basis[a].fields
    BY <1>6, Decrypted
  <2>2. "llm" \in old /\ old \subseteq Fields \cup {"llm"}
    BY <1>2, <2>1 DEF BasisTrue
  <2>3. row' = [gen |-> genCur, key |-> keyCur, fields |-> old \cup {f}]
    BY <1>2, <1>6 DEF Encrypted
  <2>4. /\ keyCur \in {safe.key, Stray} \ {Missing}
        /\ keyCur \in Int /\ genCur \in Int
    <3>1. keyCur \in {safe.key, Stray} \ {Missing}
      BY <1>6, WritableKeys
    <3>2. safe.key \in Int /\ genCur \in Int /\ Stray \in Int
      BY DEF KeysTrue, Stray
    <3>3. QED
      BY <3>1, <3>2
  <2>5. row'.fields = old \cup {f} /\ row' # NoRow
    BY <2>2, <2>3, Distinct
  <2>6. RowShape' /\ RowTrue'
    BY <1>2, <2>2, <2>3, <2>4, <2>5 DEF RowShape, RowTrue
  <2>7. cachedCfg' = Nil /\ backend' = Nil /\ building' = building
    BY <1>2, <1>6 DEF Reload
  <2>8. ReadTrue'
    BY <2>7 DEF ReadTrue
  <2>9. FreshTrue'
    BY <1>2, <1>6, <2>7 DEF FreshTrue
  <2>10. ~mixed => /\ acked \subseteq old
                   /\ \A o \in Admins : basis'[o] = NoRow
    BY <1>2, <1>4, <2>1 DEF BasisTrue, FieldsSurvive
  <2>11. FieldsSurvive'
    BY <1>2, <1>6, <2>5, <2>10 DEF FieldsSurvive
  <2>12. basis' \in [Admins -> [gen : Int, key : Int, fields : SUBSET (Fields \cup {"llm"})]]
    BY <1>2 DEF BasisTrue, NoRow, Missing
  <2>13. BasisTrue'
    BY <1>2, <1>4, <2>10, <2>12 DEF BasisTrue
  <2>14. QED
    BY <1>1, <2>6, <2>8, <2>9, <2>11, <2>13 DEF ConfigsAssumption
<1>7. QED
  BY <1>5, <1>6

\* A start leaves the row and empties the rest.
LEMMA RestartInv ==
  ASSUME IInv, KeysTrue', NEW gen, NEW key, NEW old, Restart(gen, key, old),
         row # NoRow => row.key \in {safe'.key, safe'.old, Stray} \ {Missing}
  PROVE  IInv'
<1> USE DEF IInv
<1>1. /\ cachedCfg' = Nil /\ backend' = Nil /\ building' = [b \in Builders |-> Nil]
      /\ basis' = [a \in Admins |-> NoRow]
      /\ UNCHANGED <<row, acked, mixed, crossed>>
  BY DEF Restart, history
<1>2. RowShape' /\ RowTrue'
  BY <1>1 DEF RowShape, RowTrue
<1>3. ReadTrue' /\ FreshTrue'
  BY <1>1 DEF ReadTrue, FreshTrue
<1>4. BasisTrue' /\ FieldsSurvive'
  BY <1>1 DEF BasisTrue, FieldsSurvive, NoRow, Missing
<1>5. QED
  BY <1>2, <1>3, <1>4 DEF ConfigsAssumption

LEMMA OperatorInv ==
  ASSUME IInv,
         Rotate \/ \E k \in {safe.key, Missing, Invalid, Stray} : RestartWith(k)
  PROVE  IInv'
<1> USE DEF IInv
<1>1. KeysTrue'
  BY KeysNext DEF Next
<1>2. ASSUME NEW k \in {safe.key, Missing, Invalid, Stray}, RestartWith(k)
      PROVE  IInv'
  <2>1. Restart(safe.gen, k, safe.old) /\ safe' = safe
    BY <1>2 DEF RestartWith
  <2>2. row # NoRow => row.key \in {safe'.key, safe'.old, Stray} \ {Missing}
    BY <2>1 DEF RowTrue
  <2>3. QED
    BY <1>1, <2>1, <2>2, RestartInv
<1>3. CASE Rotate
  <2>1. row.key = safe.key /\ row # NoRow
    BY <1>3 DEF Rotate, IsCurrent
  <2>2. safe'.old = safe.key /\ Restart(safe'.gen, safe'.key, safe'.old)
    BY <1>3 DEF Rotate
  <2>3. row.key \in {safe'.key, safe'.old, Stray} \ {Missing}
    BY <2>1, <2>2 DEF RowTrue
  <2>4. QED
    BY <1>1, <2>2, <2>3, RestartInv
<1>4. QED
  BY <1>2, <1>3

LEMMA RewriteInv ==
  ASSUME IInv, Rewrite
  PROVE  IInv'
<1> USE DEF IInv
<1>1. KeysTrue'
  BY KeysNext DEF Next
<1>2. /\ row # NoRow /\ keyCur = safe.key /\ \A a \in Admins : basis[a] = NoRow
      /\ row' = [gen |-> genCur, key |-> keyCur, fields |-> row.fields]
      /\ UNCHANGED <<safe, cachedCfg, backend, building, basis, acked, mixed, crossed>>
  BY Decrypted DEF Rewrite, Encrypted, env, registry, history
<1>3. safe.key # Missing /\ safe.key \in Int /\ genCur \in Int
  BY DEF KeysTrue, Missing
<1>4. row'.fields = row.fields /\ row'.key = safe.key /\ row' # NoRow
  BY <1>2, Distinct DEF RowTrue
<1>5. RowShape' /\ RowTrue'
  BY <1>2, <1>3, <1>4 DEF RowShape, RowTrue
<1>6. ReadTrue' /\ FreshTrue'
  BY <1>2, <1>4 DEF ReadTrue, FreshTrue
<1>7. BasisTrue' /\ FieldsSurvive'
  BY <1>2, <1>4 DEF BasisTrue, FieldsSurvive
<1>8. QED
  BY <1>1, <1>5, <1>6, <1>7 DEF ConfigsAssumption

LEMMA Invariance == ConfigsAssumption /\ Spec => []IInv
<1>1. IInv /\ [Next]_configVars => IInv'
  BY FetchInv, KeepInv, CreateInv, UseKeyInv, BeginUpdateInv, FinishUpdateInv,
     OperatorInv, RewriteInv DEF Next
<1>2. QED
  BY <1>1, InitInv, PTL DEF Spec

-----------------------------------------------------------------------------
(* What the runs check.                                                    *)

\* Keys and generations are among those the operator made, but for none, a
\* damaged, a stray or a made-up key; rows and backends hold known fields.
THEOREM ConfigTypes == ConfigsAssumption /\ Spec => []TypeOK
<1>1. IInv => TypeOK
  BY DEF IInv, ConfigsAssumption, KeysTrue, RowShape, ReadTrue, TypeOK
<1>2. QED
  BY <1>1, Invariance, PTL

\* tenant_crypto.py:242: no row is ever encrypted under a key that the process
\* made up and that ends with it.
THEOREM NoOwnKey == ConfigsAssumption /\ Spec => []NeverUnderOwnKey
<1>1. IInv => NeverUnderOwnKey
  <2> SUFFICES ASSUME IInv  PROVE row.key # MadeUp
    BY DEF NeverUnderOwnKey
  <2>1. CASE row = NoRow
    BY <2>1 DEF NoRow, Missing, MadeUp
  <2>2. CASE row # NoRow
    <3>1. row.key \in {safe.key, safe.old, Stray} /\ safe.key >= 0 /\ safe.old >= 0
      BY <2>2 DEF IInv, RowTrue, KeysTrue
    <3>2. QED
      BY <3>1 DEF Stray, MadeUp
  <2>3. QED
    BY <2>1, <2>2
<1>2. QED
  BY <1>1, Invariance, PTL

\* tenant_crypto.py:411: started with the keys on file, a process can read the
\* row, however often they were rotated and the process was started with others.
THEOREM RowsStayReadable == ConfigsAssumption /\ Spec => []RotationKeepsRows
<1>1. IInv => RotationKeepsRows
  <2> SUFFICES ASSUME IInv, row # NoRow, keyCur = safe.key, row.key # Stray
               PROVE  Opens(row)
    BY DEF RotationKeepsRows
  <2>1. row.key = keyCur \/ row.key = keyOld
    BY DEF IInv, RowTrue, KeysTrue
  <2>2. KeyFor(genCur) = keyCur
    BY DEF KeyFor
  <2>3. KeyFor(genCur - 1) = keyOld
    BY DEF KeyFor, IInv, KeysTrue
  <2>4. QED
    BY <2>1, <2>2, <2>3 DEF Opens
<1>2. QED
  BY <1>1, Invariance, PTL

\* admin.py:637: while no two updates overlap, every field whose update was
\* answered with success is in the row, whatever became of keys and processes.
THEOREM UpdatesSurvive == ConfigsAssumption /\ Spec => []FieldsSurvive
<1>1. IInv => FieldsSurvive
  BY DEF IInv
<1>2. QED
  BY <1>1, Invariance, PTL

\* tenant_registry.py:113: no failure to read the row makes a tenant with a model
\* of its own use the global backend.
THEOREM NoFallBack == ConfigsAssumption /\ Spec => []NeverGlobalByFault
<1>1. IInv => NeverGlobalByFault
  BY Distinct DEF IInv, ReadTrue, NeverGlobalByFault, Nil
<1>2. QED
  BY <1>1, Invariance, PTL

\* tenant_registry.py:154: the backend in use was built from the row as it is,
\* but for a build that a reload overtook.
THEOREM NewIsServed == ConfigsAssumption /\ Spec => []ServesTheNew
<1>1. IInv => ServesTheNew
  BY DEF IInv, FreshTrue, ServesTheNew
<1>2. QED
  BY <1>1, Invariance, PTL
=============================================================================
