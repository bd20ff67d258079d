----------------------------- MODULE Retention -----------------------------
(* The nightly deletion of rows that are past their retention              *)
(* (prune_expired_rows, store.py): table by table, in batches, each of them*)
(* committed.  A decision stays as long as a row of another table names it,*)
(* so the tables that name decisions have their turn before it.            *)
EXTENDS Integers, Sequences, FiniteSets

CONSTANTS
  Ids,          \* of decisions; every other row names one
  Batch,        \* batch_size
  Configured,   \* what retention.days says of each table: "null", "junk",
                \* "zero" or "days"
  MaxFaults, MaxAdded

NightsAssumption == IsFiniteSet(Ids) /\ Batch \in Nat \ {0}

VARIABLES
  rows,         \* of each table and id: "none", "new" or "old"
  turn,         \* the table whose turn it is, 0 between the nights
  before,       \* history: rows that were old when the night's run began
  failed,       \* history: tables whose deletion failed this night
  gone,         \* history: tables that rows were deleted from
  spoilt,       \* history: ids that a row named anew during the run
  added, faults

retVars == <<rows, turn, before, failed, gone, spoilt, added, faults>>

\* Broken variant of Order: decisions have the first turn.
ParentFirst == <<"agent_decisions", "decision_reviews">>
Order == <<"decision_reviews", "agent_decisions">>
Prunable == {"decision_reviews", "agent_decisions"}
\* Rows that name a decision; those of incidents are never pruned.
Naming == {"decision_reviews", "incident_alerts"}
Cells == (Naming \cup Prunable) \X Ids

Init ==
  /\ rows \in [Cells -> {"none", "new", "old"}]
  /\ \A c \in Cells : c[1] \in Naming /\ rows[c] # "none" =>
       rows[<<"agent_decisions", c[2]>>] # "none"
  /\ \A c \in Cells : c[1] \notin Prunable => rows[c] # "old"
  /\ turn = 0 /\ before = {} /\ failed = {} /\ gone = {} /\ spoilt = {}
  /\ added = 0 /\ faults = 0

\* Broken variant of Days: a value that is no number means no retention at all.
JunkIsZero(t) == IF Configured[t] = "days" THEN 1 ELSE 0
\* resolve_retention_days: what is null or no number is the shipped default, a
\* zero keeps the table's rows for ever.
Days(t) == IF Configured[t] = "zero" THEN 0 ELSE 1

\* Broken variant of Named: only the tables of the list are asked.
OwnTables(id) == rows[<<"decision_reviews", id>>] # "none"
Named(id) == \E t \in Naming : rows[<<t, id>>] # "none"

\* The rows that a batch of the table may take.
Due(t) == {c \in Cells : c[1] = t /\ rows[c] = "old"
                           /\ (t = "agent_decisions" => ~Named(c[2]))}

Begin ==
  /\ turn = 0 /\ turn' = 1 /\ failed' = {} /\ spoilt' = {}
  /\ before' = {c \in Cells : rows[c] = "old"}
  /\ UNCHANGED <<rows, gone, added, faults>>

After(i) == IF i = Len(Order) THEN 0 ELSE i + 1

\* Broken variant of Last: the table is done after one batch.
OneBatch(taken) == TRUE
Last(taken) == Cardinality(taken) < Batch

\* One batch; the table is done with the first that is not full.
DeleteBatch ==
  /\ turn # 0 /\ Days(Order[turn]) > 0
  /\ \E taken \in SUBSET Due(Order[turn]) :
       /\ Cardinality(taken) = IF Cardinality(Due(Order[turn])) < Batch
                               THEN Cardinality(Due(Order[turn])) ELSE Batch
       /\ rows' = [c \in Cells |-> IF c \in taken THEN "none" ELSE rows[c]]
       /\ gone' = IF taken = {} THEN gone ELSE gone \cup {Order[turn]}
       /\ turn' = IF Last(taken) THEN After(turn) ELSE turn
  /\ UNCHANGED <<before, failed, spoilt, added, faults>>

Skip ==
  /\ turn # 0 /\ Days(Order[turn]) = 0 /\ turn' = After(turn)
  /\ UNCHANGED <<rows, before, failed, gone, spoilt, added, faults>>

\* A batch fails, and with it the table's turn, but not the run.
TableFails ==
  /\ turn # 0 /\ Days(Order[turn]) > 0 /\ faults < MaxFaults /\ faults' = faults + 1
  /\ failed' = failed \cup {Order[turn]} /\ turn' = After(turn)
  /\ UNCHANGED <<rows, before, gone, spoilt, added>>

\* Meanwhile rows grow old, and analysts add some that name a decision.
GrowOld ==
  /\ \E c \in Cells : /\ c[1] \in Prunable /\ rows[c] = "new"
                      /\ rows' = [rows EXCEPT ![c] = "old"]
  /\ UNCHANGED <<turn, before, failed, gone, spoilt, added, faults>>

Add ==
  /\ added < MaxAdded /\ added' = added + 1
  /\ \E c \in Cells :
       /\ c[1] \in Naming /\ rows[c] = "none"
       /\ rows[<<"agent_decisions", c[2]>>] # "none"
       /\ rows' = [rows EXCEPT ![c] = "new"] /\ spoilt' = spoilt \cup {c[2]}
  /\ UNCHANGED <<turn, before, failed, gone, faults>>

Next == Begin \/ DeleteBatch \/ Skip \/ TableFails \/ GrowOld \/ Add
-----------------------------------------------------------------------------
TypeOK == rows \in [Cells -> {"none", "new", "old"}] /\ turn \in 0..Len(Order)

\* No row names a decision that is gone (store.py:3491).
NothingDangles ==
  \A c \in Cells : c[1] \in Naming /\ rows[c] # "none" =>
    rows[<<"agent_decisions", c[2]>>] # "none"

\* A table that is configured as 0, and nothing else, is kept for ever
\* (store.py:3484): after a run without errors what was old before it is gone,
\* but for decisions that a row still names.
OldRowsGo ==
  /\ \A t \in gone : Configured[t] # "zero"
  /\ turn = 0 => \A c \in before :
       \/ rows[c] # "old" \/ Configured[c[1]] = "zero"
       \/ c[1] \in failed \/ (c[1] = "agent_decisions" /\ Named(c[2]))
       \/ c[2] \in spoilt
=============================================================================
