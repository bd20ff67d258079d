-------------------------- MODULE CaseWork_proofs ---------------------------
(***************************************************************************)
(* What the API does around the cases, proved for any number of workers,   *)
(* API processes, decisions, tenants, threads, rows, rules, analysts and   *)
(* accounts, and any number of requests, changes and faults: first the     *)
(* incidents, then the periodic jobs, the nightly deletion and the rules   *)
(* on the manager, then who has a case in hand, who is signed in, which    *)
(* accounts exist and which tenant a request is served by, then the        *)
(* guidance files, the severity policy, the record of a rule and the week, *)
(* and last what the run checks of them and, from TenantConfigs_proofs, of *)
(* the configurations.                                                     *)
(***************************************************************************)
EXTENDS MCCaseWork, FiniteSetTheorems, TLAPS

-----------------------------------------------------------------------------
(* The incidents.                                                          *)

\* Whoever names an incident names one with a row, and a row never goes.
RowsBehind ==
  /\ \A i \in Incidents : members[i] # {} => Exists(i)
  /\ \A w \in Filing : job[w].at # "open" => job[w].inc \in Incidents /\ Exists(job[w].inc)
  /\ \A w \in Filing : job[w].at = "save" => job[w].row # Nothing
  /\ \A p \in Desks : req[p] # Nothing /\ req[p].at \notin {"review", "rollup"} =>
       Exists(req[p].inc)

\* A decision that is still to be added is with nobody, or with one worker.
Unfiled(d) == \A i \in Incidents : d \notin members[i]
OneFiler ==
  /\ \A d \in todo : Unfiled(d) /\ \A w \in Filing : job[w].dec # d
  /\ \A v, w \in Filing : job[v].dec = job[w].dec => v = w
  /\ \A w \in Filing : job[w].at \in {"join", "open", "first"} => Unfiled(job[w].dec)

Base == TypeOK /\ RowsBehind
FiledInv == OneFiler /\ FiledOnce
IInv == Base /\ NeverSweptUp /\ FiledInv /\ CountsAgree

-----------------------------------------------------------------------------
(* What a job, a request and a count are.                                  *)

LEMMA JobKinds ==
  ASSUME TypeOK, NEW w \in Filing
  PROVE  /\ w \in Workers /\ job[w] \in Jobs /\ job[w] # Nothing
         /\ job[w].dec \in Decisions /\ job[w].inc \in Incidents \cup {0}
         /\ job[w].at \in {"join", "reread", "save", "open", "first"}
         /\ job[w].row \in Rows \cup {Nothing}
         /\ job[w] = [dec |-> job[w].dec, inc |-> job[w].inc, at |-> job[w].at,
                      row |-> job[w].row]
<1>1. w \in Workers /\ job[w] \in Jobs /\ job[w] # Nothing
  BY DEF Filing, TypeOK
<1>2. QED
  BY <1>1 DEF Jobs

LEMMA RequestKinds ==
  ASSUME TypeOK, NEW p \in Desks, req[p] # Nothing
  PROVE  /\ req[p] \in Requests
         /\ Serving(p, "status") => req[p].inc \in Incidents /\ req[p].to \in Open \cup Finished
         /\ Serving(p, "review") => req[p].dec \in Decisions /\ req[p].verdict \in Verdicts
         /\ Serving(p, "propagate") =>
              /\ req[p].inc \in Incidents /\ req[p].verdict \in Verdicts
              /\ req[p].chosen \subseteq Decisions
         /\ Serving(p, "rollup") => req[p].dec \in Decisions
         /\ Serving(p, "mix") \/ Serving(p, "resolve") =>
              /\ req[p].inc \in Incidents
              /\ req[p] = [at |-> req[p].at, inc |-> req[p].inc]
<1>1. req[p] \in Requests
  BY DEF TypeOK
<1>2. QED
  BY <1>1 DEF Requests, Serving

LEMMA RowKinds ==
  ASSUME TypeOK, NEW i \in Incidents, Exists(i)
  PROVE  /\ row[i] \in Rows
         /\ row[i].severity \in Nat /\ row[i].status \in Open \cup Finished
         /\ row[i].count \in Nat
         /\ \A c \in Nat : [row[i] EXCEPT !.count = c] \in Rows
         /\ \A st \in Open \cup Finished : [row[i] EXCEPT !.status = st] \in Rows
<1>1. row[i] \in Rows
  BY DEF TypeOK, Exists
<1>2. QED
  BY <1>1 DEF Rows

LEMMA Countable == \A S \in SUBSET Decisions : IsFiniteSet(S) /\ Cardinality(S) \in Nat
  BY DeskAssumption, FS_Subset, FS_CardinalityType

\* The insertion of a decision writes a row, as it was but for the count.
LEMMA Inserted ==
  ASSUME TypeOK, NEW d \in Decisions, NEW i \in Incidents, Exists(i), Insert(d, i)
  PROVE  /\ members' \in [Incidents -> SUBSET Decisions]
         /\ row' \in [Incidents -> Rows \cup {Nothing}]
         /\ row'[i].count = Cardinality(members'[i])
         /\ \A j \in Incidents : members'[j] = IF j = i THEN members[i] \cup {d} ELSE members[j]
         /\ \A j \in Incidents : j # i => row'[j] = row[j]
         /\ \A j \in Incidents : Exists(j) => Exists(j)'
<1>1. /\ members' \in [Incidents -> SUBSET Decisions]
      /\ \A j \in Incidents : members'[j] = IF j = i THEN members[i] \cup {d} ELSE members[j]
  BY DEF Insert, TypeOK
<1>2. Cardinality(members'[i]) \in Nat
  BY <1>1, Countable
<1>3. [row[i] EXCEPT !.count = Cardinality(members'[i])] \in Rows
  BY <1>2, RowKinds
<1>4. /\ row' \in [Incidents -> Rows \cup {Nothing}]
      /\ row'[i] = [row[i] EXCEPT !.count = Cardinality(members'[i])]
      /\ \A j \in Incidents : j # i => row'[j] = row[j]
  BY <1>3 DEF Insert, TypeOK
<1>5. row[i] \in Rows
  BY RowKinds
<1>6. row'[i].count = Cardinality(members'[i])
  BY <1>4, <1>5 DEF Rows
<1>7. \A j \in Incidents : Exists(j) => Exists(j)'
  BY <1>3, <1>4, NothingAssumption DEF Exists
<1>8. QED
  BY <1>1, <1>4, <1>6, <1>7

\* A change of status writes a row, as it was but for the status, and resolves
\* nothing that is held for a human.
LEMMA Updated ==
  ASSUME TypeOK, NEW i \in Incidents, Exists(i), NEW st \in Open \cup Finished,
         UpdateStatus(i, st)
  PROVE  /\ row' \in [Incidents -> Rows \cup {Nothing}]
         /\ row'[i].count = row[i].count
         /\ \A j \in Incidents : j # i => row'[j] = row[j]
         /\ \A j \in Incidents : Exists(j) => Exists(j)'
         /\ resolved' \subseteq Decisions
         /\ \A d \in resolved' : d \in resolved \/ ~HeldForHuman(d)
<1>1. row[i] \in Rows /\ [row[i] EXCEPT !.status = st] \in Rows
  BY RowKinds
<1>2. /\ row' \in [Incidents -> Rows \cup {Nothing}]
      /\ row'[i] = [row[i] EXCEPT !.status = st]
      /\ \A j \in Incidents : j # i => row'[j] = row[j]
  BY <1>1 DEF UpdateStatus, TypeOK
<1>3. row'[i].count = row[i].count
  BY <1>1, <1>2 DEF Rows
<1>4. \A j \in Incidents : Exists(j) => Exists(j)'
  BY <1>1, <1>2, NothingAssumption DEF Exists
<1>5. /\ resolved' \subseteq Decisions
      /\ \A d \in resolved' : d \in resolved \/ ~HeldForHuman(d)
  BY DEF UpdateStatus, CascadeResolve, TypeOK
<1>6. QED
  BY <1>2, <1>3, <1>4, <1>5

\* A merge moves the source's decisions; nothing else changes hands.
LEMMA Merged ==
  ASSUME TypeOK, NEW p \in Desks, NEW t \in Incidents, NEW s \in Incidents,
         Merge(p, t, s)
  PROVE  /\ members' \in [Incidents -> SUBSET Decisions]
         /\ row' \in [Incidents -> Rows \cup {Nothing}]
         /\ members'[t] # {} => row'[t].count = Cardinality(members'[t])
         /\ t # s /\ members'[t] = members[t] \cup members[s] /\ members'[s] = {}
         /\ \A j \in Incidents : j \notin {t, s} => members'[j] = members[j]
         /\ \A j \in Incidents : j \notin {t, s} => row'[j] = row[j]
         /\ \A j \in Incidents : Exists(j) => Exists(j)'
<1>1. t # s /\ Exists(t) /\ Exists(s)
  BY DEF Merge
<1>2. /\ members' \in [Incidents -> SUBSET Decisions]
      /\ members'[t] = members[t] \cup members[s] /\ members'[s] = {}
      /\ \A j \in Incidents : j \notin {t, s} => members'[j] = members[j]
  BY <1>1 DEF Merge, TypeOK
<1> DEFINE c == IF members'[t] = {} THEN row[t].count ELSE Cardinality(members'[t])
<1>3. c \in Nat
  BY <1>1, <1>2, Countable, RowKinds
<1>4. /\ [row[t] EXCEPT !.count = c] \in Rows
      /\ [row[s] EXCEPT !.status = "closed"] \in Rows
  BY <1>1, <1>3, RowKinds DEF Finished
<1>5. /\ row'[t] = [row[t] EXCEPT !.count = c]
      /\ row'[s] = [row[s] EXCEPT !.status = "closed"]
      /\ \A j \in Incidents : j \notin {t, s} => row'[j] = row[j]
      /\ row' \in [Incidents -> Rows \cup {Nothing}]
  BY <1>1, <1>4 DEF Merge, TypeOK
<1>6. row[t] \in Rows
  BY <1>1, RowKinds
<1>7. row'[t].count = c
  BY <1>5, <1>6 DEF Rows
<1>8. \A j \in Incidents : Exists(j) => Exists(j)'
  BY <1>4, <1>5, NothingAssumption DEF Exists
<1>9. QED
  BY <1>1, <1>2, <1>5, <1>7, <1>8

-----------------------------------------------------------------------------
(* Types, and the rows behind every incident that is named.                *)

LEMMA BaseInit == Init => Base
<1> SUFFICES ASSUME Init PROVE Base
  OBVIOUS
<1>1. TypeOK
  BY DeskAssumption DEF Init, TypeOK
<1>2. RowsBehind
  BY DEF Init, RowsBehind, Filing
<1>3. QED
  BY <1>1, <1>2 DEF Base

LEMMA TypeStep == Base /\ [Next]_vars => TypeOK'
<1> SUFFICES ASSUME Base, [Next]_vars PROVE TypeOK'
  OBVIOUS
<1>0. TypeOK /\ RowsBehind
  BY DEF Base
<1> USE DEF TypeOK, caseVars, alertVars, boundVars, ghostVars
<1>1. ASSUME NEW w \in Workers, NEW d \in Decisions, Match(w, d) PROVE TypeOK'
  <2>1. \A i \in Incidents \cup {0}, next \in {"join", "open"} :
          [dec |-> d, inc |-> i, at |-> next, row |-> Nothing] \in Jobs
    BY DEF Jobs
  <2>2. PICK j \in Jobs : job' = [job EXCEPT ![w] = j]
    BY <1>1, <2>1 DEF Match
  <2>3. job' \in [Workers -> Jobs \cup {Nothing}]
    BY <1>0, <2>2
  <2>4. QED
    BY <1>0, <1>1, <2>3 DEF Match
<1>2. ASSUME NEW w \in Workers, Join(w) PROVE TypeOK'
  <2>1. w \in Filing /\ job[w].inc \in Incidents /\ Exists(job[w].inc)
    BY <1>0, <1>2 DEF Join, At, RowsBehind
  <2>2. [job[w] EXCEPT !.at = "reread"] \in Jobs
    BY <1>0, <2>1, JobKinds DEF Jobs
  <2>3. /\ row' \in [Incidents -> Rows \cup {Nothing}]
        /\ members' \in [Incidents -> SUBSET Decisions]
    BY <1>0, <1>2, <2>1, JobKinds, Inserted DEF Join
  <2>4. QED
    BY <1>0, <1>2, <2>2, <2>3 DEF Join, Goto
<1>3. ASSUME NEW w \in Workers, Reread(w) PROVE TypeOK'
  <2>1. w \in Filing /\ job[w].inc \in Incidents
    BY <1>0, <1>3 DEF Reread, At, RowsBehind
  <2>2. [job[w] EXCEPT !.at = "save", !.row = row[job[w].inc]] \in Jobs
    BY <1>0, <2>1, JobKinds DEF Jobs
  <2>3. QED
    BY <1>0, <1>3, <2>2 DEF Reread
<1>4. ASSUME NEW w \in Workers, SaveRow(w) PROVE TypeOK'
  <2>1. w \in Filing /\ job[w].inc \in Incidents /\ job[w].row \in Rows
    BY <1>0, <1>4, JobKinds DEF SaveRow, At, RowsBehind
  <2>2. SeverityOf(job[w].dec) \in Nat
    BY <1>0, <2>1, JobKinds, DeskAssumption
  <2>3. [job[w].row EXCEPT !.severity =
           IF @ >= SeverityOf(job[w].dec) THEN @ ELSE SeverityOf(job[w].dec)] \in Rows
    BY <2>1, <2>2 DEF Rows
  <2>4. QED
    BY <1>0, <1>4, <2>1, <2>3 DEF SaveRow, Done
<1>5. ASSUME NEW w \in Workers, OpenIncident(w) PROVE TypeOK'
  <2>1. PICK i \in Incidents :
          /\ row' = [row EXCEPT ![i] =
               [severity |-> SeverityOf(job[w].dec), status |-> "open",
                key |-> KeyOf(job[w].dec), count |-> 1]]
          /\ job' = [job EXCEPT ![w].at = "first", ![w].inc = i]
    BY <1>5 DEF OpenIncident
  <2>2. w \in Filing /\ job[w].dec \in Decisions
    BY <1>0, <1>5, JobKinds DEF OpenIncident, At
  <2>3. [severity |-> SeverityOf(job[w].dec), status |-> "open",
         key |-> KeyOf(job[w].dec), count |-> 1] \in Rows
    BY <2>2, DeskAssumption DEF Rows, Open
  <2>4. [job[w] EXCEPT !.at = "first", !.inc = i] \in Jobs
    BY <1>0, <2>2, JobKinds DEF Jobs
  <2>5. QED
    BY <1>0, <1>5, <2>1, <2>3, <2>4 DEF OpenIncident
<1>6. ASSUME NEW w \in Workers, AddFirst(w) PROVE TypeOK'
  <2>1. w \in Filing /\ job[w].inc \in Incidents /\ Exists(job[w].inc)
    BY <1>0, <1>6 DEF AddFirst, At, RowsBehind
  <2>2. /\ row' \in [Incidents -> Rows \cup {Nothing}]
        /\ members' \in [Incidents -> SUBSET Decisions]
    BY <1>0, <1>6, <2>1, JobKinds, Inserted DEF AddFirst
  <2>3. QED
    BY <1>0, <1>6, <2>2 DEF AddFirst, Done
<1>7. ASSUME NEW w \in Workers, FilingFails(w) PROVE TypeOK'
  <2>1. job[w].dec \in Decisions
    BY <1>0, <1>7, JobKinds DEF FilingFails
  <2>2. job' \in [Workers -> Jobs \cup {Nothing}] /\ lost' \subseteq Decisions
    BY <1>0, <1>7, <2>1 DEF FilingFails, Done
  <2>3. faults' \in 0..MaxFaults
    BY <1>0, <1>7, DeskAssumption DEF FilingFails
  <2>4. QED
    BY <1>0, <1>7, <2>2, <2>3 DEF FilingFails
<1>8. ASSUME NEW p \in Desks, NEW i \in Incidents, NEW st \in Statuses, AskStatus(p, i, st)
      PROVE TypeOK'
  <2>1. [at |-> "status", inc |-> i, to |-> st] \in Requests
    BY DeskAssumption DEF Requests
  <2>2. QED
    BY <1>0, <1>8, <2>1, DeskAssumption DEF AskStatus, Request
<1>9. ASSUME NEW p \in Desks, NEW i \in Incidents, NEW v \in HumanVerdicts,
             AskPropagate(p, i, v)
      PROVE TypeOK'
  <2>1. {d \in members[i] : human[d] = Nothing} \subseteq Decisions
    BY <1>0
  <2>2. [at |-> "propagate", inc |-> i, verdict |-> v,
         chosen |-> {d \in members[i] : human[d] = Nothing}] \in Requests
    BY <2>1, DeskAssumption DEF Requests
  <2>3. QED
    BY <1>0, <1>9, <2>2, DeskAssumption DEF AskPropagate, Request
<1>10. ASSUME NEW p \in Desks, NEW t \in Incidents, NEW s \in Incidents, Merge(p, t, s)
       PROVE TypeOK'
  <2>1. /\ row' \in [Incidents -> Rows \cup {Nothing}]
        /\ members' \in [Incidents -> SUBSET Decisions]
    BY <1>0, <1>10, Merged
  <2>2. requests' \in 0..MaxRequests
    BY <1>0, <1>10, DeskAssumption DEF Merge
  <2>3. merged' \subseteq Incidents
    BY <1>0, <1>10 DEF Merge
  <2>4. QED
    BY <1>0, <1>10, <2>1, <2>2, <2>3 DEF Merge
<1>11. ASSUME NEW p \in Desks, NEW d \in Decisions, NEW v \in HumanVerdicts,
              AskReview(p, d, v)
       PROVE TypeOK'
  <2>1. [at |-> "review", dec |-> d, verdict |-> v] \in Requests
    BY DeskAssumption DEF Requests
  <2>2. QED
    BY <1>0, <1>11, <2>1, DeskAssumption DEF AskReview, Request
<1>12. ASSUME NEW p \in Desks, SetStatus(p) PROVE TypeOK'
  <2>1. req[p].inc \in Incidents /\ req[p].to \in Open \cup Finished /\ Exists(req[p].inc)
    BY <1>0, <1>12, RequestKinds DEF SetStatus, Serving, RowsBehind
  <2>2. row' \in [Incidents -> Rows \cup {Nothing}] /\ resolved' \subseteq Decisions
    BY <1>0, <1>12, <2>1, Updated DEF SetStatus
  <2>3. QED
    BY <1>0, <1>12, <2>2 DEF SetStatus, Respond
<1>13. ASSUME NEW p \in Desks, Review(p) PROVE TypeOK'
  <2>1. req[p].dec \in Decisions /\ req[p].verdict \in Verdicts
    BY <1>0, <1>13, RequestKinds DEF Review, Serving
  <2>2. [at |-> "rollup", dec |-> req[p].dec] \in Requests
    BY <2>1 DEF Requests
  <2>3. QED
    BY <1>0, <1>13, <2>1, <2>2 DEF Review
<1>14. ASSUME NEW p \in Desks, Propagate(p) PROVE TypeOK'
  <2>1. req[p].chosen \subseteq Decisions /\ req[p].verdict \in Verdicts
    BY <1>0, <1>14, RequestKinds DEF Propagate, Serving
  <2>2. \A d \in Decisions : [at |-> "rollup", dec |-> d] \in Requests
    BY DEF Requests
  <2>3. req' \in [Desks -> Requests \cup {Nothing}]
    BY <1>0, <1>14, <2>1, <2>2 DEF Propagate, Respond
  <2>4. /\ human' \in [Decisions -> Verdicts \cup {Nothing}]
        /\ resolved' \subseteq Decisions
    BY <1>0, <1>14, <2>1 DEF Propagate
  <2>5. QED
    BY <1>0, <1>14, <2>3, <2>4 DEF Propagate
<1>15. ASSUME NEW p \in Desks, FindIncident(p) PROVE TypeOK'
  <2>1. \A i \in Incidents : [at |-> "mix", inc |-> i] \in Requests
    BY DEF Requests
  <2>2. QED
    BY <1>0, <1>15, <2>1 DEF FindIncident, Respond
<1>16. ASSUME NEW p \in Desks, ReadMix(p) PROVE TypeOK'
  <2>1. [req[p] EXCEPT !.at = "resolve"] \in Requests
    BY <1>0, <1>16, RequestKinds DEF ReadMix, Serving, Requests
  <2>2. QED
    BY <1>0, <1>16, <2>1 DEF ReadMix, Respond
<1>17. ASSUME NEW p \in Desks, RollUp(p) PROVE TypeOK'
  <2>1. req[p].inc \in Incidents /\ Exists(req[p].inc)
    BY <1>0, <1>17, RequestKinds DEF RollUp, Serving, RowsBehind
  <2>2. row' \in [Incidents -> Rows \cup {Nothing}] /\ resolved' \subseteq Decisions
    BY <1>0, <1>17, <2>1, Updated DEF RollUp, Finished
  <2>3. QED
    BY <1>0, <1>17, <2>2 DEF RollUp, Respond
<1>18. CASE UNCHANGED vars
  BY <1>0, <1>18 DEF vars
<1>19. QED
  BY <1>1, <1>2, <1>3, <1>4, <1>5, <1>6, <1>7, <1>8, <1>9, <1>10, <1>11, <1>12,
     <1>13, <1>14, <1>15, <1>16, <1>17, <1>18 DEF Next, WorkerStep, DeskStep

\* No row goes, and what is counted among the members of an incident without a
\* row stays nothing.
LEMMA RowsStay ==
  Base /\ [Next]_vars =>
    \A i \in Incidents :
      /\ Exists(i) => Exists(i)'
      /\ members'[i] # {} => Exists(i)'
<1> SUFFICES ASSUME Base, [Next]_vars, NEW i \in Incidents
             PROVE  /\ Exists(i) => Exists(i)'
                    /\ members'[i] # {} => Exists(i)'
  OBVIOUS
<1>0. TypeOK /\ RowsBehind /\ (members[i] # {} => Exists(i))
  BY DEF Base, RowsBehind
<1>1. CASE UNCHANGED caseVars
  BY <1>0, <1>1 DEF caseVars, Exists
<1>2. ASSUME NEW w \in Workers, Join(w) \/ AddFirst(w)
      PROVE  (Exists(i) => Exists(i)') /\ (members'[i] # {} => Exists(i)')
  <2>1. w \in Filing /\ job[w].at # "open" /\ Insert(job[w].dec, job[w].inc)
    BY <1>2 DEF Join, AddFirst, At
  <2>2. job[w].inc \in Incidents /\ Exists(job[w].inc) /\ job[w].dec \in Decisions
    BY <1>0, <2>1, JobKinds DEF RowsBehind
  <2>3. QED
    BY <1>0, <2>1, <2>2, Inserted
<1>3. ASSUME NEW w \in Workers, SaveRow(w)
      PROVE  (Exists(i) => Exists(i)') /\ (members'[i] # {} => Exists(i)')
  <2>1. w \in Filing /\ job[w].inc \in Incidents /\ job[w].row \in Rows
    BY <1>0, <1>3, JobKinds DEF SaveRow, At, RowsBehind
  <2>2. [job[w].row EXCEPT !.severity =
           IF @ >= SeverityOf(job[w].dec) THEN @ ELSE SeverityOf(job[w].dec)] \in Rows
    BY <1>0, <2>1, JobKinds, DeskAssumption DEF Rows
  <2>3. QED
    BY <1>0, <1>3, <2>1, <2>2, NothingAssumption DEF SaveRow, Exists, TypeOK
<1>4. ASSUME NEW w \in Workers, OpenIncident(w)
      PROVE  (Exists(i) => Exists(i)') /\ (members'[i] # {} => Exists(i)')
  <2>1. PICK j \in Incidents :
          row' = [row EXCEPT ![j] =
            [severity |-> SeverityOf(job[w].dec), status |-> "open",
             key |-> KeyOf(job[w].dec), count |-> 1]]
    BY <1>4 DEF OpenIncident
  <2>2. [severity |-> SeverityOf(job[w].dec), status |-> "open",
         key |-> KeyOf(job[w].dec), count |-> 1] \in Rows
    <3>1. job[w].dec \in Decisions
      BY <1>0, <1>4, JobKinds DEF OpenIncident, At
    <3>2. QED
      BY <3>1, DeskAssumption DEF Rows, Open
  <2>3. Exists(i) => Exists(i)'
    BY <1>0, <2>1, <2>2, NothingAssumption DEF Exists, TypeOK
  <2>4. QED
    BY <1>0, <1>4, <2>3 DEF OpenIncident
<1>5. ASSUME NEW p \in Desks, SetStatus(p) \/ RollUp(p)
      PROVE  (Exists(i) => Exists(i)') /\ (members'[i] # {} => Exists(i)')
  <2>1. req[p].inc \in Incidents /\ Exists(req[p].inc) /\ UNCHANGED members
    BY <1>0, <1>5, RequestKinds DEF SetStatus, RollUp, Serving, RowsBehind
  <2>2. \E st \in Open \cup Finished : UpdateStatus(req[p].inc, st)
    BY <1>0, <1>5, RequestKinds DEF SetStatus, RollUp, Serving, Finished
  <2>3. QED
    BY <1>0, <2>1, <2>2, Updated
<1>6. ASSUME NEW p \in Desks, NEW t \in Incidents, NEW s \in Incidents, Merge(p, t, s)
      PROVE  (Exists(i) => Exists(i)') /\ (members'[i] # {} => Exists(i)')
  <2>1. Exists(t) /\ Exists(s)
    BY <1>6 DEF Merge
  <2>2. Exists(i) => Exists(i)'
    BY <1>0, <1>6, Merged
  <2>3. i # t => members'[i] \in {{}, members[i]}
    BY <1>0, <1>6, Merged
  <2>4. CASE i = t
    BY <2>1, <2>2, <2>4
  <2>5. CASE i # t
    <3>1. members'[i] # {} => Exists(i)
      BY <1>0, <2>3, <2>5
    <3>2. QED
      BY <2>2, <3>1
  <2>6. QED
    BY <2>4, <2>5
<1>7. QED
  BY <1>1, <1>2, <1>3, <1>4, <1>5, <1>6
  DEF Next, WorkerStep, DeskStep, vars, caseVars, Match, Reread, FilingFails,
      AskStatus, AskPropagate, AskReview, Review, Propagate, FindIncident, ReadMix

LEMMA BehindStep == Base /\ [Next]_vars => RowsBehind'
<1> SUFFICES ASSUME Base, [Next]_vars PROVE RowsBehind'
  OBVIOUS
<1>0. TypeOK /\ RowsBehind
  BY DEF Base
<1>1. /\ \A i \in Incidents : Exists(i) => Exists(i)'
      /\ \A i \in Incidents : members'[i] # {} => Exists(i)'
  BY RowsStay
<1>2. ASSUME NEW v \in Workers, job'[v] # Nothing
      PROVE  /\ job'[v].at # "open" => job'[v].inc \in Incidents /\ row'[job'[v].inc] # Nothing
             /\ job'[v].at = "save" => job'[v].row # Nothing
  <2> DEFINE Good == /\ job'[v].at # "open" => job'[v].inc \in Incidents /\ row'[job'[v].inc] # Nothing
                     /\ job'[v].at = "save" => job'[v].row # Nothing
  <2>1. CASE job'[v] = job[v]
    <3>1. v \in Filing
      BY <1>2, <2>1 DEF Filing
    <3>2. QED
      BY <1>0, <1>1, <2>1, <3>1 DEF RowsBehind, Exists
  <2>2. ASSUME NEW d \in Decisions, Match(v, d) PROVE Good
    <3>1. \/ \E i \in Incidents : Exists(i) /\
               job'[v] = [dec |-> d, inc |-> i, at |-> "join", row |-> Nothing]
          \/ job'[v] = [dec |-> d, inc |-> 0, at |-> "open", row |-> Nothing]
      BY <1>0, <2>2 DEF Match, Joinable, TypeOK
    <3>2. CASE job'[v] = [dec |-> d, inc |-> 0, at |-> "open", row |-> Nothing]
      BY <3>2
    <3>3. ASSUME NEW i \in Incidents, Exists(i),
                 job'[v] = [dec |-> d, inc |-> i, at |-> "join", row |-> Nothing]
          PROVE  Good
      <4>1. job'[v].inc = i /\ job'[v].at = "join"
        BY <3>3
      <4>2. QED
        BY <1>1, <3>3, <4>1 DEF Exists
    <3>4. QED
      BY <3>1, <3>2, <3>3
  <2>3. ASSUME Join(v) \/ Reread(v) PROVE Good
    <3>1. v \in Filing /\ job[v].at \in {"join", "reread"}
      BY <2>3 DEF Join, Reread, At
    <3>2. job[v].inc \in Incidents /\ Exists(job[v].inc)
      BY <1>0, <3>1 DEF RowsBehind
    <3>3. \/ job'[v] = [job[v] EXCEPT !.at = "reread"]
          \/ job'[v] = [job[v] EXCEPT !.at = "save", !.row = row[job[v].inc]]
      BY <1>0, <2>3 DEF Join, Reread, Goto, TypeOK
    <3>4. /\ job'[v].inc = job[v].inc
          /\ job'[v].at = "reread" \/ job'[v].row = row[job[v].inc]
      BY <1>0, <3>1, <3>3, JobKinds DEF Jobs
    <3>5. QED
      BY <1>1, <3>2, <3>3, <3>4, <3>1, <1>0, JobKinds DEF Exists, Jobs
  <2>4. ASSUME OpenIncident(v) PROVE Good
    <3>1. PICK i \in Incidents :
            /\ row' = [row EXCEPT ![i] =
                 [severity |-> SeverityOf(job[v].dec), status |-> "open",
                  key |-> KeyOf(job[v].dec), count |-> 1]]
            /\ job' = [job EXCEPT ![v].at = "first", ![v].inc = i]
      BY <2>4 DEF OpenIncident
    <3>2. v \in Filing
      BY <2>4 DEF OpenIncident, At
    <3>3. job'[v] = [job[v] EXCEPT !.at = "first", !.inc = i]
      BY <1>0, <3>1 DEF TypeOK
    <3>4. job'[v].at = "first" /\ job'[v].inc = i
      BY <1>0, <3>2, <3>3, JobKinds DEF Jobs
    <3>5. [severity |-> SeverityOf(job[v].dec), status |-> "open",
           key |-> KeyOf(job[v].dec), count |-> 1] \in Rows
      <4>1. job[v].dec \in Decisions
        BY <1>0, <3>2, JobKinds
      <4>2. QED
        BY <4>1, DeskAssumption DEF Rows, Open
    <3>6. Exists(i)'
      BY <1>0, <3>1, <3>5, NothingAssumption DEF Exists, TypeOK
    <3>7. QED
      BY <3>4, <3>6 DEF Exists
  <2>5. ASSUME SaveRow(v) \/ AddFirst(v) \/ FilingFails(v) PROVE FALSE
    BY <1>0, <1>2, <2>5 DEF SaveRow, AddFirst, FilingFails, Done, TypeOK
  <2>6. ASSUME NEW w \in Workers, w # v, WorkerStep(w) PROVE job'[v] = job[v]
    BY <1>0, <2>6 DEF WorkerStep, Match, Join, Reread, SaveRow, OpenIncident, AddFirst,
       FilingFails, Goto, Done, TypeOK
  <2>7. ASSUME NEW p \in Desks, DeskStep(p) PROVE job'[v] = job[v]
    BY <2>7 DEF DeskStep, AskStatus, AskPropagate, Merge, AskReview, SetStatus, Review,
       Propagate, FindIncident, ReadMix, RollUp
  <2>8. CASE UNCHANGED vars
    BY <2>1, <2>8 DEF vars
  <2>9. QED
    BY <2>1, <2>2, <2>3, <2>4, <2>5, <2>6, <2>7, <2>8 DEF Next, WorkerStep
<1>3. ASSUME NEW p \in Desks, req'[p] # Nothing, req'[p].at \notin {"review", "rollup"}
      PROVE  row'[req'[p].inc] # Nothing
  <2>1. CASE req'[p] = req[p]
    <3>1. Exists(req[p].inc)
      BY <1>0, <1>3, <2>1 DEF RowsBehind
    <3>2. req[p].inc \in Incidents
      BY <1>0, <1>3, <2>1 DEF TypeOK, Requests
    <3>3. QED
      BY <1>1, <2>1, <3>1, <3>2 DEF Exists
  <2>2. ASSUME NEW i \in Incidents, NEW st \in Statuses, AskStatus(p, i, st)
        PROVE  row'[req'[p].inc] # Nothing
    <3>1. Exists(i) /\ req'[p].inc = i
      BY <1>0, <2>2 DEF AskStatus, Request, TypeOK
    <3>2. QED
      BY <1>1, <3>1 DEF Exists
  <2>3. ASSUME NEW i \in Incidents, NEW v \in HumanVerdicts, AskPropagate(p, i, v)
        PROVE  row'[req'[p].inc] # Nothing
    <3>1. Exists(i) /\ req'[p].inc = i
      BY <1>0, <2>3 DEF AskPropagate, Request, TypeOK
    <3>2. QED
      BY <1>1, <3>1 DEF Exists
  <2>4. ASSUME NEW d \in Decisions, NEW v \in HumanVerdicts, AskReview(p, d, v)
        PROVE  FALSE
    BY <1>0, <1>3, <2>4 DEF AskReview, Request, TypeOK
  <2>5. ASSUME SetStatus(p) \/ RollUp(p) \/ Review(p) \/ Propagate(p) PROVE FALSE
    BY <1>0, <1>3, <2>5 DEF SetStatus, RollUp, Review, Propagate, Respond, TypeOK
  <2>6. ASSUME FindIncident(p) PROVE row'[req'[p].inc] # Nothing
    <3>1. PICK i \in Incidents : req[p].dec \in members[i] /\ req'[p] = [at |-> "mix", inc |-> i]
      BY <1>0, <1>3, <2>6 DEF FindIncident, Respond, TypeOK
    <3>2. Exists(i)
      BY <1>0, <3>1 DEF RowsBehind
    <3>3. QED
      BY <1>1, <3>1, <3>2 DEF Exists
  <2>7. ASSUME ReadMix(p) PROVE row'[req'[p].inc] # Nothing
    <3>1. req'[p] = [req[p] EXCEPT !.at = "resolve"] /\ Serving(p, "mix")
      BY <1>0, <1>3, <2>7 DEF ReadMix, Respond, TypeOK
    <3>2. req[p].inc \in Incidents /\ Exists(req[p].inc)
      BY <1>0, <3>1, RequestKinds DEF Serving, RowsBehind
    <3>3. req'[p].inc = req[p].inc
      BY <1>0, <3>1, RequestKinds DEF Serving
    <3>4. QED
      BY <1>1, <3>2, <3>3 DEF Exists
  <2>8. ASSUME NEW q \in Desks, q # p, DeskStep(q) PROVE req'[p] = req[p]
    BY <1>0, <2>8 DEF DeskStep, AskStatus, AskPropagate, Merge, AskReview, SetStatus,
       Review, Propagate, FindIncident, ReadMix, RollUp, Request, Respond, TypeOK
  <2>9. ASSUME NEW w \in Workers, WorkerStep(w) PROVE req'[p] = req[p]
    BY <2>9 DEF WorkerStep, Match, Join, Reread, SaveRow, OpenIncident, AddFirst,
       FilingFails
  <2>10. ASSUME NEW i \in Incidents, NEW j \in Incidents, Merge(p, i, j)
         PROVE  req'[p] = req[p]
    BY <2>10 DEF Merge
  <2>11. CASE UNCHANGED vars
    BY <2>1, <2>11 DEF vars
  <2>12. QED
    BY <2>1, <2>2, <2>3, <2>4, <2>5, <2>6, <2>7, <2>8, <2>9, <2>10, <2>11
    DEF Next, DeskStep
<1>4. QED
  BY <1>1, <1>2, <1>3 DEF RowsBehind, Filing, Exists

LEMMA BaseStep == Base /\ [Next]_vars => Base'
  BY TypeStep, BehindStep DEF Base

-----------------------------------------------------------------------------
(* What analysts decided.                                                  *)

LEMMA OnlyReviewsOverwrite ==
  Base /\ [Next]_vars =>
    \A d \in Decisions : human[d] # Nothing /\ human'[d] # human[d] =>
      \E p \in Desks : Serving(p, "review") /\ req[p].dec = d
<1> SUFFICES ASSUME Base, [Next]_vars, NEW d \in Decisions,
                    human[d] # Nothing, human'[d] # human[d]
             PROVE  \E p \in Desks : Serving(p, "review") /\ req[p].dec = d
  OBVIOUS
<1>0. TypeOK
  BY DEF Base
<1>1. CASE UNCHANGED human
  BY <1>1
<1>2. ASSUME NEW p \in Desks, Review(p)
      PROVE  Serving(p, "review") /\ req[p].dec = d
  BY <1>0, <1>2 DEF Review, TypeOK
<1>3. ASSUME NEW p \in Desks, Propagate(p) PROVE FALSE
  BY <1>0, <1>3 DEF Propagate, TypeOK
<1>4. QED
  BY <1>1, <1>2, <1>3
  DEF Next, WorkerStep, DeskStep, vars, alertVars, Match, Join, Reread, SaveRow,
      OpenIncident, AddFirst, FilingFails, AskStatus, AskPropagate, AskReview, Merge,
      SetStatus, FindIncident, ReadMix, RollUp

LEMMA VerdictsStay ==
  Base /\ [Next]_vars => \A d \in Decisions : human[d] # Nothing => human'[d] # Nothing
<1> SUFFICES ASSUME Base, [Next]_vars, NEW d \in Decisions, human[d] # Nothing
             PROVE  human'[d] # Nothing
  OBVIOUS
<1>0. TypeOK
  BY DEF Base
<1>1. CASE UNCHANGED human
  BY <1>1
<1>2. ASSUME NEW p \in Desks, Review(p) PROVE human'[d] # Nothing
  <2>1. req[p].verdict \in Verdicts
    BY <1>0, <1>2, RequestKinds DEF Review, Serving
  <2>2. QED
    BY <1>0, <1>2, <2>1, DeskAssumption DEF Review, TypeOK
<1>3. ASSUME NEW p \in Desks, Propagate(p) PROVE human'[d] # Nothing
  BY <1>0, <1>3 DEF Propagate, TypeOK
<1>4. QED
  BY <1>1, <1>2, <1>3
  DEF Next, WorkerStep, DeskStep, vars, alertVars, Match, Join, Reread, SaveRow,
      OpenIncident, AddFirst, FilingFails, AskStatus, AskPropagate, AskReview, Merge,
      SetStatus, FindIncident, ReadMix, RollUp

LEMMA SweptStep == Base /\ NeverSweptUp /\ [Next]_vars => NeverSweptUp'
<1> SUFFICES ASSUME Base, NeverSweptUp, [Next]_vars, NEW d \in resolved'
             PROVE  d \in Escalated => human'[d] # Nothing
  BY DEF NeverSweptUp, HeldForHuman
<1>0. TypeOK /\ RowsBehind /\ TypeOK'
  BY TypeStep DEF Base
<1>1. d \in Decisions /\ (human[d] # Nothing => human'[d] # Nothing)
  BY <1>0, VerdictsStay DEF TypeOK
<1>2. CASE d \in resolved \/ ~HeldForHuman(d)
  BY <1>1, <1>2 DEF NeverSweptUp, HeldForHuman
<1>3. CASE UNCHANGED resolved
  BY <1>2, <1>3
<1>4. ASSUME NEW p \in Desks, SetStatus(p) \/ RollUp(p)
      PROVE  d \in resolved \/ ~HeldForHuman(d)
  <2>1. req[p].inc \in Incidents /\ Exists(req[p].inc)
    BY <1>0, <1>4, RequestKinds DEF SetStatus, RollUp, Serving, RowsBehind
  <2>2. \E st \in Open \cup Finished : UpdateStatus(req[p].inc, st)
    BY <1>0, <1>4, RequestKinds DEF SetStatus, RollUp, Serving, Finished
  <2>3. QED
    BY <1>0, <2>1, <2>2, Updated
<1>5. ASSUME NEW p \in Desks, Review(p)
      PROVE  d \in resolved \/ human'[d] # Nothing
  <2>1. req[p].verdict \in Verdicts
    BY <1>0, <1>5, RequestKinds DEF Review, Serving
  <2>2. QED
    BY <1>0, <1>1, <1>5, <2>1, DeskAssumption DEF Review, TypeOK
<1>6. ASSUME NEW p \in Desks, Propagate(p)
      PROVE  d \in resolved \/ human'[d] # Nothing
  <2>1. req[p].verdict \in Verdicts
    BY <1>0, <1>6, RequestKinds DEF Propagate, Serving
  <2>2. QED
    BY <1>0, <1>1, <1>6, <2>1, DeskAssumption DEF Propagate, TypeOK
<1>7. QED
  BY <1>2, <1>3, <1>4, <1>5, <1>6
  DEF Next, WorkerStep, DeskStep, vars, alertVars, Match, Join, Reread, SaveRow,
      OpenIncident, AddFirst, FilingFails, AskStatus, AskPropagate, AskReview, Merge,
      FindIncident, ReadMix

-----------------------------------------------------------------------------
(* The count of an incident's alerts.                                      *)

LEMMA CountStep == Base /\ CountsAgree /\ [Next]_vars => CountsAgree'
<1> SUFFICES ASSUME Base, CountsAgree, [Next]_vars,
                    NEW i \in Incidents, i \notin stale', i \notin merged',
                    members'[i] # {}
             PROVE  row'[i].count = Cardinality(members'[i])
  BY DEF CountsAgree, Incidents
<1> DEFINE Agrees == row'[i].count = Cardinality(members'[i])
<1>0. TypeOK /\ RowsBehind
  BY DEF Base
<1>1. CASE UNCHANGED <<row, members, stale, merged>>
  BY <1>1 DEF CountsAgree
<1>2. ASSUME NEW w \in Workers, Join(w) \/ AddFirst(w) PROVE Agrees
  <2>1. w \in Filing /\ job[w].at # "open" /\ Insert(job[w].dec, job[w].inc)
    BY <1>2 DEF Join, AddFirst, At
  <2>2. job[w].inc \in Incidents /\ Exists(job[w].inc) /\ job[w].dec \in Decisions
    BY <1>0, <2>1, JobKinds DEF RowsBehind
  <2>3. CASE i = job[w].inc
    BY <1>0, <2>1, <2>2, <2>3, Inserted
  <2>4. CASE i # job[w].inc
    <3>1. row'[i] = row[i] /\ members'[i] = members[i]
      BY <1>0, <2>1, <2>2, <2>4, Inserted
    <3>2. i \notin stale /\ i \notin merged
      BY <1>2 DEF Join, AddFirst, ghostVars
    <3>3. QED
      BY <3>1, <3>2 DEF CountsAgree
  <2>5. QED
    BY <2>3, <2>4
<1>3. ASSUME NEW w \in Workers, SaveRow(w) PROVE Agrees
  <2>1. w \in Filing /\ job[w].inc \in Incidents /\ job[w].row \in Rows
    BY <1>0, <1>3, JobKinds DEF SaveRow, At, RowsBehind
  <2>2. row[i].count = Cardinality(members[i]) /\ members'[i] = members[i]
    BY <1>3 DEF SaveRow, CountsAgree
  <2>3. CASE i # job[w].inc
    BY <1>0, <1>3, <2>2, <2>3 DEF SaveRow, TypeOK
  <2>4. CASE i = job[w].inc
    <3>1. job[w].row = row[i]
      BY <1>3, <2>4 DEF SaveRow
    <3>2. \E sv : row'[i] = [job[w].row EXCEPT !.severity = sv]
      BY <1>0, <1>3, <2>1, <2>4 DEF SaveRow, TypeOK
    <3>3. row'[i].count = row[i].count
      BY <2>1, <3>1, <3>2 DEF Rows
    <3>4. QED
      BY <2>2, <3>3
  <2>5. QED
    BY <2>3, <2>4
<1>4. ASSUME NEW w \in Workers, OpenIncident(w) PROVE Agrees
  <2>1. PICK j \in Incidents :
          /\ ~Exists(j)
          /\ row' = [row EXCEPT ![j] =
               [severity |-> SeverityOf(job[w].dec), status |-> "open",
                key |-> KeyOf(job[w].dec), count |-> 1]]
    BY <1>4 DEF OpenIncident
  <2>2. members[i] # {} /\ i \notin stale /\ i \notin merged /\ UNCHANGED members
    BY <1>4 DEF OpenIncident, ghostVars
  <2>3. i # j
    BY <1>0, <2>1, <2>2 DEF RowsBehind
  <2>4. row'[i] = row[i]
    BY <1>0, <2>1, <2>3 DEF TypeOK
  <2>5. QED
    BY <2>2, <2>4 DEF CountsAgree
<1>5. ASSUME NEW p \in Desks, SetStatus(p) \/ RollUp(p) PROVE Agrees
  <2>1. req[p].inc \in Incidents /\ Exists(req[p].inc) /\ UNCHANGED <<members, stale, merged>>
    BY <1>0, <1>5, RequestKinds DEF SetStatus, RollUp, Serving, RowsBehind, ghostVars
  <2>2. PICK st \in Open \cup Finished : UpdateStatus(req[p].inc, st)
    BY <1>0, <1>5, RequestKinds DEF SetStatus, RollUp, Serving, Finished
  <2>3. /\ row'[req[p].inc].count = row[req[p].inc].count
        /\ \A j \in Incidents : j # req[p].inc => row'[j] = row[j]
    BY <1>0, <2>1, <2>2, Updated
  <2>4. row'[i].count = row[i].count
    BY <2>3
  <2>5. QED
    BY <2>1, <2>4 DEF CountsAgree
<1>6. ASSUME NEW p \in Desks, NEW t \in Incidents, NEW s \in Incidents, Merge(p, t, s)
      PROVE  Agrees
  <2>1. i # s /\ i \notin merged /\ i \notin stale
    BY <1>6 DEF Merge
  <2>2. CASE i = t
    BY <1>0, <1>6, <2>2, Merged
  <2>3. CASE i # t
    <3>1. row'[i] = row[i] /\ members'[i] = members[i]
      BY <1>0, <1>6, <2>1, <2>3, Merged
    <3>2. QED
      BY <2>1, <3>1 DEF CountsAgree
  <2>4. QED
    BY <2>2, <2>3
<1>7. QED
  BY <1>1, <1>2, <1>3, <1>4, <1>5, <1>6
  DEF Next, WorkerStep, DeskStep, vars, caseVars, ghostVars, Match, Reread,
      FilingFails, AskStatus, AskPropagate, AskReview, Review, Propagate,
      FindIncident, ReadMix

-----------------------------------------------------------------------------
(* Every decision is in one incident.                                      *)

\* FiledInv, of what the steps change of it: who is filing what, and what is in
\* which incident.
Pending(w) == job[w].at \in {"join", "open", "first"}

LEMMA FiledParts ==
  FiledInv <=>
    /\ \A d \in todo : Unfiled(d) /\ \A w \in Filing : job[w].dec # d
    /\ \A v, w \in Filing : job[v].dec = job[w].dec => v = w
    /\ \A w \in Filing : Pending(w) => Unfiled(job[w].dec)
    /\ \A d \in Decisions, i, j \in Incidents :
         d \in members[i] /\ d \in members[j] => i = j
    /\ \A d \in Decisions : d \notin todo /\ d \notin lost =>
         \/ ~Unfiled(d)
         \/ \E w \in Filing : job[w].dec = d /\ Pending(w)
  BY DEF FiledInv, OneFiler, FiledOnce, Pending, Unfiled

\* A worker adds its decision to one incident, which is where it ends.
LEMMA FiledByInsert ==
  ASSUME Base, FiledInv, NEW w \in Filing, Pending(w), job[w].at # "open",
         Insert(job[w].dec, job[w].inc),
         \A v \in Workers : v # w => job'[v] = job[v],
         job'[w] # Nothing => job'[w].dec = job[w].dec /\ job'[w].at = "reread",
         UNCHANGED <<todo, lost>>
  PROVE  FiledInv'
<1> DEFINE d0 == job[w].dec
           i0 == job[w].inc
<1>0. TypeOK /\ RowsBehind /\ OneFiler /\ FiledOnce
  BY DEF Base, FiledInv
<1>1. w \in Workers /\ d0 \in Decisions /\ i0 \in Incidents /\ Exists(i0) /\ Unfiled(d0)
  BY <1>0, JobKinds DEF RowsBehind, Pending, OneFiler
<1>2. \A i \in Incidents : members'[i] = IF i = i0 THEN members[i0] \cup {d0} ELSE members[i]
  BY <1>0, <1>1, Inserted
<1>3. \A d \in Decisions : Unfiled(d)' <=> Unfiled(d) /\ d # d0
  BY <1>1, <1>2 DEF Unfiled
<1>4. /\ \A v \in Filing' : v \in Filing /\ job'[v].dec = job[v].dec
      /\ \A v \in Filing' : Pending(v)' => v # w /\ Pending(v)
      /\ \A v \in Filing : v # w => v \in Filing'
      /\ \A v \in Workers : v # w => (Pending(v)' <=> Pending(v))
  BY DEF Filing, Pending
<1>5. \A d \in todo : Unfiled(d)' /\ \A v \in Filing' : job'[v].dec # d
  BY <1>0, <1>3, <1>4 DEF OneFiler, TypeOK
<1>6. \A u, v \in Filing' : job'[u].dec = job'[v].dec => u = v
  BY <1>0, <1>4 DEF OneFiler
<1>7. ASSUME NEW v \in Filing', Pending(v)'
      PROVE  \A i \in Incidents : job'[v].dec \notin members'[i]
  <2>1. v \in Filing /\ Pending(v) /\ v # w /\ job'[v].dec = job[v].dec
    BY <1>4, <1>7
  <2>2. job[v].dec # d0 /\ Unfiled(job[v].dec) /\ job[v].dec \in Decisions
    BY <1>0, <2>1, JobKinds DEF OneFiler, Pending
  <2>3. QED
    BY <1>1, <1>2, <2>1, <2>2 DEF Unfiled
<1>8. \A d \in Decisions, i, j \in Incidents :
        d \in members'[i] /\ d \in members'[j] => i = j
  BY <1>0, <1>1, <1>2 DEF FiledOnce, Unfiled
<1>9. ASSUME NEW d \in Decisions, d \notin todo, d \notin lost
      PROVE  ~Unfiled(d)' \/ \E v \in Filing' : job'[v].dec = d /\ Pending(v)'
  <2>1. CASE d = d0 \/ ~Unfiled(d)
    BY <1>3, <2>1
  <2>2. CASE d # d0 /\ Unfiled(d)
    <3>1. PICK v \in Filing : job[v].dec = d /\ Pending(v)
      BY <1>9, <2>2, FiledParts
    <3>2. v \in Filing' /\ job'[v].dec = d /\ Pending(v)'
      <4>1. v \in Workers /\ v # w
        BY <2>2, <3>1 DEF Filing
      <4>2. job'[v] = job[v]
        BY <4>1
      <4>3. QED
        BY <3>1, <4>1, <4>2 DEF Filing, Pending
    <3>3. QED
      BY <3>2
  <2>3. QED
    BY <2>1, <2>2
<1>10. QED
  <2>1. OneFiler'
    BY <1>5, <1>6, <1>7 DEF OneFiler, Pending, Unfiled
  <2>2. FiledOnce'
    BY <1>8, <1>9 DEF FiledOnce, Pending, Unfiled
  <2>3. QED
    BY <2>1, <2>2 DEF FiledInv

\* A merge moves decisions from one incident to another.
LEMMA FiledByMerge ==
  ASSUME Base, FiledInv, NEW p \in Desks, NEW t \in Incidents, NEW s \in Incidents,
         Merge(p, t, s)
  PROVE  FiledInv'
<1>0. TypeOK /\ OneFiler /\ FiledOnce
  BY DEF Base, FiledInv
<1>1. /\ t # s /\ members'[t] = members[t] \cup members[s] /\ members'[s] = {}
      /\ \A j \in Incidents : j \notin {t, s} => members'[j] = members[j]
  BY <1>0, Merged
<1>2. UNCHANGED <<todo, job, lost>>
  BY DEF Merge
<1>3. \A d : Unfiled(d)' <=> Unfiled(d)
  BY <1>1 DEF Unfiled
<1>4. \A d \in Decisions, i, j \in Incidents :
        d \in members'[i] /\ d \in members'[j] => i = j
  BY <1>0, <1>1 DEF FiledOnce
<1>5. OneFiler'
  BY <1>0, <1>2, <1>3 DEF OneFiler, Filing
<1>6. ASSUME NEW d \in Decisions, d \notin todo, d \notin lost
      PROVE  ~Unfiled(d)' \/ \E w \in Filing : job[w].dec = d /\ Pending(w)
  BY <1>3, <1>6, FiledParts
<1>7. QED
  BY <1>2, <1>4, <1>5, <1>6 DEF FiledInv, FiledOnce, Filing, Pending, Unfiled

LEMMA FiledStep == Base /\ FiledInv /\ [Next]_vars => FiledInv'
<1> SUFFICES ASSUME Base, FiledInv, [Next]_vars PROVE FiledInv'
  OBVIOUS
<1>0. TypeOK /\ RowsBehind /\ OneFiler /\ FiledOnce
  BY DEF Base, FiledInv
<1>1. CASE UNCHANGED <<todo, job, members, lost>>
  BY <1>1 DEF FiledInv, OneFiler, FiledOnce, Unfiled, Filing
<1>2. ASSUME NEW w \in Workers, NEW d \in Decisions, Match(w, d) PROVE FiledInv'
  <2>1. /\ job[w] = Nothing /\ d \in todo /\ todo' = todo \ {d}
        /\ UNCHANGED <<members, lost>>
    BY <1>2 DEF Match, caseVars, ghostVars
  <2>2. \E i \in Incidents \cup {0}, next \in {"join", "open"} :
          job' = [job EXCEPT ![w] = [dec |-> d, inc |-> i, at |-> next, row |-> Nothing]]
    BY <1>2 DEF Match
  <2>3. PICK i \in Incidents \cup {0}, next \in {"join", "open"} :
          job' = [job EXCEPT ![w] = [dec |-> d, inc |-> i, at |-> next, row |-> Nothing]]
    BY <2>2
  <2>4. [dec |-> d, inc |-> i, at |-> next, row |-> Nothing] # Nothing
    BY NothingAssumption DEF Jobs
  <2>5. /\ job'[w].dec = d /\ job'[w].at = next /\ w \in Filing' /\ w \notin Filing
        /\ \A v \in Workers : v # w => job'[v] = job[v]
    BY <1>0, <2>1, <2>3, <2>4 DEF Filing, TypeOK
  <2>6. /\ Unfiled(d) /\ \A v \in Filing : job[v].dec # d
    BY <1>0, <2>1 DEF OneFiler
  <2>7. /\ \A v \in Filing' : v = w \/ (v \in Filing /\ job'[v] = job[v])
        /\ \A v \in Filing : v \in Filing' /\ job'[v] = job[v]
    BY <2>5 DEF Filing
  <2>8. OneFiler'
    BY <1>0, <2>1, <2>5, <2>6, <2>7 DEF OneFiler, Unfiled
  <2>9. FiledOnce'
    BY <1>0, <2>1, <2>3, <2>5, <2>6, <2>7 DEF FiledOnce
  <2>10. QED
    BY <2>8, <2>9 DEF FiledInv
<1>3. ASSUME NEW w \in Workers, Join(w) PROVE FiledInv'
  <2>1. /\ w \in Filing /\ Pending(w) /\ job[w].at # "open"
        /\ Insert(job[w].dec, job[w].inc)
        /\ UNCHANGED <<todo, lost>>
    BY <1>3 DEF Join, At, Pending, ghostVars
  <2>2. /\ job'[w] = [job[w] EXCEPT !.at = "reread"]
        /\ \A v \in Workers : v # w => job'[v] = job[v]
    BY <1>0, <1>3 DEF Join, Goto, TypeOK
  <2>3. job'[w].dec = job[w].dec /\ job'[w].at = "reread"
    BY <1>0, <2>1, <2>2, JobKinds DEF Jobs
  <2>4. QED
    BY <2>1, <2>2, <2>3, FiledByInsert
<1>4. ASSUME NEW w \in Workers, AddFirst(w) PROVE FiledInv'
  <2>1. /\ w \in Filing /\ Pending(w) /\ job[w].at # "open"
        /\ Insert(job[w].dec, job[w].inc)
        /\ UNCHANGED <<todo, lost>>
    BY <1>4 DEF AddFirst, At, Pending, ghostVars
  <2>2. /\ job'[w] = Nothing
        /\ \A v \in Workers : v # w => job'[v] = job[v]
    BY <1>0, <1>4 DEF AddFirst, Done, TypeOK
  <2>3. QED
    BY <2>1, <2>2, FiledByInsert
<1>5. ASSUME NEW w \in Workers, Reread(w) \/ SaveRow(w) \/ FilingFails(w)
      PROVE  FiledInv'
  <2>1. /\ w \in Filing /\ UNCHANGED <<todo, members>> /\ lost \subseteq lost'
        /\ Pending(w) => job[w].dec \in lost'
    BY <1>5 DEF Reread, SaveRow, FilingFails, At, Pending, caseVars, ghostVars
  <2>2. /\ \/ job'[w] = Nothing
           \/ job'[w] = [job[w] EXCEPT !.at = "save", !.row = row[job[w].inc]]
        /\ \A v \in Workers : v # w => job'[v] = job[v]
    BY <1>0, <1>5 DEF Reread, SaveRow, FilingFails, Done, TypeOK
  <2>3. \/ job'[w] = Nothing
        \/ job'[w].dec = job[w].dec /\ job'[w].at = "save"
    BY <1>0, <2>1, <2>2, JobKinds DEF Jobs
  <2>4. \A v \in Filing : v # w => v \in Filing' /\ job'[v] = job[v]
    BY <2>2 DEF Filing
  <2>5. \A v \in Filing' : v \in Filing /\ job'[v].dec = job[v].dec
    BY <2>1, <2>2, <2>3 DEF Filing
  <2>6. \A v \in Filing' : Pending(v)' => v # w /\ Pending(v)
    <3>1. ASSUME NEW v \in Filing', v # w PROVE job'[v] = job[v]
      BY <2>2, <3>1 DEF Filing
    <3>2. w \in Filing' => job'[w].at = "save"
      BY <2>3 DEF Filing
    <3>3. QED
      BY <3>1, <3>2 DEF Pending
  <2>7. OneFiler'
    BY <1>0, <2>1, <2>5, <2>6 DEF OneFiler, Unfiled, Pending
  <2>8. FiledOnce'
    BY <1>0, <2>1, <2>4 DEF FiledOnce, Pending
  <2>9. QED
    BY <2>7, <2>8 DEF FiledInv
<1>6. ASSUME NEW w \in Workers, OpenIncident(w) PROVE FiledInv'
  <2>1. PICK i \in Incidents : job' = [job EXCEPT ![w].at = "first", ![w].inc = i]
    BY <1>6 DEF OpenIncident
  <2>2. w \in Filing /\ Pending(w) /\ UNCHANGED <<todo, members, lost>>
    BY <1>6 DEF OpenIncident, At, Pending, ghostVars
  <2>3. /\ job'[w] = [job[w] EXCEPT !.at = "first", !.inc = i]
        /\ \A v \in Workers : v # w => job'[v] = job[v]
    BY <1>0, <2>1 DEF TypeOK
  <2>4. job'[w].dec = job[w].dec /\ job'[w].at = "first"
    BY <1>0, <2>2, <2>3, JobKinds DEF Jobs
  <2>5. job'[w] # Nothing
    <3>1. [job[w] EXCEPT !.at = "first", !.inc = i] \in Jobs
      BY <1>0, <2>2, JobKinds DEF Jobs
    <3>2. QED
      BY <2>3, <3>1, NothingAssumption
  <2>6. /\ Filing' = Filing
        /\ \A v \in Filing : job'[v].dec = job[v].dec /\ (Pending(v)' <=> Pending(v))
    BY <2>2, <2>3, <2>4, <2>5 DEF Filing, Pending
  <2>7. OneFiler'
    BY <1>0, <2>2, <2>6 DEF OneFiler, Unfiled, Pending
  <2>8. FiledOnce'
    BY <1>0, <2>2, <2>6 DEF FiledOnce, Pending
  <2>9. QED
    BY <2>7, <2>8 DEF FiledInv
<1>7. ASSUME NEW p \in Desks, NEW t \in Incidents, NEW s \in Incidents, Merge(p, t, s)
      PROVE  FiledInv'
  BY <1>7, FiledByMerge
<1>8. QED
  BY <1>1, <1>2, <1>3, <1>4, <1>5, <1>6, <1>7
  DEF Next, WorkerStep, DeskStep, vars, caseVars, ghostVars, AskStatus, AskPropagate,
      AskReview, SetStatus, Review, Propagate, FindIncident, ReadMix, RollUp

-----------------------------------------------------------------------------
(* The theorems.                                                           *)

LEMMA Inductive == Init => IInv
<1> SUFFICES ASSUME Init PROVE IInv
  OBVIOUS
<1>1. Base
  BY BaseInit
<1>2. NeverSweptUp
  BY DEF Init, NeverSweptUp
<1>3. OneFiler
  BY DEF Init, OneFiler, Unfiled, Filing
<1>4. FiledOnce
  BY DEF Init, FiledOnce
<1>5. CountsAgree
  BY DEF Init, CountsAgree
<1>6. QED
  BY <1>1, <1>2, <1>3, <1>4, <1>5 DEF IInv, FiledInv

LEMMA InvStep == IInv /\ [Next]_vars => IInv'
BY BaseStep, SweptStep, FiledStep, CountStep DEF IInv

LEMMA Invariance == Spec => []IInv
<1>1. Init => IInv
  BY Inductive
<1>2. QED
  BY <1>1, InvStep, PTL DEF Spec

\* The tables hold rows, and every request and every worker names incidents that
\* have one: a row goes by no grouping (engine.py:713) and by no merge (store.py:6035).
THEOREM DeskTypes == Spec => [](TypeOK /\ RowsBehind)
<1>1. IInv => TypeOK /\ RowsBehind
  BY DEF IInv, Base
<1>2. QED
  BY <1>1, Invariance, PTL

\* store.py:5171: an alert held for a human is resolved by nothing but a human's
\* verdict, whichever requests of however many processes are under way.
THEOREM HeldStaysHeld == Spec => []NeverSweptUp
<1>1. IInv => NeverSweptUp
  BY DEF IInv
<1>2. QED
  BY <1>1, Invariance, PTL

\* Every decision given to the engine is in exactly one incident once it is filed,
\* unless its grouping failed half-way (engine.py:392): look-ups that race with
\* closures and merges file none twice and lose none.
THEOREM EachIsFiledOnce == Spec => []FiledOnce
<1>1. IInv => FiledOnce
  BY DEF IInv, FiledInv
<1>2. QED
  BY <1>1, Invariance, PTL

\* store.py:5794: an incident's alert_count is the number of its alerts, but for
\* incidents merged away and those written back from an outdated read.
THEOREM CountsAreTrue == Spec => []CountsAgree
<1>1. IInv => CountsAgree
  BY DEF IInv
<1>2. QED
  BY <1>1, Invariance, PTL

\* store.py:5374: a human verdict changes only by a review of that very decision.
THEOREM HumanVerdictKept == Spec => VerdictKept
<1>1. IInv /\ [Next]_vars =>
        [\A d \in Decisions : human[d] # Nothing /\ human'[d] # human[d] =>
           \E p \in Desks : Serving(p, "review") /\ req[p].dec = d]_vars
  BY OnlyReviewsOverwrite DEF IInv
<1>2. QED
  BY <1>1, Invariance, PTL DEF Spec, VerdictKept

-----------------------------------------------------------------------------
(* The periodic jobs.                                                      *)

JobThread == Periodic!Thread
NamedJobs == Each \cup Whole
Contexts == Tenants \cup {Periodic!NoTenant}
AtWork == [at : {"list", "listing", "each", "whole", "across"}, job : NamedJobs,
           todo : SUBSET Contexts, listed : SUBSET Contexts,
           tried : SUBSET Contexts, read : BOOLEAN]

\* A thread across all tenants remembers the one context it was called with; a
\* round has what it has not tried before it.
ProperContext(th) ==
  /\ ctx[th] = Periodic!AllTenants => work[th].at \in {"listing", "across"}
  /\ work[th].at \in {"listing", "across"} => \E t \in Contexts : work[th].todo = {t}
  /\ work[th].at \in {"list", "listing"} => work[th].tried = {}
  /\ work[th].at = "each" => /\ work[th].todo \subseteq Tenants
                             /\ work[th].todo \cup work[th].tried = work[th].listed
ContextsTrue ==
  /\ work \in [JobThread -> AtWork \cup {Periodic!Away}]
  /\ judged # Periodic!AllTenants
  /\ \A th \in JobThread : ProperContext(th)

\* As long as no session ended under its job, who works has the lock.
LocksTrue ==
  ~lostLock => \A th \in JobThread : work[th].at # "away" => joblock[work[th].job] = th

\* The mode of a replica that heard of the last change is that of the table.
ModesTrue ==
  \A r \in Desks \ misled : mode[r] = (Periodic!Cardinality(serving) > 1)

JobsInv == Periodic!TypeOK /\ ContextsTrue /\ LocksTrue /\ ModesTrue

\* An instance has its own copies of the operators on finite sets.
LEMMA SetsOfJobs ==
  \A S : /\ Periodic!Cardinality(S) = Cardinality(S)
         /\ Periodic!IsFiniteSet(S) = IsFiniteSet(S)
BY Zenon DEF Periodic!Cardinality, Cardinality, Periodic!IsFiniteSet, IsFiniteSet

LEMMA JobNames ==
  /\ Periodic!NoTenant = "none" /\ Periodic!AllTenants = "all"
  /\ "all" \notin Contexts /\ Periodic!Nowhere \notin JobThread /\ Default \in Tenants
  /\ Periodic!Away.at = "away" /\ Periodic!Away \notin AtWork
  /\ \A w \in AtWork : w.at # "away"
  /\ \A w \in AtWork : /\ w.job \in NamedJobs /\ w.todo \subseteq Contexts
                       /\ w.listed \subseteq Contexts /\ w.tried \subseteq Contexts
  /\ \A th \in JobThread : th[1] \in Desks
BY TenantsAssumption
DEF Periodic!JobsAssumption, Periodic!NoTenant, Periodic!AllTenants, Contexts,
    Periodic!Away, AtWork, JobThread, Periodic!Thread

LEMMA JobsInit == Periodic!Init => JobsInv
<1> SUFFICES ASSUME Periodic!Init PROVE JobsInv
  OBVIOUS
<1>1. Periodic!TypeOK
  BY JobNames DEF Periodic!Init, Periodic!TypeOK, Contexts
<1>2. ContextsTrue
  BY JobNames DEF Periodic!Init, ContextsTrue, ProperContext, JobThread
<1>3. LocksTrue /\ ModesTrue
  BY JobNames DEF Periodic!Init, LocksTrue, ModesTrue, JobThread
<1>4. QED
  BY <1>1, <1>2, <1>3 DEF JobsInv

\* What a step of a thread leaves to the other threads, and what it must show of
\* its own.
LEMMA OneThreadMoves ==
  ASSUME JobsInv, NEW th \in JobThread,
         UNCHANGED <<serving, mode, misled>>,
         \E w \in AtWork \cup {Periodic!Away} : work' = [work EXCEPT ![th] = w],
         \E t \in Contexts \cup {Periodic!AllTenants} : ctx' = [ctx EXCEPT ![th] = t],
         ProperContext(th)',
         judged' # Periodic!AllTenants,
         joblock' \in [NamedJobs -> JobThread \cup {Periodic!Nowhere}],
         LocksTrue'
  PROVE  JobsInv'
<1>1. /\ work' \in [JobThread -> AtWork \cup {Periodic!Away}]
      /\ \A o \in JobThread : o # th => work'[o] = work[o] /\ ctx'[o] = ctx[o]
  BY DEF JobsInv, ContextsTrue, Periodic!TypeOK, JobThread
<1>2. ctx' \in [JobThread -> Contexts \cup {Periodic!AllTenants}]
  BY DEF JobsInv, Periodic!TypeOK, JobThread, Contexts
<1>3. Periodic!TypeOK'
  BY <1>2 DEF JobsInv, Periodic!TypeOK, JobThread, Contexts, NamedJobs
<1>4. ContextsTrue'
  <2>1. ASSUME NEW o \in JobThread, o # th PROVE ProperContext(o)'
    BY <1>1, <2>1 DEF JobsInv, ContextsTrue, ProperContext
  <2>2. QED
    BY <1>1, <2>1 DEF ContextsTrue
<1>5. ModesTrue'
  BY DEF JobsInv, ModesTrue
<1>6. QED
  BY <1>3, <1>4, <1>5 DEF JobsInv

\* Whoever starts takes a free lock; nobody else had that job.
LEMMA JobStarts ==
  ASSUME JobsInv, NEW th \in JobThread, NEW j \in NamedJobs, Periodic!Start(th, j)
  PROVE  JobsInv'
<1> DEFINE w == [at |-> IF j \in Each THEN "list" ELSE "whole", job |-> j,
                 todo |-> {}, listed |-> {}, tried |-> {}, read |-> FALSE]
<1>1. w \in AtWork /\ w.at \in {"list", "whole"} /\ w.job = j
  BY DEF AtWork
<1>2. work' = [work EXCEPT ![th] = w] /\ work[th].at = "away"
  BY DEF Periodic!Start, Periodic!Free, Periodic!At
<1> HIDE DEF w
<1>3. work'[th] = w
  BY <1>2 DEF JobsInv, ContextsTrue
<1>4. ctx' = [ctx EXCEPT ![th] = ctx[th]] /\ ctx[th] \in Contexts
  <2>1. ctx \in [JobThread -> Contexts \cup {Periodic!AllTenants}]
    BY DEF JobsInv, Periodic!TypeOK, JobThread, Contexts
  <2>2. ctx[th] # Periodic!AllTenants
    BY <1>2 DEF JobsInv, ContextsTrue, ProperContext
  <2>3. QED
    BY <2>1, <2>2 DEF Periodic!Start
<1>5. /\ joblock[j] = Periodic!Nowhere /\ joblock' = [joblock EXCEPT ![j] = th]
      /\ joblock \in [NamedJobs -> JobThread \cup {Periodic!Nowhere}]
  BY DEF Periodic!Start, Periodic!Granted, JobsInv, Periodic!TypeOK, NamedJobs, JobThread
<1>6. LocksTrue'
  <2> SUFFICES ASSUME ~lostLock', NEW o \in JobThread, work'[o].at # "away"
               PROVE  joblock'[work'[o].job] = o
    BY DEF LocksTrue
  <2>1. ~lostLock
    BY DEF Periodic!Start
  <2>2. CASE o = th
    BY <1>1, <1>3, <1>5, <2>2
  <2>3. CASE o # th
    <3>1. work'[o] = work[o] /\ work[o].at # "away"
      BY <1>2, <2>3 DEF JobsInv, ContextsTrue
    <3>2. joblock[work[o].job] = o
      BY <2>1, <3>1 DEF JobsInv, LocksTrue
    <3>3. work[o] \in AtWork
      BY <3>1, JobNames DEF JobsInv, ContextsTrue
    <3>4. work[o].job # j /\ work[o].job \in NamedJobs
      BY <1>5, <3>2, <3>3, JobNames
    <3>5. QED
      BY <1>5, <3>1, <3>2, <3>4
  <2>4. QED
    BY <2>2, <2>3
<1>7. joblock' \in [NamedJobs -> JobThread \cup {Periodic!Nowhere}]
  BY <1>5
<1>8. UNCHANGED <<serving, mode, misled>> /\ judged' # Periodic!AllTenants
  BY DEF Periodic!Start, JobsInv, ContextsTrue
<1>9. ctx'[th] = ctx[th]
  BY <1>4 DEF JobsInv, Periodic!TypeOK, JobThread
<1>10. QED
  <2>1. ProperContext(th)'
    BY <1>1, <1>3, <1>4, <1>9, JobNames DEF ProperContext, w
  <2>2. QED
    BY <1>1, <1>2, <1>4, <1>6, <1>7, <1>8, <2>1, OneThreadMoves

\* A thread that stays at its job, or goes away with its lock, leaves the others
\* theirs.
LEMMA LocksKept ==
  ASSUME JobsInv, NEW th \in JobThread, NEW w \in AtWork \cup {Periodic!Away},
         work' = [work EXCEPT ![th] = w], UNCHANGED lostLock,
         \/ /\ w.at # "away" /\ work[th].at # "away" /\ w.job = work[th].job
            /\ UNCHANGED joblock
         \/ /\ w.at = "away" /\ work[th].at # "away"
            /\ joblock' = IF joblock[work[th].job] = th
                          THEN [joblock EXCEPT ![work[th].job] = Periodic!Nowhere]
                          ELSE joblock
  PROVE  LocksTrue' /\ joblock' \in [NamedJobs -> JobThread \cup {Periodic!Nowhere}]
<1>1. joblock \in [NamedJobs -> JobThread \cup {Periodic!Nowhere}]
  BY DEF JobsInv, Periodic!TypeOK, NamedJobs, JobThread
<1>2. work[th] \in AtWork /\ work[th].job \in NamedJobs
  BY JobNames DEF JobsInv, ContextsTrue
<1>3. LocksTrue'
  <2> SUFFICES ASSUME ~lostLock', NEW o \in JobThread, work'[o].at # "away"
               PROVE  joblock'[work'[o].job] = o
    BY DEF LocksTrue
  <2>1. CASE o = th
    <3>1. work'[o] = w
      BY <2>1 DEF JobsInv, ContextsTrue
    <3>2. QED
      BY <2>1, <3>1 DEF JobsInv, LocksTrue
  <2>2. CASE o # th
    <3>1. work'[o] = work[o] /\ work[o] \in AtWork
      BY <2>2, JobNames DEF JobsInv, ContextsTrue
    <3>2. joblock[work[o].job] = o /\ work[o].job \in NamedJobs
      BY <3>1, JobNames DEF JobsInv, LocksTrue
    <3>3. joblock[work[th].job] = th => work[o].job # work[th].job
      BY <2>2, <3>2
    <3>4. QED
      BY <1>1, <1>2, <3>1, <3>2, <3>3
  <2>3. QED
    BY <2>1, <2>2
<1>4. QED
  BY <1>1, <1>2, <1>3, JobNames

LEMMA JobEnters ==
  ASSUME JobsInv, NEW th \in JobThread, Periodic!Across(th)
  PROVE  JobsInv'
<1>1. PICK there \in {"listing", "across"} :
        Periodic!Enter(th, there) /\ (there = "listing" => work[th].at = "list")
  BY DEF Periodic!Across, Periodic!At
<1>2. work[th].at \in {"list", "whole"} /\ work[th] \in AtWork /\ ctx[th] \in Contexts
  <2>1. ctx[th] \in Contexts \cup {Periodic!AllTenants}
    BY DEF JobsInv, Periodic!TypeOK, JobThread, Contexts
  <2>2. work[th].at \in {"list", "whole"}
    BY DEF Periodic!Across, Periodic!At
  <2>3. QED
    BY <2>1, <2>2, JobNames DEF JobsInv, ContextsTrue, ProperContext
<1> DEFINE w == [work[th] EXCEPT !.at = there, !.todo = {ctx[th]}]
<1>3. /\ w \in AtWork /\ w.at = there /\ w.todo = {ctx[th]} /\ w.job = work[th].job
      /\ w.tried = work[th].tried
  BY <1>2 DEF AtWork
<1>4. work' = [work EXCEPT ![th] = w]
  BY <1>1 DEF Periodic!Enter, JobsInv, ContextsTrue
<1> HIDE DEF w
<1>5. work'[th] = w
  BY <1>4 DEF JobsInv, ContextsTrue
<1>6. ctx' = [ctx EXCEPT ![th] = Periodic!AllTenants]
  BY <1>1 DEF Periodic!Enter
<1>7. /\ UNCHANGED <<serving, mode, misled, joblock, lostLock>>
      /\ judged' # Periodic!AllTenants
  BY DEF Periodic!Across, JobsInv, ContextsTrue
<1>8. LocksTrue' /\ joblock' \in [NamedJobs -> JobThread \cup {Periodic!Nowhere}]
  BY <1>2, <1>3, <1>4, <1>7, LocksKept
<1>9. there = "listing" => work[th].tried = {}
  <2>1. there = "listing" => work[th].at = "list"
    BY <1>1
  <2>2. QED
    BY <2>1 DEF JobsInv, ContextsTrue, ProperContext
<1>10. ProperContext(th)'
  BY <1>2, <1>3, <1>5, <1>9 DEF ProperContext
<1>11. QED
  BY <1>2, <1>3, <1>4, <1>6, <1>7, <1>8, <1>10, OneThreadMoves

\* What a thread across all tenants came with.
LEMMA CameWith ==
  ASSUME JobsInv, NEW th \in JobThread, work[th].at \in {"listing", "across"}
  PROVE  (CHOOSE t \in work[th].todo : TRUE) \in Contexts
BY DEF JobsInv, ContextsTrue, ProperContext

LEMMA JobLists ==
  ASSUME JobsInv, NEW th \in JobThread, Periodic!Listed(th)
  PROVE  JobsInv'
<1> DEFINE old == CHOOSE t \in work[th].todo : TRUE
<1>1. work[th].at = "listing" /\ work[th] \in AtWork
  BY JobNames DEF Periodic!Listed, Periodic!At, JobsInv, ContextsTrue
<1>2. old \in Contexts
  BY <1>1, CameWith
<1> HIDE DEF old
<1>3. PICK erred \in BOOLEAN :
        /\ ctx' = [ctx EXCEPT ![th] = old]
        /\ work' = [work EXCEPT ![th].at = "each",
                      ![th].todo = IF erred THEN {Default} ELSE serving,
                      ![th].listed = IF erred THEN {Default} ELSE serving,
                      ![th].read = ~erred]
  BY DEF Periodic!Listed, Periodic!Undone, old
<1> DEFINE list == IF erred THEN {Default} ELSE serving
           w == [work[th] EXCEPT !.at = "each", !.todo = list, !.listed = list,
                   !.read = ~erred]
<1>4. list \subseteq Tenants /\ list \subseteq Contexts
  BY JobNames DEF JobsInv, Periodic!TypeOK, Contexts
<1>5. work[th].tried = {}
  BY <1>1 DEF JobsInv, ContextsTrue, ProperContext
<1>6. /\ w \in AtWork /\ w.at = "each" /\ w.todo = list /\ w.listed = list
      /\ w.job = work[th].job /\ w.tried = {}
  BY <1>1, <1>4, <1>5 DEF AtWork
<1>7. work' = [work EXCEPT ![th] = w]
  BY <1>3
<1> HIDE DEF w, list
<1>8. work'[th] = w /\ ctx'[th] = old
  BY <1>3, <1>7 DEF JobsInv, ContextsTrue, Periodic!TypeOK, JobThread
<1>9. UNCHANGED <<serving, mode, misled, joblock, lostLock>> /\ judged' # Periodic!AllTenants
  BY DEF Periodic!Listed, JobsInv, ContextsTrue
<1>10. LocksTrue' /\ joblock' \in [NamedJobs -> JobThread \cup {Periodic!Nowhere}]
  BY <1>1, <1>6, <1>7, <1>9, JobNames, LocksKept
<1>11. ProperContext(th)'
  BY <1>2, <1>4, <1>6, <1>8, JobNames DEF ProperContext
<1>12. QED
  BY <1>2, <1>3, <1>6, <1>7, <1>9, <1>10, <1>11, OneThreadMoves

LEMMA JobWholeEnds ==
  ASSUME JobsInv, NEW th \in JobThread, Periodic!WholeEnds(th)
  PROVE  JobsInv'
<1> DEFINE old == CHOOSE t \in work[th].todo : TRUE
<1>1. work[th].at = "across"
  BY DEF Periodic!WholeEnds, Periodic!At
<1>2. old \in Contexts
  BY <1>1, CameWith
<1>3. ctx' = [ctx EXCEPT ![th] = old] /\ Periodic!Release(th)
  BY DEF Periodic!WholeEnds, Periodic!Undone
<1> HIDE DEF old
<1>4. work' = [work EXCEPT ![th] = Periodic!Away]
  BY <1>3 DEF Periodic!Release
<1>5. work'[th] = Periodic!Away /\ ctx'[th] = old
  BY <1>3, <1>4 DEF JobsInv, ContextsTrue, Periodic!TypeOK, JobThread
<1>6. UNCHANGED <<serving, mode, misled, lostLock>> /\ judged' # Periodic!AllTenants
  BY DEF Periodic!WholeEnds, JobsInv, ContextsTrue
<1>7. LocksTrue' /\ joblock' \in [NamedJobs -> JobThread \cup {Periodic!Nowhere}]
  BY <1>1, <1>3, <1>4, <1>6, JobNames, LocksKept DEF Periodic!Release
<1>8. ProperContext(th)'
  BY <1>2, <1>5, JobNames DEF ProperContext
<1>9. QED
  BY <1>2, <1>3, <1>4, <1>6, <1>7, <1>8, OneThreadMoves

LEMMA JobTurns ==
  ASSUME JobsInv, NEW th \in JobThread, Periodic!Turn(th)
  PROVE  JobsInv'
<1>1. work[th].at = "each" /\ work[th] \in AtWork
  BY JobNames DEF Periodic!Turn, Periodic!At, JobsInv, ContextsTrue
<1>2. PICK t \in work[th].todo :
        /\ ctx' = [ctx EXCEPT ![th] = t]
        /\ work' = [work EXCEPT ![th].tried = @ \cup {t}, ![th].todo = @ \ {t}]
  BY DEF Periodic!Turn, Periodic!AfterError
<1>3. /\ work[th].todo \subseteq Tenants /\ t \in Tenants
      /\ work[th].todo \cup work[th].tried = work[th].listed
  BY <1>1 DEF JobsInv, ContextsTrue, ProperContext
<1> DEFINE w == [work[th] EXCEPT !.tried = @ \cup {t}, !.todo = @ \ {t}]
<1>4. /\ w \in AtWork /\ w.at = "each" /\ w.todo = work[th].todo \ {t}
      /\ w.tried = work[th].tried \cup {t} /\ w.listed = work[th].listed
      /\ w.job = work[th].job
  BY <1>1, <1>3 DEF AtWork, Contexts
<1>5. work' = [work EXCEPT ![th] = w]
  BY <1>2
<1> HIDE DEF w
<1>6. work'[th] = w /\ ctx'[th] = t
  BY <1>2, <1>5 DEF JobsInv, ContextsTrue, Periodic!TypeOK, JobThread
<1>7. UNCHANGED <<serving, mode, misled, joblock, lostLock>> /\ judged' # Periodic!AllTenants
  BY DEF Periodic!Turn, JobsInv, ContextsTrue
<1>8. LocksTrue' /\ joblock' \in [NamedJobs -> JobThread \cup {Periodic!Nowhere}]
  BY <1>1, <1>4, <1>5, <1>7, JobNames, LocksKept
<1>9. ProperContext(th)'
  BY <1>3, <1>4, <1>6, JobNames DEF ProperContext, Contexts
<1>10. t \in Contexts
  BY <1>3 DEF Contexts
<1>11. QED
  BY <1>2, <1>4, <1>5, <1>7, <1>8, <1>9, <1>10, OneThreadMoves

LEMMA JobRoundEnds ==
  ASSUME JobsInv, NEW th \in JobThread, Periodic!RoundEnds(th)
  PROVE  JobsInv'
<1>1. work[th].at = "each" /\ ctx' = ctx /\ Periodic!Release(th)
  BY DEF Periodic!RoundEnds, Periodic!At
<1>2. ctx[th] \in Contexts
  <2>1. ctx[th] \in Contexts \cup {Periodic!AllTenants}
    BY DEF JobsInv, Periodic!TypeOK, JobThread, Contexts
  <2>2. QED
    BY <1>1, <2>1 DEF JobsInv, ContextsTrue, ProperContext
<1>3. ctx' = [ctx EXCEPT ![th] = ctx[th]] /\ ctx'[th] = ctx[th]
  BY <1>1 DEF JobsInv, Periodic!TypeOK, JobThread
<1>4. work' = [work EXCEPT ![th] = Periodic!Away]
  BY <1>1 DEF Periodic!Release
<1>5. work'[th] = Periodic!Away
  BY <1>4 DEF JobsInv, ContextsTrue
<1>6. UNCHANGED <<serving, mode, misled, lostLock>> /\ judged' # Periodic!AllTenants
  BY DEF Periodic!RoundEnds, JobsInv, ContextsTrue
<1>7. LocksTrue' /\ joblock' \in [NamedJobs -> JobThread \cup {Periodic!Nowhere}]
  BY <1>1, <1>4, <1>6, JobNames, LocksKept DEF Periodic!Release
<1>8. ProperContext(th)'
  BY <1>2, <1>3, <1>5, JobNames DEF ProperContext
<1>9. QED
  BY <1>2, <1>3, <1>4, <1>6, <1>7, <1>8, OneThreadMoves

\* A session that ends is remembered; the model is judged for one tenant or none.
LEMMA JobOthers ==
  ASSUME JobsInv, NEW th \in JobThread, Periodic!SessionDies(th) \/ Periodic!Judge(th)
  PROVE  JobsInv'
<1>1. CASE Periodic!SessionDies(th)
  <2>1. joblock' \in [NamedJobs -> JobThread \cup {Periodic!Nowhere}]
    BY <1>1 DEF Periodic!SessionDies, JobsInv, Periodic!TypeOK, NamedJobs, JobThread
  <2>2. Periodic!TypeOK'
    BY <1>1, <2>1 DEF Periodic!SessionDies, JobsInv, Periodic!TypeOK, NamedJobs, JobThread
  <2>3. QED
    BY <1>1, <2>2 DEF Periodic!SessionDies, JobsInv, ContextsTrue, ProperContext,
                      LocksTrue, ModesTrue
<1>2. CASE Periodic!Judge(th)
  <2>1. judged' # Periodic!AllTenants
    <3>1. ctx[th] # Periodic!AllTenants
      BY <1>2 DEF Periodic!Judge, Periodic!At, JobsInv, ContextsTrue, ProperContext
    <3>2. QED
      BY <1>2, <3>1, JobNames DEF Periodic!Judge
  <2>2. QED
    BY <1>2, <2>1 DEF Periodic!Judge, JobsInv, Periodic!TypeOK, ContextsTrue,
                      ProperContext, LocksTrue, ModesTrue
<1>3. QED
  BY <1>1, <1>2

\* Whoever served the change knows the mode; a start takes it from the table or
\* is misled, and its threads start anew, without locks.
LEMMA JobTenants ==
  ASSUME JobsInv, NEW r \in Desks, Periodic!ChangeTenants(r)
  PROVE  JobsInv'
<1>1. serving' \subseteq Tenants
  BY DEF Periodic!ChangeTenants, JobsInv, Periodic!TypeOK
<1>2. mode' = [mode EXCEPT ![r] = Periodic!Cardinality(serving') > 1]
  BY DEF Periodic!ChangeTenants, Periodic!Recomputed
<1>3. (Periodic!Cardinality(serving') > 1) \in BOOLEAN
  OBVIOUS
<1>4. mode' \in [Desks -> BOOLEAN] /\ mode'[r] = (Periodic!Cardinality(serving') > 1)
  BY <1>2, <1>3 DEF JobsInv, Periodic!TypeOK
<1>5. Periodic!TypeOK'
  BY <1>1, <1>4 DEF Periodic!ChangeTenants, JobsInv, Periodic!TypeOK
<1>6. ModesTrue'
  BY <1>4 DEF Periodic!ChangeTenants, ModesTrue
<1>7. QED
  BY <1>5, <1>6 DEF Periodic!ChangeTenants, JobsInv, ContextsTrue, ProperContext, LocksTrue

LEMMA JobRestarts ==
  ASSUME JobsInv, NEW r \in Desks, Periodic!Restart(r)
  PROVE  JobsInv'
<1>1. /\ ctx' = [th \in JobThread |-> IF th[1] = r THEN Periodic!NoTenant ELSE ctx[th]]
      /\ work' = [th \in JobThread |-> IF th[1] = r THEN Periodic!Away ELSE work[th]]
      /\ joblock' = [j \in NamedJobs |-> IF joblock[j][1] = r THEN Periodic!Nowhere
                                     ELSE joblock[j]]
      /\ UNCHANGED <<serving, lostLock, judged>>
  BY DEF Periodic!Restart, JobThread, NamedJobs
<1>2. \E b \in BOOLEAN : mode' = [mode EXCEPT ![r] = b]
  <2>1. (Periodic!Cardinality(serving) > 1) \in BOOLEAN
    OBVIOUS
  <2>2. QED
    BY <2>1, Zenon DEF Periodic!Restart
<1>3. \/ mode'[r] = (Periodic!Cardinality(serving) > 1) /\ misled' = misled \ {r}
      \/ misled' = misled \cup {r}
  BY DEF Periodic!Restart, JobsInv, Periodic!TypeOK
<1>4. Periodic!TypeOK'
  <2>1. mode' \in [Desks -> BOOLEAN]
    BY <1>2 DEF JobsInv, Periodic!TypeOK
  <2>2. ctx' \in [JobThread -> Contexts \cup {Periodic!AllTenants}]
    BY <1>1 DEF JobsInv, Periodic!TypeOK, JobThread, Contexts
  <2>3. joblock' \in [NamedJobs -> JobThread \cup {Periodic!Nowhere}]
    BY <1>1 DEF JobsInv, Periodic!TypeOK, JobThread, NamedJobs
  <2>4. QED
    BY <1>1, <2>1, <2>2, <2>3 DEF JobsInv, Periodic!TypeOK, JobThread, NamedJobs, Contexts
<1>5. ContextsTrue'
  <2>1. work' \in [JobThread -> AtWork \cup {Periodic!Away}]
    BY <1>1 DEF JobsInv, ContextsTrue
  <2>2. ASSUME NEW th \in JobThread PROVE ProperContext(th)'
    BY <1>1, JobNames DEF JobsInv, ContextsTrue, ProperContext
  <2>3. QED
    BY <1>1, <2>1, <2>2 DEF JobsInv, ContextsTrue
<1>6. LocksTrue'
  <2> SUFFICES ASSUME ~lostLock', NEW o \in JobThread, work'[o].at # "away"
               PROVE  joblock'[work'[o].job] = o
    BY DEF LocksTrue
  <2>1. o[1] # r /\ work'[o] = work[o] /\ work[o] \in AtWork
    BY <1>1, JobNames DEF JobsInv, ContextsTrue
  <2>2. joblock[work[o].job] = o /\ work[o].job \in NamedJobs
    BY <1>1, <2>1, JobNames DEF JobsInv, LocksTrue
  <2>3. QED
    BY <1>1, <2>1, <2>2
<1>7. ModesTrue'
  BY <1>1, <1>2, <1>3 DEF JobsInv, ModesTrue, Periodic!TypeOK
<1>8. QED
  BY <1>4, <1>5, <1>6, <1>7 DEF JobsInv

LEMMA JobsStep == JobsInv /\ [Periodic!Next]_jobVars => JobsInv'
<1> SUFFICES ASSUME JobsInv, [Periodic!Next]_jobVars PROVE JobsInv'
  OBVIOUS
<1>1. CASE UNCHANGED jobVars
  BY <1>1 DEF jobVars, JobsInv, Periodic!TypeOK, ContextsTrue, ProperContext, LocksTrue,
              ModesTrue
<1>2. ASSUME NEW th \in JobThread, Periodic!JobStep(th) PROVE JobsInv'
  BY <1>2, JobStarts, JobEnters, JobLists, JobWholeEnds, JobTurns, JobRoundEnds, JobOthers
  DEF Periodic!JobStep, NamedJobs
<1>3. QED
  BY <1>1, <1>2, JobTenants, JobRestarts DEF Periodic!Next, JobThread

\* What the run checks follows: a table of one row that has the default tenant has
\* no other.
LEMMA JobsEnough ==
  JobsInv => /\ Periodic!TypeOK /\ Periodic!NeverLeftAcross /\ Periodic!OneRunner
             /\ Periodic!EveryTenantHasItsTurn /\ Periodic!PollsAll
<1> SUFFICES ASSUME JobsInv
             PROVE  /\ Periodic!TypeOK /\ Periodic!NeverLeftAcross /\ Periodic!OneRunner
                    /\ Periodic!EveryTenantHasItsTurn /\ Periodic!PollsAll
  OBVIOUS
<1>1. Periodic!NeverLeftAcross
  BY DEF JobsInv, ContextsTrue, ProperContext, Periodic!NeverLeftAcross, Periodic!At,
         JobThread
<1>2. Periodic!EveryTenantHasItsTurn
  BY DEF JobsInv, ContextsTrue, ProperContext, Periodic!EveryTenantHasItsTurn,
         Periodic!At, JobThread
<1>3. Periodic!OneRunner
  BY DEF JobsInv, LocksTrue, Periodic!OneRunner, Periodic!At, JobThread
<1>4. Periodic!PollsAll
  <2> SUFFICES ASSUME NEW r \in Desks \ misled, ~mode[r],
                      ~(Default \notin serving /\ Periodic!Cardinality(serving) = 1)
               PROVE  serving \subseteq {Default}
    BY DEF Periodic!PollsAll, Periodic!Polled
  <2>1. IsFiniteSet(serving) /\ Cardinality(serving) \in Nat
    BY TenantsAssumption, SetsOfJobs, FS_Subset, FS_CardinalityType
    DEF JobsInv, Periodic!TypeOK, Periodic!JobsAssumption
  <2>2. Cardinality(serving) <= 1
    <3>1. ~(Cardinality(serving) > 1)
      BY SetsOfJobs, Zenon DEF JobsInv, ModesTrue
    <3>2. QED
      BY <2>1, <3>1
  <2>3. CASE Cardinality(serving) = 0
    BY <2>1, <2>3, FS_EmptySet
  <2>4. CASE Cardinality(serving) = 1
    <3>1. Default \in serving
      BY <2>4, SetsOfJobs
    <3>2. \E x : serving = {x}
      BY <2>1, <2>4, FS_Singleton
    <3>3. QED
      BY <3>1, <3>2
  <2>5. QED
    BY <2>1, <2>2, <2>3, <2>4
<1>5. QED
  BY <1>1, <1>2, <1>3, <1>4 DEF JobsInv

-----------------------------------------------------------------------------
(* The nightly deletion.                                                   *)

ReviewRows == "decision_reviews"
DecisionRows == "agent_decisions"

\* A row is dealt with: gone, kept by its table's setting or an error, still
\* needed, or new since.
Settled(c) ==
  \/ rows[c] # "old" \/ Configured[c[1]] = "zero" \/ c[1] \in failed
  \/ c[1] = DecisionRows /\ Nights!Named(c[2])
  \/ c[2] \in spoilt

\* Which tables have had their turn, and that what was old and is young was added.
SettledTrue ==
  /\ before \subseteq Nights!Cells
  /\ \A c \in before : c[1] \in {ReviewRows, DecisionRows} /\ (rows[c] = "new" => c[2] \in spoilt)
  /\ turn \in {0, 2} => \A c \in before : c[1] = ReviewRows => Settled(c)
  /\ turn = 0 => \A c \in before : c[1] = DecisionRows => Settled(c)

NightsInv ==
  /\ Nights!TypeOK /\ Nights!NothingDangles /\ SettledTrue
  /\ \A c \in Nights!Cells : rows[c] = "old" => c[1] \in {ReviewRows, DecisionRows}
  /\ \A t \in gone : Configured[t] # "zero"

LEMMA SetsOfNights ==
  \A S : /\ Nights!Cardinality(S) = Cardinality(S)
         /\ Nights!IsFiniteSet(S) = IsFiniteSet(S)
BY Zenon DEF Nights!Cardinality, Cardinality, Nights!IsFiniteSet, IsFiniteSet

LEMMA NightNames ==
  /\ Nights!Len(Nights!Order) = 2 /\ Nights!Order[1] = ReviewRows /\ Nights!Order[2] = DecisionRows
  /\ ReviewRows # DecisionRows
  /\ Nights!Prunable = {ReviewRows, DecisionRows} /\ Nights!Naming = {ReviewRows, "incident_alerts"}
  /\ \A c \in Nights!Cells :
       /\ c[1] \in {ReviewRows, DecisionRows, "incident_alerts"} /\ c[2] \in Ids /\ c = <<c[1], c[2]>>
  /\ \A t \in {ReviewRows, DecisionRows, "incident_alerts"}, i \in Ids :
       /\ <<t, i>> \in Nights!Cells /\ <<t, i>>[1] = t /\ <<t, i>>[2] = i
BY DEF Nights!Order, ReviewRows, DecisionRows, Nights!Prunable, Nights!Naming, Nights!Cells

LEMMA NightsInit == Nights!Init => NightsInv
<1> SUFFICES ASSUME Nights!Init PROVE NightsInv
  OBVIOUS
<1>1. Nights!TypeOK /\ Nights!NothingDangles
  BY NightNames DEF Nights!Init, Nights!TypeOK, Nights!NothingDangles
<1>2. QED
  BY <1>1, NightNames DEF Nights!Init, NightsInv, SettledTrue

\* A batch that is not full was all there was.
LEMMA WholeBatch ==
  ASSUME NEW t, NEW taken \in SUBSET Nights!Due(t), Nights!Last(taken),
         Nights!Cardinality(taken) = IF Nights!Cardinality(Nights!Due(t)) < Batch
                              THEN Nights!Cardinality(Nights!Due(t)) ELSE Batch
  PROVE  taken = Nights!Due(t)
<1>1. IsFiniteSet(Nights!Cells)
  <2>1. IsFiniteSet(Nights!Naming \cup Nights!Prunable)
    <3>1. \A x : IsFiniteSet({x})
      BY FS_Singleton
    <3>2. IsFiniteSet(({ReviewRows} \cup {DecisionRows}) \cup {"incident_alerts"})
      BY <3>1, FS_Union
    <3>3. Nights!Naming \cup Nights!Prunable = ({ReviewRows} \cup {DecisionRows}) \cup {"incident_alerts"}
      BY NightNames
    <3>4. QED
      BY <3>2, <3>3
  <2>2. IsFiniteSet(Ids)
    BY TenantsAssumption, SetsOfNights DEF Nights!NightsAssumption
  <2>3. QED
    BY <2>1, <2>2, FS_Product DEF Nights!Cells
<1>2. IsFiniteSet(Nights!Due(t))
  BY <1>1, FS_Subset DEF Nights!Due
<1>3. IsFiniteSet(taken) /\ Cardinality(taken) \in Nat /\ Cardinality(Nights!Due(t)) \in Nat
  BY <1>2, FS_Subset, FS_CardinalityType
<1>4. Batch \in Nat
  BY TenantsAssumption DEF Nights!NightsAssumption
<1>5. Cardinality(taken) = Cardinality(Nights!Due(t))
  BY <1>3, <1>4, SetsOfNights DEF Nights!Last
<1>6. QED
  BY <1>2, <1>5, FS_Subset

LEMMA NightDeletes == NightsInv /\ Nights!DeleteBatch => NightsInv'
<1> SUFFICES ASSUME NightsInv, Nights!DeleteBatch PROVE NightsInv'
  OBVIOUS
<1> DEFINE t == Nights!Order[turn]
<1>1. turn \in {1, 2} /\ t \in {ReviewRows, DecisionRows} /\ (turn = 1 <=> t = ReviewRows)
  BY NightNames DEF Nights!DeleteBatch, NightsInv, Nights!TypeOK
<1>2. Configured[t] # "zero"
  BY DEF Nights!DeleteBatch, Nights!Days
<1>3. PICK taken \in SUBSET Nights!Due(t) :
        /\ Nights!Cardinality(taken) = IF Nights!Cardinality(Nights!Due(t)) < Batch
                              THEN Nights!Cardinality(Nights!Due(t)) ELSE Batch
        /\ rows' = [c \in Nights!Cells |-> IF c \in taken THEN "none" ELSE rows[c]]
        /\ gone' = IF taken = {} THEN gone ELSE gone \cup {t}
        /\ turn' = IF Nights!Last(taken) THEN Nights!After(turn) ELSE turn
        /\ UNCHANGED <<before, failed, spoilt>>
  BY DEF Nights!DeleteBatch
<1>4. Nights!Last(taken) => taken = Nights!Due(t)
  BY <1>3, WholeBatch
<1>5. turn' \in {0, 1, 2} /\ (turn' = turn \/ (turn = 1 /\ turn' = 2) \/ (turn = 2 /\ turn' = 0))
  BY <1>1, <1>3, NightNames DEF Nights!After
<1>6. turn' # turn => taken = Nights!Due(t)
  BY <1>3, <1>4
<1> HIDE DEF t
<1>7. /\ \A c \in taken : c \in Nights!Cells /\ c[1] = t /\ rows[c] = "old"
      /\ \A c \in taken : t = DecisionRows => ~Nights!Named(c[2])
  BY DEF Nights!Due, DecisionRows
<1>8. Nights!TypeOK'
  BY <1>3, <1>5, NightNames DEF NightsInv, Nights!TypeOK
<1>9. Nights!NothingDangles'
  <2> SUFFICES ASSUME NEW c \in Nights!Cells, c[1] \in Nights!Naming, rows'[c] # "none"
               PROVE  rows'[<<"agent_decisions", c[2]>>] # "none"
    BY DEF Nights!NothingDangles
  <2>1. rows[c] # "none"
    BY <1>3
  <2>2. rows[<<"agent_decisions", c[2]>>] # "none" /\ Nights!Named(c[2])
    BY <2>1, NightNames DEF NightsInv, Nights!NothingDangles, Nights!Named
  <2>3. <<"agent_decisions", c[2]>> \in Nights!Cells \ taken
    BY <1>1, <1>7, <2>2, NightNames DEF DecisionRows
  <2>4. QED
    BY <1>3, <2>2, <2>3
<1>10. ASSUME NEW c \in Nights!Cells, t = DecisionRows, Nights!Named(c[2])
       PROVE  Nights!Named(c[2])'
  <2>1. PICK n \in Nights!Naming : rows[<<n, c[2]>>] # "none"
    BY <1>10 DEF Nights!Named
  <2>2. <<n, c[2]>> \in Nights!Cells \ taken
    BY <1>7, <1>10, <2>1, NightNames DEF DecisionRows, ReviewRows
  <2>3. QED
    BY <1>3, <2>1, <2>2 DEF Nights!Named
<1>11. ASSUME NEW c \in before, Settled(c), c[1] # DecisionRows \/ t = DecisionRows
       PROVE  Settled(c)'
  BY <1>3, <1>10, <1>11 DEF Settled, NightsInv, SettledTrue
<1>12. ASSUME NEW c \in before, c[1] = t, turn' # turn
       PROVE  Settled(c)'
  <2> SUFFICES ASSUME rows'[c] = "old" PROVE c[1] = DecisionRows /\ Nights!Named(c[2])'
    BY DEF Settled
  <2>1. c \in Nights!Cells \ taken /\ rows[c] = "old"
    BY <1>3 DEF NightsInv, SettledTrue
  <2>2. c[1] = DecisionRows /\ Nights!Named(c[2])
    BY <1>6, <1>12, <2>1 DEF Nights!Due, DecisionRows
  <2>3. QED
    BY <1>10, <1>12, <2>1, <2>2
<1>13. SettledTrue'
  <2>1. before' = before /\ spoilt' = spoilt
    BY <1>3
  <2>2. \A c \in before : c[1] \in {ReviewRows, DecisionRows} /\ (rows'[c] = "new" => c[2] \in spoilt)
    BY <1>3 DEF NightsInv, SettledTrue
  <2>3. ASSUME turn' \in {0, 2}, NEW c \in before, c[1] = ReviewRows PROVE Settled(c)'
    <3>1. CASE turn = 1
      BY <1>1, <1>5, <1>12, <2>3, <3>1
    <3>2. CASE turn = 2
      BY <1>11, <2>3, <3>2, NightNames DEF NightsInv, SettledTrue
    <3>3. QED
      BY <1>1, <3>1, <3>2
  <2>4. ASSUME turn' = 0, NEW c \in before, c[1] = DecisionRows PROVE Settled(c)'
    BY <1>1, <1>5, <1>12, <2>4
  <2>5. before \subseteq Nights!Cells
    BY DEF NightsInv, SettledTrue
  <2>6. QED
    BY <2>1, <2>2, <2>3, <2>4, <2>5 DEF SettledTrue
<1>14. \A c \in Nights!Cells : rows'[c] = "old" => c[1] \in {ReviewRows, DecisionRows}
  BY <1>3 DEF NightsInv
<1>15. \A other \in gone' : Configured[other] # "zero"
  BY <1>2, <1>3 DEF NightsInv
<1>16. QED
  BY <1>8, <1>9, <1>13, <1>14, <1>15 DEF NightsInv

LEMMA NightBegins == NightsInv /\ Nights!Begin => NightsInv'
<1> SUFFICES ASSUME NightsInv, Nights!Begin PROVE NightsInv'
  OBVIOUS
<1>1. turn' = 1 /\ rows' = rows /\ gone' = gone
      /\ before' = {c \in Nights!Cells : rows[c] = "old"}
  BY DEF Nights!Begin
<1>2. Nights!TypeOK' /\ Nights!NothingDangles'
  BY <1>1, NightNames DEF NightsInv, Nights!TypeOK, Nights!NothingDangles
<1>3. SettledTrue'
  BY <1>1 DEF NightsInv, SettledTrue
<1>4. QED
  BY <1>1, <1>2, <1>3 DEF NightsInv

\* A table is passed over because it is kept for ever, or failed.
LEMMA NightPasses == NightsInv /\ (Nights!Skip \/ Nights!TableFails) => NightsInv'
<1> SUFFICES ASSUME NightsInv, Nights!Skip \/ Nights!TableFails PROVE NightsInv'
  OBVIOUS
<1> DEFINE t == Nights!Order[turn]
<1>1. /\ turn \in {1, 2} /\ t \in {ReviewRows, DecisionRows} /\ (turn = 1 <=> t = ReviewRows)
      /\ turn' = IF turn = 2 THEN 0 ELSE 2
  BY NightNames DEF Nights!Skip, Nights!TableFails, NightsInv, Nights!TypeOK, Nights!After
<1>2. Configured[t] = "zero" \/ t \in failed'
  BY DEF Nights!Skip, Nights!TableFails, Nights!Days
<1>3. UNCHANGED <<rows, before, gone, spoilt>> /\ failed \subseteq failed'
  BY DEF Nights!Skip, Nights!TableFails
<1> HIDE DEF t
<1>4. \A c \in before : Settled(c) \/ c[1] = t => Settled(c)'
  BY <1>2, <1>3 DEF Settled, Nights!Named
<1>5. SettledTrue'
  BY <1>1, <1>3, <1>4 DEF NightsInv, SettledTrue
<1>6. Nights!TypeOK' /\ Nights!NothingDangles'
  BY <1>1, <1>3, NightNames DEF NightsInv, Nights!TypeOK, Nights!NothingDangles
<1>7. QED
  BY <1>3, <1>5, <1>6 DEF NightsInv

LEMMA NightAges == NightsInv /\ Nights!GrowOld => NightsInv'
<1> SUFFICES ASSUME NightsInv, Nights!GrowOld PROVE NightsInv'
  OBVIOUS
<1>1. PICK c \in Nights!Cells : /\ c[1] \in {ReviewRows, DecisionRows} /\ rows[c] = "new"
                                /\ rows' = [rows EXCEPT ![c] = "old"]
  BY NightNames DEF Nights!GrowOld
<1>2. UNCHANGED <<turn, before, failed, gone, spoilt>>
  BY DEF Nights!GrowOld
<1>3. rows \in [Nights!Cells -> {"none", "new", "old"}]
  BY DEF NightsInv, Nights!TypeOK
<1>4. /\ \A d \in Nights!Cells : d # c => rows'[d] = rows[d]
      /\ rows'[c] = "old" /\ rows' \in [Nights!Cells -> {"none", "new", "old"}]
      /\ \A d \in Nights!Cells : rows'[d] = "none" <=> rows[d] = "none"
  BY <1>1, <1>3
<1>5. Nights!TypeOK'
  BY <1>2, <1>4 DEF NightsInv, Nights!TypeOK
<1>6. Nights!NothingDangles'
  BY <1>4, NightNames DEF NightsInv, Nights!NothingDangles, DecisionRows
<1>7. \A d \in Nights!Cells : Nights!Named(d[2])' <=> Nights!Named(d[2])
  BY <1>4, NightNames DEF Nights!Named
<1>8. \A d \in before : d \in Nights!Cells /\ (d = c => d[2] \in spoilt)
  BY <1>1 DEF NightsInv, SettledTrue
<1>9. \A d \in before : Settled(d) => Settled(d)'
  BY <1>2, <1>4, <1>7, <1>8 DEF Settled
<1>10. \A d \in before : rows'[d] = "new" => rows[d] = "new"
  BY <1>4, <1>8
<1>11. SettledTrue'
  BY <1>2, <1>9, <1>10 DEF NightsInv, SettledTrue
<1>12. QED
  BY <1>1, <1>2, <1>4, <1>5, <1>6, <1>11 DEF NightsInv

LEMMA NightAdds == NightsInv /\ Nights!Add => NightsInv'
<1> SUFFICES ASSUME NightsInv, Nights!Add PROVE NightsInv'
  OBVIOUS
<1>1. PICK c \in Nights!Cells :
        /\ c[1] \in Nights!Naming /\ rows[c] = "none"
        /\ rows[<<"agent_decisions", c[2]>>] # "none"
        /\ rows' = [rows EXCEPT ![c] = "new"] /\ spoilt' = spoilt \cup {c[2]}
  BY DEF Nights!Add
<1>2. UNCHANGED <<turn, before, failed, gone>>
  BY DEF Nights!Add
<1>3. rows \in [Nights!Cells -> {"none", "new", "old"}]
  BY DEF NightsInv, Nights!TypeOK
<1>4. /\ \A d \in Nights!Cells : d # c => rows'[d] = rows[d]
      /\ rows'[c] = "new" /\ rows' \in [Nights!Cells -> {"none", "new", "old"}]
  BY <1>1, <1>3
<1>5. Nights!TypeOK'
  BY <1>2, <1>4 DEF NightsInv, Nights!TypeOK
<1>6. Nights!NothingDangles'
  <2> SUFFICES ASSUME NEW d \in Nights!Cells, d[1] \in Nights!Naming, rows'[d] # "none"
               PROVE  rows'[<<"agent_decisions", d[2]>>] # "none"
    BY DEF Nights!NothingDangles
  <2>1. rows[<<"agent_decisions", d[2]>>] # "none"
    BY <1>1, <1>4 DEF NightsInv, Nights!NothingDangles
  <2>2. <<"agent_decisions", d[2]>> \in Nights!Cells
    BY NightNames DEF DecisionRows
  <2>3. QED
    BY <1>4, <2>1, <2>2
<1>7. \A d \in Nights!Cells : Nights!Named(d[2]) => Nights!Named(d[2])'
  <2> SUFFICES ASSUME NEW d \in Nights!Cells, NEW n \in Nights!Naming,
                      rows[<<n, d[2]>>] # "none"
               PROVE  rows'[<<n, d[2]>>] # "none"
    BY DEF Nights!Named
  <2>1. <<n, d[2]>> \in Nights!Cells
    BY NightNames
  <2>2. QED
    BY <1>4, <2>1
<1>8. before \subseteq Nights!Cells
  BY DEF NightsInv, SettledTrue
<1>9. \A d \in before : Settled(d) => Settled(d)'
  BY <1>1, <1>2, <1>4, <1>7, <1>8 DEF Settled
<1>10. \A d \in before : rows'[d] = "new" => rows[d] = "new" \/ d[2] \in spoilt'
  BY <1>1, <1>4, <1>8
<1>11. SettledTrue'
  BY <1>1, <1>2, <1>8, <1>9, <1>10 DEF NightsInv, SettledTrue
<1>12. QED
  BY <1>2, <1>4, <1>5, <1>6, <1>11 DEF NightsInv

LEMMA NightsStep == NightsInv /\ [Nights!Next]_nightVars => NightsInv'
<1>1. NightsInv /\ UNCHANGED nightVars => NightsInv'
  BY DEF nightVars, NightsInv, Nights!TypeOK, Nights!NothingDangles, SettledTrue, Settled,
         Nights!Named
<1>2. QED
  BY <1>1, NightBegins, NightDeletes, NightPasses, NightAges, NightAdds DEF Nights!Next

LEMMA NightsEnough ==
  NightsInv => Nights!TypeOK /\ Nights!NothingDangles /\ Nights!OldRowsGo
BY NightNames
DEF NightsInv, SettledTrue, Settled, Nights!OldRowsGo, ReviewRows, DecisionRows

-----------------------------------------------------------------------------
(* The rules on the manager.                                               *)

\* What the probe file holds is the rule of a validation that has not deleted it,
\* until another validation touches it: once past the upload, that is.
ProperTrial(v) ==
  /\ trial[v].at = "away" => trial[v] = Manager!Away
  /\ trial[v].at # "away" => trial[v].rule \in Manager!Rules
  /\ trial[v].at = "logtest" => /\ trial[v].rule \notin Malformed
                                /\ v \in overlap \/ probe = trial[v].rule
  /\ trial[v].at \in {"away", "upload", "logtest"} => trial[v].answer = "none"
  /\ trial[v].answer = "valid" =>
       /\ trial[v].rule \notin Malformed
       /\ layer2 /\ v \notin overlap => trial[v].rule \notin Illogical

ProbeTrue ==
  /\ \A v \in Validators : ProperTrial(v)
  /\ probe # "none" /\ ~leftover =>
       \E v \in Validators : trial[v].at \in {"logtest", "delete"}

\* A deployment under way holds the file as it is; nothing else writes it.
MergeTrue ==
  /\ merge.at \in {"away", "write"} /\ merge.base \subseteq Sound
  /\ merge.at = "write" => merge.base = tuned

\* The question about files that every agent has is asked where nothing was found.
AskedTrue ==
  /\ script \in [version : {"none", "old", "new"}, monitored : BOOLEAN]
  /\ check = "ask stock" => unheard \/ ~script.monitored \/ script.version = "none"

ManagerInv ==
  /\ Manager!TypeOK /\ ProbeTrue /\ MergeTrue /\ AskedTrue
  /\ Manager!DeployedStays /\ Manager!ScriptAsReported

LEMMA ManagerInit == Manager!Init => ManagerInv
<1> SUFFICES ASSUME Manager!Init PROVE ManagerInv
  OBVIOUS
<1>1. Manager!TypeOK
  BY DEF Manager!Init, Manager!TypeOK, Manager!Away, Manager!None
<1>2. QED
  BY <1>1 DEF Manager!Init, ManagerInv, ProbeTrue, ProperTrial, MergeTrue, AskedTrue, Manager!Away,
     Manager!None, Manager!DeployedStays, Manager!ScriptAsReported

\* Steps of one validation leave deployments and questions alone.
LEMMA TrialKinds ==
  ASSUME Manager!TypeOK, NEW v \in Validators
  PROVE  /\ trial[v].at \in {"away", "upload", "logtest", "delete"}
         /\ trial[v].rule \in Manager!Rules \cup {"none"}
         /\ trial[v].answer \in {"none", "valid", "invalid"}
BY DEF Manager!TypeOK, Manager!None

LEMMA RuleKinds ==
  /\ "none" \notin Manager!Rules
  /\ \A r \in Manager!Rules : r \notin Malformed \cup Illogical <=> r \in Sound
BY RulesAssumption DEF Manager!RulesAssumption, Manager!Rules, Manager!None

\* The rest of the invariant when only the probe and the trials change.
LEMMA ProbingOnly ==
  ASSUME ManagerInv, UNCHANGED <<Manager!tuning, Manager!asking>>,
         session' \in {"none", "good", "refused"}, probe' \in Manager!Rules \cup {"none"},
         \E v \in Validators,
            t \in [at : {"away", "upload", "logtest", "delete"},
                   rule : Manager!Rules \cup {"none"}, answer : {"none", "valid", "invalid"}] :
           trial' = [trial EXCEPT ![v] = t],
         ProbeTrue'
  PROVE  ManagerInv'
<1>1. Manager!TypeOK'
  BY DEF ManagerInv, Manager!TypeOK, Manager!tuning, Manager!None
<1>2. QED
  BY <1>1 DEF ManagerInv, MergeTrue, AskedTrue, Manager!DeployedStays,
     Manager!ScriptAsReported, Manager!tuning, Manager!asking

TrialRecord ==
  [at : {"away", "upload", "logtest", "delete"}, rule : Manager!Rules \cup {"none"},
   answer : {"none", "valid", "invalid"}]

LEMMA SessionSteps ==
  ASSUME ManagerInv, Manager!Works \/ Manager!Fails
  PROVE  session' \in {"none", "good", "refused"}
BY DEF Manager!Works, Manager!Fails, ManagerInv, Manager!TypeOK, Manager!None

LEMMA ManagerBegins ==
  ASSUME ManagerInv, NEW v \in Validators, Manager!Begin(v)
  PROVE  ManagerInv'
<1>1. PICK r \in Manager!Rules :
        trial' = [trial EXCEPT ![v] = [at |-> "upload", rule |-> r, answer |-> "none"]]
  BY DEF Manager!Begin, Manager!None
<1> DEFINE t == [at |-> "upload", rule |-> r, answer |-> "none"]
<1>2. t \in TrialRecord
  BY DEF TrialRecord
<1>3. UNCHANGED <<session, probe, overlap, leftover, layer2, Manager!tuning, Manager!asking>>
  BY DEF Manager!Begin
<1>4. /\ \A w \in Validators : w # v => trial'[w] = trial[w]
      /\ trial'[v] = t /\ trial[v].at = "away"
  BY <1>1 DEF Manager!Begin, ManagerInv, Manager!TypeOK
<1>5. ProbeTrue'
  BY <1>3, <1>4 DEF ManagerInv, ProbeTrue, ProperTrial
<1>6. session' \in {"none", "good", "refused"} /\ probe' \in Manager!Rules \cup {"none"}
  BY <1>3 DEF ManagerInv, Manager!TypeOK, Manager!None
<1>7. QED
  BY <1>1, <1>2, <1>3, <1>5, <1>6, ProbingOnly DEF TrialRecord

\* An upload replaces what others have there.
LEMMA ManagerUploads ==
  ASSUME ManagerInv, NEW v \in Validators, Manager!Upload(v)
  PROVE  ManagerInv'
<1>1. trial[v].at = "upload" /\ trial[v] \in TrialRecord /\ trial[v].answer = "none"
      /\ trial[v].rule \in Manager!Rules
  BY DEF Manager!Upload, ManagerInv, Manager!TypeOK, TrialRecord, Manager!None, ProbeTrue,
         ProperTrial
<1>2. UNCHANGED <<leftover, layer2, Manager!tuning, Manager!asking>>
  BY DEF Manager!Upload
<1>3. session' \in {"none", "good", "refused"}
  BY SessionSteps DEF Manager!Upload
<1>4. PICK to \in {"logtest", "delete"}, a \in {"none", "invalid"} :
        /\ Manager!Goes(v, to, a) /\ (to = "logtest" => a = "none")
        /\ \/ /\ probe' = trial[v].rule /\ overlap' = overlap \cup Manager!Others(v)
              /\ to = "logtest" => trial[v].rule \notin Malformed
           \/ to = "delete" /\ UNCHANGED <<probe, overlap>>
  BY DEF Manager!Upload, Manager!AfterRefusal, Manager!None
<1> DEFINE t == [trial[v] EXCEPT !.at = to, !.answer = a]
<1>5. /\ t \in TrialRecord /\ t.at = to /\ t.answer = a /\ t.rule = trial[v].rule
  BY <1>1 DEF TrialRecord
<1>6. trial' = [trial EXCEPT ![v] = t]
  BY <1>4 DEF Manager!Goes
<1> HIDE DEF t
<1>7. (\A w \in Validators : w # v => trial'[w] = trial[w]) /\ trial'[v] = t
  BY <1>6 DEF ManagerInv, Manager!TypeOK
<1>8. overlap \subseteq overlap' /\ (probe' # probe => Manager!Others(v) \subseteq overlap')
  BY <1>4
<1>9. ASSUME NEW w \in Validators PROVE ProperTrial(w)'
  <2>1. CASE w = v
    BY <1>1, <1>4, <1>5, <1>7, <2>1 DEF ProperTrial
  <2>2. CASE w # v
    <3>1. ProperTrial(w) /\ trial'[w] = trial[w]
      BY <1>7, <2>2 DEF ManagerInv, ProbeTrue
    <3>2. trial[w].at = "logtest" => w \in Manager!Others(v)
      BY <2>2 DEF Manager!Others
    <3>3. QED
      BY <1>2, <1>8, <3>1, <3>2 DEF ProperTrial
  <2>3. QED
    BY <2>1, <2>2
<1>10. ProbeTrue'
  BY <1>4, <1>5, <1>7, <1>9 DEF ProbeTrue
<1>11. probe' \in Manager!Rules \cup {"none"}
  BY <1>1, <1>4 DEF ManagerInv, Manager!TypeOK, Manager!None
<1>12. QED
  BY <1>2, <1>3, <1>5, <1>6, <1>10, <1>11, ProbingOnly DEF TrialRecord

\* The manager answers for the rule that is there.
LEMMA ManagerTests ==
  ASSUME ManagerInv, NEW v \in Validators, Manager!Logtest(v)
  PROVE  ManagerInv'
<1>1. trial[v].at = "logtest" /\ trial[v] \in TrialRecord /\ ProperTrial(v)
  BY DEF Manager!Logtest, ManagerInv, Manager!TypeOK, TrialRecord, Manager!None, ProbeTrue
<1>2. UNCHANGED <<session, probe, overlap, leftover, layer2, Manager!tuning, Manager!asking>>
  BY DEF Manager!Logtest
<1>3. PICK a \in {"valid", "invalid"} :
        /\ Manager!Goes(v, "delete", a)
        /\ a = "valid" => ~(layer2 /\ probe \in Malformed \cup Illogical)
  BY DEF Manager!Logtest, Manager!Unanswered
<1> DEFINE t == [trial[v] EXCEPT !.at = "delete", !.answer = a]
<1>4. t \in TrialRecord /\ t.at = "delete" /\ t.answer = a /\ t.rule = trial[v].rule
  BY <1>1 DEF TrialRecord
<1>5. trial' = [trial EXCEPT ![v] = t]
  BY <1>3 DEF Manager!Goes
<1> HIDE DEF t
<1>6. (\A w \in Validators : w # v => trial'[w] = trial[w]) /\ trial'[v] = t
  BY <1>5 DEF ManagerInv, Manager!TypeOK
<1>7. ASSUME NEW w \in Validators PROVE ProperTrial(w)'
  <2>1. CASE w = v
    BY <1>1, <1>2, <1>3, <1>4, <1>6, <2>1 DEF ProperTrial
  <2>2. CASE w # v
    BY <1>2, <1>6, <2>2 DEF ManagerInv, ProbeTrue, ProperTrial
  <2>3. QED
    BY <2>1, <2>2
<1>8. ProbeTrue'
  BY <1>1, <1>2, <1>4, <1>6, <1>7 DEF ManagerInv, ProbeTrue
<1>9. session' \in {"none", "good", "refused"} /\ probe' \in Manager!Rules \cup {"none"}
  BY <1>2 DEF ManagerInv, Manager!TypeOK, Manager!None
<1>10. QED
  BY <1>2, <1>4, <1>5, <1>8, <1>9, ProbingOnly DEF TrialRecord

LEMMA ManagerDeletes ==
  ASSUME ManagerInv, NEW v \in Validators, Manager!Delete(v)
  PROVE  ManagerInv'
<1>1. trial[v].at = "delete" /\ trial' = [trial EXCEPT ![v] = Manager!Away]
  BY DEF Manager!Delete
<1>2. Manager!Away \in TrialRecord /\ Manager!Away.at = "away" /\ Manager!Away.answer = "none"
  BY DEF TrialRecord, Manager!Away, Manager!None
<1>3. UNCHANGED <<layer2, Manager!tuning, Manager!asking>>
  BY DEF Manager!Delete
<1>4. session' \in {"none", "good", "refused"}
  BY SessionSteps DEF Manager!Delete
<1>5. \/ /\ probe' = "none" /\ UNCHANGED leftover
         /\ overlap' = (overlap \cup Manager!Others(v)) \ {v}
      \/ leftover' = TRUE /\ overlap' = overlap \ {v} /\ UNCHANGED probe
  BY DEF Manager!Delete, Manager!None
<1>6. /\ \A w \in Validators : w # v => trial'[w] = trial[w]
      /\ trial'[v] = Manager!Away
  BY <1>1 DEF ManagerInv, Manager!TypeOK
<1>7. ASSUME NEW w \in Validators PROVE ProperTrial(w)'
  <2>1. CASE w = v
    BY <1>2, <1>6, <2>1 DEF ProperTrial
  <2>2. CASE w # v
    <3>1. ProperTrial(w) /\ trial'[w] = trial[w]
      BY <1>6, <2>2 DEF ManagerInv, ProbeTrue
    <3>2. trial[w].at = "logtest" => w \in Manager!Others(v)
      BY <2>2 DEF Manager!Others
    <3>3. /\ w \in overlap => w \in overlap'
          /\ probe' # probe => (w \in Manager!Others(v) => w \in overlap')
      BY <1>5, <2>2
    <3>4. QED
      BY <1>3, <3>1, <3>2, <3>3 DEF ProperTrial
  <2>3. QED
    BY <2>1, <2>2
<1>8. ProbeTrue'
  BY <1>5, <1>7 DEF ManagerInv, ProbeTrue
<1>9. probe' \in Manager!Rules \cup {"none"}
  BY <1>5 DEF ManagerInv, Manager!TypeOK, Manager!None
<1>10. QED
  BY <1>1, <1>2, <1>3, <1>4, <1>8, <1>9, ProbingOnly DEF TrialRecord

\* A killed process leaves its probe, which is remembered.
LEMMA ManagerKilled == ManagerInv /\ Manager!Kill => ManagerInv'
<1> SUFFICES ASSUME ManagerInv, Manager!Kill PROVE ManagerInv'
  OBVIOUS
<1>1. /\ trial' = [v \in Validators |-> Manager!Away] /\ leftover' = TRUE
      /\ session' = "none" /\ merge' = [at |-> "away", base |-> {}] /\ check' = "away"
      /\ UNCHANGED <<probe, layer2, tuned, deployed, script, unheard>>
  BY DEF Manager!Kill, Manager!None
<1>2. Manager!TypeOK'
  BY <1>1 DEF ManagerInv, Manager!TypeOK, Manager!Away, Manager!None
<1>3. ProbeTrue'
  BY <1>1 DEF ProbeTrue, ProperTrial, Manager!Away, Manager!None
<1>4. QED
  BY <1>1, <1>2, <1>3 DEF ManagerInv, MergeTrue, AskedTrue, Manager!DeployedStays,
     Manager!ScriptAsReported

\* The other steps leave the probe and the trials alone.
LEMMA ManagerAlone ==
  ASSUME ManagerInv, UNCHANGED <<Manager!probing, layer2>>,
         session' \in {"none", "good", "refused"},
         tuned' \subseteq Sound, deployed' \subseteq Sound
  PROVE  Manager!TypeOK' /\ ProbeTrue'
<1>1. Manager!TypeOK'
  BY DEF ManagerInv, Manager!TypeOK, Manager!probing, Manager!None
<1>2. QED
  BY <1>1 DEF ManagerInv, ProbeTrue, ProperTrial, Manager!probing

LEMMA ManagerTunes == ManagerInv /\ (Manager!ReadTuned \/ Manager!WriteTuned) => ManagerInv'
<1> SUFFICES ASSUME ManagerInv, Manager!ReadTuned \/ Manager!WriteTuned PROVE ManagerInv'
  OBVIOUS
<1>1. UNCHANGED <<Manager!probing, layer2, script, check, unheard>>
  BY DEF Manager!ReadTuned, Manager!WriteTuned, Manager!asking
<1>2. session' \in {"none", "good", "refused"}
  BY SessionSteps DEF Manager!ReadTuned, Manager!WriteTuned
<1>3. tuned \subseteq Sound /\ deployed \subseteq tuned /\ merge.base \subseteq Sound
      /\ (merge.at = "write" => merge.base = tuned)
  BY DEF ManagerInv, Manager!TypeOK, Manager!DeployedStays, MergeTrue
<1>4. CASE Manager!ReadTuned
  <2>1. tuned' = tuned /\ deployed' = deployed
    BY <1>4 DEF Manager!ReadTuned
  <2>2. \/ merge' = [at |-> "write", base |-> tuned]
        \/ merge' = [at |-> "away", base |-> {}]
    BY <1>4 DEF Manager!ReadTuned, Manager!AfterUnread
  <2>3. MergeTrue' /\ Manager!DeployedStays'
    BY <1>3, <2>1, <2>2 DEF MergeTrue, Manager!DeployedStays
  <2>4. AskedTrue' /\ Manager!ScriptAsReported'
    BY <1>1 DEF ManagerInv, AskedTrue, Manager!ScriptAsReported
  <2>5. QED
    BY <1>1, <1>2, <1>3, <2>1, <2>3, <2>4, ManagerAlone DEF ManagerInv
<1>5. CASE Manager!WriteTuned
  <2>1. PICK r \in Sound \ merge.base :
          \/ tuned' = merge.base \cup {r} /\ deployed' = deployed \cup {r}
          \/ deployed' = deployed /\ tuned' \in {tuned, merge.base \cup {r}}
    BY <1>5 DEF Manager!WriteTuned
  <2>2. merge.base = tuned /\ merge' = [at |-> "away", base |-> {}]
    BY <1>3, <1>5 DEF Manager!WriteTuned
  <2>3. tuned' \subseteq Sound /\ deployed' \subseteq tuned'
    BY <1>3, <2>1, <2>2
  <2>4. QED
    BY <1>1, <1>2, <2>2, <2>3, ManagerAlone
    DEF ManagerInv, MergeTrue, AskedTrue, Manager!DeployedStays, Manager!ScriptAsReported
<1>6. QED
  BY <1>4, <1>5

LEMMA ManagerAsks ==
  ManagerInv /\ (Manager!AskScript \/ Manager!AskStock \/ Manager!Told) => ManagerInv'
<1> SUFFICES ASSUME ManagerInv, Manager!AskScript \/ Manager!AskStock \/ Manager!Told
             PROVE  ManagerInv'
  OBVIOUS
<1>1. UNCHANGED <<Manager!probing, layer2, tuned, merge, deployed, script>>
  BY DEF Manager!AskScript, Manager!AskStock, Manager!Told, Manager!tuning
<1>2. session' \in {"none", "good", "refused"}
  <2>1. Manager!AskScript \/ Manager!AskStock => Manager!Works \/ Manager!Fails
    BY DEF Manager!AskScript, Manager!AskStock
  <2>2. Manager!Told => session' = session
    BY DEF Manager!Told
  <2>3. QED
    BY <2>1, <2>2, SessionSteps DEF ManagerInv, Manager!TypeOK, Manager!None
<1>3. /\ script \in [version : {"none", "old", "new"}, monitored : BOOLEAN]
      /\ script = [version |-> script.version, monitored |-> script.monitored]
  BY DEF ManagerInv, AskedTrue
<1>4. AskedTrue' /\ Manager!ScriptAsReported'
  <2>1. CASE Manager!AskScript
    BY <1>1, <1>3, <2>1 DEF Manager!AskScript, AskedTrue, Manager!ScriptAsReported,
       Manager!None
  <2>2. CASE Manager!AskStock
    BY <1>1, <1>3, <2>2 DEF Manager!AskStock, Manager!StockKnown, ManagerInv, AskedTrue,
       Manager!ScriptAsReported, Manager!None
  <2>3. CASE Manager!Told
    BY <1>1, <1>3, <2>3 DEF Manager!Told, AskedTrue, Manager!ScriptAsReported
  <2>4. QED
    BY <2>1, <2>2, <2>3
<1>5. QED
  BY <1>1, <1>2, <1>4, ManagerAlone
  DEF ManagerInv, Manager!TypeOK, MergeTrue, Manager!DeployedStays

LEMMA ManagerRefuses == ManagerInv /\ (Manager!Refuse \/ Manager!Expire) => ManagerInv'
<1> SUFFICES ASSUME ManagerInv, Manager!Refuse \/ Manager!Expire PROVE ManagerInv'
  OBVIOUS
<1>1. /\ session' \in {"none", "good", "refused"}
      /\ UNCHANGED <<Manager!probing, layer2, tuned, merge, deployed, script, check, unheard>>
  BY DEF Manager!Refuse, Manager!Expire, Manager!tuning, Manager!asking, Manager!None
<1>2. QED
  BY <1>1, ManagerAlone
  DEF ManagerInv, Manager!TypeOK, MergeTrue, AskedTrue, Manager!DeployedStays,
      Manager!ScriptAsReported

LEMMA ManagerStep == ManagerInv /\ [Manager!Next]_managerVars => ManagerInv'
<1>1. ASSUME ManagerInv, UNCHANGED managerVars PROVE ManagerInv'
  <2>1. Manager!TypeOK' /\ ProbeTrue'
    BY <1>1, ManagerAlone DEF managerVars, ManagerInv, Manager!TypeOK, Manager!probing,
       Manager!None
  <2>2. MergeTrue' /\ AskedTrue' /\ Manager!DeployedStays' /\ Manager!ScriptAsReported'
    BY <1>1 DEF managerVars, ManagerInv, MergeTrue, AskedTrue, Manager!DeployedStays,
       Manager!ScriptAsReported
  <2>3. QED
    BY <2>1, <2>2 DEF ManagerInv
<1>2. QED
  BY <1>1, ManagerBegins, ManagerUploads, ManagerTests, ManagerDeletes, ManagerKilled,
     ManagerTunes, ManagerAsks, ManagerRefuses
  DEF Manager!Next

LEMMA ManagerEnough ==
  ManagerInv => /\ Manager!TypeOK /\ Manager!ValidIsChecked /\ Manager!NoProbeStays
                /\ Manager!DeployedStays /\ Manager!ScriptAsReported
<1> SUFFICES ASSUME ManagerInv
             PROVE  Manager!ValidIsChecked /\ Manager!NoProbeStays
  BY DEF ManagerInv
<1>1. ASSUME NEW v \in Validators, trial[v].answer = "valid"
      PROVE  trial[v].rule \in Manager!Rules
  BY <1>1 DEF ManagerInv, ProbeTrue, ProperTrial, Manager!Away, Manager!None
<1>2. Manager!ValidIsChecked
  BY <1>1, RuleKinds DEF ManagerInv, ProbeTrue, ProperTrial, Manager!ValidIsChecked
<1>3. Manager!NoProbeStays
  BY DEF ManagerInv, ProbeTrue, Manager!NoProbeStays, Manager!None
<1>4. QED
  BY <1>2, <1>3

-----------------------------------------------------------------------------
(* Who has a case in hand.                                                 *)

\* What a request that has passed its checks still knows of the case, unless
\* another one wrote the same field since: whose the incident is to be, that its
\* tier is lower than the one asked for, and which evidence it has.
RequestTrue(u) ==
  /\ asking[u] = [at |-> asking[u].at, saw |-> asking[u].saw, to |-> asking[u].to]
  /\ asking[u].at = "assign" =>
       /\ asking[u].to \in Hands!Users
       /\ u \in Seniors \/ (asking[u].to = u /\
            (owner \in {Nobody, u} \/ "assign" \in overlapped))
  /\ asking[u].at = "raise" =>
       asking[u].to \in {2, 3} /\ (asking[u].to > tier \/ "raise" \in overlapped)
  /\ asking[u].at = "chain" =>
       /\ asking[u].saw \subseteq Hands!Users
       /\ chain \subseteq asking[u].saw \/ "chain" \in overlapped

\* Whoever was told to have the incident has it, unless assignments overlapped.
IncidentIsHis ==
  \A u \in Hands!Users :
    "incident" \in holds[u] => owner = u \/ "assign" \in overlapped

HandsInv ==
  /\ Hands!TypeOK
  /\ asking = [u \in Hands!Users |-> asking[u]] /\ holds = [u \in Hands!Users |-> holds[u]]
  /\ \A u \in Hands!Users : RequestTrue(u)
  /\ IncidentIsHis /\ Hands!OwnerIsOwner /\ Hands!AckedIsKept

LEMMA HandsInit == Hands!Init => HandsInv
<1> SUFFICES ASSUME Hands!Init PROVE HandsInv
  OBVIOUS
<1>1. /\ owner = Nobody /\ tier = 1 /\ chain = {} /\ notes = {} /\ claimed = Nobody
      /\ asking = [u \in Hands!Users |-> Hands!Away]
      /\ holds = [u \in Hands!Users |-> {}] /\ thanked = {}
  BY DEF Hands!Init
<1>2. \A u \in Hands!Users : asking[u] = Hands!Away /\ holds[u] = {}
  BY <1>1
<1>3. \A u \in Hands!Users : RequestTrue(u)
  BY <1>2 DEF RequestTrue, Hands!Away
<1>4. QED
  BY <1>1, <1>2, <1>3
  DEF HandsInv, Hands!TypeOK, IncidentIsHis, Hands!OwnerIsOwner, Hands!AckedIsKept

\* A step of one user.
LEMMA RequestsOf ==
  ASSUME HandsInv, NEW u \in Hands!Users, NEW r, asking' = [asking EXCEPT ![u] = r]
  PROVE  /\ asking' = [v \in Hands!Users |-> asking'[v]]
         /\ asking'[u] = r /\ \A v \in Hands!Users : v # u => asking'[v] = asking[v]
BY DEF HandsInv

\* A request that begins changes nothing of the case.
LEMMA Asked ==
  ASSUME HandsInv, NEW u \in Hands!Users,
         NEW r, r = [at |-> r.at, saw |-> r.saw, to |-> r.to],
         asking' = [asking EXCEPT ![u] = r],
         UNCHANGED <<owner, tier, chain, notes, claimed, holds, thanked, overlapped>>,
         r.at = "assign" => r.to \in Hands!Users /\
           (u \in Seniors \/ (r.to = u /\ owner \in {Nobody, u})),
         r.at = "raise" => r.to \in {2, 3} /\ r.to > tier,
         r.at = "chain" => r.saw = chain
  PROVE  HandsInv'
<1>1. /\ asking' = [v \in Hands!Users |-> asking'[v]]
      /\ asking'[u] = r /\ \A v \in Hands!Users : v # u => asking'[v] = asking[v]
  BY RequestsOf
<1>2. chain \subseteq Hands!Users
  BY DEF HandsInv, Hands!TypeOK
<1>3. \A v \in Hands!Users : RequestTrue(v)'
  <2>1. TAKE v \in Hands!Users
  <2>2. CASE v = u
    BY <1>1, <1>2, <2>2 DEF RequestTrue
  <2>3. CASE v # u
    <3>1. RequestTrue(v) /\ asking'[v] = asking[v]
      BY <1>1, <2>3 DEF HandsInv
    <3>2. QED
      BY <3>1 DEF RequestTrue
  <2>4. QED
    BY <2>2, <2>3
<1>4. QED
  BY <1>1, <1>3
  DEF HandsInv, Hands!TypeOK, IncidentIsHis, Hands!OwnerIsOwner, Hands!AckedIsKept

LEMMA HandsAsk ==
  ASSUME HandsInv, NEW u \in Hands!Users,
         \/ Hands!AskAssign(u) \/ Hands!AskRaise(u) \/ Hands!AskEvidence(u)
         \/ Hands!ReadChain(u) \/ Hands!AskNote(u) \/ Hands!AskClaim(u)
         \/ Hands!AskRelease(u)
  PROVE  HandsInv'
<1>1. ASSUME NEW at_, NEW saw, NEW to, Hands!Ask(u, at_, saw, to), at_ # "chain",
             at_ = "assign" => to \in Hands!Users /\
               (u \in Seniors \/ (to = u /\ owner \in {Nobody, u})),
             at_ = "raise" => to \in {2, 3} /\ to > tier
      PROVE  HandsInv'
  <2> DEFINE r == [at |-> at_, saw |-> saw, to |-> to]
  <2>1. /\ asking' = [asking EXCEPT ![u] = r]
        /\ UNCHANGED <<owner, tier, chain, notes, claimed, holds, thanked, overlapped>>
    BY <1>1 DEF Hands!Ask, Hands!incident, Hands!history
  <2>2. r = [at |-> r.at, saw |-> r.saw, to |-> r.to] /\ r.at = at_ /\ r.to = to
    OBVIOUS
  <2> HIDE DEF r
  <2>3. QED
    BY <1>1, <2>1, <2>2, Asked
<1>2. CASE Hands!AskAssign(u)
  BY <1>1, <1>2 DEF Hands!AskAssign, Hands!MayAssign
<1>3. CASE Hands!AskRaise(u)
  BY <1>1, <1>3 DEF Hands!AskRaise, Hands!MayRaise
<1>4. CASE Hands!AskEvidence(u) \/ Hands!AskNote(u) \/ Hands!AskClaim(u) \/ Hands!AskRelease(u)
  BY <1>1, <1>4 DEF Hands!AskEvidence, Hands!AskNote, Hands!AskClaim, Hands!AskRelease
<1>5. CASE Hands!ReadChain(u)
  <2>1. RequestTrue(u)
    BY DEF HandsInv
  <2> DEFINE r == [at |-> "chain", saw |-> chain, to |-> asking[u].to]
  <2>2. [[asking[u] EXCEPT !.at = "chain"] EXCEPT !.saw = chain] = r
    <3>1. ASSUME NEW q, NEW x, NEW y, NEW z, q = [at |-> x, saw |-> y, to |-> z]
          PROVE  [[q EXCEPT !.at = "chain"] EXCEPT !.saw = chain]
                   = [at |-> "chain", saw |-> chain, to |-> z]
      <4>1. [q EXCEPT !.at = "chain"] = [at |-> "chain", saw |-> y, to |-> z]
        BY <3>1
      <4>2. ASSUME NEW p, NEW c, p = [at |-> "chain", saw |-> y, to |-> z]
            PROVE  [p EXCEPT !.saw = c] = [at |-> "chain", saw |-> c, to |-> z]
        BY <4>2
      <4>3. QED
        BY <4>1, <4>2, Zenon
    <3>2. QED
      BY <2>1, <3>1 DEF RequestTrue
  <2>3. /\ asking' = [asking EXCEPT ![u] = r]
        /\ UNCHANGED <<owner, tier, chain, notes, claimed, holds, thanked, overlapped>>
    <3>1. asking' = [asking EXCEPT ![u] = [[asking[u] EXCEPT !.at = "chain"] EXCEPT !.saw = chain]]
      BY <1>5 DEF Hands!ReadChain, HandsInv
    <3>2. QED
      BY <1>5, <2>2, <3>1 DEF Hands!ReadChain, Hands!incident, Hands!history
  <2>4. r = [at |-> r.at, saw |-> r.saw, to |-> r.to] /\ r.at = "chain" /\ r.saw = chain
    OBVIOUS
  <2> HIDE DEF r
  <2>5. QED
    BY <2>3, <2>4, Asked
<1>6. QED
  BY <1>2, <1>3, <1>4, <1>5

\* What the others know after a write: the same, or that it overlapped theirs.
LEMMA OthersKnow ==
  ASSUME HandsInv, NEW u \in Hands!Users, asking' = [asking EXCEPT ![u] = Hands!Away],
         overlapped \subseteq overlapped',
         owner' # owner => Hands!Writes(u, "assign"),
         tier' # tier => Hands!Writes(u, "raise"),
         chain' # chain => Hands!Writes(u, "chain")
  PROVE  /\ asking' = [v \in Hands!Users |-> asking'[v]]
         /\ \A v \in Hands!Users : RequestTrue(v)'
<1>1. /\ asking' = [v \in Hands!Users |-> asking'[v]]
      /\ asking'[u] = Hands!Away /\ \A v \in Hands!Users : v # u => asking'[v] = asking[v]
  BY RequestsOf
<1>2. RequestTrue(u)'
  BY <1>1 DEF RequestTrue, Hands!Away
<1>3. ASSUME NEW v \in Hands!Users, v # u PROVE RequestTrue(v)'
  <2>1. RequestTrue(v) /\ asking'[v] = asking[v]
    BY <1>1, <1>3 DEF HandsInv
  <2>2. /\ asking[v].at = "assign" /\ owner' # owner => "assign" \in overlapped'
        /\ asking[v].at = "raise" /\ tier' # tier => "raise" \in overlapped'
        /\ asking[v].at = "chain" /\ chain' # chain => "chain" \in overlapped'
    BY <1>3 DEF Hands!Writes
  <2>3. asking[v].at = "assign" =>
          /\ asking[v].to \in Hands!Users
          /\ v \in Seniors \/ (asking[v].to = v /\
               (owner' \in {Nobody, v} \/ "assign" \in overlapped'))
    BY <2>1, <2>2 DEF RequestTrue
  <2>4. asking[v].at = "raise" =>
          asking[v].to \in {2, 3} /\ (asking[v].to > tier' \/ "raise" \in overlapped')
    BY <2>1, <2>2 DEF RequestTrue
  <2>5. asking[v].at = "chain" =>
          /\ asking[v].saw \subseteq Hands!Users
          /\ chain' \subseteq asking[v].saw \/ "chain" \in overlapped'
    BY <2>1, <2>2 DEF RequestTrue
  <2>6. QED
    BY <2>1, <2>3, <2>4, <2>5 DEF RequestTrue
<1>4. QED
  BY <1>1, <1>2, <1>3

LEMMA HandsAssign ==
  ASSUME HandsInv, NEW u \in Hands!Users, Hands!Assign(u)
  PROVE  HandsInv'
<1>1. /\ asking[u].at = "assign" /\ asking' = [asking EXCEPT ![u] = Hands!Away]
      /\ Hands!Writes(u, "assign") /\ overlapped \subseteq overlapped'
      /\ owner' = asking[u].to
      /\ UNCHANGED <<tier, chain, notes, claimed, thanked>>
  BY DEF Hands!Assign, Hands!Answered, Hands!Writes
<1>2. /\ asking' = [v \in Hands!Users |-> asking'[v]]
      /\ \A v \in Hands!Users : RequestTrue(v)'
  BY <1>1, OthersKnow
<1>3. /\ asking[u].to \in Hands!Users
      /\ u \in Seniors \/ (asking[u].to = u /\
           (owner \in {Nobody, u} \/ "assign" \in overlapped))
  BY <1>1 DEF HandsInv, RequestTrue
<1>4. holds' = [v \in Hands!Users |->
        IF v = asking[u].to THEN holds[v] \cup {"incident"}
        ELSE IF u \in Seniors THEN holds[v] \ {"incident"} ELSE holds[v]]
  BY DEF Hands!Assign
<1>5. IncidentIsHis'
  <2>1. ASSUME NEW v \in Hands!Users, "incident" \in holds'[v]
        PROVE  owner' = v \/ "assign" \in overlapped'
    <3>1. CASE v = asking[u].to
      BY <1>1, <3>1
    <3>2. CASE v # asking[u].to
      <4>1. u \notin Seniors /\ "incident" \in holds[v]
        BY <1>4, <2>1, <3>2
      <4>2. v # u /\ (owner \in {Nobody, u} \/ "assign" \in overlapped)
        BY <1>3, <3>2, <4>1
      <4>3. owner = v \/ "assign" \in overlapped
        BY <4>1 DEF HandsInv, IncidentIsHis
      <4>4. Nobody \notin Hands!Users
        BY AccountsAssumption DEF Hands!HandsAssumption, Hands!Users
      <4>5. QED
        BY <1>1, <4>2, <4>3, <4>4
    <3>3. QED
      BY <3>1, <3>2
  <2>2. QED
    BY <2>1 DEF IncidentIsHis
<1>6. Hands!OwnerIsOwner'
  <2>1. \A v \in Hands!Users : "decision" \in holds'[v] => "decision" \in holds[v]
    BY <1>4
  <2>2. QED
    BY <1>1, <2>1 DEF HandsInv, Hands!OwnerIsOwner
<1>7. Hands!AckedIsKept'
  BY <1>1 DEF HandsInv, Hands!AckedIsKept
<1>8. Hands!TypeOK'
  BY <1>1, <1>3 DEF HandsInv, Hands!TypeOK
<1>9. holds' = [v \in Hands!Users |-> holds'[v]]
  BY <1>4
<1>10. QED
  BY <1>2, <1>5, <1>6, <1>7, <1>8, <1>9 DEF HandsInv

LEMMA HandsRaise ==
  ASSUME HandsInv, NEW u \in Hands!Users, Hands!Raise(u)
  PROVE  HandsInv' /\ (tier' >= tier \/ "raise" \in overlapped)
<1>1. /\ asking[u].at = "raise" /\ asking' = [asking EXCEPT ![u] = Hands!Away]
      /\ Hands!Writes(u, "raise") /\ overlapped \subseteq overlapped'
      /\ tier' = asking[u].to
      /\ UNCHANGED <<owner, chain, notes, claimed, holds, thanked>>
  BY DEF Hands!Raise, Hands!Answered, Hands!Writes, Hands!history
<1>2. /\ asking' = [v \in Hands!Users |-> asking'[v]]
      /\ \A v \in Hands!Users : RequestTrue(v)'
  BY <1>1, OthersKnow
<1>3. asking[u].to \in {2, 3} /\ (asking[u].to > tier \/ "raise" \in overlapped)
  BY <1>1 DEF HandsInv, RequestTrue
<1>4. tier \in 1..3
  BY DEF HandsInv, Hands!TypeOK
<1>5. asking[u].to \in 1..3 /\ (asking[u].to > tier => asking[u].to >= tier)
  BY <1>3, <1>4
<1>6. tier' \in 1..3 /\ (tier' >= tier \/ "raise" \in overlapped)
  BY <1>1, <1>3, <1>5
<1>7. QED
  BY <1>1, <1>2, <1>6
  DEF HandsInv, Hands!TypeOK, IncidentIsHis, Hands!OwnerIsOwner, Hands!AckedIsKept

\* Evidence and notes.
LEMMA HandsAdd ==
  ASSUME HandsInv, NEW u \in Hands!Users, Hands!WriteChain(u) \/ Hands!Note(u)
  PROVE  HandsInv'
<1>1. /\ asking' = [asking EXCEPT ![u] = Hands!Away]
      /\ UNCHANGED <<owner, tier, claimed, holds>> /\ overlapped \subseteq overlapped'
  BY DEF Hands!WriteChain, Hands!Note, Hands!Answered, Hands!Writes
<1>2. chain' # chain => Hands!Writes(u, "chain")
  BY DEF Hands!WriteChain, Hands!Note
<1>3. /\ asking' = [v \in Hands!Users |-> asking'[v]]
      /\ \A v \in Hands!Users : RequestTrue(v)'
  BY <1>1, <1>2, OthersKnow
<1>4. /\ chain' \subseteq Hands!Users /\ notes' \subseteq Hands!Users /\ Hands!AckedIsKept'
  <2>1. CASE Hands!Note(u)
    <3>1. /\ chain' = chain /\ notes' = notes \cup {u} /\ overlapped' = overlapped
          /\ thanked' = thanked \cup {<<"note", u>>}
      BY <2>1 DEF Hands!Note
    <3>2. QED
      BY <3>1 DEF HandsInv, Hands!TypeOK, Hands!AckedIsKept
  <2>2. CASE Hands!WriteChain(u)
    <3>1. notes' = notes /\ asking[u].at = "chain"
      BY <2>2 DEF Hands!WriteChain
    <3>2. CASE chain' = chain /\ thanked' = thanked
      BY <1>1, <3>1, <3>2 DEF HandsInv, Hands!TypeOK, Hands!AckedIsKept
    <3>3. CASE /\ chain' = asking[u].saw \cup {u}
               /\ thanked' = thanked \cup {<<"evidence", u>>}
      <4>1. /\ asking[u].saw \subseteq Hands!Users
            /\ chain \subseteq asking[u].saw \/ "chain" \in overlapped
        BY <3>1 DEF HandsInv, RequestTrue
      <4>2. chain \subseteq chain' \/ "chain" \in overlapped'
        BY <1>1, <3>3, <4>1
      <4>3. \A v \in Hands!Users :
              /\ <<"note", v>> \in thanked' => v \in notes'
              /\ <<"evidence", v>> \in thanked' => v \in chain' \/ "chain" \in overlapped'
        BY <1>1, <3>1, <3>3, <4>2 DEF HandsInv, Hands!AckedIsKept
      <4>4. QED
        BY <3>1, <3>3, <4>1, <4>3 DEF HandsInv, Hands!TypeOK, Hands!AckedIsKept
    <3>4. QED
      BY <2>2, <3>2, <3>3 DEF Hands!WriteChain, Hands!Appended
  <2>3. QED
    BY <2>1, <2>2
<1>5. QED
  BY <1>1, <1>3, <1>4 DEF HandsInv, Hands!TypeOK, IncidentIsHis, Hands!OwnerIsOwner

\* The decision: its UPDATE says who may own it by now.
LEMMA HandsClaim ==
  ASSUME HandsInv, NEW u \in Hands!Users, Hands!Claim(u) \/ Hands!Release(u)
  PROVE  HandsInv'
<1>1. /\ asking' = [asking EXCEPT ![u] = Hands!Away]
      /\ UNCHANGED <<owner, tier, chain, notes, thanked, overlapped>>
  BY DEF Hands!Claim, Hands!Release, Hands!Answered, Hands!incident
<1>2. /\ asking' = [v \in Hands!Users |-> asking'[v]]
      /\ \A v \in Hands!Users : RequestTrue(v)'
  BY <1>1, OthersKnow
<1>3. Nobody \notin Hands!Users
  BY AccountsAssumption DEF Hands!HandsAssumption, Hands!Users
<1>4. /\ claimed' \in Hands!Users \cup {Nobody} /\ holds' = [v \in Hands!Users |-> holds'[v]]
      /\ IncidentIsHis' /\ Hands!OwnerIsOwner'
  <2>1. CASE UNCHANGED <<claimed, holds>>
    BY <1>1, <2>1 DEF HandsInv, Hands!TypeOK, IncidentIsHis, Hands!OwnerIsOwner
  <2>2. CASE /\ claimed \in {Nobody, u} /\ claimed' = u
             /\ holds' = [holds EXCEPT ![u] = @ \cup {"decision"}]
    <3>1. holds' = [v \in Hands!Users |-> IF v = u THEN holds[v] \cup {"decision"} ELSE holds[v]]
      BY <2>2 DEF HandsInv
    <3>2. QED
      BY <1>1, <1>3, <2>2, <3>1 DEF HandsInv, Hands!TypeOK, IncidentIsHis, Hands!OwnerIsOwner
  <2>3. CASE /\ claimed' = IF claimed = u THEN Nobody ELSE claimed
             /\ holds' = [holds EXCEPT ![u] = @ \ {"decision"}]
    <3>1. holds' = [v \in Hands!Users |-> IF v = u THEN holds[v] \ {"decision"} ELSE holds[v]]
      BY <2>3 DEF HandsInv
    <3>2. QED
      BY <1>1, <1>3, <2>3, <3>1 DEF HandsInv, Hands!TypeOK, IncidentIsHis, Hands!OwnerIsOwner
  <2>4. QED
    BY <2>1, <2>2, <2>3 DEF Hands!Claim, Hands!Release, Hands!Unowned
<1>5. QED
  BY <1>1, <1>2, <1>4 DEF HandsInv, Hands!TypeOK, Hands!AckedIsKept

LEMMA HandsStep ==
  HandsInv /\ [Hands!Next]_handVars =>
    HandsInv' /\ [tier' >= tier \/ "raise" \in overlapped]_handVars
<1>1. CASE UNCHANGED handVars
  BY <1>1 DEF handVars, HandsInv, Hands!TypeOK, RequestTrue, IncidentIsHis,
     Hands!OwnerIsOwner, Hands!AckedIsKept
<1>2. ASSUME HandsInv, NEW u \in Hands!Users, Hands!UserStep(u)
      PROVE  HandsInv' /\ (tier' >= tier \/ "raise" \in overlapped)
  <2>1. CASE Hands!Raise(u)
    BY <1>2, <2>1, HandsRaise
  <2>2. CASE \/ Hands!AskAssign(u) \/ Hands!AskRaise(u) \/ Hands!AskEvidence(u)
             \/ Hands!ReadChain(u) \/ Hands!AskNote(u) \/ Hands!AskClaim(u)
             \/ Hands!AskRelease(u)
    <3>1. tier' = tier
      BY <2>2 DEF Hands!AskAssign, Hands!AskRaise, Hands!AskEvidence, Hands!ReadChain,
         Hands!AskNote, Hands!AskClaim, Hands!AskRelease, Hands!Ask, Hands!incident
    <3>2. HandsInv'
      BY <1>2, <2>2, HandsAsk
    <3>3. tier >= tier
      BY <1>2 DEF HandsInv, Hands!TypeOK
    <3>4. QED
      BY <3>1, <3>2, <3>3
  <2>3. CASE \/ Hands!Assign(u) \/ Hands!WriteChain(u) \/ Hands!Note(u)
             \/ Hands!Claim(u) \/ Hands!Release(u)
    <3>1. tier' = tier
      BY <2>3 DEF Hands!Assign, Hands!WriteChain, Hands!Note, Hands!Claim, Hands!Release,
         Hands!incident
    <3>2. HandsInv'
      BY <1>2, <2>3, HandsAssign, HandsAdd, HandsClaim
    <3>3. tier >= tier
      BY <1>2 DEF HandsInv, Hands!TypeOK
    <3>4. QED
      BY <3>1, <3>2, <3>3
  <2>4. QED
    BY <1>2, <2>1, <2>2, <2>3 DEF Hands!UserStep
<1>3. QED
  BY <1>1, <1>2 DEF Hands!Next

LEMMA HandsEnough ==
  HandsInv => Hands!TypeOK /\ Hands!OneOwner /\ Hands!OwnerIsOwner /\ Hands!AckedIsKept
<1> SUFFICES ASSUME HandsInv PROVE Hands!OneOwner
  BY DEF HandsInv
<1>1. QED
  BY DEF HandsInv, IncidentIsHis, Hands!OwnerIsOwner, Hands!OneOwner

-----------------------------------------------------------------------------
(* Who is signed in.                                                       *)

\* A token that was issued outlives neither the lifetime of one issued now, nor
\* that of one issued when its account was switched off.
TokenTrue(i) ==
  token[i] # SignIns!NoToken =>
    /\ token[i].sub \in Subjects /\ token[i].exp \in Nat /\ token[i].exp <= clock + Lifetime
    /\ enabled[token[i].sub] # 0 => token[i].exp <= enabled[token[i].sub] + Lifetime

\* What is stored of a token is its expiry; a sign-out that was answered is
\* stored, and in the replica's memory, until the token expires.
SignedOut ==
  /\ \A i \in Tokens : stored[i] = 0 \/ (token[i] # SignIns!NoToken /\ stored[i] = token[i].exp)
  /\ \A t \in told :
       /\ token[t[1]] # SignIns!NoToken
       /\ stored[t[1]] = token[t[1]].exp \/ token[t[1]].exp <= clock
       /\ t[2] \in blind \/ t[1] \in out[t[2]] \/ token[t[1]].exp <= clock

SignInsInv ==
  /\ SignIns!TypeOK /\ token = [i \in Tokens |-> token[i]]
  /\ \A i \in Tokens : TokenTrue(i)
  /\ SignedOut

LEMMA Times ==
  /\ Lifetime \in Nat /\ MaxTime \in Nat /\ MaxTime >= 1
  /\ SignIns!NoToken.exp = 0 /\ SignIns!NoToken = [sub |-> "nobody", exp |-> 0]
BY AccountsAssumption DEF SignIns!SessionsAssumption, SignIns!NoToken

LEMMA SignInsInit == SignIns!Init => SignInsInv
<1> SUFFICES ASSUME SignIns!Init PROVE SignInsInv
  OBVIOUS
<1>1. /\ clock = 1 /\ enabled = [u \in Subjects |-> 0]
      /\ token = [i \in Tokens |-> SignIns!NoToken]
      /\ out = [r \in Desks |-> {}] /\ stored = [i \in Tokens |-> 0]
      /\ told = {} /\ blind = {}
  BY DEF SignIns!Init
<1>2. SignIns!TypeOK
  BY <1>1, Times DEF SignIns!TypeOK
<1>3. \A i \in Tokens : TokenTrue(i)
  BY <1>1 DEF TokenTrue
<1>4. SignedOut
  BY <1>1 DEF SignedOut
<1>5. QED
  BY <1>1, <1>2, <1>3, <1>4 DEF SignInsInv

\* Time, and what is done to an account.
LEMMA SignInsTick == SignInsInv /\ SignIns!Tick => SignInsInv'
<1> SUFFICES ASSUME SignInsInv, SignIns!Tick PROVE SignInsInv'
  OBVIOUS
<1>1. /\ clock \in 1..MaxTime /\ clock < MaxTime /\ clock' = clock + 1
      /\ UNCHANGED <<enabled, token, out, stored, told, blind>>
  BY DEF SignInsInv, SignIns!TypeOK, SignIns!Tick, SignIns!people
<1>2. /\ clock' \in 1..MaxTime
      /\ \A n \in Nat : n <= clock => n <= clock'
      /\ \A n \in Nat : n <= clock + Lifetime => n <= clock' + Lifetime
  <2>1. \A c \in 1..MaxTime : c < MaxTime => c + 1 \in 1..MaxTime
          /\ \A n \in Nat : (n <= c => n <= c + 1) /\ (n <= c + Lifetime => n <= (c + 1) + Lifetime)
    BY Times
  <2>2. QED
    BY <1>1, <2>1
<1>3. \A i \in Tokens : TokenTrue(i)'
  BY <1>1, <1>2 DEF SignInsInv, TokenTrue
<1>4. SignedOut'
  <2>1. \A t \in told : t[1] \in Tokens /\ token[t[1]].exp \in Nat
    <3>1. \A t \in told : t[1] \in Tokens /\ token[t[1]] # SignIns!NoToken
      BY DEF SignInsInv, SignedOut, SignIns!TypeOK
    <3>2. QED
      BY <3>1 DEF SignInsInv, TokenTrue
  <2>2. QED
    BY <1>1, <1>2, <2>1 DEF SignInsInv, SignedOut
<1>5. QED
  BY <1>1, <1>2, <1>3, <1>4 DEF SignInsInv, SignIns!TypeOK

LEMMA SignInsSwitch ==
  ASSUME SignInsInv, NEW u \in Subjects, SignIns!Switch(u) PROVE SignInsInv'
<1>1. /\ enabled' = [enabled EXCEPT ![u] = IF @ = 0 THEN clock ELSE 0]
      /\ UNCHANGED <<clock, token, out, stored, told, blind>>
  BY DEF SignIns!Switch
<1>2. /\ clock \in 1..MaxTime /\ enabled \in [Subjects -> 0..MaxTime]
  BY DEF SignInsInv, SignIns!TypeOK
<1>3. /\ enabled' \in [Subjects -> 0..MaxTime]
      /\ \A v \in Subjects : enabled'[v] \in {enabled[v], clock, 0}
  <2>1. enabled' = [v \in Subjects |-> IF v # u THEN enabled[v]
                                       ELSE IF enabled[v] = 0 THEN clock ELSE 0]
    BY <1>1, <1>2
  <2>2. {0, clock} \subseteq 0..MaxTime
    BY <1>2, Times
  <2>3. QED
    BY <1>2, <2>1, <2>2
<1>4. \A i \in Tokens : TokenTrue(i)'
  BY <1>1, <1>3 DEF SignInsInv, TokenTrue
<1>5. QED
  BY <1>1, <1>3, <1>4 DEF SignInsInv, SignIns!TypeOK, SignedOut

LEMMA SignInsLogin ==
  ASSUME SignInsInv, NEW u \in Subjects, NEW i \in Tokens, SignIns!Login(u, i)
  PROVE  SignInsInv'
<1> DEFINE k == [sub |-> u, exp |-> clock + Lifetime]
<1>1. /\ enabled[u] = 0 /\ token[i] = SignIns!NoToken /\ token' = [token EXCEPT ![i] = k]
      /\ UNCHANGED <<clock, enabled, out, stored, told, blind>>
  BY DEF SignIns!Login, SignIns!MaySignIn, SignIns!people
<1>2. clock \in 1..MaxTime /\ clock + Lifetime \in Nat /\ clock + Lifetime # 0
  BY Times DEF SignInsInv, SignIns!TypeOK
<1>3. k # SignIns!NoToken /\ k.sub = u /\ k.exp = clock + Lifetime
  BY <1>2, Times
<1> HIDE DEF k
<1>4. /\ token' = [j \in Tokens |-> token'[j]] /\ token'[i] = k
      /\ \A j \in Tokens : j # i => token'[j] = token[j]
  BY <1>1 DEF SignInsInv
<1>5. \A j \in Tokens : TokenTrue(j)'
  <2>1. TAKE j \in Tokens
  <2>2. CASE j = i
    BY <1>1, <1>2, <1>3, <1>4, <2>2 DEF TokenTrue
  <2>3. CASE j # i
    BY <1>1, <1>4, <2>3 DEF SignInsInv, TokenTrue
  <2>4. QED
    BY <2>2, <2>3
<1>6. SignedOut'
  <2>1. stored[i] = 0 /\ \A t \in told : t[1] \in Tokens /\ t[1] # i
    BY <1>1 DEF SignInsInv, SignedOut, SignIns!TypeOK
  <2>2. QED
    BY <1>1, <1>4, <2>1 DEF SignInsInv, SignedOut
<1>7. SignIns!TypeOK'
  <2>1. \A j \in Tokens : token'[j] = SignIns!NoToken \/ token'[j].sub \in Subjects
    BY <1>3, <1>4 DEF SignInsInv, SignIns!TypeOK
  <2>2. QED
    BY <1>1, <2>1 DEF SignInsInv, SignIns!TypeOK
<1>8. QED
  BY <1>4, <1>5, <1>6, <1>7 DEF SignInsInv

\* A sign-out, and a change of password that ends with one.
LEMMA SignInsOut ==
  ASSUME SignInsInv, NEW i \in Tokens, NEW r \in Desks,
         SignIns!Logout(i, r) \/ SignIns!ChangePassword(i, r)
  PROVE  SignInsInv'
<1>1. /\ token[i] # SignIns!NoToken /\ SignIns!Revoke(i, r)
      /\ UNCHANGED <<clock, enabled, token, blind>>
  BY DEF SignIns!Logout, SignIns!ChangePassword, SignIns!Accepts, SignIns!people
<1>2. /\ out' = [out EXCEPT ![r] = @ \cup {i}]
      /\ \/ stored' = [stored EXCEPT ![i] = token[i].exp] /\ told' = told \cup {<<i, r>>}
         \/ UNCHANGED <<stored, told>>
  BY <1>1 DEF SignIns!Revoke, SignIns!Kept
<1>3. /\ token[i].exp \in Nat /\ token[i].exp <= clock + Lifetime /\ clock \in 1..MaxTime
      /\ out \in [Desks -> SUBSET Tokens] /\ stored \in [Tokens -> 0..MaxTime + Lifetime]
      /\ told \subseteq Tokens \X Desks
  BY <1>1 DEF SignInsInv, TokenTrue, SignIns!TypeOK
<1>4. token[i].exp \in 0..MaxTime + Lifetime
  BY <1>3, Times
<1>5. /\ out' \in [Desks -> SUBSET Tokens] /\ i \in out'[r]
      /\ \A q \in Desks : out[q] \subseteq out'[q]
  <2>1. out' = [q \in Desks |-> IF q = r THEN out[q] \cup {i} ELSE out[q]]
    BY <1>2, <1>3
  <2>2. QED
    BY <1>3, <2>1
<1>6. /\ stored' \in [Tokens -> 0..MaxTime + Lifetime] /\ told' \subseteq Tokens \X Desks
      /\ \A j \in Tokens : stored'[j] = stored[j] \/ (j = i /\ stored'[j] = token[i].exp)
      /\ \A t \in told' : t \in told \/ (t = <<i, r>> /\ stored'[i] = token[i].exp)
  <2>1. CASE UNCHANGED <<stored, told>>
    BY <1>3, <2>1
  <2>2. CASE stored' = [stored EXCEPT ![i] = token[i].exp] /\ told' = told \cup {<<i, r>>}
    BY <1>3, <1>4, <2>2
  <2>3. QED
    BY <1>2, <2>1, <2>2
<1>7. SignedOut'
  <2>1. \A j \in Tokens :
          stored'[j] = 0 \/ (token'[j] # SignIns!NoToken /\ stored'[j] = token'[j].exp)
    BY <1>1, <1>6 DEF SignInsInv, SignedOut
  <2>2. ASSUME NEW t \in told'
        PROVE  /\ token'[t[1]] # SignIns!NoToken
               /\ stored'[t[1]] = token'[t[1]].exp \/ token'[t[1]].exp <= clock'
               /\ t[2] \in blind' \/ t[1] \in out'[t[2]] \/ token'[t[1]].exp <= clock'
    <3>1. CASE t \in told
      <4>1. t[1] \in Tokens /\ t[2] \in Desks
        BY <1>3, <3>1
      <4>2. QED
        BY <1>1, <1>5, <1>6, <3>1, <4>1 DEF SignInsInv, SignedOut
    <3>2. CASE t = <<i, r>> /\ stored'[i] = token[i].exp
      BY <1>1, <1>5, <3>2
    <3>3. QED
      BY <1>6, <3>1, <3>2
  <2>3. QED
    BY <2>1, <2>2 DEF SignedOut
<1>8. \A j \in Tokens : TokenTrue(j)'
  BY <1>1 DEF SignInsInv, TokenTrue
<1>9. QED
  BY <1>1, <1>5, <1>6, <1>7, <1>8 DEF SignInsInv, SignIns!TypeOK

\* The start of a replica; what it read is what was signed out by then.
LEMMA SignInsStart ==
  ASSUME SignInsInv, NEW r \in Desks, SignIns!Start(r)
  PROVE  /\ SignInsInv'
         /\ \A q \in Desks : out'[q] # out[q] /\ q \notin blind' =>
              \A t \in told : t[1] \in out'[q] \/ token[t[1]].exp <= clock
<1>1. /\ UNCHANGED <<clock, enabled, token, told>>
      /\ \/ /\ stored' = SignIns!Prune
            /\ out' = [out EXCEPT ![r] = {i \in Tokens : stored'[i] > clock}]
            /\ blind' = blind \ {r}
         \/ /\ stored' = stored /\ out' = [out EXCEPT ![r] = {}] /\ blind' = blind \cup {r}
  BY DEF SignIns!Start, SignIns!people
<1>2. /\ clock \in 1..MaxTime /\ out \in [Desks -> SUBSET Tokens]
      /\ stored \in [Tokens -> 0..MaxTime + Lifetime] /\ told \subseteq Tokens \X Desks
      /\ blind \subseteq Desks
  BY DEF SignInsInv, SignIns!TypeOK
<1>3. stored' = [i \in Tokens |-> stored'[i]]
      /\ \A i \in Tokens : stored'[i] = stored[i] \/ (stored[i] <= clock /\ stored'[i] = 0)
  BY <1>1, <1>2 DEF SignIns!Prune
<1>4. stored' \in [Tokens -> 0..MaxTime + Lifetime]
  <2>1. 0 \in 0..MaxTime + Lifetime
    BY Times
  <2>2. \A i \in Tokens : stored'[i] \in 0..MaxTime + Lifetime
    BY <1>2, <1>3, <2>1
  <2>3. QED
    BY <1>3, <2>2
<1>5. \A t \in told : t[1] \in Tokens /\ t[2] \in Desks /\ token[t[1]] # SignIns!NoToken
        /\ token[t[1]].exp \in Nat /\ (stored[t[1]] = token[t[1]].exp \/ token[t[1]].exp <= clock)
  <2>1. \A t \in told : t[1] \in Tokens /\ t[2] \in Desks /\ token[t[1]] # SignIns!NoToken
    BY <1>2 DEF SignInsInv, SignedOut
  <2>2. QED
    BY <2>1 DEF SignInsInv, SignedOut, TokenTrue
<1>6. ASSUME NEW t \in told
      PROVE  stored'[t[1]] = token[t[1]].exp \/ token[t[1]].exp <= clock
  BY <1>3, <1>5
<1>7. /\ out' \in [Desks -> SUBSET Tokens] /\ blind' \subseteq Desks
      /\ \A q \in Desks : q # r => out'[q] = out[q] /\ (q \in blind' <=> q \in blind)
      /\ r \in blind' \/ out'[r] = {i \in Tokens : stored'[i] > clock}
  <2>1. CASE /\ stored' = SignIns!Prune
             /\ out' = [out EXCEPT ![r] = {i \in Tokens : stored'[i] > clock}]
             /\ blind' = blind \ {r}
    <3>1. {i \in Tokens : stored'[i] > clock} \in SUBSET Tokens
      OBVIOUS
    <3>2. QED
      BY <1>2, <2>1, <3>1
  <2>2. CASE stored' = stored /\ out' = [out EXCEPT ![r] = {}] /\ blind' = blind \cup {r}
    BY <1>2, <2>2
  <2>3. QED
    BY <1>1, <2>1, <2>2
<1>8. ASSUME NEW t \in told, r \notin blind'
      PROVE  t[1] \in out'[r] \/ token[t[1]].exp <= clock
  <2>1. CASE stored'[t[1]] = token[t[1]].exp
    <3>1. token[t[1]].exp \in Nat /\ clock \in Nat /\ t[1] \in Tokens
      BY <1>2, <1>5
    <3>2. QED
      BY <1>7, <1>8, <2>1, <3>1
  <2>2. QED
    BY <1>6, <2>1
<1>9. SignedOut'
  <2>1. \A i \in Tokens :
          stored'[i] = 0 \/ (token'[i] # SignIns!NoToken /\ stored'[i] = token'[i].exp)
    BY <1>1, <1>3 DEF SignInsInv, SignedOut
  <2>2. ASSUME NEW t \in told
        PROVE  t[2] \in blind' \/ t[1] \in out'[t[2]] \/ token[t[1]].exp <= clock
    <3>1. CASE t[2] = r
      BY <1>8, <3>1
    <3>2. CASE t[2] # r
      BY <1>5, <1>7, <3>2 DEF SignInsInv, SignedOut
    <3>3. QED
      BY <3>1, <3>2
  <2>3. QED
    BY <1>1, <1>5, <1>6, <2>1, <2>2 DEF SignedOut
<1>10. \A j \in Tokens : TokenTrue(j)'
  BY <1>1 DEF SignInsInv, TokenTrue
<1>11. SignInsInv'
  BY <1>1, <1>4, <1>7, <1>9, <1>10 DEF SignInsInv, SignIns!TypeOK
<1>12. QED
  BY <1>7, <1>8, <1>11

\* What SpreadsByStart says of a step.
Spreads ==
  \A r \in Desks :
    starts' > starts /\ out'[r] # out[r] /\ r \notin blind' =>
      \A t \in told : ~SignIns!Accepts(t[1], r)'

LEMMA SignInsStep ==
  SignInsInv /\ starts \in Nat /\ [SignIns!Next]_sessionVars =>
    SignInsInv' /\ starts' \in Nat /\ [Spreads]_sessionVars
<1> SUFFICES ASSUME SignInsInv, starts \in Nat, [SignIns!Next]_sessionVars
             PROVE  SignInsInv' /\ starts' \in Nat /\ [Spreads]_sessionVars
  OBVIOUS
<1>1. CASE UNCHANGED sessionVars
  BY <1>1 DEF sessionVars, SignInsInv, SignIns!TypeOK, TokenTrue, SignedOut
<1>2. ASSUME NEW r \in Desks, SignIns!Start(r) PROVE SignInsInv' /\ starts' \in Nat /\ Spreads
  <2>1. starts' = starts + 1 /\ UNCHANGED <<clock, token, told>>
    BY <1>2 DEF SignIns!Start
  <2>2. \A q \in Desks : out'[q] # out[q] /\ q \notin blind' =>
          \A t \in told : t[1] \in out'[q] \/ token[t[1]].exp <= clock
    BY <1>2, SignInsStart
  <2>3. \A t \in told : token[t[1]].exp \in Nat /\ clock \in Nat
    <3>1. clock \in Nat
      BY Times DEF SignInsInv, SignIns!TypeOK
    <3>2. \A t \in told : t[1] \in Tokens /\ token[t[1]] # SignIns!NoToken
      BY DEF SignInsInv, SignIns!TypeOK, SignedOut
    <3>3. QED
      BY <3>1, <3>2 DEF SignInsInv, TokenTrue
  <2>4. ASSUME NEW q \in Desks, out'[q] # out[q], q \notin blind', NEW t \in told
        PROVE  ~SignIns!Accepts(t[1], q)'
    <3>1. t[1] \in out'[q] \/ ~(clock < token[t[1]].exp)
      BY <2>2, <2>3, <2>4
    <3>2. QED
      BY <2>1, <3>1 DEF SignIns!Accepts
  <2>5. QED
    BY <1>2, <2>1, <2>4, SignInsStart DEF Spreads
<1>3. ASSUME SignInsInv', starts' = starts PROVE SignInsInv' /\ starts' \in Nat /\ Spreads
  <2>1. ~(starts > starts)
    OBVIOUS
  <2>2. QED
    BY <1>3, <2>1 DEF Spreads
<1>4. CASE SignIns!Tick
  BY <1>3, <1>4, SignInsTick DEF SignIns!Tick, SignIns!counts
<1>5. ASSUME NEW u \in Subjects, SignIns!Switch(u)
      PROVE  SignInsInv' /\ starts' \in Nat /\ Spreads
  BY <1>3, <1>5, SignInsSwitch DEF SignIns!Switch, SignIns!counts
<1>6. ASSUME NEW u \in Subjects, NEW i \in Tokens, SignIns!Login(u, i)
      PROVE  SignInsInv' /\ starts' \in Nat /\ Spreads
  BY <1>3, <1>6, SignInsLogin DEF SignIns!Login, SignIns!counts
<1>7. ASSUME NEW r \in Desks, NEW i \in Tokens,
             SignIns!Logout(i, r) \/ SignIns!ChangePassword(i, r)
      PROVE  SignInsInv' /\ starts' \in Nat /\ Spreads
  BY <1>3, <1>7, SignInsOut DEF SignIns!Logout, SignIns!ChangePassword
<1>8. QED
  BY <1>1, <1>2, <1>4, <1>5, <1>6, <1>7 DEF SignIns!Next

LEMMA SignInsEnough ==
  SignInsInv => SignIns!TypeOK /\ SignIns!SignedOutStaysOut /\ SignIns!SwitchedOffLeaves
<1> SUFFICES ASSUME SignInsInv
             PROVE  SignIns!SignedOutStaysOut /\ SignIns!SwitchedOffLeaves
  BY DEF SignInsInv
<1>1. \A t \in told : token[t[1]].exp \in Nat /\ clock \in Nat
  <2>1. clock \in Nat
    BY Times DEF SignInsInv, SignIns!TypeOK
  <2>2. \A t \in told : t[1] \in Tokens /\ token[t[1]] # SignIns!NoToken
    BY DEF SignInsInv, SignIns!TypeOK, SignedOut
  <2>3. QED
    BY <2>1, <2>2 DEF SignInsInv, TokenTrue
<1>2. SignIns!SignedOutStaysOut
  BY <1>1 DEF SignInsInv, SignedOut, SignIns!SignedOutStaysOut, SignIns!Accepts
<1>3. SignIns!SwitchedOffLeaves
  BY DEF SignInsInv, TokenTrue, SignIns!SwitchedOffLeaves, SignIns!Accepts
<1>4. QED
  BY <1>2, <1>3

-----------------------------------------------------------------------------
(* Which accounts there are.                                               *)

\* The ranks, and what an actor hands out.
LEMMA Ranks ==
  /\ \A r \in People!Roles : People!RankOf(r) \in 1..4 /\ r # "none"
  /\ People!RankOf("mssp_admin") = 4
  /\ \A c, r : r \in People!Assignable(c) =>
       /\ c \in {"admin", "mssp_admin"} /\ r \in People!Roles /\ r # "mssp_admin"
       /\ People!RankOf(r) < People!RankOf(c)
<1>1. /\ People!RankOf("analyst") = 1 /\ People!RankOf("senior_analyst") = 2
      /\ People!RankOf("admin") = 3 /\ People!RankOf("mssp_admin") = 4
  BY DEF People!RankOf
<1>2. \A r \in People!Roles : People!RankOf(r) \in 1..4 /\ r # "none"
  BY <1>1 DEF People!Roles
<1>3. ASSUME NEW c, NEW r, r \in People!Assignable(c)
      PROVE  \/ c = "mssp_admin" /\ r \in {"admin", "senior_analyst", "analyst"}
             \/ c = "admin" /\ r \in {"senior_analyst", "analyst"}
  BY <1>3 DEF People!Assignable
<1>4. QED
  BY <1>1, <1>2, <1>3 DEF People!Roles

\* Nobody but the provider's account has, or signed in with, the highest rank.
OneTop ==
  \A u \in Accounts \ {Mssp} : role[u] # "mssp_admin" /\ card[u] # "mssp_admin"

\* Whoever is about to add an account counted before the inserts that overlap.
Counted ==
  \A r \in Desks :
    /\ gate[r] # "none" => gate[r] \in Accounts
    /\ gate[r] # "none" /\ MaxUsers # 0 => Cardinality(People!Active) < MaxUsers + slack

PeopleInv ==
  /\ People!TypeOK /\ grantor \in [Accounts -> Nat] /\ slack \in Nat
  /\ gate = [r \in Desks |-> gate[r]]
  /\ OneTop /\ Counted
  /\ People!NoPeerIsMade /\ People!TopUntouched
  /\ MaxUsers = 0 \/ Cardinality(People!Active) <= MaxUsers + slack

LEMMA PeopleSets ==
  \A S : /\ People!Cardinality(S) = Cardinality(S)
         /\ People!IsFiniteSet(S) = IsFiniteSet(S)
BY Zenon DEF People!Cardinality, Cardinality, People!IsFiniteSet, IsFiniteSet

LEMMA AccountsAre ==
  /\ IsFiniteSet(Accounts) /\ {Mssp, Admin} \subseteq Accounts /\ "none" \notin Accounts
  /\ MaxSteps \in Nat /\ MaxUsers \in Nat
  /\ MaxUsers # 0 => Cardinality({Mssp, Admin}) <= MaxUsers
<1>1. IsFiniteSet({Mssp, Admin})
  BY AccountsAssumption, PeopleSets, FS_Subset DEF People!AccountsAssumption
<1>2. Cardinality({Mssp, Admin}) \in Nat
  BY <1>1, FS_CardinalityType
<1>3. QED
  BY <1>2, AccountsAssumption, PeopleSets DEF People!AccountsAssumption

\* How many accounts are active, before a step and after.
LEMMA ActiveAre ==
  ASSUME NEW S, S \subseteq Accounts
  PROVE  IsFiniteSet(S) /\ Cardinality(S) \in Nat
BY AccountsAre, FS_Subset, FS_CardinalityType

LEMMA OneMoreActive ==
  ASSUME NEW S, NEW T, NEW x, S \subseteq Accounts, T \subseteq S \cup {x}
  PROVE  Cardinality(T) <= Cardinality(S) + 1 /\ Cardinality(T) \in Nat
<1>1. IsFiniteSet(S) /\ Cardinality(S) \in Nat
  BY ActiveAre
<1>2. IsFiniteSet(S \cup {x}) /\ Cardinality(S \cup {x}) <= Cardinality(S) + 1
  <2>1. IsFiniteSet(S \cup {x})
        /\ Cardinality(S \cup {x}) = IF x \in S THEN Cardinality(S) ELSE Cardinality(S) + 1
    BY <1>1, FS_AddElement
  <2>2. QED
    BY <1>1, <2>1
<1>3. Cardinality(T) <= Cardinality(S \cup {x}) /\ IsFiniteSet(T)
  BY <1>2, FS_Subset
<1>4. Cardinality(T) \in Nat /\ Cardinality(S \cup {x}) \in Nat
  BY <1>2, <1>3, FS_CardinalityType
<1>5. QED
  BY <1>1, <1>2, <1>3, <1>4

LEMMA PeopleInit == People!Init => PeopleInv
<1> SUFFICES ASSUME People!Init PROVE PeopleInv
  OBVIOUS
<1>1. /\ role = [u \in Accounts |-> IF u = Mssp THEN "mssp_admin"
                                    ELSE IF u = Admin THEN "admin" ELSE "none"]
      /\ active = [u \in Accounts |-> TRUE] /\ card = [u \in Accounts |-> "none"]
      /\ gate = [r \in Desks |-> "none"] /\ grantor = [u \in Accounts |-> 5]
      /\ slack = 0 /\ steps = 0
  BY DEF People!Init
<1>2. \A u \in Accounts : role[u] = IF u = Mssp THEN "mssp_admin"
                                    ELSE IF u = Admin THEN "admin" ELSE "none"
  BY <1>1
<1>3. People!Active \subseteq {Mssp, Admin}
  BY <1>2 DEF People!Active, People!Exists
<1>4. MaxUsers # 0 => Cardinality(People!Active) <= MaxUsers
  <2>1. IsFiniteSet({Mssp, Admin}) /\ Cardinality({Mssp, Admin}) \in Nat
    BY ActiveAre, AccountsAre
  <2>2. Cardinality(People!Active) <= Cardinality({Mssp, Admin})
        /\ Cardinality(People!Active) \in Nat
    BY <1>3, <2>1, FS_Subset, FS_CardinalityType
  <2>3. QED
    BY <2>1, <2>2, AccountsAre
<1>5. People!TypeOK
  <2>1. role \in [Accounts -> People!Roles \cup {"none"}]
    BY <1>1 DEF People!Roles
  <2>2. steps \in 0..MaxSteps
    BY <1>1, AccountsAre
  <2>3. active \in [Accounts -> BOOLEAN] /\ card \in [Accounts -> People!Roles \cup {"none"}]
    BY <1>1
  <2>4. QED
    BY <2>1, <2>2, <2>3 DEF People!TypeOK
<1>6. People!NoPeerIsMade
  <2>1. ASSUME NEW u \in People!Exists PROVE People!RankOf(role[u]) < grantor[u]
    <3>1. u \in Accounts /\ role[u] \in People!Roles /\ grantor[u] = 5
      BY <1>1, <1>5 DEF People!Exists, People!TypeOK
    <3>2. QED
      BY <3>1, Ranks
  <2>2. QED
    BY <2>1 DEF People!NoPeerIsMade
<1>7. OneTop /\ People!TopUntouched /\ Counted
  BY <1>1, <1>2, AccountsAre DEF OneTop, People!TopUntouched, Counted
<1>8. grantor \in [Accounts -> Nat] /\ slack \in Nat /\ gate = [r \in Desks |-> gate[r]]
  BY <1>1
<1>9. MaxUsers = 0 \/ Cardinality(People!Active) <= MaxUsers + slack
  <2>1. Cardinality(People!Active) \in Nat
    BY ActiveAre DEF People!Active, People!Exists
  <2>2. QED
    BY <1>1, <1>4, <2>1, AccountsAre
<1>10. QED
  BY <1>5, <1>6, <1>7, <1>8, <1>9 DEF PeopleInv

\* The quota, where at most one account more is active than before: it is on
\* the slack, or who adds it had counted and nobody else has.
LEMMA QuotaStays ==
  ASSUME PeopleInv, NEW u \in Accounts, slack' \in Nat,
         People!Active' \subseteq People!Active \cup {u},
         \/ slack' = slack + 1
         \/ slack' = slack /\ People!Active' \subseteq People!Active
         \/ /\ slack' = slack
            /\ MaxUsers # 0 => Cardinality(People!Active) < MaxUsers + slack
            /\ \A r \in Desks : gate'[r] = "none",
         \A r \in Desks : gate'[r] \in {"none", gate[r]}
  PROVE  Counted' /\ (MaxUsers = 0 \/ Cardinality(People!Active') <= MaxUsers + slack')
<1> DEFINE m == Cardinality(People!Active)
           n == Cardinality(People!Active')
<1>1. People!Active \subseteq Accounts
  BY DEF People!Active, People!Exists
<1>2. m \in Nat /\ n \in Nat /\ n <= m + 1
  BY <1>1, ActiveAre, OneMoreActive
<1>3. People!Active' \subseteq People!Active => n <= m
  BY <1>1, ActiveAre, FS_Subset
<1>4. /\ MaxUsers \in Nat /\ slack \in Nat
      /\ MaxUsers = 0 \/ m <= MaxUsers + slack
      /\ \A r \in Desks : gate[r] # "none" => gate[r] \in Accounts
      /\ \A r \in Desks : gate[r] # "none" /\ MaxUsers # 0 => m < MaxUsers + slack
  BY AccountsAre DEF PeopleInv, Counted
<1> HIDE DEF m, n
<1>5. ASSUME NEW s \in Nat, slack' = s PROVE
        /\ MaxUsers = 0 \/ n <= MaxUsers + s
        /\ \A r \in Desks : gate'[r] # "none" /\ MaxUsers # 0 => n < MaxUsers + s
  <2>1. CASE s = slack + 1
    BY <1>2, <1>4, <2>1
  <2>2. CASE s = slack /\ n <= m
    BY <1>2, <1>4, <2>2
  <2>3. CASE /\ s = slack /\ (MaxUsers # 0 => m < MaxUsers + slack)
             /\ \A r \in Desks : gate'[r] = "none"
    BY <1>2, <1>4, <2>3
  <2>4. QED
    BY <1>3, <1>5, <2>1, <2>2, <2>3 DEF m
<1>6. \A r \in Desks : gate'[r] # "none" => gate'[r] \in Accounts
  BY <1>4
<1>7. QED
  BY <1>5, <1>6 DEF Counted, n

LEMMA PeopleSigns ==
  ASSUME PeopleInv, NEW u \in Accounts, People!SignIn(u) PROVE PeopleInv'
<1>1. /\ card' = [card EXCEPT ![u] = role[u]] /\ role[u] # "none"
      /\ UNCHANGED <<role, active, gate, grantor, slack, steps>>
  BY DEF People!SignIn, People!Active, People!Exists
<1>2. /\ role[u] \in People!Roles /\ card \in [Accounts -> People!Roles \cup {"none"}]
  BY <1>1 DEF PeopleInv, People!TypeOK
<1>3. People!TypeOK'
  BY <1>1, <1>2 DEF PeopleInv, People!TypeOK
<1>4. OneTop'
  BY <1>1, <1>2 DEF PeopleInv, OneTop
<1>5. People!TopUntouched'
  <2>1. card'[Mssp] = "none" => card[Mssp] = "none"
    BY <1>1, <1>2, AccountsAre
  <2>2. QED
    BY <1>1, <2>1 DEF PeopleInv, People!TopUntouched
<1>6. People!Active' = People!Active /\ People!NoPeerIsMade'
  BY <1>1 DEF PeopleInv, People!Active, People!Exists, People!NoPeerIsMade
<1>7. QED
  BY <1>1, <1>3, <1>4, <1>5, <1>6 DEF PeopleInv, Counted

LEMMA PeopleAsk ==
  ASSUME PeopleInv, NEW r \in Desks, NEW u \in Accounts, People!AskCreate(r, u)
  PROVE  PeopleInv'
<1>1. /\ gate' = [gate EXCEPT ![r] = u] /\ UNCHANGED <<role, active, card, grantor, slack, steps>>
      /\ MaxUsers = 0 \/ Cardinality(People!Active) < MaxUsers
  BY PeopleSets DEF People!AskCreate, People!BelowLimit
<1>2. People!Active' = People!Active
  BY <1>1 DEF People!Active, People!Exists
<1>3. /\ gate' = [q \in Desks |-> gate'[q]] /\ gate'[r] = u
      /\ \A q \in Desks : q # r => gate'[q] = gate[q]
  BY <1>1 DEF PeopleInv
<1>4. MaxUsers # 0 => Cardinality(People!Active) < MaxUsers + slack
  <2>1. Cardinality(People!Active) \in Nat /\ slack \in Nat
    BY ActiveAre DEF People!Active, People!Exists, PeopleInv
  <2>2. QED
    BY <1>1, <2>1, AccountsAre
<1>5. Counted'
  BY <1>1, <1>2, <1>3, <1>4 DEF PeopleInv, Counted
<1>6. /\ People!TypeOK' /\ OneTop' /\ People!TopUntouched' /\ People!NoPeerIsMade'
  BY <1>1 DEF PeopleInv, People!TypeOK, OneTop, People!TopUntouched, People!NoPeerIsMade,
     People!Exists
<1>7. QED
  BY <1>1, <1>2, <1>3, <1>5, <1>6 DEF PeopleInv

\* A step within the bound.
LEMMA Stepped == PeopleInv /\ People!Step => steps' \in 0..MaxSteps
<1>1. \A n \in 0..MaxSteps : n < MaxSteps => n + 1 \in 0..MaxSteps
  BY AccountsAre
<1>2. QED
  BY <1>1 DEF PeopleInv, People!TypeOK, People!Step

\* A role that an actor with the card c gives.
LEMMA RoleGiven ==
  ASSUME PeopleInv, NEW u \in Accounts, NEW c, NEW as, as \in People!Assignable(c),
         role' = [role EXCEPT ![u] = as],
         grantor' = [grantor EXCEPT ![u] = People!RankOf(c)], card' = card
  PROVE  /\ role' \in [Accounts -> People!Roles \cup {"none"}]
         /\ grantor' \in [Accounts -> Nat] /\ OneTop' /\ People!NoPeerIsMade'
         /\ role'[u] = as /\ as # "none" /\ \A v \in Accounts : v # u => role'[v] = role[v]
<1>1. /\ c \in People!Roles /\ as \in People!Roles /\ as # "mssp_admin" /\ as # "none"
      /\ People!RankOf(as) < People!RankOf(c) /\ People!RankOf(c) \in Nat
  <2>1. /\ c \in {"admin", "mssp_admin"} /\ as \in People!Roles /\ as # "mssp_admin"
        /\ People!RankOf(as) < People!RankOf(c)
    BY Ranks, Zenon
  <2>2. c \in People!Roles
    BY <2>1 DEF People!Roles
  <2>3. People!RankOf(c) \in 1..4 /\ as # "none"
    BY <2>1, <2>2, Ranks
  <2>4. \A n \in 1..4 : n \in Nat
    OBVIOUS
  <2>5. QED
    BY <2>1, <2>2, <2>3, <2>4, Zenon
<1>2. role \in [Accounts -> People!Roles \cup {"none"}] /\ grantor \in [Accounts -> Nat]
  BY DEF PeopleInv, People!TypeOK
<1>3. /\ role' \in [Accounts -> People!Roles \cup {"none"}] /\ role'[u] = as
      /\ \A v \in Accounts : v # u => role'[v] = role[v]
  BY <1>1, <1>2
<1>4. /\ grantor' \in [Accounts -> Nat] /\ grantor'[u] = People!RankOf(c)
      /\ \A v \in Accounts : v # u => grantor'[v] = grantor[v]
  BY <1>1, <1>2
<1>5. OneTop'
  BY <1>1, <1>3 DEF PeopleInv, OneTop
<1>6. People!NoPeerIsMade'
  <2>1. ASSUME NEW v \in Accounts, role'[v] # "none" PROVE People!RankOf(role'[v]) < grantor'[v]
    <3>1. CASE v = u
      BY <1>1, <1>3, <1>4, <3>1
    <3>2. CASE v # u
      BY <1>3, <1>4, <2>1, <3>2 DEF PeopleInv, People!NoPeerIsMade, People!Exists
    <3>3. QED
      BY <3>1, <3>2
  <2>2. QED
    BY <2>1 DEF People!NoPeerIsMade, People!Exists
<1>7. QED
  BY <1>1, <1>3, <1>4, <1>5, <1>6

LEMMA PeopleInsert ==
  ASSUME PeopleInv, NEW r \in Desks, NEW u \in Accounts, NEW as \in People!Roles,
         People!Insert(r, u, as)
  PROVE  PeopleInv'
<1>1. /\ gate[r] # "none" /\ gate' = [gate EXCEPT ![r] = "none"] /\ card' = card
      /\ steps' \in 0..MaxSteps
  BY Stepped DEF People!Insert
<1>2. /\ gate' = [q \in Desks |-> gate'[q]] /\ gate'[r] = "none"
      /\ \A q \in Desks : q # r => gate'[q] = gate[q]
  BY <1>1 DEF PeopleInv
<1>3. CASE UNCHANGED <<role, active, grantor, slack>>
  <2>1. People!Active' = People!Active
    BY <1>3 DEF People!Active, People!Exists
  <2>2. Counted' /\ (MaxUsers = 0 \/ Cardinality(People!Active') <= MaxUsers + slack')
    BY <1>2, <1>3, <2>1 DEF PeopleInv, Counted
  <2>3. People!TypeOK' /\ OneTop' /\ People!NoPeerIsMade' /\ People!TopUntouched'
    BY <1>1, <1>3 DEF PeopleInv, People!TypeOK, OneTop, People!NoPeerIsMade,
       People!TopUntouched, People!Exists
  <2>4. QED
    BY <1>2, <1>3, <2>2, <2>3 DEF PeopleInv
<1>4. CASE /\ as \in People!Assignable(card[gate[r]]) /\ role[u] = "none"
           /\ role' = [role EXCEPT ![u] = as] /\ active' = [active EXCEPT ![u] = TRUE]
           /\ grantor' = [grantor EXCEPT ![u] = People!RankOf(card[gate[r]])]
           /\ slack' = IF \E q \in Desks \ {r} : gate[q] # "none" THEN slack + 1 ELSE slack
  <2>1. /\ role' \in [Accounts -> People!Roles \cup {"none"}]
        /\ grantor' \in [Accounts -> Nat] /\ OneTop' /\ People!NoPeerIsMade'
        /\ role'[u] = as /\ as # "none" /\ \A v \in Accounts : v # u => role'[v] = role[v]
    BY <1>1, <1>4, RoleGiven
  <2>2. active' \in [Accounts -> BOOLEAN] /\ \A v \in Accounts : v # u => active'[v] = active[v]
    BY <1>4 DEF PeopleInv, People!TypeOK
  <2>3. People!Active' \subseteq People!Active \cup {u}
    BY <2>1, <2>2 DEF People!Active, People!Exists
  <2>4. People!TopUntouched'
    <3>1. card[Mssp] = "none" => role[Mssp] = "mssp_admin" /\ active[Mssp]
      BY DEF PeopleInv, People!TopUntouched
    <3>2. card[Mssp] = "none" => Mssp # u
      BY <1>4, <3>1
    <3>3. card[Mssp] = "none" => role'[Mssp] = role[Mssp] /\ active'[Mssp] = active[Mssp]
      BY <2>1, <2>2, <3>2, AccountsAre
    <3>4. QED
      BY <1>1, <3>1, <3>3 DEF People!TopUntouched
  <2>5. slack' \in Nat /\ slack \in Nat
    BY <1>4 DEF PeopleInv
  <2>6. \/ slack' = slack + 1
        \/ /\ slack' = slack
           /\ MaxUsers # 0 => Cardinality(People!Active) < MaxUsers + slack
           /\ \A q \in Desks : gate'[q] = "none"
    <3>1. MaxUsers # 0 => Cardinality(People!Active) < MaxUsers + slack
      BY <1>1 DEF PeopleInv, Counted
    <3>2. QED
      BY <1>2, <1>4, <3>1
  <2>7. Counted' /\ (MaxUsers = 0 \/ Cardinality(People!Active') <= MaxUsers + slack')
    <3>1. \A q \in Desks : gate'[q] \in {"none", gate[q]}
      BY <1>2
    <3>2. QED
      BY <2>3, <2>5, <2>6, <3>1, QuotaStays
  <2>8. People!TypeOK'
    BY <1>1, <2>1, <2>2 DEF PeopleInv, People!TypeOK
  <2>9. QED
    BY <1>2, <2>1, <2>4, <2>5, <2>7, <2>8 DEF PeopleInv
<1>5. QED
  BY <1>3, <1>4 DEF People!Insert

\* Whoever may touch the provider's account is that account.
LEMMA TopIsSafe ==
  ASSUME PeopleInv, NEW a \in Accounts, People!MayManage(a), People!MayTouch(a, Mssp)
  PROVE  card[Mssp] # "none"
<1> SUFFICES ASSUME card[Mssp] = "none" PROVE FALSE
  OBVIOUS
<1>1. role[Mssp] = "mssp_admin" /\ a # Mssp
  BY DEF PeopleInv, People!TopUntouched, People!MayManage
<1>2. card[a] # "mssp_admin" /\ card[a] = "admin"
  BY <1>1 DEF PeopleInv, OneTop, People!MayManage
<1>3. People!RankOf("mssp_admin") < People!RankOf("admin")
  BY <1>1, <1>2 DEF People!MayTouch
<1>4. QED
  BY <1>3 DEF People!RankOf

LEMMA PeopleRole ==
  ASSUME PeopleInv, NEW a \in Accounts, NEW u \in Accounts, NEW as \in People!Roles,
         People!SetRole(a, u, as)
  PROVE  PeopleInv'
<1>1. /\ role[u] # "none" /\ steps' \in 0..MaxSteps
      /\ as \in People!Assignable(card[a]) /\ People!MayManage(a) /\ People!MayTouch(a, u)
      /\ role' = [role EXCEPT ![u] = as]
      /\ grantor' = [grantor EXCEPT ![u] = People!RankOf(card[a])]
      /\ UNCHANGED <<active, card, gate, slack>>
  BY Stepped DEF People!SetRole, People!Exists
<1>2. /\ role' \in [Accounts -> People!Roles \cup {"none"}]
      /\ grantor' \in [Accounts -> Nat] /\ OneTop' /\ People!NoPeerIsMade'
      /\ role'[u] = as /\ as # "none" /\ \A v \in Accounts : v # u => role'[v] = role[v]
  BY <1>1, RoleGiven
<1>3. People!Active' = People!Active
  BY <1>1, <1>2 DEF People!Active, People!Exists
<1>4. People!TopUntouched'
  <2>1. card[Mssp] = "none" => u # Mssp
    BY <1>1, TopIsSafe
  <2>2. QED
    BY <1>1, <1>2, <2>1, AccountsAre DEF PeopleInv, People!TopUntouched
<1>5. Counted' /\ (MaxUsers = 0 \/ Cardinality(People!Active') <= MaxUsers + slack')
  BY <1>1, <1>3 DEF PeopleInv, Counted
<1>6. People!TypeOK'
  BY <1>1, <1>2 DEF PeopleInv, People!TypeOK
<1>7. QED
  BY <1>1, <1>2, <1>4, <1>5, <1>6 DEF PeopleInv

LEMMA PeopleSwitch ==
  ASSUME PeopleInv, NEW a \in Accounts, NEW u \in Accounts, People!SetActive(a, u)
  PROVE  PeopleInv'
<1>1. /\ steps' \in 0..MaxSteps /\ People!MayManage(a) /\ People!MayTouch(a, u)
      /\ active' = [active EXCEPT ![u] = ~active[u]]
      /\ slack' = IF active[u] THEN slack ELSE slack + 1
      /\ UNCHANGED <<role, card, gate, grantor>>
  BY Stepped DEF People!SetActive, PeopleInv, People!TypeOK
<1>2. active \in [Accounts -> BOOLEAN] /\ slack \in Nat
  BY DEF PeopleInv, People!TypeOK
<1>3. /\ active' \in [Accounts -> BOOLEAN] /\ active'[u] = ~active[u]
      /\ \A v \in Accounts : v # u => active'[v] = active[v]
  BY <1>1, <1>2
<1>4. /\ People!Active' \subseteq People!Active \cup {u} /\ slack' \in Nat
      /\ \/ slack' = slack + 1
         \/ slack' = slack /\ People!Active' \subseteq People!Active
  <2>1. CASE active[u]
    BY <1>1, <1>2, <1>3, <2>1 DEF People!Active, People!Exists
  <2>2. CASE ~active[u]
    BY <1>1, <1>2, <1>3, <2>2 DEF People!Active, People!Exists
  <2>3. QED
    BY <2>1, <2>2
<1>5. Counted' /\ (MaxUsers = 0 \/ Cardinality(People!Active') <= MaxUsers + slack')
  <2>1. \A r \in Desks : gate'[r] \in {"none", gate[r]}
    BY <1>1
  <2>2. QED
    BY <1>4, <2>1, QuotaStays
<1>6. People!TopUntouched'
  <2>1. card[Mssp] = "none" => u # Mssp
    BY <1>1, TopIsSafe
  <2>2. card[Mssp] = "none" => role[Mssp] = "mssp_admin" /\ active'[Mssp]
    BY <1>3, <2>1, AccountsAre DEF PeopleInv, People!TopUntouched
  <2>3. QED
    BY <1>1, <2>2 DEF People!TopUntouched
<1>7. People!TypeOK' /\ OneTop' /\ People!NoPeerIsMade'
  BY <1>1, <1>3 DEF PeopleInv, People!TypeOK, OneTop, People!NoPeerIsMade, People!Exists
<1>8. QED
  BY <1>1, <1>4, <1>5, <1>6, <1>7 DEF PeopleInv

LEMMA PeopleStep == PeopleInv /\ [People!Next]_userVars => PeopleInv'
<1>1. ASSUME PeopleInv, UNCHANGED userVars PROVE PeopleInv'
  <2>1. UNCHANGED <<role, active, card, gate, grantor, slack, steps>>
    BY <1>1 DEF userVars
  <2>2. People!Active' = People!Active
    BY <2>1 DEF People!Active, People!Exists
  <2>3. People!TypeOK' /\ OneTop' /\ Counted'
    BY <1>1, <2>1, <2>2 DEF PeopleInv, People!TypeOK, OneTop, Counted
  <2>4. People!NoPeerIsMade' /\ People!TopUntouched'
    BY <1>1, <2>1 DEF PeopleInv, People!NoPeerIsMade, People!Exists, People!TopUntouched
  <2>5. QED
    BY <1>1, <2>1, <2>2, <2>3, <2>4 DEF PeopleInv
<1>2. QED
  BY <1>1, PeopleSigns, PeopleAsk, PeopleInsert, PeopleRole, PeopleSwitch DEF People!Next

LEMMA PeopleEnough ==
  PeopleInv => /\ People!TypeOK /\ People!NoPeerIsMade /\ People!TopUntouched
               /\ People!WithinQuota
BY PeopleSets DEF PeopleInv, People!WithinQuota

-----------------------------------------------------------------------------
(* Whose data a request reads.                                             *)

\* The stamps of a log later than b.
Since(log, b) == {s \in log : s.when > b}
IsLog(log) == IsFiniteSet(log) /\ \A s \in log : s.when \in Int /\ s.when <= minutes

\* Seen from any time in the window, an actor was moved at most as often as its
\* switches were counted, and once more for a switch counted before that took
\* effect since; there is none such while the tenant asked for last is still to
\* come.
PacedLogs(counted, moves, extra) ==
  /\ IsLog(counted) /\ IsLog(moves)
  /\ Cardinality(Since(counted, minutes - Window)) <= MaxSwitches
  /\ \A b \in Int : b >= minutes - Window =>
       Cardinality(Since(moves, b)) <= Cardinality(Since(counted, b)) + extra
Extra(a) == IF last[a] = stay[a] THEN 1 ELSE 0
Paced(a) == PacedLogs(switches[a], moved[a], Extra(a))

\* The tenant asked for last is in the audit log, or could not be noted there.
Noted(a) == last[a] \in {Nobody, noted[a], unnoted[a]}

SwitchInv ==
  /\ Switching!TypeOK /\ minutes \in Nat
  /\ switches = [a \in Actors |-> switches[a]] /\ moved = [a \in Actors |-> moved[a]]
  /\ stay = [a \in Actors |-> stay[a]] /\ noted = [a \in Actors |-> noted[a]]
  /\ unnoted = [a \in Actors |-> unnoted[a]]
  /\ \A a \in Actors : Paced(a) /\ Noted(a)
  /\ Switching!StaysAreNoted

LEMMA SwitchSets ==
  \A S : /\ Switching!Cardinality(S) = Cardinality(S)
         /\ Switching!IsFiniteSet(S) = IsFiniteSet(S)
BY Zenon DEF Switching!Cardinality, Cardinality, Switching!IsFiniteSet, IsFiniteSet

LEMMA Windows == Home \in Clients /\ Window \in Nat /\ MaxSwitches \in Nat
BY AccountsAssumption DEF Switching!SwitchAssumption

\* Parts of a log.
LEMMA Parts ==
  ASSUME NEW log, NEW part_ \in SUBSET log, IsLog(log)
  PROVE  /\ IsLog(part_) /\ Cardinality(part_) \in Nat
         /\ Cardinality(part_) <= Cardinality(log) /\ Cardinality(log) \in Nat
<1>1. IsFiniteSet(part_) /\ Cardinality(part_) <= Cardinality(log)
  BY FS_Subset DEF IsLog
<1>2. QED
  BY <1>1, FS_CardinalityType DEF IsLog

\* What is kept of a log is what is in the window.
LEMMA Kept ==
  ASSUME NEW log, IsLog(log), minutes \in Nat
  PROVE  /\ Switching!Within(log) = Since(log, minutes - Window)
         /\ Switching!Within(log) \in SUBSET log /\ IsLog(Switching!Within(log))
         /\ \A b \in Int : b >= minutes - Window =>
              Since(Switching!Within(log), b) = Since(log, b)
<1>1. \A s \in log : minutes - s.when < Window <=> s.when > minutes - Window
  BY Windows DEF IsLog
<1>2. Switching!Within(log) = Since(log, minutes - Window)
  BY <1>1 DEF Switching!Within, Since
<1>3. IsLog(Switching!Within(log)) /\ Switching!Within(log) \in SUBSET log
  BY FS_Subset DEF IsLog, Switching!Within
<1>4. \A b \in Int : b >= minutes - Window =>
        Since(Switching!Within(log), b) = Since(log, b)
  BY <1>2, Windows DEF Since, IsLog
<1>5. QED
  BY <1>2, <1>3, <1>4

\* A stamp is new.
LEMMA Stamps ==
  ASSUME NEW log, IsLog(log), minutes \in Nat
  PROVE  \E s : /\ s.when = minutes /\ s \notin log
                /\ Switching!Stamped(log) = log \cup {s}
<1> DEFINE N == Cardinality(log)
           W == [when : {minutes}, n : 0..Switching!Cardinality(log)]
           f == [k \in 0..N |-> [when |-> minutes, n |-> k]]
<1>1. N \in Nat /\ IsFiniteSet(log)
  BY FS_CardinalityType DEF IsLog
<1>2. Switching!Cardinality(log) = N
  BY SwitchSets
<1>3. ~(W \subseteq log)
  <2> SUFFICES ASSUME W \subseteq log PROVE FALSE
    OBVIOUS
  <2>1. \A k \in 0..N : [when |-> minutes, n |-> k] \in W
    BY <1>2
  <2>2. f \in [0..N -> log]
    BY <2>1
  <2>3. IsFiniteSet(0..N) /\ Cardinality(0..N) = N + 1
    BY <1>1, FS_Interval
  <2>4. N < N + 1
    BY <1>1
  <2>5. \A x, y \in 0..N : f[x] = f[y] => x = y
    <3>1. TAKE x, y \in 0..N
    <3>2. f[x].n = x /\ f[y].n = y
      OBVIOUS
    <3>3. QED
      BY <3>2
  <2> HIDE DEF f, N
  <2>6. \E x, y \in 0..N : x # y /\ f[x] = f[y]
    BY <1>1, <2>2, <2>3, <2>4, FS_PigeonHole DEF N
  <2>7. QED
    BY <2>5, <2>6
<1> DEFINE s == CHOOSE s \in W : s \notin log
<1>4. s \in W /\ s \notin log
  BY <1>3
<1>5. s.when = minutes
  BY <1>4
<1>6. Switching!Stamped(log) = log \cup {s}
  BY Zenon DEF Switching!Stamped
<1>7. QED
  BY <1>4, <1>5, <1>6

\* What a stamp adds to a log, seen from b.
LEMMA StampsCount ==
  ASSUME NEW log, IsLog(log), minutes \in Nat, NEW b \in Int
  PROVE  LET new == Switching!Stamped(log) IN
         /\ IsLog(new) /\ Cardinality(Since(log, b)) \in Nat
         /\ Cardinality(Since(new, b)) \in Nat
         /\ Cardinality(Since(new, b)) <= Cardinality(Since(log, b)) + 1
         /\ b < minutes => Cardinality(Since(new, b)) = Cardinality(Since(log, b)) + 1
<1> DEFINE new == Switching!Stamped(log)
<1>1. PICK s : s.when = minutes /\ s \notin log /\ new = log \cup {s}
  BY Stamps
<1>2. IsLog(new)
  BY <1>1, FS_AddElement DEF IsLog
<1>3. /\ Since(log, b) \in SUBSET log /\ Since(new, b) \in SUBSET new
      /\ s \notin Since(log, b)
  BY <1>1 DEF Since
<1>4. IsFiniteSet(Since(log, b)) /\ Cardinality(Since(log, b)) \in Nat
      /\ Cardinality(Since(new, b)) \in Nat
  BY <1>2, <1>3, Parts DEF IsLog
<1>5. Cardinality(Since(log, b) \cup {s}) = Cardinality(Since(log, b)) + 1
  BY <1>3, <1>4, FS_AddElement
<1>6. CASE b < minutes
  <2>1. Since(new, b) = Since(log, b) \cup {s}
    BY <1>1, <1>6 DEF Since
  <2>2. QED
    BY <1>2, <1>4, <1>5, <2>1
<1>7. CASE ~(b < minutes)
  <2>1. Since(new, b) = Since(log, b)
    BY <1>1, <1>7 DEF Since
  <2>2. QED
    BY <1>2, <1>4, <1>7, <2>1
<1>8. QED
  BY <1>6, <1>7

LEMMA SinceCounts ==
  ASSUME NEW log, IsLog(log), NEW b
  PROVE  Cardinality(Since(log, b)) \in Nat /\ IsFiniteSet(Since(log, b))
<1>1. Since(log, b) \in SUBSET log
  BY DEF Since
<1>2. QED
  BY <1>1, Parts DEF IsLog

LEMMA MoreExtra ==
  ASSUME NEW counted, NEW moves, PacedLogs(counted, moves, 0)
  PROVE  PacedLogs(counted, moves, 1)
<1>1. ASSUME NEW b \in Int, b >= minutes - Window
      PROVE  Cardinality(Since(moves, b)) <= Cardinality(Since(counted, b)) + 1
  <2>1. /\ Cardinality(Since(moves, b)) <= Cardinality(Since(counted, b)) + 0
        /\ Cardinality(Since(moves, b)) \in Nat /\ Cardinality(Since(counted, b)) \in Nat
    BY <1>1, SinceCounts DEF PacedLogs
  <2>2. QED
    BY <2>1
<1>2. QED
  BY <1>1 DEF PacedLogs

\* A refused switch, and one that is counted.
LEMMA TrimmedPace ==
  ASSUME NEW counted, NEW moves, NEW k, PacedLogs(counted, moves, k), minutes \in Nat
  PROVE  PacedLogs(Switching!Within(counted), moves, k)
<1>1. IsLog(Switching!Within(counted))
      /\ \A b \in Int : b >= minutes - Window =>
           Since(Switching!Within(counted), b) = Since(counted, b)
  BY Kept DEF PacedLogs
<1>2. minutes - Window \in Int /\ minutes - Window >= minutes - Window
  BY Windows
<1>3. QED
  BY <1>1, <1>2 DEF PacedLogs

LEMMA CountedPace ==
  ASSUME NEW counted, NEW moves, NEW k \in {0, 1}, PacedLogs(counted, moves, k),
         minutes \in Nat, Cardinality(Switching!Within(counted)) < MaxSwitches
  PROVE  PacedLogs(Switching!Stamped(Switching!Within(counted)), moves, 0)
<1> DEFINE kept_ == Switching!Within(counted)
           new == Switching!Stamped(kept_)
<1>1. PacedLogs(kept_, moves, k) /\ IsLog(kept_) /\ IsLog(moves)
      /\ kept_ = Since(counted, minutes - Window)
  BY TrimmedPace, Kept DEF PacedLogs
<1>2. Cardinality(kept_) < MaxSwitches
  OBVIOUS
<1>3. IsLog(new)
  BY <1>1, StampsCount
<1> HIDE DEF kept_
<1>4. Cardinality(Since(new, minutes - Window)) <= MaxSwitches
  <2> DEFINE b == minutes - Window
  <2>1. b \in Int
    BY Windows
  <2>2. Since(kept_, b) \in SUBSET kept_
    BY DEF Since
  <2>3. Cardinality(Since(kept_, b)) <= Cardinality(kept_) /\ Cardinality(kept_) \in Nat
    BY <1>1, <2>2, Parts
  <2>4. /\ Cardinality(Since(kept_, b)) \in Nat /\ Cardinality(Since(new, b)) \in Nat
        /\ Cardinality(Since(new, b)) <= Cardinality(Since(kept_, b)) + 1
    BY <1>1, <2>1, StampsCount
  <2>5. QED
    BY <1>2, <2>3, <2>4, Windows
<1>5. ASSUME NEW b \in Int, b >= minutes - Window
      PROVE  Cardinality(Since(moves, b)) <= Cardinality(Since(new, b)) + 0
  <2>1. /\ Cardinality(Since(kept_, b)) \in Nat /\ Cardinality(Since(new, b)) \in Nat
        /\ b < minutes => Cardinality(Since(new, b)) = Cardinality(Since(kept_, b)) + 1
    BY <1>1, StampsCount
  <2>2. /\ Cardinality(Since(moves, b)) \in Nat
        /\ Cardinality(Since(moves, b)) <= Cardinality(Since(kept_, b)) + k
    BY <1>1, <1>5, SinceCounts DEF PacedLogs
  <2>3. CASE b < minutes
    BY <2>1, <2>2, <2>3
  <2>4. CASE ~(b < minutes)
    <3>1. Since(moves, b) = {}
      BY <1>1, <2>4 DEF IsLog, Since
    <3>2. Cardinality(Since(moves, b)) = 0
      BY <3>1, FS_EmptySet
    <3>3. QED
      BY <2>1, <3>2
  <2>5. QED
    BY <2>3, <2>4
<1> HIDE DEF new
<1>6. PacedLogs(new, moves, 0)
  BY <1>1, <1>3, <1>4, <1>5 DEF PacedLogs
<1>7. QED
  BY <1>6 DEF new, kept_

\* A switch that takes effect.
LEMMA MovedPace ==
  ASSUME NEW counted, NEW moves, PacedLogs(counted, moves, 0), minutes \in Nat
  PROVE  PacedLogs(counted, Switching!Stamped(Switching!Within(moves)), 1)
<1> DEFINE kept_ == Switching!Within(moves)
           new == Switching!Stamped(kept_)
<1>1. /\ IsLog(kept_) /\ IsLog(counted)
      /\ \A b \in Int : b >= minutes - Window => Since(kept_, b) = Since(moves, b)
  BY Kept DEF PacedLogs
<1>2. IsLog(new)
  BY <1>1, StampsCount
<1> HIDE DEF kept_
<1>3. ASSUME NEW b \in Int, b >= minutes - Window
      PROVE  Cardinality(Since(new, b)) <= Cardinality(Since(counted, b)) + 1
  <2>1. /\ Cardinality(Since(kept_, b)) \in Nat /\ Cardinality(Since(new, b)) \in Nat
        /\ Cardinality(Since(new, b)) <= Cardinality(Since(kept_, b)) + 1
    BY <1>1, StampsCount
  <2>2. /\ Cardinality(Since(counted, b)) \in Nat
        /\ Cardinality(Since(kept_, b)) <= Cardinality(Since(counted, b)) + 0
    BY <1>1, <1>3, SinceCounts DEF PacedLogs
  <2>3. QED
    BY <2>1, <2>2
<1> HIDE DEF new
<1>4. PacedLogs(counted, new, 1)
  BY <1>1, <1>2, <1>3 DEF PacedLogs
<1>5. QED
  BY <1>4 DEF new, kept_

LEMMA SwitchInit == Switching!Init => SwitchInv
<1> SUFFICES ASSUME Switching!Init PROVE SwitchInv
  OBVIOUS
<1>1. /\ minutes = 0 /\ trading = Clients
      /\ switches = [a \in Actors |-> {}] /\ moved = [a \in Actors |-> {}]
      /\ last = [a \in Actors |-> Nobody] /\ served = [a \in Actors |-> Home]
      /\ stay = last /\ noted = last /\ unnoted = last
  BY DEF Switching!Init
<1>2. IsLog({}) /\ \A b : Since({}, b) = {}
  BY FS_EmptySet DEF IsLog, Since
<1>3. PacedLogs({}, {}, 1)
  <2>1. Cardinality({}) = 0
    BY FS_EmptySet
  <2>2. QED
    BY <1>2, <2>1, Windows DEF PacedLogs
<1>4. \A a \in Actors : Paced(a) /\ Noted(a)
  BY <1>1, <1>3 DEF Paced, Extra, Noted
<1>5. Switching!TypeOK /\ Switching!StaysAreNoted
  BY <1>1, Windows DEF Switching!TypeOK, Switching!StaysAreNoted
<1>6. QED
  BY <1>1, <1>4, <1>5 DEF SwitchInv

LEMMA SwitchTick == SwitchInv /\ Switching!Tick => SwitchInv'
<1> SUFFICES ASSUME SwitchInv, Switching!Tick PROVE SwitchInv'
  OBVIOUS
<1>1. /\ minutes \in Nat /\ minutes' = minutes + 1
      /\ UNCHANGED <<trading, switches, last, served, stay, moved, noted, unnoted>>
  BY DEF SwitchInv, Switching!Tick
<1>2. ASSUME NEW a \in Actors, NEW soon \in Nat, soon = minutes + 1
      PROVE  /\ \A s \in switches[a] \cup moved[a] : s.when \in Int /\ s.when <= soon
             /\ IsFiniteSet(switches[a]) /\ IsFiniteSet(moved[a])
             /\ Cardinality(Since(switches[a], soon - Window)) <= MaxSwitches
             /\ \A b \in Int : b >= soon - Window =>
                  Cardinality(Since(moved[a], b))
                    <= Cardinality(Since(switches[a], b)) + Extra(a)
  <2>1. PacedLogs(switches[a], moved[a], Extra(a))
    BY DEF SwitchInv, Paced
  <2>2. \A n \in Int : n <= minutes => n <= soon
    BY <1>1, <1>2
  <2>3. \A b \in Int : b >= soon - Window => b >= minutes - Window
    BY <1>1, <1>2, Windows
  <2>4. Since(switches[a], soon - Window) \in SUBSET Since(switches[a], minutes - Window)
    <3>1. \A n \in Int : n > soon - Window => n > minutes - Window
      BY <1>1, <1>2, Windows
    <3>2. QED
      BY <2>1, <3>1 DEF Since, PacedLogs, IsLog
  <2>5. Cardinality(Since(switches[a], soon - Window)) <= MaxSwitches
    <3>1. /\ IsFiniteSet(Since(switches[a], minutes - Window))
          /\ Cardinality(Since(switches[a], minutes - Window)) \in Nat
          /\ Cardinality(Since(switches[a], soon - Window)) \in Nat
      BY <2>1, SinceCounts DEF PacedLogs
    <3>2. Cardinality(Since(switches[a], soon - Window))
            <= Cardinality(Since(switches[a], minutes - Window))
      BY <2>4, <3>1, FS_Subset
    <3>3. Cardinality(Since(switches[a], minutes - Window)) <= MaxSwitches
      BY <2>1 DEF PacedLogs
    <3>4. QED
      BY <3>1, <3>2, <3>3, Windows
  <2>6. QED
    BY <2>1, <2>2, <2>3, <2>5 DEF PacedLogs, IsLog
<1>3. \A a \in Actors : Paced(a)' /\ Noted(a)'
  <2>1. TAKE a \in Actors
  <2> DEFINE soon == minutes + 1
  <2>2. soon \in Nat /\ soon = minutes + 1 /\ minutes' = soon
    BY <1>1
  <2> HIDE DEF soon
  <2>3. Paced(a)'
    BY <1>1, <1>2, <2>2 DEF Paced, PacedLogs, IsLog, Since, Extra
  <2>4. Noted(a)'
    BY <1>1 DEF SwitchInv, Noted
  <2>5. QED
    BY <2>3, <2>4
<1>4. minutes' \in Nat
  BY <1>1
<1>5. Switching!TypeOK' /\ Switching!StaysAreNoted'
  BY <1>1 DEF SwitchInv, Switching!TypeOK, Switching!StaysAreNoted
<1>6. QED
  BY <1>1, <1>3, <1>4, <1>5 DEF SwitchInv

LEMMA SwitchFlip == ASSUME SwitchInv, NEW t \in Clients, Switching!Flip(t) PROVE SwitchInv'
<1>1. /\ trading' \subseteq trading \cup {t}
      /\ UNCHANGED <<minutes, switches, last, served, stay, moved, noted, unnoted>>
  BY DEF Switching!Flip
<1>2. \A a \in Actors : Paced(a)' /\ Noted(a)'
  BY <1>1 DEF SwitchInv, Paced, PacedLogs, IsLog, Since, Extra, Noted
<1>3. Switching!TypeOK' /\ Switching!StaysAreNoted'
  BY <1>1 DEF SwitchInv, Switching!TypeOK, Switching!StaysAreNoted
<1>4. QED
  BY <1>1, <1>2, <1>3 DEF SwitchInv

\* What a step of one actor changes of the others: nothing.
LEMMA OneActor ==
  ASSUME SwitchInv, NEW a \in Actors, UNCHANGED <<minutes, trading>>,
         NEW cs, NEW ms, NEW l \in Clients \cup {Nobody}, NEW sv \in Clients \cup {Nobody},
         NEW sy, NEW nt, NEW un,
         switches' = [switches EXCEPT ![a] = cs], moved' = [moved EXCEPT ![a] = ms],
         last' = [last EXCEPT ![a] = l], served' = [served EXCEPT ![a] = sv],
         stay' = [stay EXCEPT ![a] = sy], noted' = [noted EXCEPT ![a] = nt],
         unnoted' = [unnoted EXCEPT ![a] = un],
         PacedLogs(cs, ms, IF l = sy THEN 1 ELSE 0),
         l \in {Nobody, nt, un}, sv \in {Home, Nobody, nt, un}
  PROVE  SwitchInv'
<1>1. /\ switches' = [c \in Actors |-> switches'[c]] /\ moved' = [c \in Actors |-> moved'[c]]
      /\ stay' = [c \in Actors |-> stay'[c]] /\ noted' = [c \in Actors |-> noted'[c]]
      /\ unnoted' = [c \in Actors |-> unnoted'[c]]
      /\ last' \in [Actors -> Clients \cup {Nobody}]
      /\ served' \in [Actors -> Clients \cup {Nobody}]
  BY DEF SwitchInv, Switching!TypeOK
<1>2. /\ switches'[a] = cs /\ moved'[a] = ms /\ last'[a] = l /\ served'[a] = sv
      /\ stay'[a] = sy /\ noted'[a] = nt /\ unnoted'[a] = un
  BY DEF SwitchInv, Switching!TypeOK
<1>3. ASSUME NEW c \in Actors, c # a
      PROVE  /\ switches'[c] = switches[c] /\ moved'[c] = moved[c] /\ last'[c] = last[c]
             /\ served'[c] = served[c] /\ stay'[c] = stay[c] /\ noted'[c] = noted[c]
             /\ unnoted'[c] = unnoted[c]
  BY <1>3 DEF SwitchInv, Switching!TypeOK
<1>4. ASSUME NEW c \in Actors
      PROVE  /\ Paced(c)' /\ Noted(c)'
             /\ served'[c] \notin {Home, Nobody} => served'[c] \in {noted'[c], unnoted'[c]}
  <2>1. CASE c = a
    <3>1. Paced(a)'
      BY <1>2 DEF Paced, PacedLogs, IsLog, Since, Extra
    <3>2. Noted(a)'
      BY <1>2 DEF Noted
    <3>3. QED
      BY <1>2, <2>1, <3>1, <3>2
  <2>2. CASE c # a
    <3>1. Paced(c) /\ Noted(c)
          /\ (served[c] \notin {Home, Nobody} => served[c] \in {noted[c], unnoted[c]})
      BY DEF SwitchInv, Switching!StaysAreNoted
    <3>2. Paced(c)'
      BY <1>3, <2>2, <3>1 DEF Paced, PacedLogs, IsLog, Since, Extra
    <3>3. Noted(c)'
      BY <1>3, <2>2, <3>1 DEF Noted
    <3>4. QED
      BY <1>3, <2>2, <3>1, <3>2, <3>3
  <2>3. QED
    BY <2>1, <2>2
<1>5. Switching!TypeOK' /\ Switching!StaysAreNoted'
  BY <1>1, <1>4 DEF SwitchInv, Switching!TypeOK, Switching!StaysAreNoted
<1>6. QED
  BY <1>1, <1>4, <1>5 DEF SwitchInv

LEMMA SameAt ==
  ASSUME NEW f, f = [c \in Actors |-> f[c]], NEW a \in Actors
  PROVE  f = [f EXCEPT ![a] = f[a]]
OBVIOUS

LEMMA Counting ==
  ASSUME SwitchInv, NEW a \in Actors, NEW t, Switching!Count(a, t)
  PROVE  \E cs : /\ switches' = [switches EXCEPT ![a] = cs] /\ last' = [last EXCEPT ![a] = t]
                 /\ PacedLogs(cs, moved[a], IF t = stay[a] THEN 1 ELSE 0)
<1>1. /\ PacedLogs(switches[a], moved[a], Extra(a)) /\ minutes \in Nat /\ Extra(a) \in {0, 1}
      /\ switches = [c \in Actors |-> switches[c]] /\ last = [c \in Actors |-> last[c]]
  BY DEF SwitchInv, Paced, Extra, Switching!TypeOK
<1>2. CASE last[a] = t
  <2>1. UNCHANGED <<switches, last>>
    BY <1>2 DEF Switching!Count, Switching!IsNew
  <2>2. switches = [switches EXCEPT ![a] = switches[a]] /\ last = [last EXCEPT ![a] = last[a]]
    BY <1>1, SameAt
  <2>3. PacedLogs(switches[a], moved[a], IF t = stay[a] THEN 1 ELSE 0)
    BY <1>1, <1>2 DEF Extra
  <2>4. QED
    BY <1>2, <2>1, <2>2, <2>3
<1>3. CASE last[a] # t
  <2> DEFINE within == Switching!Within(switches[a])
             cs == Switching!Stamped(within)
  <2>1. /\ switches' = [switches EXCEPT ![a] = cs] /\ last' = [last EXCEPT ![a] = t]
        /\ ~(Cardinality(within) >= MaxSwitches)
    BY <1>3, SwitchSets DEF Switching!Count, Switching!IsNew, Switching!Refused, Switching!Recent
  <2>2. Cardinality(within) \in Nat
    <3>1. IsLog(within)
      BY <1>1, Kept DEF PacedLogs
    <3>2. QED
      BY <3>1, FS_CardinalityType DEF IsLog
  <2>3. Cardinality(within) < MaxSwitches
    <3>1. \A m \in Nat : ~(m >= MaxSwitches) => m < MaxSwitches
      BY Windows
    <3>2. QED
      BY <2>1, <2>2, <3>1
  <2>4. PacedLogs(cs, moved[a], 0) /\ PacedLogs(cs, moved[a], 1)
    BY <1>1, <2>3, CountedPace, MoreExtra
  <2>5. PacedLogs(cs, moved[a], IF t = stay[a] THEN 1 ELSE 0)
    BY <2>4
  <2>6. QED
    BY <2>1, <2>5
<1>4. QED
  BY <1>2, <1>3

LEMMA AtHomeServed ==
  ASSUME SwitchInv, NEW a \in Actors, Switching!Serve(a, Home)
  PROVE  /\ served' = [served EXCEPT ![a] = Home]
         /\ stay' = [stay EXCEPT ![a] = stay[a]] /\ moved' = [moved EXCEPT ![a] = moved[a]]
<1>1. served' = [served EXCEPT ![a] = Home] /\ UNCHANGED <<stay, moved>>
  BY DEF Switching!Serve
<1>2. QED
  BY <1>1, SameAt DEF SwitchInv

\* A request without a header that counts, and one that is refused.
LEMMA StaysIn ==
  ASSUME SwitchInv, NEW a \in Actors, NEW t \in Clients \cup {Nobody},
         Switching!AtHome(a, t) \/ Switching!TooMany(a, t)
  PROVE  SwitchInv'
<1>1. /\ last = [last EXCEPT ![a] = last[a]] /\ noted = [noted EXCEPT ![a] = noted[a]]
      /\ unnoted = [unnoted EXCEPT ![a] = unnoted[a]]
      /\ switches = [switches EXCEPT ![a] = switches[a]]
      /\ stay = [stay EXCEPT ![a] = stay[a]] /\ moved = [moved EXCEPT ![a] = moved[a]]
  <2>1. last = [c \in Actors |-> last[c]]
    BY DEF SwitchInv, Switching!TypeOK
  <2>2. QED
    BY <2>1, SameAt DEF SwitchInv
<1>2. /\ last[a] \in {Nobody, noted[a], unnoted[a]} /\ last[a] \in Clients \cup {Nobody}
      /\ PacedLogs(switches[a], moved[a], IF last[a] = stay[a] THEN 1 ELSE 0)
  BY DEF SwitchInv, Noted, Paced, Extra, Switching!TypeOK
<1> DEFINE cs == switches[a]  ms == moved[a]  l == last[a]  sy == stay[a]
           nt == noted[a]  un == unnoted[a]
<1>3. CASE Switching!AtHome(a, t)
  <2>1. /\ UNCHANGED <<minutes, trading, switches, last, noted, unnoted>>
        /\ Switching!Serve(a, Home)
    BY <1>3 DEF Switching!AtHome
  <2>2. /\ served' = [served EXCEPT ![a] = Home]
        /\ stay' = [stay EXCEPT ![a] = sy] /\ moved' = [moved EXCEPT ![a] = ms]
    BY <2>1, AtHomeServed
  <2>3. Home \in Clients \cup {Nobody} /\ Home \in {Home, Nobody, nt, un}
    BY Windows
  <2>4. /\ switches' = [switches EXCEPT ![a] = cs] /\ last' = [last EXCEPT ![a] = l]
        /\ noted' = [noted EXCEPT ![a] = nt] /\ unnoted' = [unnoted EXCEPT ![a] = un]
        /\ UNCHANGED <<minutes, trading>>
    BY <1>1, <2>1
  <2>5. /\ l \in Clients \cup {Nobody} /\ PacedLogs(cs, ms, IF l = sy THEN 1 ELSE 0)
        /\ l \in {Nobody, nt, un}
    BY <1>2
  <2> HIDE DEF cs, ms, l, sy, nt, un
  <2>6. QED
    BY <2>2, <2>3, <2>4, <2>5, OneActor
<1>4. CASE Switching!TooMany(a, t)
  <2> DEFINE within == Switching!Within(switches[a])
  <2>1. /\ UNCHANGED <<minutes, trading, last, stay, moved, noted, unnoted>>
        /\ switches' = [switches EXCEPT ![a] = within]
        /\ served' = [served EXCEPT ![a] = Nobody]
    BY <1>4 DEF Switching!TooMany, Switching!Recent
  <2>2. PacedLogs(within, ms, IF l = sy THEN 1 ELSE 0)
    BY <1>2, TrimmedPace DEF SwitchInv
  <2>3. Nobody \in Clients \cup {Nobody} /\ Nobody \in {Home, Nobody, nt, un}
    OBVIOUS
  <2>4. /\ switches' = [switches EXCEPT ![a] = within] /\ UNCHANGED <<minutes, trading>>
        /\ served' = [served EXCEPT ![a] = Nobody]
        /\ moved' = [moved EXCEPT ![a] = ms] /\ last' = [last EXCEPT ![a] = l]
        /\ stay' = [stay EXCEPT ![a] = sy]
        /\ noted' = [noted EXCEPT ![a] = nt] /\ unnoted' = [unnoted EXCEPT ![a] = un]
    BY <1>1, <2>1
  <2>5. l \in Clients \cup {Nobody} /\ l \in {Nobody, nt, un}
    BY <1>2
  <2> HIDE DEF within, ms, l, sy, nt, un
  <2>6. QED
    BY <2>2, <2>3, <2>4, <2>5, OneActor
<1>5. QED
  BY <1>3, <1>4

\* A tenant that cannot be read, or is not active.
LEMMA StaysHome ==
  ASSUME SwitchInv, NEW a \in Actors, NEW t \in Clients \cup {Nobody},
         Switching!LeftAtHome(a, t)
  PROVE  SwitchInv'
<1>1. /\ UNCHANGED <<minutes, trading, noted>>
      /\ Switching!Count(a, t) /\ Switching!Serve(a, Home)
      /\ IF last[a] # t THEN unnoted' = [unnoted EXCEPT ![a] = t] ELSE UNCHANGED unnoted
  BY DEF Switching!LeftAtHome, Switching!IsNew
<1>2. PICK cs : /\ switches' = [switches EXCEPT ![a] = cs] /\ last' = [last EXCEPT ![a] = t]
                /\ PacedLogs(cs, moved[a], IF t = stay[a] THEN 1 ELSE 0)
  BY <1>1, Counting
<1>3. /\ served' = [served EXCEPT ![a] = Home]
      /\ stay' = [stay EXCEPT ![a] = stay[a]] /\ moved' = [moved EXCEPT ![a] = moved[a]]
  BY <1>1, AtHomeServed
<1>4. PICK un : unnoted' = [unnoted EXCEPT ![a] = un] /\ t \in {Nobody, noted[a], un}
  <2>1. CASE last[a] = t
    <3>1. unnoted' = unnoted /\ unnoted = [unnoted EXCEPT ![a] = unnoted[a]]
      BY <1>1, <2>1, SameAt DEF SwitchInv
    <3>2. QED
      BY <2>1, <3>1 DEF SwitchInv, Noted
  <2>2. CASE last[a] # t
    BY <1>1, <2>2
  <2>3. QED
    BY <2>1, <2>2
<1>5. /\ noted' = [noted EXCEPT ![a] = noted[a]]
      /\ Home \in Clients \cup {Nobody} /\ Home \in {Home, Nobody, noted[a], un}
  BY <1>1, SameAt, Windows DEF SwitchInv
<1>6. QED
  BY <1>1, <1>2, <1>3, <1>4, <1>5, OneActor

\* A request that is served by another tenant.
LEMMA GoesAbroad ==
  ASSUME SwitchInv, NEW a \in Actors, NEW t \in Clients \cup {Nobody}, t # Home,
         Switching!Abroad(a, t)
  PROVE  SwitchInv' /\ t \in trading /\ trading' = trading
         /\ served' = [served EXCEPT ![a] = t]
<1>1. /\ UNCHANGED <<minutes, trading>> /\ t \in trading
      /\ Switching!Count(a, t) /\ Switching!Serve(a, t)
      /\ IF last[a] = t THEN UNCHANGED <<noted, unnoted>>
         ELSE \/ /\ noted' = [noted EXCEPT ![a] = t]
                 /\ unnoted' = [unnoted EXCEPT ![a] = Nobody]
              \/ noted' = noted /\ unnoted' = [unnoted EXCEPT ![a] = t]
  BY DEF Switching!Abroad, Switching!IsNew, Switching!Allowed
<1>2. PICK cs : /\ switches' = [switches EXCEPT ![a] = cs] /\ last' = [last EXCEPT ![a] = t]
                /\ PacedLogs(cs, moved[a], IF t = stay[a] THEN 1 ELSE 0)
  BY <1>1, Counting
<1>3. served' = [served EXCEPT ![a] = t]
  BY <1>1 DEF Switching!Serve
<1>4. PICK ms, sy : /\ moved' = [moved EXCEPT ![a] = ms] /\ stay' = [stay EXCEPT ![a] = sy]
                    /\ PacedLogs(cs, ms, IF t = sy THEN 1 ELSE 0)
  <2>1. Switching!Serve(a, t) /\ PacedLogs(cs, moved[a], IF t = stay[a] THEN 1 ELSE 0)
    BY <1>1, <1>2
  <2>2. CASE t = stay[a]
    <3>1. UNCHANGED <<stay, moved>>
      BY <2>1, <2>2 DEF Switching!Serve
    <3>2. stay = [stay EXCEPT ![a] = stay[a]] /\ moved = [moved EXCEPT ![a] = moved[a]]
      BY SameAt DEF SwitchInv
    <3>3. QED
      BY <2>1, <3>1, <3>2
  <2>3. CASE t # stay[a]
    <3> DEFINE ms == Switching!Stamped(Switching!Within(moved[a]))
    <3>1. /\ stay' = [stay EXCEPT ![a] = t] /\ moved' = [moved EXCEPT ![a] = ms]
      BY <2>1, <2>3 DEF Switching!Serve, SwitchInv
    <3>2. PacedLogs(cs, moved[a], 0) /\ minutes \in Nat
      BY <2>1, <2>3 DEF SwitchInv
    <3>3. PacedLogs(cs, ms, 1)
      BY <3>2, MovedPace
    <3> HIDE DEF ms
    <3>4. PacedLogs(cs, ms, IF t = t THEN 1 ELSE 0)
      BY <3>3
    <3>5. QED
      BY <3>1, <3>4
  <2>4. QED
    BY <2>2, <2>3
<1>5. PICK nt, un : /\ noted' = [noted EXCEPT ![a] = nt] /\ unnoted' = [unnoted EXCEPT ![a] = un]
                    /\ t \in {Nobody, nt, un}
  <2>1. noted = [noted EXCEPT ![a] = noted[a]] /\ unnoted = [unnoted EXCEPT ![a] = unnoted[a]]
    BY SameAt DEF SwitchInv
  <2>2. CASE last[a] = t
    <3>1. t \in {Nobody, noted[a], unnoted[a]} /\ noted' = noted /\ unnoted' = unnoted
      BY <1>1, <2>2 DEF SwitchInv, Noted
    <3>2. QED
      BY <2>1, <3>1
  <2>3. CASE last[a] # t
    BY <1>1, <2>1, <2>3
  <2>4. QED
    BY <2>2, <2>3
<1>6. t \in {Home, Nobody, nt, un}
  BY <1>5
<1>7. SwitchInv'
  BY <1>1, <1>2, <1>3, <1>4, <1>5, <1>6, OneActor
<1>8. QED
  BY <1>1, <1>3, <1>7

\* What NoneAbroad says of a step.
HomeOrAsked ==
  \A a \in Actors :
    served'[a] \notin {Home, Nobody} /\ served'[a] # served[a] =>
      a \in Providers /\ served'[a] \in trading

LEMMA SwitchStep ==
  SwitchInv /\ [Switching!Next]_switchVars => SwitchInv' /\ [HomeOrAsked]_switchVars
<1> SUFFICES ASSUME SwitchInv, [Switching!Next]_switchVars
             PROVE  SwitchInv' /\ [HomeOrAsked]_switchVars
  OBVIOUS
<1>1. CASE UNCHANGED switchVars
  BY <1>1 DEF switchVars, SwitchInv, Switching!TypeOK, Paced, PacedLogs, IsLog, Since, Extra,
     Noted, Switching!StaysAreNoted
<1>2. CASE Switching!Tick
  BY <1>2, SwitchTick DEF Switching!Tick, HomeOrAsked
<1>3. ASSUME NEW t \in Clients, Switching!Flip(t) PROVE SwitchInv' /\ HomeOrAsked
  BY <1>3, SwitchFlip DEF Switching!Flip, HomeOrAsked
<1>4. ASSUME NEW a \in Actors, NEW t \in Clients \cup {Nobody}, Switching!Request(a, t)
      PROVE  SwitchInv' /\ HomeOrAsked
  <2>1. served \in [Actors -> Clients \cup {Nobody}]
    BY DEF SwitchInv, Switching!TypeOK
  <2>2. CASE Switching!AtHome(a, t) \/ Switching!TooMany(a, t) \/ Switching!LeftAtHome(a, t)
    <3>1. \E sv \in {Home, Nobody} : served' = [served EXCEPT ![a] = sv]
      BY <2>2 DEF Switching!AtHome, Switching!TooMany, Switching!LeftAtHome, Switching!Serve
    <3>2. HomeOrAsked
      BY <2>1, <3>1 DEF HomeOrAsked
    <3>3. QED
      BY <2>2, <3>2, StaysIn, StaysHome
  <2>3. CASE Switching!Override(a, t) # Nobody /\ Switching!Abroad(a, t)
    <3>1. a \in Providers /\ t # Home
      BY <2>3 DEF Switching!Override, Switching!AsAsked
    <3>2. SwitchInv' /\ t \in trading /\ served' = [served EXCEPT ![a] = t]
      BY <2>3, <3>1, GoesAbroad
    <3>3. HomeOrAsked
      BY <2>1, <3>1, <3>2 DEF HomeOrAsked
    <3>4. QED
      BY <3>2, <3>3
  <2>4. QED
    BY <1>4, <2>2, <2>3 DEF Switching!Request
<1>5. QED
  BY <1>1, <1>2, <1>3, <1>4 DEF Switching!Next

LEMMA SwitchEnough ==
  SwitchInv => Switching!TypeOK /\ Switching!SwitchesArePaced /\ Switching!StaysAreNoted
<1> SUFFICES ASSUME SwitchInv, NEW a \in Actors
             PROVE  Switching!Cardinality(Switching!Within(moved[a])) <= MaxSwitches + 1
  BY DEF SwitchInv, Switching!SwitchesArePaced
<1> DEFINE b == minutes - Window
<1>1. PacedLogs(switches[a], moved[a], Extra(a)) /\ minutes \in Nat /\ Extra(a) \in {0, 1}
  BY DEF SwitchInv, Paced, Extra
<1>2. Switching!Within(moved[a]) = Since(moved[a], b)
  BY <1>1, Kept DEF PacedLogs
<1>3. /\ Cardinality(Since(moved[a], b)) \in Nat /\ Cardinality(Since(switches[a], b)) \in Nat
  BY <1>1, SinceCounts DEF PacedLogs
<1>4. b \in Int /\ b >= minutes - Window
  BY <1>1, Windows
<1>5. /\ Cardinality(Since(moved[a], b)) <= Cardinality(Since(switches[a], b)) + Extra(a)
      /\ Cardinality(Since(switches[a], b)) <= MaxSwitches
  BY <1>1, <1>4 DEF PacedLogs
<1> HIDE DEF b
<1>6. Cardinality(Since(moved[a], b)) <= MaxSwitches + 1
  BY <1>1, <1>3, <1>5, Windows
<1>7. QED
  BY <1>2, <1>6, SwitchSets

-----------------------------------------------------------------------------
(* The guidance files and their reload.                                    *)

Starting == {"start enrichment", "start engine"}
Reloading == {"documents", "enrichment", "engine", "answer"}

\* Nobody reads or reloads before the service is up, and an engine that read
\* no policy has none.
LivesTrue ==
  /\ at \in Starting => ~up
  /\ ~up => cache = Guides!None /\ reader = Guides!None /\ at \notin Reloading /\ ~loaded
  /\ ~loaded /\ up => policy = Guides!Unread

\* What a reload that went well so far, beside no edit, has brought about: the
\* loader first, then the enrichment service, then the engine.
LoaderIsNew ==
  \A f \in Guides!Files : loader[f] = disk[f] \/ (f = "playbook" /\ disk[f] = Guides!Unread)
ReloadTrue ==
  ok /\ held =>
    /\ at \in {"enrichment", "engine", "answer"} => LoaderIsNew
    /\ at \in {"engine", "answer"} => criteria = disk["risk"]
    /\ at = "answer" => policy = disk["escalation"]

\* What a thread rendered is what the loader holds, unless the reload raced it; at
\* the reload's first step there is none but such a text.
TextsTrue ==
  \/ raced
  \/ /\ at = "documents" => cache = Guides!None /\ reader = Guides!None
     /\ {cache, reader} \subseteq {Guides!None, loader["risk"]}

GuidesInv ==
  /\ Guides!TypeOK /\ edits \in 0..MaxEdits /\ {up, loaded} \subseteq BOOLEAN
  /\ LivesTrue /\ ReloadTrue /\ TextsTrue

\* A reload leaves a consumer what it had, and a start gives the engine what is there.
KeepsWhatItHad ==
  /\ up /\ up' =>
       /\ criteria # Guides!Unread => criteria' # Guides!Unread
       /\ policy' # policy => ~Guides!Rejected(policy') \/ policy = Guides!Unread
       /\ loader["playbook"] # Guides!Unread => loader'["playbook"] # Guides!Unread
  /\ ~up /\ up' /\ Guides!Readable => policy' = disk["escalation"]

LEMMA GuideFacts ==
  /\ MaxEdits \in Nat /\ Guides!Versions = 0..MaxEdits + 1
  /\ Guides!Unread = 0 /\ Guides!None = -1 /\ 0 \in Guides!Versions /\ 1 \in Guides!Versions
  /\ Guides!Files = {"risk", "escalation", "rules", "playbook"}
BY GuidanceAssumption DEF Guides!GuidanceAssumption, Guides!Versions, Guides!Unread,
   Guides!None, Guides!Files

LEMMA GuidesInit == Guides!Init => GuidesInv
<1> SUFFICES ASSUME Guides!Init PROVE GuidesInv
  OBVIOUS
<1>1. /\ disk = [f \in Guides!Files |-> 1] /\ loader = disk /\ up = TRUE /\ loaded = TRUE
      /\ always = 1 /\ criteria = 1 /\ policy = 1 /\ cache = Guides!None
      /\ reader = Guides!None /\ at = "idle" /\ edits = 0
  BY DEF Guides!Init, Guides!Fresh
<1>2. Guides!TypeOK /\ edits \in 0..MaxEdits /\ {up, loaded} \subseteq BOOLEAN
  BY <1>1, GuideFacts DEF Guides!TypeOK
<1>3. LivesTrue /\ ReloadTrue /\ TextsTrue
  BY <1>1 DEF LivesTrue, ReloadTrue, TextsTrue, Starting, Reloading
<1>4. QED
  BY <1>2, <1>3 DEF GuidesInv

LEMMA GuidesEdit == ASSUME GuidesInv, Guides!Edit PROVE GuidesInv' /\ KeepsWhatItHad
<1>1. /\ edits < MaxEdits /\ edits' = edits + 1 /\ held' = FALSE
      /\ UNCHANGED <<up, loader, always, criteria, policy, loaded, cache, reader, at, ok,
                     raced>>
  BY DEF Guides!Edit, Guides!uses, Guides!endpoint
<1>2. PICK f \in Guides!Files, v \in {0, edits + 2} : disk' = [disk EXCEPT ![f] = v]
  BY GuideFacts DEF Guides!Edit
<1>3. edits' \in 0..MaxEdits /\ v \in Guides!Versions
  BY <1>1, <1>2, GuideFacts DEF GuidesInv
<1>4. Guides!TypeOK'
  BY <1>1, <1>2, <1>3 DEF GuidesInv, Guides!TypeOK
<1>5. LivesTrue' /\ ReloadTrue' /\ TextsTrue'
  BY <1>1 DEF GuidesInv, LivesTrue, ReloadTrue, TextsTrue
<1>6. QED
  BY <1>1, <1>3, <1>4, <1>5 DEF GuidesInv, KeepsWhatItHad

LEMMA GuidesStop == ASSUME GuidesInv, Guides!Stop PROVE GuidesInv' /\ KeepsWhatItHad
<1>1. /\ up' = FALSE /\ cache' = Guides!None /\ reader' = Guides!None /\ at' = "idle"
      /\ loaded' = FALSE
      /\ UNCHANGED <<disk, loader, always, criteria, policy, raced, held, edits>>
  BY DEF Guides!Stop
<1>2. Guides!TypeOK' /\ LivesTrue' /\ ReloadTrue' /\ TextsTrue'
  BY <1>1 DEF GuidesInv, Guides!TypeOK, LivesTrue, ReloadTrue, TextsTrue, Starting, Reloading
<1>3. QED
  BY <1>1, <1>2 DEF GuidesInv, KeepsWhatItHad

LEMMA GuidesStart ==
  ASSUME GuidesInv, Guides!StartDocuments \/ Guides!StartEnrichment \/ Guides!StartEngine
  PROVE  GuidesInv' /\ KeepsWhatItHad
<1>1. CASE Guides!StartDocuments
  <2>1. /\ ~up /\ loader' = disk /\ always' = disk["escalation"] /\ at' = "start enrichment"
        /\ UNCHANGED <<disk, up, criteria, policy, loaded, cache, reader, ok, raced, held, edits>>
    BY <1>1 DEF Guides!StartDocuments, Guides!bounds
  <2>2. Guides!TypeOK'
    BY <2>1, GuideFacts DEF GuidesInv, Guides!TypeOK
  <2>3. LivesTrue' /\ ReloadTrue' /\ TextsTrue'
    BY <2>1 DEF GuidesInv, LivesTrue, ReloadTrue, TextsTrue, Starting, Reloading
  <2>4. QED
    BY <2>1, <2>2, <2>3 DEF GuidesInv, KeepsWhatItHad
<1>2. CASE Guides!StartEnrichment
  <2>1. /\ at = "start enrichment" /\ at' = "start engine" /\ criteria' = disk["risk"]
        /\ UNCHANGED <<disk, up, loader, always, policy, loaded, cache, reader, ok, raced, held,
                       edits>>
    BY <1>2 DEF Guides!StartEnrichment, Guides!bounds
  <2>2. Guides!TypeOK'
    BY <2>1, GuideFacts DEF GuidesInv, Guides!TypeOK
  <2>3. LivesTrue' /\ ReloadTrue' /\ TextsTrue'
    BY <2>1 DEF GuidesInv, LivesTrue, ReloadTrue, TextsTrue, Starting, Reloading
  <2>4. ~up
    BY <2>1 DEF GuidesInv, LivesTrue, Starting
  <2>5. QED
    BY <2>1, <2>2, <2>3, <2>4 DEF GuidesInv, KeepsWhatItHad
<1>3. CASE Guides!StartEngine
  <2>1. /\ at = "start engine" /\ at' = "idle" /\ up' = TRUE /\ loaded' = Guides!Readable
        /\ policy' = IF Guides!EngineTakes THEN disk["escalation"] ELSE Guides!Unread
        /\ UNCHANGED <<disk, loader, always, criteria, cache, reader, ok, raced, held, edits>>
    BY <1>3 DEF Guides!StartEngine, Guides!bounds
  <2>2. ~up /\ ~loaded /\ cache = Guides!None /\ reader = Guides!None
    BY <2>1 DEF GuidesInv, LivesTrue, Starting
  <2>3. Guides!EngineTakes = Guides!Readable /\ Guides!Readable \in BOOLEAN
    BY <2>2 DEF Guides!EngineTakes, Guides!Readable
  <2>4. Guides!TypeOK'
    BY <2>1, GuideFacts DEF GuidesInv, Guides!TypeOK
  <2>5. LivesTrue' /\ ReloadTrue' /\ TextsTrue'
    BY <2>1, <2>2, <2>3 DEF GuidesInv, LivesTrue, ReloadTrue, TextsTrue, Starting, Reloading
  <2>6. QED
    BY <2>1, <2>2, <2>3, <2>4, <2>5 DEF GuidesInv, KeepsWhatItHad
<1>4. QED
  BY <1>1, <1>2, <1>3

LEMMA GuidesBegin == ASSUME GuidesInv, Guides!BeginReload PROVE GuidesInv' /\ KeepsWhatItHad
<1>1. /\ up /\ at' = "documents" /\ cache' = Guides!None /\ raced' = (reader # Guides!None)
      /\ UNCHANGED <<disk, up, loader, always, criteria, policy, loaded, reader, edits>>
  BY DEF Guides!BeginReload, Guides!Cleared, Guides!uses, Guides!bounds
<1>2. Guides!TypeOK' /\ LivesTrue' /\ ReloadTrue' /\ TextsTrue'
  BY <1>1 DEF GuidesInv, Guides!TypeOK, LivesTrue, ReloadTrue, TextsTrue, Starting, Reloading
<1>3. QED
  BY <1>1, <1>2 DEF GuidesInv, KeepsWhatItHad

LEMMA GuidesDocuments ==
  ASSUME GuidesInv, Guides!ReloadDocuments PROVE GuidesInv' /\ KeepsWhatItHad
<1>1. /\ at = "documents" /\ at' = "enrichment"
      /\ UNCHANGED <<disk, up, always, criteria, policy, loaded, cache, reader, raced, held,
                     edits>>
  BY DEF Guides!ReloadDocuments, Guides!Goes, Guides!NoText, Guides!bounds
<1>2. /\ loader' \in [Guides!Files -> Guides!Versions]
      /\ loader["playbook"] # Guides!Unread => loader'["playbook"] # Guides!Unread
      /\ ok' => LoaderIsNew'
  <2>1. CASE disk["risk"] = Guides!Unread
    BY <2>1 DEF Guides!ReloadDocuments, GuidesInv, Guides!TypeOK
  <2>2. CASE disk["risk"] # Guides!Unread /\ disk["escalation"] = Guides!Unread
    <3>1. ok' = FALSE /\ loader' = [loader EXCEPT !["risk"] = disk["risk"]]
      BY <2>2 DEF Guides!ReloadDocuments
    <3>2. QED
      BY <3>1, GuideFacts DEF GuidesInv, Guides!TypeOK
  <2>3. CASE disk["risk"] # Guides!Unread /\ disk["escalation"] # Guides!Unread
    <3>1. loader' = [disk EXCEPT !["playbook"] = Guides!KeepPlaybook]
      BY <2>3 DEF Guides!ReloadDocuments
    <3>2. /\ Guides!KeepPlaybook \in Guides!Versions
          /\ disk["playbook"] # Guides!Unread => Guides!KeepPlaybook = disk["playbook"]
          /\ loader["playbook"] # Guides!Unread => Guides!KeepPlaybook # Guides!Unread
      BY GuideFacts DEF Guides!KeepPlaybook, GuidesInv, Guides!TypeOK
    <3>3. QED
      BY <1>1, <3>1, <3>2, GuideFacts DEF GuidesInv, Guides!TypeOK, LoaderIsNew
  <2>4. QED
    BY <2>1, <2>2, <2>3
<1>3. Guides!TypeOK'
  BY <1>1, <1>2 DEF GuidesInv, Guides!TypeOK
<1>4. LivesTrue' /\ ReloadTrue'
  BY <1>1, <1>2 DEF GuidesInv, LivesTrue, ReloadTrue, Starting, Reloading
<1>5. TextsTrue'
  BY <1>1 DEF GuidesInv, TextsTrue
<1>6. QED
  BY <1>1, <1>2, <1>3, <1>4, <1>5 DEF GuidesInv, KeepsWhatItHad

LEMMA GuidesEnrichment ==
  ASSUME GuidesInv, Guides!ReloadEnrichment PROVE GuidesInv' /\ KeepsWhatItHad
<1>1. /\ at = "enrichment" /\ at' = "engine"
      /\ criteria' = IF disk["risk"] = Guides!Unread THEN criteria ELSE disk["risk"]
      /\ ok' = (ok /\ disk["risk"] # Guides!Unread)
      /\ UNCHANGED <<disk, up, loader, always, policy, loaded, cache, reader, raced, held, edits>>
  BY DEF Guides!ReloadEnrichment, Guides!Goes, Guides!KeepCriteria, Guides!NoText, Guides!bounds
<1>2. Guides!TypeOK'
  BY <1>1, GuideFacts DEF GuidesInv, Guides!TypeOK
<1>3. LivesTrue' /\ TextsTrue'
  BY <1>1 DEF GuidesInv, LivesTrue, TextsTrue, Starting, Reloading
<1>4. ReloadTrue'
  BY <1>1 DEF GuidesInv, ReloadTrue, LoaderIsNew
<1>5. QED
  BY <1>1, <1>2, <1>3, <1>4 DEF GuidesInv, KeepsWhatItHad

LEMMA GuidesEngine == ASSUME GuidesInv, Guides!ReloadEngine PROVE GuidesInv' /\ KeepsWhatItHad
<1>1. /\ at = "engine" /\ at' = "answer"
      /\ policy' = IF Guides!EngineTakes THEN disk["escalation"] ELSE policy
      /\ loaded' = (loaded \/ Guides!Readable)
      /\ ok' = (ok /\ Guides!Readable /\ ~Guides!Rejected(disk["escalation"]))
      /\ UNCHANGED <<disk, up, loader, always, criteria, cache, reader, raced, held, edits>>
  BY DEF Guides!ReloadEngine, Guides!Goes, Guides!Answers, Guides!NoText, Guides!bounds
<1>2. ok' => policy' = disk["escalation"]
  BY <1>1 DEF Guides!EngineTakes
<1>3. up
  BY <1>1 DEF GuidesInv, LivesTrue, Reloading
<1>4. /\ ~loaded' => policy' = policy /\ ~loaded
      /\ policy' # policy => ~Guides!Rejected(policy') \/ ~loaded
  BY <1>1 DEF Guides!EngineTakes
<1>5. Guides!TypeOK' /\ loaded' \in BOOLEAN
  BY <1>1, GuideFacts DEF GuidesInv, Guides!TypeOK
<1>6. LivesTrue' /\ TextsTrue'
  BY <1>1, <1>3, <1>4 DEF GuidesInv, LivesTrue, TextsTrue, Starting, Reloading
<1>7. ReloadTrue'
  BY <1>1, <1>2 DEF GuidesInv, ReloadTrue, LoaderIsNew
<1>8. KeepsWhatItHad
  BY <1>1, <1>3, <1>4 DEF GuidesInv, LivesTrue, KeepsWhatItHad
<1>9. QED
  BY <1>1, <1>5, <1>6, <1>7, <1>8 DEF GuidesInv

LEMMA GuidesAnswer == ASSUME GuidesInv, Guides!Answer PROVE GuidesInv' /\ KeepsWhatItHad
<1>1. /\ at = "answer" /\ at' = "idle"
      /\ UNCHANGED <<disk, up, loader, always, criteria, policy, loaded, cache, reader, ok,
                     raced, held, edits>>
  BY DEF Guides!Answer, Guides!Goes, Guides!NoText, Guides!uses, Guides!bounds
<1>2. Guides!TypeOK' /\ LivesTrue' /\ ReloadTrue' /\ TextsTrue'
  BY <1>1 DEF GuidesInv, Guides!TypeOK, LivesTrue, ReloadTrue, TextsTrue, Starting, Reloading
<1>3. QED
  BY <1>1, <1>2 DEF GuidesInv, KeepsWhatItHad

LEMMA GuidesTexts ==
  ASSUME GuidesInv, Guides!Render \/ Guides!PutText \/ Guides!Expire
  PROVE  GuidesInv' /\ KeepsWhatItHad
<1>1. UNCHANGED <<disk, up, loader, always, criteria, policy, loaded, at, ok, held, edits>>
  BY DEF Guides!Render, Guides!PutText, Guides!Expire, Guides!uses, Guides!endpoint,
     Guides!bounds
<1>2. /\ {cache', reader'} \subseteq Guides!Versions \cup {Guides!None}
      /\ ~up => cache' = Guides!None /\ reader' = Guides!None
      /\ TextsTrue'
  <2>1. CASE Guides!Render
    <3>1. /\ up /\ cache' = cache /\ cache = Guides!None /\ reader' = loader["risk"]
          /\ raced' = (raced \/ at = "documents")
      BY <2>1 DEF Guides!Render
    <3>2. {cache', reader'} \subseteq Guides!Versions \cup {Guides!None}
      BY <3>1, GuideFacts DEF GuidesInv, Guides!TypeOK
    <3>3. CASE raced \/ at = "documents"
      <4>1. raced'
        BY <3>1, <3>3, Zenon
      <4>2. QED
        BY <3>1, <3>2, <4>1 DEF TextsTrue
    <3>4. CASE ~raced /\ at # "documents"
      BY <1>1, <3>1, <3>2, <3>4 DEF GuidesInv, TextsTrue
    <3>5. QED
      BY <3>3, <3>4
  <2>2. CASE Guides!PutText
    <3>1. reader # Guides!None /\ cache' = reader /\ reader' = Guides!None /\ raced' = raced
      BY <2>2 DEF Guides!PutText, Guides!endpoint
    <3>2. up
      BY <3>1 DEF GuidesInv, LivesTrue
    <3>3. QED
      BY <1>1, <3>1, <3>2 DEF GuidesInv, Guides!TypeOK, TextsTrue
  <2>3. CASE Guides!Expire
    <3>1. cache' = Guides!None /\ UNCHANGED <<reader, raced>>
      BY <2>3 DEF Guides!Expire, Guides!endpoint
    <3>2. QED
      BY <1>1, <3>1 DEF GuidesInv, Guides!TypeOK, LivesTrue, TextsTrue
  <2>4. QED
    BY <2>1, <2>2, <2>3
<1>3. Guides!TypeOK' /\ LivesTrue' /\ ReloadTrue'
  BY <1>1, <1>2 DEF GuidesInv, Guides!TypeOK, LivesTrue, ReloadTrue, LoaderIsNew
<1>4. QED
  BY <1>1, <1>2, <1>3 DEF GuidesInv, KeepsWhatItHad

LEMMA GuidesStep ==
  GuidesInv /\ [Guides!Next]_guideVars => GuidesInv' /\ [KeepsWhatItHad]_guideVars
<1> SUFFICES ASSUME GuidesInv, [Guides!Next]_guideVars
             PROVE  GuidesInv' /\ [KeepsWhatItHad]_guideVars
  OBVIOUS
<1>1. CASE UNCHANGED guideVars
  BY <1>1 DEF guideVars, GuidesInv, Guides!TypeOK, LivesTrue, ReloadTrue, LoaderIsNew, TextsTrue
<1>2. CASE Guides!Next
  BY <1>2, GuidesEdit, GuidesStop, GuidesStart, GuidesBegin, GuidesDocuments, GuidesEnrichment,
     GuidesEngine, GuidesAnswer, GuidesTexts DEF Guides!Next, Guides!ReloadStep
<1>3. QED
  BY <1>1, <1>2

LEMMA GuidesEnough ==
  GuidesInv => Guides!TypeOK /\ Guides!OkMeansApplied /\ Guides!StaleOnlyByRace
BY DEF GuidesInv, ReloadTrue, LoaderIsNew, TextsTrue, Guides!OkMeansApplied,
   Guides!StaleOnlyByRace

-----------------------------------------------------------------------------
(* The severity policy.                                                    *)

ProperEntry(e) ==
  /\ e.severity \in 0..3 /\ e.status # "none"
  /\ e.cap # Unset => e.cap \in Int

\* What is judged, and once it is, with what result.
Outcome == Severity!MaxRank({Severity!Capped} \cup {e.severity : e \in Severity!Floors})
SeverityInv ==
  /\ \A e \in file : ProperEntry(e)
  /\ alert.level \in Nat \cup {-1} /\ band \in 0..3 /\ malicious \in BOOLEAN
  /\ severity # -1 => severity = Outcome /\ applied = Severity!Reported

LEMMA SeverityBegins == Severity!Init => SeverityInv
<1> SUFFICES ASSUME Severity!Init PROVE SeverityInv
  OBVIOUS
<1>1. /\ \A e \in Entries \cup Standing : ProperEntry(e)
      /\ \A x \in Triaged : x.level \in Nat \cup {-1}
      /\ Bands \subseteq 0..3
  BY GuidanceAssumption DEF Severity!PolicyAssumption, ProperEntry, Severity!Low,
     Severity!Critical, Severity!Unreadable
<1>2. /\ file \subseteq Entries \cup Standing /\ alert \in Triaged /\ band \in Bands
      /\ malicious \in BOOLEAN /\ severity = -1
  BY DEF Severity!Init
<1>3. QED
  BY <1>1, <1>2 DEF SeverityInv

\* The judgement looks at what does not change.
LEMMA SameJudged ==
  ASSUME UNCHANGED <<file, alert, band, malicious>>
  PROVE  Outcome' = Outcome /\ Severity!Reported' = Severity!Reported
<1>1. ASSUME NEW e PROVE Severity!Matches(e)' = Severity!Matches(e)
  BY DEF Severity!Matches, Severity!Named, Severity!Grouped, Severity!Excluded,
     Severity!SignalMatches, Severity!WithinCap, Severity!StatusMatches
<1>2. Severity!Policy' = Severity!Policy
  BY DEF Severity!Policy
<1>3. ASSUME NEW kind PROVE Severity!Matching(kind)' = Severity!Matching(kind)
  BY <1>1, <1>2 DEF Severity!Matching
<1>4. Severity!Floors' = Severity!Floors /\ Severity!Ceilings' = Severity!Ceilings
  BY <1>3 DEF Severity!Floors, Severity!Ceilings
<1>5. Severity!Capped' = Severity!Capped
  BY <1>4 DEF Severity!Capped
<1>6. QED
  BY <1>4, <1>5 DEF Outcome, Severity!Reported

LEMMA SeverityStep == SeverityInv /\ [Severity!Next]_severityVars => SeverityInv'
<1> SUFFICES ASSUME SeverityInv, [Severity!Next]_severityVars PROVE SeverityInv'
  OBVIOUS
<1>1. UNCHANGED <<file, alert, band, malicious>>
  BY DEF Severity!Next, Severity!Judge, severityVars
<1>2. \/ severity' = severity /\ applied' = applied
      \/ severity' = Outcome /\ applied' = Severity!Reported
  BY DEF Severity!Next, Severity!Judge, severityVars, Outcome
<1>3. Outcome' = Outcome /\ Severity!Reported' = Severity!Reported
  BY <1>1, SameJudged
<1>4. (\A e \in file : ProperEntry(e))'
  BY <1>1 DEF SeverityInv, ProperEntry
<1>5. severity' # -1 => severity' = Outcome /\ applied' = Severity!Reported
  BY <1>2 DEF SeverityInv
<1>6. QED
  BY <1>1, <1>3, <1>4, <1>5 DEF SeverityInv

\* The highest and the lowest of some ranks.
LEMMA Ranked ==
  ASSUME NEW S \in SUBSET (0..3), S # {}
  PROVE  /\ Severity!MaxRank(S) \in S /\ \A n \in S : n <= Severity!MaxRank(S)
         /\ Severity!MinRank(S) \in S /\ \A n \in S : Severity!MinRank(S) <= n
<1>1. \A n \in S : n \in {0, 1, 2, 3}
  OBVIOUS
<1>2. \E m \in S : \A n \in S : n <= m
  <2>1. CASE 3 \in S
    BY <1>1, <2>1
  <2>2. CASE 3 \notin S /\ 2 \in S
    BY <1>1, <2>2
  <2>3. CASE 3 \notin S /\ 2 \notin S /\ 1 \in S
    BY <1>1, <2>3
  <2>4. CASE 3 \notin S /\ 2 \notin S /\ 1 \notin S
    <3>1. PICK m \in S : TRUE
      OBVIOUS
    <3>2. m = 0 /\ \A n \in S : n = 0
      BY <1>1, <2>4
    <3>3. QED
      BY <3>1, <3>2
  <2>5. QED
    BY <2>1, <2>2, <2>3, <2>4
<1>3. \E m \in S : \A n \in S : m <= n
  <2>1. CASE 0 \in S
    BY <1>1, <2>1
  <2>2. CASE 0 \notin S /\ 1 \in S
    BY <1>1, <2>2
  <2>3. CASE 0 \notin S /\ 1 \notin S /\ 2 \in S
    BY <1>1, <2>3
  <2>4. CASE 0 \notin S /\ 1 \notin S /\ 2 \notin S
    <3>1. PICK m \in S : TRUE
      OBVIOUS
    <3>2. m = 3 /\ \A n \in S : n = 3
      BY <1>1, <2>4
    <3>3. QED
      BY <3>1, <3>2
  <2>5. QED
    BY <2>1, <2>2, <2>3, <2>4
<1>4. Severity!MaxRank(S) \in S /\ \A n \in S : n <= Severity!MaxRank(S)
  BY <1>2 DEF Severity!MaxRank
<1>5. Severity!MinRank(S) \in S /\ \A n \in S : Severity!MinRank(S) <= n
  BY <1>3 DEF Severity!MinRank
<1>6. QED
  BY <1>4, <1>5

\* What the ceilings and the floors make of a band.
LEMMA Bounds ==
  ASSUME SeverityInv
  PROVE  /\ Severity!Capped \in 0..3 /\ Severity!Capped <= band
         /\ Severity!Capped = band
            \/ \E e \in Severity!Ceilings : e.severity = Severity!Capped
         /\ Outcome \in 0..3 /\ Severity!Capped <= Outcome
         /\ Outcome = Severity!Capped \/ \E e \in Severity!Floors : e.severity = Outcome
         /\ \A e \in Severity!Floors : e.severity <= Outcome
<1>1. Severity!Ceilings \subseteq file /\ Severity!Floors \subseteq file
  BY DEF Severity!Ceilings, Severity!Floors, Severity!Matching, Severity!Policy
<1> DEFINE lower == {band} \cup {e.severity : e \in Severity!Ceilings}
<1>2. lower \in SUBSET (0..3) /\ lower # {} /\ band \in lower
  BY <1>1 DEF SeverityInv, ProperEntry
<1>3. Severity!Capped = Severity!MinRank(lower)
  BY DEF Severity!Capped
<1>4. Severity!Capped \in lower /\ \A n \in lower : Severity!Capped <= n
  <2> HIDE DEF lower
  <2>1. QED
    BY <1>2, <1>3, Ranked
<1>5. /\ Severity!Capped \in 0..3 /\ Severity!Capped <= band
      /\ Severity!Capped = band \/ \E e \in Severity!Ceilings : e.severity = Severity!Capped
  BY <1>2, <1>4
<1> DEFINE upper == {Severity!Capped} \cup {e.severity : e \in Severity!Floors}
<1>6. upper \in SUBSET (0..3) /\ upper # {}
  BY <1>1, <1>5 DEF SeverityInv, ProperEntry
<1>7. Outcome = Severity!MaxRank(upper)
  BY DEF Outcome
<1>8. Outcome \in upper /\ \A n \in upper : n <= Outcome
  <2> HIDE DEF upper
  <2>1. QED
    BY <1>6, <1>7, Ranked
<1>9. QED
  BY <1>5, <1>6, <1>8

\* A matching entry of the file.
LEMMA OfFile ==
  /\ \A e \in Severity!Floors :
       e \in file /\ e.kind = "floor" /\ Severity!Usable(e) /\ Severity!Matches(e)
  /\ \A e \in Severity!Ceilings :
       /\ e \in file /\ e.kind = "ceiling" /\ Severity!Usable(e) /\ Severity!Matches(e)
       /\ ~malicious
BY DEF Severity!Ceilings, Severity!Floors, Severity!Matching, Severity!Policy

LEMMA PagesBounded == SeverityInv => Severity!PagesAreBounded
<1> SUFFICES ASSUME SeverityInv, severity # -1, severity > band, severity >= 2
             PROVE  \E e \in file :
                      /\ e.kind = "floor" /\ e.severity = severity
                      /\ \/ alert.id \in e.ids
                         \/ e.excludes /\ alert.path # "excluded"
                         \/ e.cap # Unset /\ alert.level \in 1..e.cap
  BY DEF Severity!PagesAreBounded, Severity!Raised, Severity!Judged, Severity!High
<1>1. severity = Outcome /\ band \in 0..3
  BY DEF SeverityInv
<1>2. PICK e \in Severity!Floors : e.severity = severity
  BY <1>1, Bounds
<1>3. e \in file /\ e.kind = "floor" /\ Severity!Usable(e) /\ Severity!Matches(e)
  BY OfFile
<1>4. e.groups = {} \/ e.excludes \/ e.cap # Unset
  BY <1>2, <1>3 DEF Severity!Usable, Severity!Unbounded, Severity!High
<1>5. CASE alert.id \in e.ids
  BY <1>2, <1>3, <1>5
<1>6. CASE alert.id \notin e.ids
  <2>1. e.groups # {}
    BY <1>3, <1>6 DEF Severity!Matches, Severity!Named, Severity!Grouped
  <2>2. CASE e.excludes
    BY <1>2, <1>3, <2>2 DEF Severity!Matches, Severity!Excluded
  <2>3. CASE e.cap # Unset
    <3>1. alert.level \notin {-1, 0} /\ alert.level <= e.cap
      BY <1>3, <1>6, <2>3 DEF Severity!Matches, Severity!WithinCap, Severity!Named,
         Severity!Unreadable
    <3>2. alert.level \in Nat \cup {-1} /\ e.cap \in Int
      BY <1>3, <2>3 DEF SeverityInv, ProperEntry
    <3>3. alert.level \in 1..e.cap
      BY <3>1, <3>2
    <3>4. QED
      BY <1>2, <1>3, <2>3, <3>3
  <2>4. QED
    BY <1>4, <2>1, <2>2, <2>3
<1>7. QED
  BY <1>5, <1>6

LEMMA QuietedSo == SeverityInv => Severity!QuietedOnPurpose
<1> SUFFICES ASSUME SeverityInv, severity # -1, severity < band
             PROVE  /\ ~malicious
                    /\ \E e \in file :
                         /\ e.kind = "ceiling" /\ e.severity <= severity
                         /\ alert.id \in e.ids \/ Severity!Quiet
                         /\ alert.status = "none" => e.status = Unset
  BY DEF Severity!QuietedOnPurpose, Severity!Lowered, Severity!Judged
<1>1. severity = Outcome /\ band \in 0..3
  BY DEF SeverityInv
<1>2. /\ Severity!Capped \in 0..3 /\ Severity!Capped <= severity /\ Severity!Capped # band
      /\ severity \in 0..3
  BY <1>1, Bounds
<1>3. PICK e \in Severity!Ceilings : e.severity = Severity!Capped
  BY <1>2, Bounds
<1>4. /\ e \in file /\ e.kind = "ceiling" /\ Severity!Usable(e) /\ Severity!Matches(e)
      /\ ~malicious
  BY OfFile
<1>5. alert.status = "none" => e.status = Unset
  BY <1>4 DEF Severity!Matches, Severity!StatusMatches, SeverityInv, ProperEntry
<1>6. CASE alert.id \in e.ids
  BY <1>2, <1>3, <1>4, <1>5, <1>6
<1>7. CASE alert.id \notin e.ids
  <2>1. e.groups # {}
    BY <1>4, <1>7 DEF Severity!Matches, Severity!Named, Severity!Grouped
  <2>2. e.cap # Unset /\ e.cap <= 9
    BY <1>4, <2>1 DEF Severity!Usable, Severity!GroupCeilingMaxLevel
  <2>3. alert.level \notin {-1, 0} /\ alert.level <= e.cap
    BY <1>4, <1>7, <2>2 DEF Severity!Matches, Severity!WithinCap, Severity!Named,
       Severity!Unreadable
  <2>4. alert.level \in Nat \cup {-1} /\ e.cap \in Int
    BY <1>4, <2>2 DEF SeverityInv, ProperEntry
  <2>5. alert.level \in 1..9
    BY <2>2, <2>3, <2>4
  <2>6. Severity!Quiet
    BY <2>5 DEF Severity!Quiet, Severity!GroupCeilingMaxLevel
  <2>7. QED
    BY <1>2, <1>3, <1>4, <1>5, <2>6
<1>8. QED
  BY <1>6, <1>7

LEMMA NamedFloors == SeverityInv => Severity!NamedFloorHolds
<1> SUFFICES ASSUME SeverityInv, NEW e \in file,
                    severity # -1, e.kind = "floor", alert.id \in e.ids,
                    (e.groups # {}) <=> (e.cap # Unset),
                    e.status = Unset, e.signal = Unset, ~Severity!Excluded(e)
             PROVE  severity >= e.severity /\ e \in applied
  BY DEF Severity!NamedFloorHolds, Severity!Judged
<1>1. Severity!Usable(e)
  BY DEF Severity!Usable, Severity!Unbounded
<1>2. Severity!Matches(e)
  BY DEF Severity!Matches, Severity!Named, Severity!SignalMatches, Severity!WithinCap,
     Severity!StatusMatches
<1>3. e \in Severity!Floors
  BY <1>1, <1>2 DEF Severity!Floors, Severity!Matching, Severity!Policy
<1>4. e.severity <= Outcome /\ e.severity \in 0..3 /\ Outcome \in 0..3
  BY <1>3, Bounds DEF SeverityInv, ProperEntry
<1>5. QED
  BY <1>3, <1>4 DEF SeverityInv, Severity!Reported

-----------------------------------------------------------------------------
(* What is known of a rule.                                                *)

\* The five things a recent decision may be labelled.
Hit(by) == [by |-> by, tp |-> TRUE]
Miss(by) == [by |-> by, tp |-> FALSE]
Marks == {Hit("person"), Miss("person"), Hit("machine"), Miss("machine"), Records!NoLabel}
Total(c) == c[Hit("person")] + c[Miss("person")] + c[Hit("machine")] + c[Miss("machine")]
            + c[Records!NoLabel]

\* There are at most MaxDecisions of them, however they are labelled.
RecordInv ==
  /\ count \in [Marks -> Nat] /\ Total(count) \in 0..MaxDecisions
  /\ prompted \in {"nothing", "ok", "no_history", "unavailable"}

\* What a prompt may say.
SaysSo ==
  prompted' = "no_history" /\ prompted # "no_history" => \A l \in Records!Label : count[l] = 0

LEMMA FiveMarks ==
  /\ Records!Label \cup {Records!NoLabel} = Marks
  /\ Records!Label = Marks \ {Records!NoLabel}
  /\ Hit("person") # Miss("person") /\ Hit("machine") # Miss("machine")
  /\ \A a, b \in {Hit("person"), Miss("person")}, c, d \in {Hit("machine"), Miss("machine")} :
       a # c /\ a # Records!NoLabel /\ c # Records!NoLabel
<1>1. Hit("person") # Miss("person") /\ Hit("machine") # Miss("machine")
  <2>1. \A v \in {"person", "machine"} : Hit(v).tp = TRUE /\ Miss(v).tp = FALSE
    BY DEF Hit, Miss
  <2>2. TRUE # FALSE
    OBVIOUS
  <2>3. QED
    BY <2>1, <2>2, Zenon
<1>2. /\ \A a \in {Hit("person"), Miss("person")} : a.by = "person"
      /\ \A a \in {Hit("machine"), Miss("machine")} : a.by = "machine"
      /\ Records!NoLabel.by = "nobody"
  BY DEF Hit, Miss, Records!NoLabel
<1>3. Records!Label = {Hit("person"), Miss("person"), Hit("machine"), Miss("machine")}
  <2>1. ASSUME NEW l \in Records!Label
        PROVE  l \in {Hit("person"), Miss("person"), Hit("machine"), Miss("machine")}
    <3>1. l = [by |-> l.by, tp |-> l.tp] /\ l.by \in {"person", "machine"} /\ l.tp \in BOOLEAN
      BY DEF Records!Label
    <3>2. CASE l.tp = TRUE
      <4>1. l = [by |-> l.by, tp |-> TRUE]
        BY <3>1, <3>2, Zenon
      <4>2. QED
        BY <3>1, <4>1 DEF Hit
    <3>3. CASE l.tp = FALSE
      <4>1. l = [by |-> l.by, tp |-> FALSE]
        BY <3>1, <3>3, Zenon
      <4>2. QED
        BY <3>1, <4>1 DEF Miss
    <3>4. QED
      BY <3>1, <3>2, <3>3, Zenon
  <2>2. ASSUME NEW v \in {"person", "machine"}
        PROVE  Hit(v) \in Records!Label /\ Miss(v) \in Records!Label
    BY DEF Hit, Miss, Records!Label
  <2>3. QED
    BY <2>1, <2>2
<1>4. QED
  BY <1>1, <1>2, <1>3 DEF Marks

LEMMA RecordConstants ==
  /\ MaxDecisions \in Nat /\ Prior \in Nat /\ Cap \in Nat
  /\ MinLabels \in Nat \ {0} /\ Share \in Nat \ {0}
BY GuidanceAssumption DEF Records!RecordAssumption

LEMMA RecordInit == Records!Init => RecordInv
<1> SUFFICES ASSUME Records!Init PROVE RecordInv
  OBVIOUS
<1>1. /\ count = [l \in Marks |-> IF l = Records!NoLabel THEN MaxDecisions ELSE 0]
      /\ prompted = "nothing"
  BY FiveMarks DEF Records!Init
<1>2. /\ count \in [Marks -> Nat] /\ count[Records!NoLabel] = MaxDecisions
      /\ \A l \in Marks : l # Records!NoLabel => count[l] = 0
  BY <1>1, RecordConstants DEF Marks
<1>3. /\ count[Hit("person")] = 0 /\ count[Miss("person")] = 0 /\ count[Hit("machine")] = 0
      /\ count[Miss("machine")] = 0
  BY <1>2, FiveMarks DEF Marks
<1>4. QED
  BY <1>1, <1>2, <1>3, RecordConstants DEF RecordInv, Total

\* One of the five, counted.
Is(l, m) == IF l = m THEN 1 ELSE 0

LEMMA OneOfFive ==
  ASSUME NEW m \in Marks
  PROVE  /\ Is(Hit("person"), m) \in 0..1 /\ Is(Miss("person"), m) \in 0..1
         /\ Is(Hit("machine"), m) \in 0..1 /\ Is(Miss("machine"), m) \in 0..1
         /\ Is(Records!NoLabel, m) \in 0..1
         /\ Is(Hit("person"), m) + Is(Miss("person"), m) + Is(Hit("machine"), m)
            + Is(Miss("machine"), m) + Is(Records!NoLabel, m) = 1
<1> DEFINE p1_ == Hit("person")  p2_ == Miss("person")  m1_ == Hit("machine")
           m2_ == Miss("machine")  n_ == Records!NoLabel
<1>1. /\ p1_ # p2_ /\ p1_ # m1_ /\ p1_ # m2_ /\ p1_ # n_ /\ p2_ # m1_ /\ p2_ # m2_ /\ p2_ # n_
      /\ m1_ # m2_ /\ m1_ # n_ /\ m2_ # n_
  BY FiveMarks
<1>2. m \in {p1_, p2_, m1_, m2_, n_}
  BY DEF Marks
<1>3. /\ Is(p1_, m) \in 0..1 /\ Is(p2_, m) \in 0..1 /\ Is(m1_, m) \in 0..1
      /\ Is(m2_, m) \in 0..1 /\ Is(n_, m) \in 0..1
      /\ Is(p1_, m) + Is(p2_, m) + Is(m1_, m) + Is(m2_, m) + Is(n_, m) = 1
  <2> HIDE DEF p1_, p2_, m1_, m2_, n_
  <2>1. QED
    BY <1>1, <1>2 DEF Is
<1>4. QED
  BY <1>3

\* The five, each changed by a number, have the sum changed by the sum of these.
LEMMA FiveChanges ==
  ASSUME NEW before_ \in [Marks -> Nat], NEW after_ \in [Marks -> Nat],
         NEW d_ \in [Marks -> Int], \A l \in Marks : after_[l] = before_[l] + d_[l]
  PROVE  /\ Total(before_) \in Nat /\ Total(after_) \in Nat
         /\ Total(after_) = Total(before_) + (d_[Hit("person")] + d_[Miss("person")]
              + d_[Hit("machine")] + d_[Miss("machine")] + d_[Records!NoLabel])
<1> DEFINE p1_ == Hit("person")  p2_ == Miss("person")  m1_ == Hit("machine")
           m2_ == Miss("machine")  n_ == Records!NoLabel
<1>1. p1_ \in Marks /\ p2_ \in Marks /\ m1_ \in Marks /\ m2_ \in Marks /\ n_ \in Marks
  BY DEF Marks
<1>2. /\ Total(before_) = before_[p1_] + before_[p2_] + before_[m1_] + before_[m2_] + before_[n_]
      /\ Total(after_) = after_[p1_] + after_[p2_] + after_[m1_] + after_[m2_] + after_[n_]
  BY DEF Total
<1> HIDE DEF p1_, p2_, m1_, m2_, n_
<1>3. \A l \in Marks : before_[l] \in Nat /\ after_[l] \in Nat /\ d_[l] \in Int
  OBVIOUS
<1>4. /\ Total(before_) \in Nat /\ Total(after_) \in Nat
      /\ Total(after_) = Total(before_) + (d_[p1_] + d_[p2_] + d_[m1_] + d_[m2_] + d_[n_])
  BY <1>1, <1>2, <1>3
<1>5. QED
  BY <1>4 DEF p1_, p2_, m1_, m2_, n_

\* A label that is replaced, and one that goes.
LEMMA Relabelled ==
  ASSUME RecordInv, NEW old \in Marks, NEW new \in Marks, old # new, count[old] > 0,
         count' = [count EXCEPT ![old] = @ - 1, ![new] = @ + 1]
  PROVE  count' \in [Marks -> Nat] /\ Total(count') = Total(count)
<1> DEFINE had == count  has == count'  d == [l \in Marks |-> Is(l, new) - Is(l, old)]
<1>1. had \in [Marks -> Nat]
  BY DEF RecordInv
<1>2. has \in [Marks -> Nat]
  BY <1>1
<1>3. d \in [Marks -> Int] /\ \A l \in Marks : has[l] = had[l] + d[l]
  BY <1>1 DEF Is
<1> HIDE DEF had, has
<1>4. /\ Total(had) \in Nat /\ Total(has) \in Nat
      /\ Total(has) = Total(had) + (d[Hit("person")] + d[Miss("person")]
           + d[Hit("machine")] + d[Miss("machine")] + d[Records!NoLabel])
  <2> HIDE DEF d
  <2>1. QED
    BY <1>1, <1>2, <1>3, FiveChanges
<1>5. d[Hit("person")] + d[Miss("person")] + d[Hit("machine")] + d[Miss("machine")]
        + d[Records!NoLabel] = 0
  BY OneOfFive DEF Marks
<1>6. Total(has) = Total(had)
  <2> HIDE DEF d
  <2>1. QED
    BY <1>4, <1>5
<1>7. QED
  BY <1>2, <1>6 DEF had, has

LEMMA Forgotten ==
  ASSUME RecordInv, NEW old \in Marks, count[old] > 0, count' = [count EXCEPT ![old] = @ - 1]
  PROVE  /\ count' \in [Marks -> Nat] /\ Total(count') = Total(count) - 1
         /\ Total(count) - 1 \in Nat
<1> DEFINE had == count  has == count'  d == [l \in Marks |-> 0 - Is(l, old)]
<1>1. had \in [Marks -> Nat]
  BY DEF RecordInv
<1>2. has \in [Marks -> Nat]
  BY <1>1
<1>3. d \in [Marks -> Int] /\ \A l \in Marks : has[l] = had[l] + d[l]
  BY <1>1 DEF Is
<1> HIDE DEF had, has
<1>4. /\ Total(had) \in Nat /\ Total(has) \in Nat
      /\ Total(has) = Total(had) + (d[Hit("person")] + d[Miss("person")]
           + d[Hit("machine")] + d[Miss("machine")] + d[Records!NoLabel])
  <2> HIDE DEF d
  <2>1. QED
    BY <1>1, <1>2, <1>3, FiveChanges
<1>5. d[Hit("person")] + d[Miss("person")] + d[Hit("machine")] + d[Miss("machine")]
        + d[Records!NoLabel] = 0 - 1
  BY OneOfFive DEF Marks
<1>6. Total(has) = Total(had) - 1 /\ Total(had) - 1 \in Nat
  <2> HIDE DEF d
  <2>1. QED
    BY <1>4, <1>5
<1>7. QED
  BY <1>2, <1>6 DEF had, has

LEMMA RecordStep ==
  RecordInv /\ [Records!Next]_recordVars => RecordInv' /\ [SaysSo]_recordVars
<1> SUFFICES ASSUME RecordInv, [Records!Next]_recordVars
             PROVE  RecordInv' /\ [SaysSo]_recordVars
  OBVIOUS
<1>1. CASE UNCHANGED recordVars
  BY <1>1 DEF recordVars, RecordInv, Total
<1> DEFINE total == Total(count)
<1>2. total \in 0..MaxDecisions /\ MaxDecisions \in Nat
  BY RecordConstants DEF RecordInv
<1>3. ASSUME count' \in [Marks -> Nat], NEW n \in {total, total - 1}, Total(count') = n,
             n \in Nat, prompted' = prompted
      PROVE  RecordInv' /\ SaysSo
  <2>1. n \in 0..MaxDecisions
    <3> HIDE DEF total
    <3>1. QED
      BY <1>2, <1>3
  <2>2. Total(count') \in 0..MaxDecisions
    BY <1>3, <2>1
  <2>3. QED
    BY <1>3, <2>2 DEF RecordInv, SaysSo, Total
<1>4. CASE Records!Review
  <2>1. PICK old \in Marks, new \in Marks :
          /\ old # new /\ count[old] > 0
          /\ count' = [count EXCEPT ![old] = @ - 1, ![new] = @ + 1]
    BY <1>4, FiveMarks DEF Records!Review, RecordInv
  <2>2. count' \in [Marks -> Nat] /\ Total(count') = total
    BY <2>1, Relabelled
  <2>3. total \in Nat
    BY <1>2
  <2>4. QED
    BY <1>3, <1>4, <2>2, <2>3 DEF Records!Review
<1>5. CASE Records!Leaves
  <2>1. PICK old \in Marks : count[old] > 0 /\ count' = [count EXCEPT ![old] = @ - 1]
    BY <1>5 DEF Records!Leaves, RecordInv
  <2>2. count' \in [Marks -> Nat] /\ Total(count') = total - 1
    BY <2>1, Forgotten
  <2>3. total - 1 \in Nat
    BY <2>1, Forgotten
  <2>4. QED
    BY <1>3, <1>5, <2>2, <2>3 DEF Records!Leaves
<1>6. CASE Records!Precedent
  <2>1. count' = count /\ prompted' \in {"ok", "no_history", "unavailable"}
    BY <1>6 DEF Records!Precedent, Records!AtError
  <2>2. prompted' = "no_history" => ~(\E l \in Records!Label : count[l] > 0)
    BY <1>6 DEF Records!Precedent, Records!AtError
  <2>3. \A l \in Records!Label : count[l] \in Nat
    BY FiveMarks DEF RecordInv
  <2>4. SaysSo
    BY <2>2, <2>3 DEF SaysSo
  <2>5. QED
    BY <2>1, <2>4 DEF RecordInv, Total
<1>7. QED
  BY <1>1, <1>4, <1>5, <1>6 DEF Records!Next

\* Products of naturals.
LEMMA Products ==
  /\ \A a, b \in Nat : a * b \in Nat
  /\ \A a, b, c \in Nat : b <= c => a * b <= a * c
  /\ \A a, b, c \in Nat : b <= c => b * a <= c * a
OBVIOUS

\* What machines say beside too few people is at least the prior among all that
\* could be said.
LEMMA MachineShare ==
  ASSUME NEW nh \in Nat, NEW kh \in Nat, NEW nm \in Nat, NEW km \in Nat, nh < MinLabels
  PROVE  Records!AtLeast(Records!Assisted(nh, kh, nm, km),
                         <<Prior, 2 * (Prior + Cap + MinLabels - 1)>>)
<1> DEFINE e == Records!Counted(nm)  P == Prior  S == Share  C == Cap  M == MinLabels
<1>1. P \in Nat /\ S \in Nat /\ C \in Nat /\ M \in Nat /\ nh + 1 <= M
  BY RecordConstants
<1>2. C * S \in Nat
  BY <1>1, Products
<1>3. e \in Nat /\ e <= C * S
  BY <1>2 DEF Records!Counted
<1> DEFINE N == 2 * S * nm * kh + 2 * km * e + P * S * nm
           D == 2 * (S * nm * (nh + P) + nm * e)
           B == 2 * (P + C + M - 1)
<1>4. /\ Records!Assisted(nh, kh, nm, km)[1] = N
      /\ Records!Assisted(nh, kh, nm, km)[2] = D
  BY DEF Records!Assisted
<1>5. N * B >= P * D
  <2> HIDE DEF e, P, S, C, M
  <2> DEFINE a == S * nm  x == 2 * S * nm * kh  y == 2 * km * e
  <2>1. a \in Nat /\ x \in Nat /\ y \in Nat /\ P * a \in Nat
    <3>1. S * nm \in Nat /\ 2 * S \in Nat /\ 2 * km \in Nat
      BY <1>1, Products
    <3>2. 2 * S * nm \in Nat /\ y \in Nat /\ P * a \in Nat
      BY <1>1, <1>3, <3>1, Products
    <3>3. QED
      BY <3>1, <3>2, Products
  <2>2. P * S * nm = P * a
    BY <1>1
  <2>3. N \in Nat /\ P * a <= N
    <3>1. N = x + y + P * a
      BY <2>2
    <3> HIDE DEF a, x, y, N
    <3>2. \A u, v, w \in Nat : u + v + w \in Nat /\ w <= u + v + w
      OBVIOUS
    <3>3. QED
      BY <2>1, <3>1, <3>2
  <2>4. B \in Nat
    BY <1>1
  <2>5. D \in Nat /\ D <= a * B
    <3> DEFINE r == M - 1 - nh
    <3>1. r \in Nat /\ P + C + M - 1 = (nh + P) + C + r
      BY <1>1
    <3>2. nm * e \in Nat /\ nm * (C * S) \in Nat /\ nm * e <= nm * (C * S)
      BY <1>2, <1>3, Products
    <3>3. nm * (C * S) = a * C
      BY <1>1
    <3>4. a * (nh + P) \in Nat /\ a * C \in Nat /\ a * r \in Nat
      <4> HIDE DEF a, r
      <4>1. nh + P \in Nat
        BY <1>1
      <4>2. QED
        BY <1>1, <2>1, <3>1, <4>1, Products
    <3>5. a * ((nh + P) + C + r) = a * (nh + P) + a * C + a * r
      <4> HIDE DEF a, r
      <4>1. \A u, v, w, t \in Nat : u * (v + w + t) = u * v + u * w + u * t
        OBVIOUS
      <4>2. nh + P \in Nat
        BY <1>1
      <4>3. QED
        BY <1>1, <2>1, <3>1, <4>1, <4>2
    <3>6. a * (nh + P) + nm * e <= a * ((nh + P) + C + r)
      <4> HIDE DEF a, r
      <4>1. \A u, v, w, t \in Nat : v <= w => u + v <= u + w + t
        OBVIOUS
      <4>2. QED
        BY <3>2, <3>3, <3>4, <3>5, <4>1
    <3>7. a * B = 2 * (a * (P + C + M - 1))
      <4> HIDE DEF a
      <4>1. \A u, v \in Int : u * (2 * v) = 2 * (u * v)
        OBVIOUS
      <4>2. P + C + M - 1 \in Int
        BY <1>1
      <4>3. QED
        BY <2>1, <4>1, <4>2
    <3>8. D = 2 * (a * (nh + P) + nm * e)
      OBVIOUS
    <3> DEFINE d == a * (nh + P) + nm * e  q == a * (P + C + M - 1)
    <3>9. d \in Nat /\ q \in Nat /\ d <= q
      <4>1. d \in Nat
        <5> HIDE DEF a
        <5>1. QED
          BY <3>2, <3>4
      <4>2. q = a * ((nh + P) + C + r)
        BY <3>1
      <4>3. a * (nh + P) + a * C + a * r \in Nat
        <5> HIDE DEF a, r
        <5>1. QED
          BY <3>4
      <4>4. QED
        BY <3>5, <3>6, <4>1, <4>2, <4>3
    <3>10. D = 2 * d /\ a * B = 2 * q
      BY <3>7, <3>8
    <3> HIDE DEF d, q, a, D, B
    <3>11. QED
      BY <3>9, <3>10
  <2> HIDE DEF a, N, D, B
  <2>6. P * D <= P * (a * B)
    <3>1. a * B \in Nat
      BY <2>1, <2>4, Products
    <3>2. QED
      BY <1>1, <2>5, <3>1, Products
  <2>7. P * (a * B) = (P * a) * B
    <3>1. \A u, v, w \in Nat : u * (v * w) = (u * v) * w
      OBVIOUS
    <3>2. QED
      BY <1>1, <2>1, <2>4, <3>1
  <2>8. (P * a) * B <= N * B
    BY <2>1, <2>3, <2>4, Products
  <2>9. P * D \in Nat /\ (P * a) * B \in Nat /\ N * B \in Nat
    BY <1>1, <2>1, <2>3, <2>4, <2>5, Products
  <2>10. QED
    BY <2>6, <2>7, <2>8, <2>9
<1>6. QED
  BY <1>4, <1>5 DEF Records!AtLeast

LEMMA RecordEnough ==
  RecordInv => Records!TypeOK /\ Records!MachinesAreBounded /\ Records!PeopleDecide
<1> SUFFICES ASSUME RecordInv
             PROVE  Records!TypeOK /\ Records!MachinesAreBounded /\ Records!PeopleDecide
  OBVIOUS
<1>1. \A l \in Marks : count[l] \in Nat
  BY DEF RecordInv
<1>2. Records!TypeOK
  <2>1. ASSUME NEW l \in Marks PROVE count[l] \in 0..MaxDecisions
    <3>1. count[l] <= Total(count) /\ Total(count) \in 0..MaxDecisions
      BY <1>1 DEF Total, Marks, RecordInv
    <3>2. QED
      BY <1>1, <3>1, RecordConstants
  <2>2. count \in [Marks -> 0..MaxDecisions]
    BY <2>1 DEF RecordInv
  <2>3. QED
    BY <2>2, FiveMarks DEF RecordInv, Records!TypeOK
<1> DEFINE nh == Records!Labels("person")   kh == Records!Hits("person")
           nm == Records!Labels("machine")  km == Records!Hits("machine")
<1>3. nh \in Nat /\ kh \in Nat /\ nm \in Nat /\ km \in Nat
  BY <1>1 DEF Records!Labels, Records!Hits, Marks, Hit, Miss
<1>4. Records!Rate = IF nh >= MinLabels THEN Records!Record(nh, kh, nm, km)
                     ELSE IF nh * Share + Records!Counted(nm) >= MinLabels * Share
                     THEN Records!Assisted(nh, kh, nm, km) ELSE <<3, 4>>
  BY DEF Records!Rate, Records!Confident, Records!Unknown
<1> HIDE DEF nh, kh, nm, km
<1>5. ASSUME nh < MinLabels
      PROVE  Records!AtLeast(Records!Rate, <<Prior, 2 * (Prior + Cap + MinLabels - 1)>>)
  <2>1. ~(nh >= MinLabels)
    BY <1>3, <1>5, RecordConstants
  <2>2. CASE Records!Rate = <<3, 4>>
    BY <2>2, RecordConstants DEF Records!AtLeast
  <2>3. CASE Records!Rate = Records!Assisted(nh, kh, nm, km)
    BY <1>3, <1>5, <2>3, MachineShare
  <2>4. QED
    BY <1>4, <2>1, <2>2, <2>3
<1>6. ASSUME nh >= MinLabels
      PROVE  /\ 2 * kh > nh => ~Records!AtLeast(<<1, 2>>, Records!Rate)
             /\ 2 * kh < nh => ~Records!AtLeast(Records!Rate, <<1, 2>>)
  <2>1. Records!Rate = <<2 * kh + Prior, 2 * (nh + Prior)>>
    BY <1>4, <1>6 DEF Records!Record
  <2>2. QED
    BY <1>3, <2>1, RecordConstants DEF Records!AtLeast
<1>7. QED
  BY <1>2, <1>5, <1>6 DEF Records!MachinesAreBounded, Records!PeopleDecide, nh, kh

-----------------------------------------------------------------------------
(* The clock of a zone.                                                    *)

\* Quotient and remainder.
LEMMA Divided ==
  ASSUME NEW a \in Int, NEW k \in Nat, k > 0
  PROVE  a = (k * (a \div k)) + (a % k) /\ (a % k) \in 0..k-1 /\ (a \div k) \in Int
OBVIOUS

LEMMA Quotient ==
  ASSUME NEW k \in Nat, k > 0, NEW q \in Int, NEW r \in 0..k-1
  PROVE  ((k * q + r) % k) = r /\ ((k * q + r) \div k) = q /\ k * q + r \in Int
<1> DEFINE a == k * q + r  p == a \div k  s == a % k
<1>1. a \in Int /\ k * q \in Int
  <2>1. \A u, v \in Int : u * v \in Int
    OBVIOUS
  <2>2. QED
    BY <2>1
<1>2. a = k * p + s /\ s \in 0..k-1 /\ p \in Int
  <2> HIDE DEF a
  <2>1. QED
    BY <1>1, Divided
<1>3. a = k * q + r
  OBVIOUS
<1> HIDE DEF a, p, s
<1>4. \A u, v \in Int : u + 1 <= v => k * u + k <= k * v
  OBVIOUS
<1>5. p = q
  <2>1. k * p \in Int
    BY <1>1, <1>2
  <2>2. CASE p + 1 <= q
    BY <1>1, <1>2, <1>3, <1>4, <2>1, <2>2
  <2>3. CASE q + 1 <= p
    BY <1>1, <1>2, <1>3, <1>4, <2>1, <2>3
  <2>4. QED
    BY <1>2, <2>2, <2>3
<1>6. s = r
  BY <1>1, <1>2, <1>3, <1>5
<1>7. QED
  BY <1>1, <1>3, <1>5, <1>6 DEF a, p, s

\* To read a clock is to undo its shift.
LEMMA Shifted ==
  ASSUME NEW w \in Nat, w > 0, NEW x \in Int, NEW t \in 0..w-1, NEW z \in Int
  PROVE  (t = (x + w - z) % w) <=> ((t + z) % w = x % w)
<1> DEFINE p == x \div w  y == x % w
<1>1. x = w * p + y /\ y \in 0..w-1 /\ p \in Int
  BY Divided
<1>2. \A u, v \in Int : w * (u + 1 - v) = w * u + w - w * v /\ w * u \in Int /\ w * v \in Int
  OBVIOUS
<1>3. ASSUME t = (x + w - z) % w PROVE (t + z) % w = y
  <2> DEFINE a == x + w - z  q == a \div w
  <2>1. a \in Int
    OBVIOUS
  <2>2. a = w * q + t /\ q \in Int
    <3>1. a = w * (a \div w) + (a % w) /\ (a \div w) \in Int
      <4> HIDE DEF a
      <4>1. QED
        BY <2>1, Divided
    <3>2. QED
      BY <1>3, <3>1
  <2>3. a = x + w - z
    OBVIOUS
  <2> HIDE DEF a, q, p, y
  <2>4. w * (p + 1 - q) = w * p + w - w * q /\ w * p \in Int /\ w * q \in Int
    BY <1>1, <1>2, <2>2
  <2>5. t + z = w * (p + 1 - q) + y
    BY <1>1, <2>1, <2>2, <2>3, <2>4
  <2>6. p + 1 - q \in Int
    BY <1>1, <2>2
  <2>7. (w * (p + 1 - q) + y) % w = y
    BY <1>1, <2>6, Quotient
  <2>8. QED
    BY <2>5, <2>7
<1>4. ASSUME (t + z) % w = y PROVE t = (x + w - z) % w
  <2> DEFINE a == t + z  q == a \div w
  <2>1. a \in Int
    OBVIOUS
  <2>2. a = w * q + y /\ q \in Int
    <3>1. a = w * (a \div w) + (a % w) /\ (a \div w) \in Int
      <4> HIDE DEF a
      <4>1. QED
        BY <2>1, Divided
    <3>2. a % w = y
      BY <1>4
    <3> HIDE DEF a, y
    <3>3. QED
      BY <3>1, <3>2
  <2>3. a = t + z
    OBVIOUS
  <2> HIDE DEF a, q, p, y
  <2>4. w * (p + 1 - q) = w * p + w - w * q /\ w * p \in Int /\ w * q \in Int
    BY <1>1, <1>2, <2>2
  <2>5. x + w - z = w * (p + 1 - q) + t
    BY <1>1, <2>1, <2>2, <2>3, <2>4
  <2>6. p + 1 - q \in Int
    BY <1>1, <2>2
  <2>7. (w * (p + 1 - q) + t) % w = t
    BY <2>6, Quotient
  <2>8. QED
    BY <2>5, <2>7
<1>5. QED
  BY <1>3, <1>4

\* A day's slots, and a week's days.
Hour == LastSlot + 1
Sevenday == LastDay + 1

LEMMA WeekConstants ==
  /\ LastDay \in Nat /\ LastSlot \in Nat /\ Zones \subseteq Int
  /\ DefaultDays \subseteq Labour!Days /\ {DefaultStart, DefaultEnd} \subseteq Labour!Slots
  /\ Hour \in Nat /\ Hour > 0 /\ Sevenday \in Nat /\ Sevenday > 0
  /\ Labour!Week = Hour * Sevenday /\ Labour!Week \in Nat /\ Labour!Week >= Hour
<1>1. /\ LastDay \in Nat /\ LastSlot \in Nat /\ Zones \subseteq Int
      /\ DefaultDays \subseteq Labour!Days /\ {DefaultStart, DefaultEnd} \subseteq Labour!Slots
  BY GuidanceAssumption DEF Labour!HoursAssumption
<1>2. Hour \in Nat /\ Hour > 0 /\ Sevenday \in Nat /\ Sevenday > 0
  BY <1>1 DEF Hour, Sevenday
<1>3. Labour!Week = Sevenday * Hour
  BY DEF Labour!Week, Hour, Sevenday
<1> HIDE DEF Hour, Sevenday
<1>4. \A u, v \in Nat : v > 0 => u * v = v * u /\ u * v \in Nat /\ u * v >= u
  OBVIOUS
<1>5. QED
  BY <1>1, <1>2, <1>3, <1>4

\* A time of the week is a day and a slot.
LEMMA TimeOfWeek ==
  ASSUME NEW d \in Int, NEW s \in Labour!Slots
  PROVE  /\ (Hour * d + s) % Hour = s /\ (Hour * d + s) \div Hour = d
         /\ Hour * d + s \in Int
         /\ d \in Labour!Days => Hour * d + s \in 0..Labour!Week - 1
<1>1. s \in 0..Hour - 1
  BY WeekConstants DEF Labour!Slots, Hour
<1>2. (Hour * d + s) % Hour = s /\ (Hour * d + s) \div Hour = d /\ Hour * d + s \in Int
  BY <1>1, WeekConstants, Quotient
<1>3. ASSUME d \in Labour!Days PROVE Hour * d + s \in 0..Labour!Week - 1
  <2>1. d \in Nat /\ d + 1 <= Sevenday
    BY <1>3, WeekConstants DEF Labour!Days, Sevenday
  <2>2. \A h, u, v \in Nat : u + 1 <= v => h * u + h <= h * v /\ h * u \in Nat /\ h * v \in Nat
    OBVIOUS
  <2>3. Hour * d + Hour <= Hour * Sevenday /\ Hour * d \in Nat
    BY <2>1, <2>2, WeekConstants
  <2>4. QED
    BY <1>1, <2>3, WeekConstants
<1>4. QED
  BY <1>2, <1>3

\* What is known of the week.
WeekInv ==
  /\ zone \in Int /\ now \in 0..Labour!Week - 1
  /\ \/ hours \in Labour!Block /\ window = Labour!Absent /\ outside \in {-1, -2, 20}
     \/ window \in Labour!Block /\ hours = Labour!Absent /\ outside = -2

LEMMA WeekInit == Labour!Init => WeekInv
<1> SUFFICES ASSUME Labour!Init PROVE WeekInv
  OBVIOUS
<1>1. zone \in Int
  BY WeekConstants DEF Labour!Init
<1>2. now \in 0..Labour!Week - 1
  BY WeekConstants DEF Labour!Init
<1>3. QED
  BY <1>1, <1>2 DEF Labour!Init, WeekInv, Labour!NotSet, Labour!Unusable

LEMMA WeekStep == WeekInv /\ [Labour!Next]_weekVars => WeekInv'
<1> SUFFICES ASSUME WeekInv, [Labour!Next]_weekVars PROVE WeekInv'
  OBVIOUS
<1>1. UNCHANGED <<zone, hours, window, outside>>
  BY DEF Labour!Next, weekVars
<1> DEFINE then == now'
<1>2. then \in 0..Labour!Week - 1
  <2>1. then = now \/ (now < Labour!Week - 1 /\ then = now + 1)
    BY DEF Labour!Next, weekVars
  <2>2. now \in 0..Labour!Week - 1
    BY DEF WeekInv
  <2> HIDE DEF then
  <2>3. QED
    BY <2>1, <2>2, WeekConstants
<1>3. QED
  BY <1>1, <1>2 DEF WeekInv, Labour!Week

\* What a clock on the wall shows.
LEMMA OnTheWall ==
  ASSUME WeekInv
  PROVE  /\ Labour!Local \in 0..Labour!Week - 1
         /\ Labour!Local = Hour * Labour!Day + Labour!Slot
         /\ Labour!Day \in Labour!Days /\ Labour!Slot \in Labour!Slots
<1> DEFINE l == Labour!Local  w == Labour!Week  d == Labour!Day  s == Labour!Slot
<1>1. l \in 0..w-1
  <2>1. now + zone \in Int /\ w \in Nat /\ w > 0
    BY WeekConstants DEF WeekInv
  <2>2. l = (now + zone) % w
    BY DEF Labour!Local
  <2>3. QED
    BY <2>1, <2>2, Divided
<1>2. l = Hour * d + s /\ s \in 0..Hour - 1 /\ d \in Int
  <2>1. l \in Int
    BY <1>1, WeekConstants
  <2>2. d = l \div Hour /\ s = l % Hour
    BY DEF Labour!Day, Labour!Slot, Hour
  <2> HIDE DEF l, d, s
  <2>3. QED
    BY <2>1, <2>2, Divided, WeekConstants
<1>3. s \in Labour!Slots
  BY <1>2, WeekConstants DEF Labour!Slots, Hour
<1>4. d \in 0..Sevenday - 1
  <2>1. l \in Int /\ 0 <= l /\ l < Hour * Sevenday
    BY <1>1, WeekConstants
  <2> HIDE DEF l, d, s
  <2>2. \A h \in Nat, u, v \in Int :
          (u + 1 <= v => h * u + h <= h * v) /\ h * u \in Int /\ h * v \in Int
    OBVIOUS
  <2>3. CASE d + 1 <= 0
    <3>1. Hour * d + Hour <= Hour * 0
      BY <1>2, <2>2, <2>3, WeekConstants
    <3>2. QED
      BY <1>2, <2>1, <2>2, <3>1, WeekConstants
  <2>4. CASE Sevenday + 1 <= d + 1
    <3>1. Hour * Sevenday <= Hour * d
      <4>1. CASE Sevenday = d
        BY <4>1, <2>2, <1>2, WeekConstants
      <4>2. CASE Sevenday + 1 <= d
        <5>1. Hour * Sevenday + Hour <= Hour * d
          BY <1>2, <2>2, <4>2, WeekConstants
        <5>2. Hour * Sevenday \in Int /\ Hour * d \in Int
          BY <1>2, <2>2, WeekConstants
        <5>3. QED
          BY <5>1, <5>2, WeekConstants
      <4>3. QED
        BY <1>2, <2>4, <4>1, <4>2, WeekConstants
    <3>2. Hour * Sevenday \in Int /\ Hour * d \in Int
      BY <1>2, <2>2, WeekConstants
    <3>3. QED
      BY <1>2, <2>1, <3>1, <3>2
  <2>5. QED
    BY <1>2, <2>3, <2>4, WeekConstants
<1>5. d \in Labour!Days
  BY <1>4, WeekConstants DEF Labour!Days, Sevenday
<1>6. QED
  BY <1>1, <1>2, <1>3, <1>5

\* The time now is x, read in the zone, when x names it and when x is a week on.
LEMMA NowIs ==
  ASSUME WeekInv, NEW x \in Int
  PROVE  (now = (x + Labour!Week - zone) % Labour!Week) <=> Labour!Local = x % Labour!Week
<1>1. /\ Labour!Week \in Nat /\ Labour!Week > 0 /\ now \in 0..Labour!Week - 1 /\ zone \in Int
  BY WeekConstants DEF WeekInv
<1>2. (now = (x + Labour!Week - zone) % Labour!Week) <=> (now + zone) % Labour!Week = x % Labour!Week
  <2> DEFINE w == Labour!Week
  <2> HIDE DEF w
  <2>1. w \in Nat /\ w > 0 /\ now \in 0..w - 1 /\ zone \in Int
    BY <1>1 DEF w
  <2>2. (now = (x + w - zone) % w) <=> (now + zone) % w = x % w
    BY <2>1, Shifted
  <2>3. QED
    BY <2>2 DEF w
<1>3. QED
  BY <1>2 DEF Labour!Local

LEMMA WithinTheWeek ==
  ASSUME NEW x \in 0..Labour!Week - 1
  PROVE  x % Labour!Week = x /\ (x + Labour!Week) % Labour!Week = x
<1> DEFINE w == Labour!Week
<1>1. w \in Nat /\ w > 0 /\ x \in 0..w - 1
  BY WeekConstants
<1> HIDE DEF w
<1>2. (w * 0 + x) % w = x /\ (w * 1 + x) % w = x
  BY <1>1, Quotient
<1>3. w * 0 + x = x /\ w * 1 + x = x + w
  BY <1>1
<1>4. x % w = x /\ (x + w) % w = x
  BY <1>2, <1>3
<1>5. QED
  BY <1>4 DEF w

LEMMA FromSo ==
  ASSUME NEW d, NEW start_, NEW end_
  PROVE  now \in Labour!From(d, start_, end_) <=>
           \E i \in 0..(IF start_ <= end_ THEN end_ - start_ ELSE end_ - start_ + LastSlot + 1) :
             now = (d * (LastSlot + 1) + start_ + i + Labour!Week - zone) % Labour!Week
BY DEF Labour!From

\* From one time of a day to a later one.
LEMMA SameDay ==
  ASSUME WeekInv, NEW d \in Labour!Days, NEW start_ \in Labour!Slots, NEW end_ \in Labour!Slots,
         start_ <= end_
  PROVE  now \in Labour!From(d, start_, end_)
           <=> Labour!Day = d /\ Labour!Within(start_, end_)
<1>1. start_ \in Nat /\ end_ \in Nat /\ d \in Nat /\ Hour = LastSlot + 1
  BY WeekConstants DEF Labour!Slots, Labour!Days, Hour
<1>2. now \in Labour!From(d, start_, end_) <=>
        \E i \in 0..end_ - start_ :
          now = (d * (LastSlot + 1) + start_ + i + Labour!Week - zone) % Labour!Week
  BY FromSo
<1>3. ASSUME NEW i \in 0..end_ - start_
      PROVE  /\ (now = (d * (LastSlot + 1) + start_ + i + Labour!Week - zone) % Labour!Week)
                  <=> Labour!Local = Hour * d + (start_ + i)
             /\ Labour!Local = Hour * d + (start_ + i)
                  => Labour!Day = d /\ Labour!Slot = start_ + i
  <2> DEFINE x == Hour * d + (start_ + i)
  <2>1. start_ + i \in Labour!Slots
    BY <1>1, WeekConstants DEF Labour!Slots
  <2>2. /\ x \in 0..Labour!Week - 1 /\ x % Hour = start_ + i /\ x \div Hour = d /\ x \in Int
    BY <1>1, <2>1, TimeOfWeek
  <2>3. d * (LastSlot + 1) + start_ + i + Labour!Week - zone = x + Labour!Week - zone
    <3>1. d * Hour = Hour * d /\ Hour * d \in Int
      <4>1. \A u, v \in Int : u * v = v * u /\ u * v \in Int
        OBVIOUS
      <4>2. QED
        BY <1>1, <4>1, WeekConstants
    <3>2. d * (LastSlot + 1) = Hour * d
      BY <1>1, <3>1
    <3>3. Labour!Week \in Int /\ zone \in Int
      BY WeekConstants DEF WeekInv
    <3>4. QED
      BY <1>1, <3>1, <3>2, <3>3
  <2> HIDE DEF x
  <2>4. (now = (x + Labour!Week - zone) % Labour!Week) <=> Labour!Local = x % Labour!Week
    BY <2>2, NowIs
  <2>5. x % Labour!Week = x
    BY <2>2, WithinTheWeek
  <2>6. Labour!Local = x => Labour!Day = d /\ Labour!Slot = start_ + i
    BY <2>2 DEF Labour!Day, Labour!Slot, Hour
  <2>7. (now = (d * (LastSlot + 1) + start_ + i + Labour!Week - zone) % Labour!Week)
          <=> Labour!Local = x
    BY <2>3, <2>4, <2>5
  <2>8. QED
    BY <2>6, <2>7 DEF x
<1>4. ASSUME now \in Labour!From(d, start_, end_)
      PROVE  Labour!Day = d /\ Labour!Within(start_, end_)
  <2>1. PICK i \in 0..end_ - start_ : Labour!Local = Hour * d + (start_ + i)
    BY <1>2, <1>3, <1>4
  <2>2. Labour!Day = d /\ Labour!Slot = start_ + i
    BY <1>3, <2>1
  <2>3. QED
    BY <1>1, <2>2 DEF Labour!Within
<1>5. ASSUME Labour!Day = d, Labour!Within(start_, end_)
      PROVE  now \in Labour!From(d, start_, end_)
  <2>1. Labour!Slot \in Nat /\ start_ <= Labour!Slot /\ Labour!Slot <= end_
    BY <1>5, OnTheWall, WeekConstants DEF Labour!Within, Labour!Slots
  <2>2. Labour!Slot - start_ \in 0..end_ - start_ /\ start_ + (Labour!Slot - start_) = Labour!Slot
    BY <1>1, <2>1
  <2>3. Labour!Local = Hour * d + Labour!Slot
    BY <1>5, OnTheWall
  <2>4. Labour!Local = Hour * d + (start_ + (Labour!Slot - start_))
    BY <2>2, <2>3
  <2>5. QED
    BY <1>2, <1>3, <2>2, <2>4
<1>6. QED
  BY <1>4, <1>5

\* From one time of any day to an earlier one of the next.
LEMMA PastMidnight ==
  ASSUME WeekInv, NEW start_ \in Labour!Slots, NEW end_ \in Labour!Slots, start_ > end_
  PROVE  (\E d \in Labour!Days : now \in Labour!From(d, start_, end_))
           <=> Labour!Overnight(start_, end_)
<1>1. start_ \in Nat /\ end_ \in Nat /\ Hour = LastSlot + 1 /\ start_ < Hour
  BY WeekConstants DEF Labour!Slots, Hour
<1>2. /\ Labour!Day \in Labour!Days /\ Labour!Slot \in Labour!Slots
      /\ Labour!Local = Hour * Labour!Day + Labour!Slot
      /\ Labour!Local \in 0..Labour!Week - 1 /\ zone \in Int
      /\ Labour!Slot \in Nat /\ Labour!Slot < Hour /\ Labour!Day \in Nat
  BY <1>1, OnTheWall, WeekConstants DEF Labour!Slots, Labour!Days, WeekInv
<1>3. ASSUME NEW d \in Labour!Days
      PROVE  /\ d \in Nat
             /\ now \in Labour!From(d, start_, end_) <=>
                  \E i \in 0..end_ - start_ + Hour :
                    Labour!Local = (Hour * d + (start_ + i)) % Labour!Week
  <2>1. d \in Nat
    BY WeekConstants DEF Labour!Days
  <2>2. now \in Labour!From(d, start_, end_) <=>
          \E i \in 0..end_ - start_ + LastSlot + 1 :
            now = (d * (LastSlot + 1) + start_ + i + Labour!Week - zone) % Labour!Week
    BY <1>1, FromSo
  <2>3. end_ - start_ + LastSlot + 1 = end_ - start_ + Hour
    BY <1>1, WeekConstants
  <2>4. ASSUME NEW i \in 0..end_ - start_ + Hour
        PROVE  (now = (d * (LastSlot + 1) + start_ + i + Labour!Week - zone) % Labour!Week)
                 <=> Labour!Local = (Hour * d + (start_ + i)) % Labour!Week
    <3> DEFINE x == Hour * d + (start_ + i)
    <3>1. d * Hour = Hour * d /\ Hour * d \in Int
      <4>1. \A u, v \in Int : u * v = v * u /\ u * v \in Int
        OBVIOUS
      <4>2. QED
        BY <2>1, <4>1, WeekConstants
    <3>2. d * (LastSlot + 1) = Hour * d
      BY <1>1, <3>1
    <3>3. Labour!Week \in Int /\ i \in Int
      BY WeekConstants, <1>1
    <3>4. /\ d * (LastSlot + 1) + start_ + i + Labour!Week - zone = x + Labour!Week - zone
          /\ x \in Int
      BY <1>1, <1>2, <3>1, <3>2, <3>3
    <3> HIDE DEF x
    <3>5. (now = (x + Labour!Week - zone) % Labour!Week) <=> Labour!Local = x % Labour!Week
      BY <3>4, NowIs
    <3>6. (now = (d * (LastSlot + 1) + start_ + i + Labour!Week - zone) % Labour!Week)
            <=> Labour!Local = x % Labour!Week
      BY <3>4, <3>5
    <3>7. QED
      BY <3>6 DEF x
  <2>5. QED
    BY <2>1, <2>2, <2>3, <2>4
<1>4. ASSUME NEW d \in Labour!Days, now \in Labour!From(d, start_, end_)
      PROVE  Labour!Overnight(start_, end_)
  <2>1. PICK i \in 0..end_ - start_ + Hour :
          Labour!Local = (Hour * d + (start_ + i)) % Labour!Week
    BY <1>3, <1>4
  <2>2. i \in Nat /\ d \in Nat
    BY <1>1, <1>3
  <2>3. CASE start_ + i < Hour
    <3>1. start_ + i \in Labour!Slots
      BY <1>1, <2>2, <2>3, WeekConstants DEF Labour!Slots
    <3>2. /\ Hour * d + (start_ + i) \in 0..Labour!Week - 1
          /\ (Hour * d + (start_ + i)) % Hour = start_ + i
      BY <2>2, <3>1, TimeOfWeek
    <3>3. Labour!Local = Hour * d + (start_ + i)
      BY <2>1, <3>2, WithinTheWeek
    <3>4. Labour!Slot = start_ + i
      BY <3>2, <3>3 DEF Labour!Slot, Hour
    <3>5. Labour!Slot >= start_
      BY <1>1, <2>2, <3>4
    <3>6. QED
      BY <3>5 DEF Labour!Overnight
  <2>4. CASE start_ + i >= Hour
    <3> DEFINE j == start_ + i - Hour
    <3>1. j \in Labour!Slots /\ j <= end_ /\ j \in Nat
      BY <1>1, <2>2, <2>4, WeekConstants DEF Labour!Slots
    <3>2. Hour * (d + 1) = Hour * d + Hour /\ Hour * d \in Int
      <4>1. \A u, v \in Int : u * (v + 1) = u * v + u /\ u * v \in Int
        OBVIOUS
      <4>2. QED
        BY <2>2, <4>1, WeekConstants
    <3>3. Hour * d + (start_ + i) = Hour * (d + 1) + j
      BY <1>1, <2>2, <3>2, WeekConstants
    <3> HIDE DEF j
    <3>4. CASE d + 1 \in Labour!Days
      <4>1. /\ Hour * (d + 1) + j \in 0..Labour!Week - 1
            /\ (Hour * (d + 1) + j) % Hour = j
        BY <2>2, <3>1, <3>4, TimeOfWeek
      <4>2. Labour!Local = Hour * (d + 1) + j
        BY <2>1, <3>3, <4>1, WithinTheWeek
      <4>3. Labour!Slot = j
        BY <4>1, <4>2 DEF Labour!Slot, Hour
      <4>4. QED
        BY <3>1, <4>3 DEF Labour!Overnight
    <3>5. CASE d + 1 \notin Labour!Days
      <4>1. d + 1 = Sevenday
        BY <2>2, <3>5, WeekConstants DEF Labour!Days, Sevenday
      <4>2. Hour * (d + 1) = Labour!Week
        BY <4>1, WeekConstants
      <4>3. /\ Hour * 0 + j \in 0..Labour!Week - 1 /\ (Hour * 0 + j) % Hour = j
        <5>1. 0 \in Labour!Days
          BY WeekConstants DEF Labour!Days
        <5>2. QED
          BY <3>1, <5>1, TimeOfWeek
      <4>4. Hour * 0 + j = j
        BY <3>1, WeekConstants
      <4>5. Hour * d + (start_ + i) = j + Labour!Week
        BY <3>1, <3>3, <4>2, WeekConstants
      <4>6. Labour!Local = j
        BY <2>1, <4>3, <4>4, <4>5, WithinTheWeek
      <4>7. Labour!Slot = j
        BY <4>3, <4>4, <4>6 DEF Labour!Slot, Hour
      <4>8. QED
        BY <3>1, <4>7 DEF Labour!Overnight
    <3>6. QED
      BY <3>4, <3>5
  <2>5. QED
    BY <1>1, <2>2, <2>3, <2>4
<1>5. ASSUME Labour!Overnight(start_, end_)
      PROVE  \E d \in Labour!Days : now \in Labour!From(d, start_, end_)
  <2> DEFINE l == Labour!Local  today == Labour!Day  s == Labour!Slot
  <2>1. l % Labour!Week = l /\ (l + Labour!Week) % Labour!Week = l
    BY <1>2, WithinTheWeek
  <2>2. CASE s >= start_
    <3>1. s - start_ \in 0..end_ - start_ + Hour
      BY <1>1, <1>2, <2>2
    <3>2. start_ + (s - start_) = s
      BY <1>1, <1>2
    <3>3. l = (Hour * today + (start_ + (s - start_))) % Labour!Week
      BY <1>2, <2>1, <3>2
    <3>4. now \in Labour!From(today, start_, end_)
      BY <1>2, <1>3, <3>1, <3>3
    <3>5. QED
      BY <1>2, <3>4
  <2>3. CASE s <= end_
    <3> DEFINE i == s - start_ + Hour  d == IF today = 0 THEN LastDay ELSE today - 1
    <3>1. i \in 0..end_ - start_ + Hour /\ start_ + i = s + Hour
      BY <1>1, <1>2, <2>3
    <3>2. d \in Labour!Days /\ d \in Nat
      BY <1>2, WeekConstants DEF Labour!Days
    <3>3. Hour * (d + 1) = Hour * d + Hour /\ Hour * d \in Int
      <4> HIDE DEF d
      <4>1. \A u, v \in Int : u * (v + 1) = u * v + u /\ u * v \in Int
        OBVIOUS
      <4>2. QED
        BY <3>2, <4>1, WeekConstants
    <3>4. Hour * d + (start_ + i) = Hour * (d + 1) + s
      <4> HIDE DEF d, i, s
      <4>1. s \in Nat
        BY <1>2 DEF s
      <4>2. QED
        BY <3>1, <3>3, <4>1, WeekConstants
    <3>5. (Hour * d + (start_ + i)) % Labour!Week = l
      <4>1. CASE today = 0
        <5>1. d + 1 = Sevenday
          BY <4>1, WeekConstants DEF Sevenday
        <5>2. Hour * (d + 1) = Labour!Week
          <6> HIDE DEF d
          <6>1. QED
            BY <5>1, WeekConstants
        <5>3. l = s
          <6>1. Hour * 0 + s = s
            BY <1>2, WeekConstants
          <6>2. QED
            BY <1>2, <4>1, <6>1
        <5>4. Hour * d + (start_ + i) = l + Labour!Week
          <6> HIDE DEF d, i, l, s
          <6>1. s \in Nat
            BY <1>2 DEF s
          <6>2. QED
            BY <3>4, <5>2, <5>3, <6>1, WeekConstants
        <5>5. QED
          BY <2>1, <5>4
      <4>2. CASE today # 0
        <5>1. d + 1 = today
          BY <1>2, <4>2
        <5>2. Hour * d + (start_ + i) = l
          BY <1>2, <3>4, <5>1
        <5>3. QED
          BY <2>1, <5>2
      <4>3. QED
        BY <4>1, <4>2
    <3>6. now \in Labour!From(d, start_, end_)
      <4> HIDE DEF d, i
      <4>1. QED
        BY <1>3, <3>1, <3>2, <3>5
    <3>7. QED
      BY <3>2, <3>6
  <2>4. QED
    BY <1>5, <2>2, <2>3 DEF Labour!Overnight
<1>6. QED
  BY <1>4, <1>5

LEMMA WeekEnough ==
  WeekInv => /\ Labour!TypeOK /\ Labour!HoursAsMeant /\ Labour!WindowAsMeant
             /\ Labour!RiskAsMeant
<1> SUFFICES ASSUME WeekInv
             PROVE  /\ Labour!TypeOK /\ Labour!HoursAsMeant /\ Labour!WindowAsMeant
                    /\ Labour!RiskAsMeant
  OBVIOUS
<1>1. Labour!TypeOK
  BY OnTheWall DEF WeekInv, Labour!TypeOK
<1>2. /\ Labour!Slots \subseteq Nat /\ DefaultStart \in Labour!Slots
      /\ DefaultEnd \in Labour!Slots /\ DefaultDays \subseteq Labour!Days
      /\ Labour!Unusable \notin Labour!Slots /\ Labour!NotSet \notin Labour!Times
      /\ Labour!Absent \notin Labour!Block
  <2>1. Labour!NotSet \notin Labour!Times /\ Labour!Unusable \notin Labour!Slots
    BY WeekConstants DEF Labour!Slots, Labour!NotSet, Labour!Times, Labour!Unusable
  <2>2. Labour!Absent \notin Labour!Block
    BY <2>1 DEF Labour!Absent, Labour!Block
  <2>3. QED
    BY <2>1, <2>2, WeekConstants DEF Labour!Slots
<1>3. Labour!HoursAsMeant
  <2> DEFINE days_ == IF hours.days = {} THEN DefaultDays ELSE hours.days
             s_ == IF hours.start = Labour!Unusable THEN DefaultStart ELSE hours.start
             e_ == IF hours.end = Labour!Unusable THEN DefaultEnd ELSE hours.end
  <2> SUFFICES ASSUME hours # Labour!Absent
               PROVE  Labour!InHours <=> IF s_ <= e_ THEN Labour!Meant(days_, s_, e_) ELSE FALSE
    BY DEF Labour!HoursAsMeant
  <2>1. /\ hours.days \subseteq Labour!Days
        /\ hours.start \in Labour!Slots \cup {Labour!Unusable}
        /\ hours.end \in Labour!Slots \cup {Labour!Unusable}
    BY DEF WeekInv, Labour!Block, Labour!Times
  <2>2. /\ days_ \subseteq Labour!Days /\ s_ \in Labour!Slots /\ e_ \in Labour!Slots
        /\ Labour!Business.days = days_ /\ Labour!Business.start = s_ /\ Labour!Business.end = e_
    BY <1>2, <2>1 DEF Labour!Business, Labour!OrElse
  <2>3. Labour!InHours <=> Labour!Day \in days_ /\ Labour!Within(s_, e_)
    <3> HIDE DEF days_, s_, e_
    <3>1. QED
      BY <2>2 DEF Labour!InHours
  <2> HIDE DEF days_, s_, e_
  <2>4. CASE s_ <= e_
    <3>1. \A d \in days_ : now \in Labour!From(d, s_, e_)
                              <=> Labour!Day = d /\ Labour!Within(s_, e_)
      BY <2>2, <2>4, SameDay
    <3>2. QED
      BY <2>3, <2>4, <3>1 DEF Labour!Meant
  <2>5. CASE ~(s_ <= e_)
    <3>1. ~Labour!Within(s_, e_)
      <4>1. Labour!Slot \in Nat /\ s_ \in Nat /\ e_ \in Nat
        BY <1>2, <2>2, OnTheWall
      <4>2. QED
        BY <2>5, <4>1 DEF Labour!Within
    <3>2. QED
      BY <2>3, <2>5, <3>1
  <2>6. QED
    BY <2>4, <2>5
<1>4. Labour!Usable => /\ window # Labour!Absent /\ window \in Labour!Block
                       /\ hours = Labour!Absent
                       /\ window.start \in Labour!Slots /\ window.end \in Labour!Slots
                       /\ window.days \subseteq Labour!Days
  <2> SUFFICES ASSUME Labour!Usable
               PROVE  /\ window # Labour!Absent /\ window \in Labour!Block
                      /\ hours = Labour!Absent
                      /\ window.start \in Labour!Slots /\ window.end \in Labour!Slots
                      /\ window.days \subseteq Labour!Days
    OBVIOUS
  <2>1. Labour!Absent.days = {}
    BY DEF Labour!Absent
  <2>2. window # Labour!Absent
    BY <2>1 DEF Labour!Usable
  <2>3. window \in Labour!Block /\ hours = Labour!Absent
    BY <2>2 DEF WeekInv
  <2>4. QED
    BY <2>2, <2>3 DEF Labour!Usable, Labour!Block
<1>5. Labour!WindowAsMeant
  <2> SUFFICES ASSUME Labour!Usable
               PROVE  /\ window.start <= window.end \/ window.days = Labour!Days =>
                           (Labour!InWindow <=>
                              Labour!Meant(window.days, window.start, window.end))
                      /\ Labour!InWindow => Labour!Day \in window.days
    BY DEF Labour!WindowAsMeant
  <2> DEFINE days_ == window.days  s_ == window.start  e_ == window.end
  <2>1. days_ \subseteq Labour!Days /\ s_ \in Labour!Slots /\ e_ \in Labour!Slots
    BY <1>4
  <2>2. Labour!InWindow <=> /\ Labour!Day \in days_
                            /\ Labour!Within(s_, e_) \/ Labour!Overnight(s_, e_)
    BY DEF Labour!InWindow
  <2>3. s_ \in Nat /\ e_ \in Nat /\ Labour!Slot \in Nat /\ Labour!Day \in Labour!Days
    BY <1>2, <2>1, OnTheWall
  <2> HIDE DEF days_, s_, e_
  <2>4. CASE s_ <= e_
    <3>1. \A d \in days_ : now \in Labour!From(d, s_, e_)
                              <=> Labour!Day = d /\ Labour!Within(s_, e_)
      BY <2>1, <2>4, SameDay
    <3>2. ~Labour!Overnight(s_, e_)
      BY <2>3, <2>4 DEF Labour!Overnight
    <3>3. Labour!InWindow <=> Labour!Meant(days_, s_, e_)
      BY <2>2, <3>1, <3>2 DEF Labour!Meant
    <3>4. QED
      BY <2>2, <3>3 DEF days_, s_, e_
  <2>5. CASE ~(s_ <= e_)
    <3>1. ~Labour!Within(s_, e_) /\ s_ > e_
      BY <2>3, <2>5 DEF Labour!Within
    <3>2. ASSUME days_ = Labour!Days
          PROVE  Labour!InWindow <=> Labour!Meant(days_, s_, e_)
      <4>1. (\E d \in Labour!Days : now \in Labour!From(d, s_, e_)) <=> Labour!Overnight(s_, e_)
        BY <2>1, <3>1, PastMidnight
      <4>2. QED
        BY <2>2, <2>3, <3>1, <3>2, <4>1 DEF Labour!Meant
    <3>3. QED
      BY <2>2, <2>5, <3>2 DEF days_, s_, e_
  <2>6. QED
    BY <2>4, <2>5
<1>6. Labour!RiskAsMeant
  <2>1. Labour!InWindow => Labour!Usable
    BY DEF Labour!InWindow
  <2>2. Labour!OutsideRisk \in {15, 20}
    BY DEF Labour!OutsideRisk, WeekInv
  <2>3. ASSUME Labour!Risk < 100 PROVE window # Labour!Absent /\ Labour!Usable
    <3>1. CASE Labour!InWindow
      BY <1>4, <2>1, <3>1
    <3>2. CASE ~Labour!InWindow
      BY <2>2, <2>3, <3>2 DEF Labour!Risk
    <3>3. QED
      BY <3>1, <3>2
  <2>4. ASSUME hours = Labour!Absent, ~Labour!Usable
        PROVE  Labour!Risk = IF Labour!Day \in Weekend THEN 130 ELSE 100
    <3>1. ~Labour!InWindow /\ Labour!InHours
      BY <2>1, <2>4 DEF Labour!InHours
    <3>2. QED
      BY <3>1 DEF Labour!Risk
  <2>5. ASSUME hours # Labour!Absent, ~Labour!InHours PROVE Labour!Risk >= 150
    <3>1. ~Labour!InWindow
      BY <1>4, <2>1, <2>5
    <3>2. QED
      BY <2>2, <2>5, <3>1 DEF Labour!Risk
  <2>6. QED
    BY <2>3, <2>4, <2>5 DEF Labour!RiskAsMeant
<1>7. QED
  BY <1>1, <1>3, <1>5, <1>6

-----------------------------------------------------------------------------
(* The sum.                                                                *)

\* A step of the sum is a step of one part, and leaves the others alone.
LEMMA PartsMove ==
  [AllNext]_allVars =>
    /\ [Next]_vars /\ [Configs!Next]_configVars /\ [Periodic!Next]_jobVars
    /\ [Nights!Next]_nightVars /\ [Manager!Next]_managerVars /\ part' = part
BY DEF AllNext, DeskPart, SignInPart, UsersPart, ConfigsPart, GuidesPart, SeverityPart,
       ManagerPart, HandsPart, RecordPart, JobsPart, NightsPart, WeekPart, SwitchPart,
       OtherParts, labourVars, tendVars, allVars

\* A rule found valid has no error, where both layers are there and no other
\* validation touched the probe (wazuh_client.py:757); no probe stays behind
\* (wazuh_client.py:779), no deployed rule is written away (wazuh_client.py:473),
\* and a script is reported as it is (wazuh_client.py:944).
THEOREM RulesAreSafe == AllSpec => []ManagerHolds
<1>1. AllInit => ManagerInv
  BY ManagerInit DEF AllInit
<1>2. ManagerInv /\ [AllNext]_allVars => ManagerInv'
  BY PartsMove, ManagerStep
<1>3. ManagerInv => ManagerHolds
  BY ManagerEnough DEF ManagerHolds
<1>4. QED
  BY <1>1, <1>2, <1>3, PTL DEF AllSpec

\* The configurations of the sum are those TenantConfigs_proofs is about.
Keys == INSTANCE TenantConfigs_proofs WITH row <- config

LEMMA SameConfigs ==
  /\ Configs!ConfigsAssumption = Keys!ConfigsAssumption
  /\ Configs!Init = Keys!Init /\ Configs!Next = Keys!Next
  /\ Configs!TypeOK = Keys!TypeOK /\ Configs!NeverUnderOwnKey = Keys!NeverUnderOwnKey
  /\ Configs!RotationKeepsRows = Keys!RotationKeepsRows
  /\ Configs!FieldsSurvive = Keys!FieldsSurvive
  /\ Configs!NeverGlobalByFault = Keys!NeverGlobalByFault
  /\ Configs!ServesTheNew = Keys!ServesTheNew
<1> USE DEF Configs!Missing, Keys!Missing, Configs!Invalid, Keys!Invalid,
  Configs!Stray, Keys!Stray, Configs!MadeUp, Keys!MadeUp, Configs!Unread, Keys!Unread,
  Configs!Nil, Keys!Nil, Configs!NoRow, Keys!NoRow, Configs!KeyFor, Keys!KeyFor,
  Configs!Opens, Keys!Opens, Configs!Decrypt, Keys!Decrypt,
  Configs!KeyAfterUse, Keys!KeyAfterUse, Configs!Writable, Keys!Writable,
  Configs!IsCurrent, Keys!IsCurrent, Configs!Encrypted, Keys!Encrypted,
  Configs!env, Keys!env, Configs!registry, Keys!registry,
  Configs!history, Keys!history, Configs!Reload, Keys!Reload,
  Configs!Fetch, Keys!Fetch, Configs!Keep, Keys!Keep, Configs!Create, Keys!Create,
  Configs!UseKey, Keys!UseKey, Configs!BeginUpdate, Keys!BeginUpdate,
  Configs!FinishUpdate, Keys!FinishUpdate, Configs!Restart, Keys!Restart,
  Configs!RestartWith, Keys!RestartWith, Configs!Rotate, Keys!Rotate,
  Configs!Rewrite, Keys!Rewrite
<1>1. Configs!Next = Keys!Next
  BY Zenon DEF Configs!Next, Keys!Next
<1>2. Configs!Init = Keys!Init
  BY Zenon DEF Configs!Init, Keys!Init
<1>3. /\ Configs!ConfigsAssumption = Keys!ConfigsAssumption
      /\ Configs!TypeOK = Keys!TypeOK /\ Configs!NeverUnderOwnKey = Keys!NeverUnderOwnKey
  BY Zenon DEF Configs!ConfigsAssumption, Keys!ConfigsAssumption, Configs!TypeOK,
     Keys!TypeOK, Configs!NeverUnderOwnKey, Keys!NeverUnderOwnKey
<1>4. /\ Configs!RotationKeepsRows = Keys!RotationKeepsRows
      /\ Configs!FieldsSurvive = Keys!FieldsSurvive
  BY Zenon DEF Configs!RotationKeepsRows, Keys!RotationKeepsRows, Configs!FieldsSurvive,
     Keys!FieldsSurvive
<1>5. /\ Configs!NeverGlobalByFault = Keys!NeverGlobalByFault
      /\ Configs!ServesTheNew = Keys!ServesTheNew
  BY Zenon DEF Configs!NeverGlobalByFault, Keys!NeverGlobalByFault,
     Configs!ServesTheNew, Keys!ServesTheNew
<1>6. QED
  BY <1>1, <1>2, <1>3, <1>4, <1>5

LEMMA ConfigsBegin == AllInit => Keys!Init
  BY SameConfigs DEF AllInit

LEMMA ConfigsMove == [AllNext]_allVars => [Keys!Next]_configVars
  BY PartsMove, SameConfigs

LEMMA ConfigsAre ==
  AllSpec =>
    [](/\ Configs!TypeOK /\ Configs!NeverUnderOwnKey /\ Configs!RotationKeepsRows
       /\ Configs!FieldsSurvive /\ Configs!NeverGlobalByFault /\ Configs!ServesTheNew)
<1>1. Keys!ConfigsAssumption
  BY TenantsAssumption, SameConfigs
<1>2. AllSpec => Keys!Spec
  <2>1. Keys!configVars = configVars
    BY DEF Keys!configVars, configVars
  <2>2. AllSpec => [][Keys!Next]_configVars
    BY ConfigsMove, PTL DEF AllSpec
  <2>3. QED
    BY <2>1, <2>2, ConfigsBegin, PTL DEF AllSpec, Keys!Spec, Keys!configVars, configVars
<1>3. Keys!Spec => /\ []Keys!TypeOK /\ []Keys!NeverUnderOwnKey /\ []Keys!RotationKeepsRows
                   /\ []Keys!FieldsSurvive /\ []Keys!NeverGlobalByFault
                   /\ []Keys!ServesTheNew
  BY <1>1, Keys!ConfigTypes, Keys!NoOwnKey, Keys!RowsStayReadable, Keys!UpdatesSurvive,
     Keys!NoFallBack, Keys!NewIsServed
<1>4. /\ Keys!TypeOK => Configs!TypeOK
      /\ Keys!NeverUnderOwnKey => Configs!NeverUnderOwnKey
      /\ Keys!RotationKeepsRows => Configs!RotationKeepsRows
      /\ Keys!FieldsSurvive => Configs!FieldsSurvive
      /\ Keys!NeverGlobalByFault => Configs!NeverGlobalByFault
      /\ Keys!ServesTheNew => Configs!ServesTheNew
  BY SameConfigs
<1>5. QED
  BY <1>2, <1>3, <1>4, PTL

\* No thread is left across tenants (store.py:1419), a job has one runner
\* (main.py:1201), each tenant has its turn (main.py:1392) and is polled
\* (admin.py:33); no row names a decision that was deleted (store.py:3491) and none
\* outstays its days (store.py:3477); and what a tenant configured is kept,
\* readable, and used (tenant_crypto.py:242, admin.py:637, tenant_registry.py:255).
THEOREM TenantsAreTended == AllSpec => []TenantsHold
<1> DEFINE Tended == IInv /\ JobsInv /\ (part = "nights" => NightsInv)
<1>1. AllInit => Tended
  BY Inductive, JobsInit, NightsInit DEF AllInit
<1>2. Tended /\ [AllNext]_allVars => Tended'
  BY PartsMove, InvStep, JobsStep, NightsStep
<1>3. Tended => (part = "desk" => TypeOK) /\ JobsHold
  BY JobsEnough, NightsEnough DEF IInv, Base, JobsHold
<1>4. (part = "desk" => TypeOK) /\ JobsHold
      /\ (/\ Configs!TypeOK /\ Configs!NeverUnderOwnKey /\ Configs!RotationKeepsRows
          /\ Configs!FieldsSurvive /\ Configs!NeverGlobalByFault /\ Configs!ServesTheNew)
      => TenantsHold
  BY DEF TenantsHold, ConfigsHold
<1> HIDE DEF Tended
<1>5. QED
  BY <1>1, <1>2, <1>3, <1>4, ConfigsAre, PTL DEF AllSpec

\* PartsMove, of the hands and the accounts.
LEMMA AccountsMove ==
  [AllNext]_allVars =>
    /\ [Hands!Next]_handVars /\ [SignIns!Next]_sessionVars
    /\ [People!Next]_userVars /\ [Switching!Next]_switchVars
BY DEF AllNext, DeskPart, SignInPart, UsersPart, ConfigsPart, GuidesPart, SeverityPart,
       ManagerPart, HandsPart, RecordPart, JobsPart, NightsPart, WeekPart, SwitchPart,
       OtherParts, labourVars, tendVars, allVars

\* A decision is in the hands of one analyst, who was told so, however claims and
\* releases meet (store.py:2867); of an incident that holds unless assignments
\* overlapped (incidents.py:285), as its tier never falls and acknowledged
\* evidence stays, unless escalations (sla.py:132) or additions (store.py:5625) did.
THEOREM CasesAreHeld == AllSpec => HandsHold
<1>1. AllInit => HandsInv
  BY HandsInit DEF AllInit
<1>2. HandsInv /\ [AllNext]_allVars => HandsInv' /\ [tier' >= tier \/ "raise" \in overlapped]_handVars
  BY AccountsMove, HandsStep
<1>3. HandsInv => (part = "hands" => /\ Hands!TypeOK /\ Hands!OneOwner
                                    /\ Hands!OwnerIsOwner /\ Hands!AckedIsKept)
  BY HandsEnough
<1>4. [][tier' >= tier \/ "raise" \in overlapped]_handVars => Hands!TierNeverFalls
  BY DEF Hands!TierNeverFalls, Hands!handVars, handVars
<1>5. QED
  BY <1>1, <1>2, <1>3, <1>4, PTL DEF AllSpec, HandsHold

\* A sign-out that was acknowledged holds where it was stored (auth.py:164) and,
\* after a start, everywhere (auth.py:43); nobody raises a peer (admin.py:102) or
\* touches the top account (admin.py:134), and the user limit is exceeded only by
\* what slack counts (feature_gates.py:208); a request is served by another
\* tenant only for a provider, at the pace and in the audit log
\* (middleware.py:90, 104, 139).
THEOREM AccountsAreKept == AllSpec => AccountsHold
<1> DEFINE SignedIn == SignInsInv /\ starts \in Nat
<1>1. AllInit => SignedIn /\ PeopleInv /\ SwitchInv
  BY SignInsInit, PeopleInit, SwitchInit DEF AllInit, SignIns!Init
<1>2. SignedIn /\ [AllNext]_allVars => SignedIn' /\ [Spreads]_sessionVars
  BY AccountsMove, SignInsStep
<1>3. PeopleInv /\ [AllNext]_allVars => PeopleInv'
  BY AccountsMove, PeopleStep
<1>4. SwitchInv /\ [AllNext]_allVars => SwitchInv' /\ [HomeOrAsked]_switchVars
  BY AccountsMove, SwitchStep
<1>5. /\ SignedIn => (part = "sign-in" => /\ SignIns!TypeOK /\ SignIns!SignedOutStaysOut
                                          /\ SignIns!SwitchedOffLeaves)
      /\ PeopleInv => (part = "users" => /\ People!TypeOK /\ People!NoPeerIsMade
                                         /\ People!TopUntouched /\ People!WithinQuota)
      /\ SwitchInv => (part = "switch" => /\ Switching!TypeOK /\ Switching!SwitchesArePaced
                                          /\ Switching!StaysAreNoted)
  BY SignInsEnough, PeopleEnough, SwitchEnough
<1>6. [][Spreads]_sessionVars => SignIns!SpreadsByStart
  BY DEF Spreads, SignIns!SpreadsByStart, SignIns!sessionVars, sessionVars
<1>7. [][HomeOrAsked]_switchVars => Switching!NoneAbroad
  BY DEF HomeOrAsked, Switching!NoneAbroad, Switching!switchVars, switchVars
<1> HIDE DEF SignedIn
<1>8. QED
  BY <1>1, <1>2, <1>3, <1>4, <1>5, <1>6, <1>7, PTL DEF AllSpec, AccountsHold

\* PartsMove, of the guidance and what is read with it.
LEMMA GuidanceMove ==
  [AllNext]_allVars =>
    /\ [Guides!Next]_guideVars /\ [Severity!Next]_severityVars
    /\ [Records!Next]_recordVars /\ [Labour!Next]_weekVars /\ part' = part
BY DEF AllNext, DeskPart, SignInPart, UsersPart, ConfigsPart, GuidesPart, SeverityPart,
       ManagerPart, HandsPart, RecordPart, JobsPart, NightsPart, WeekPart, SwitchPart,
       OtherParts, labourVars, tendVars, allVars

\* A reload answered as ok has reached its consumers (health.py:320) and has taken
\* from none what it had (engine.py:126); a policy pages nobody for a whole group
\* (severity.py:441) and quietens nothing confirmed (severity.py:588); machine
\* labels move a rate only so far (service.py:901) and a failed read is not called
\* an unknown rule (store.py:2541); hours and windows are taken as meant
\* (enrichers/__init__.py:782): however the files are edited, whatever entries,
\* labels and hours they hold.
THEOREM GuidanceIsApplied == AllSpec => GuidanceHolds
<1> DEFINE Judged == part = "severity" => SeverityInv
           Weekly == part = "week" => WeekInv
<1>1. AllInit => GuidesInv /\ Judged /\ RecordInv /\ Weekly
  BY GuidesInit, SeverityBegins, RecordInit, WeekInit DEF AllInit
<1>2. GuidesInv /\ [AllNext]_allVars => GuidesInv' /\ [KeepsWhatItHad]_guideVars
  BY GuidanceMove, GuidesStep
<1>3. Judged /\ [AllNext]_allVars => Judged'
  BY GuidanceMove, SeverityStep
<1>4. RecordInv /\ [AllNext]_allVars => RecordInv' /\ [SaysSo]_recordVars
  BY GuidanceMove, RecordStep
<1>5. Weekly /\ [AllNext]_allVars => Weekly'
  BY GuidanceMove, WeekStep
<1>6. /\ GuidesInv => (part = "guides" => /\ Guides!TypeOK /\ Guides!OkMeansApplied
                                         /\ Guides!StaleOnlyByRace)
      /\ Judged => (part = "severity" => /\ Severity!PagesAreBounded
                                        /\ Severity!QuietedOnPurpose
                                        /\ Severity!NamedFloorHolds)
      /\ RecordInv => (part = "record" => /\ Records!TypeOK /\ Records!MachinesAreBounded
                                         /\ Records!PeopleDecide)
      /\ Weekly => (part = "week" => /\ Labour!TypeOK /\ Labour!HoursAsMeant
                                    /\ Labour!WindowAsMeant /\ Labour!RiskAsMeant)
  BY GuidesEnough, PagesBounded, QuietedSo, NamedFloors, RecordEnough, WeekEnough
<1>7. [][KeepsWhatItHad]_guideVars => Guides!ReloadsLoseNothing
  BY DEF KeepsWhatItHad, Guides!ReloadsLoseNothing, Guides!guidanceVars, guideVars
<1>8. [][SaysSo]_recordVars => Records!NoneMeansNone
  BY DEF SaysSo, Records!NoneMeansNone, Records!recordVars, recordVars
<1> HIDE DEF Judged, Weekly
<1>9. QED
  BY <1>1, <1>2, <1>3, <1>4, <1>5, <1>6, <1>7, <1>8, PTL DEF AllSpec, GuidanceHolds
=============================================================================
