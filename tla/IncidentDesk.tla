---------------------------- MODULE IncidentDesk ----------------------------
(***************************************************************************)
(* Incidents of one tenant.  Triage workers file each saved decision in an *)
(* incident (incidents/engine.py): they look for an open one, or open one, *)
(* in several statements that no lock or transaction joins, and end by     *)
(* writing the whole incident row back.  Meanwhile analysts change its     *)
(* status, review its alerts, spread a verdict over them and merge it with *)
(* others (api/routes/incidents.py and triage.py on database/store.py).    *)
(* A request handler has no await between its database calls, so one API   *)
(* process handles one request at a time; replicas run beside each other.  *)
(*                                                                         *)
(* High-confidence dismissals get no incident and are not in Decisions.    *)
(* Of an incident's row the model keeps severity, status, grouping key and *)
(* alert_count.  Which open incident a decision joins depends on its keys, *)
(* on the grouping window and on attack-chain tactics: here it may join    *)
(* any open incident with one of its JoinKeys, or none.                    *)
(***************************************************************************)
EXTENDS Integers, FiniteSets

CONSTANTS
  Workers,       \* triage workers of all processes
  Desks,         \* API processes
  Decisions,     \* saved decisions worth an incident
  Escalated,     \* those with agent_decisions.escalated = 1
  VerdictOf(_),  \* the AI's verdict
  SeverityOf(_), \* severity of the alert, as a rank
  KeyOf(_),      \* first grouping key: that of an incident it opens
  JoinKeys(_),   \* keys of the incidents it may join
  HumanVerdicts, \* verdicts analysts give in this instance
  Statuses,      \* statuses analysts set in this instance
  Nothing,       \* no row, no job, no request, no human verdict
  MaxRequests,   \* bound on requests of analysts
  MaxFaults      \* bound on groupings that fail half-way

Verdicts == {"true_positive", "false_positive", "needs_investigation", "auto_close"}
Open == {"open", "investigating"}
Finished == {"resolved", "closed"}

ASSUME DeskAssumption ==
  /\ IsFiniteSet(Decisions)
  /\ Escalated \subseteq Decisions
  /\ \A d \in Decisions : VerdictOf(d) \in Verdicts /\ SeverityOf(d) \in Nat
  /\ HumanVerdicts \subseteq Verdicts /\ Nothing \notin Verdicts
  /\ Statuses \subseteq Open \cup Finished
  /\ MaxRequests \in Nat /\ MaxFaults \in Nat

Incidents == 1..Cardinality(Decisions)

\* What is kept of an incident's row, of a decision being filed and of a request.
Rows == [severity : Nat, status : Open \cup Finished,
         key : UNION {JoinKeys(d) \cup {KeyOf(d)} : d \in Decisions}, count : Nat]

Jobs == [dec : Decisions, inc : Incidents \cup {0},
         at : {"join", "reread", "save", "open", "first"},
         row : Rows \cup {Nothing}]

Requests ==
  [at : {"status"}, inc : Incidents, to : Open \cup Finished]
  \cup [at : {"review"}, dec : Decisions, verdict : Verdicts]
  \cup [at : {"propagate"}, inc : Incidents, verdict : Verdicts,
        chosen : SUBSET Decisions]
  \cup [at : {"rollup"}, dec : Decisions]
  \cup [at : {"mix", "resolve"}, inc : Incidents]

ASSUME NothingAssumption ==
  Nothing \notin Rows /\ Nothing \notin Jobs /\ Nothing \notin Requests

VARIABLES
  todo,      \* decisions not yet given to the engine
  job,       \* what each worker is filing
  row,       \* the incidents table
  members,   \* the incident_alerts table
  human,     \* human_verdict of each decision
  resolved,  \* decisions with a resolved_at
  req,       \* the request each API process handles
  requests, faults,
  stale,     \* history: incidents written back from an outdated read
  merged,    \* history: incidents that were merged into another
  lost       \* history: decisions whose grouping failed half-way

vars == <<todo, job, row, members, human, resolved, req, requests, faults,
          stale, merged, lost>>
caseVars == <<row, members>>
alertVars == <<human, resolved>>
boundVars == <<requests, faults>>
ghostVars == <<stale, merged, lost>>

Exists(i) == row[i] # Nothing
Filing == {w \in Workers : job[w] # Nothing}

Init ==
  /\ todo = Decisions
  /\ job = [w \in Workers |-> Nothing]
  /\ row = [i \in Incidents |-> Nothing]
  /\ members = [i \in Incidents |-> {}]
  /\ human = [d \in Decisions |-> Nothing]
  /\ resolved = {}
  /\ req = [p \in Desks |-> Nothing]
  /\ requests = 0 /\ faults = 0
  /\ stale = {} /\ merged = {} /\ lost = {}
-----------------------------------------------------------------------------
(* The incident engine, on the workers.                                    *)

Joinable(d, i) ==
  Exists(i) /\ row[i].status \in Open /\ row[i].key \in JoinKeys(d)

At(w, step) == w \in Filing /\ job[w].at = step
Goto(w, step) == job' = [job EXCEPT ![w].at = step]
Done(w) == job' = [job EXCEPT ![w] = Nothing]

\* The look-ups: they end with an open incident or with none.
Match(w, d) ==
  /\ job[w] = Nothing /\ d \in todo
  /\ todo' = todo \ {d}
  /\ \/ \E i \in Incidents :
          /\ Joinable(d, i)
          /\ job' = [job EXCEPT ![w] =
                       [dec |-> d, inc |-> i, at |-> "join", row |-> Nothing]]
     \/ job' = [job EXCEPT ![w] =
                  [dec |-> d, inc |-> 0, at |-> "open", row |-> Nothing]]
  /\ UNCHANGED <<caseVars, alertVars, req, boundVars, ghostVars>>

\* Broken variant of Insert: the membership row without the recount.
InsertOnly(d, i) ==
  /\ members' = [members EXCEPT ![i] = @ \cup {d}]
  /\ UNCHANGED row

\* add_alert_to_incident: the membership row and the recount, one transaction.
\* The incident's status is not looked at again.
Insert(d, i) ==
  /\ members' = [members EXCEPT ![i] = @ \cup {d}]
  /\ row' = [row EXCEPT ![i].count = Cardinality(members'[i])]

Join(w) ==
  /\ At(w, "join") /\ Insert(job[w].dec, job[w].inc)
  /\ Goto(w, "reread")
  /\ UNCHANGED <<todo, alertVars, req, boundVars, ghostVars>>

Reread(w) ==
  /\ At(w, "reread")
  /\ job' = [job EXCEPT ![w].at = "save", ![w].row = row[job[w].inc]]
  /\ UNCHANGED <<todo, caseVars, alertVars, req, boundVars, ghostVars>>

\* save_incident writes every column of the row that was read, with the
\* severity raised to this alert's.
SaveRow(w) ==
  LET i == job[w].inc
      severity == SeverityOf(job[w].dec) IN
  /\ At(w, "save")
  /\ row' = [row EXCEPT ![i] =
       [job[w].row EXCEPT !.severity = IF @ >= severity THEN @ ELSE severity]]
  /\ stale' = IF job[w].row = row[i] THEN stale ELSE stale \cup {i}
  /\ Done(w)
  /\ UNCHANGED <<todo, members, alertVars, req, boundVars, merged, lost>>

\* A new incident; the alert it is opened for is counted before it is added.
OpenIncident(w) ==
  /\ At(w, "open")
  /\ \E i \in Incidents :
       /\ ~Exists(i) /\ \A j \in Incidents : j < i => Exists(j)
       /\ row' = [row EXCEPT ![i] =
            [severity |-> SeverityOf(job[w].dec), status |-> "open",
             key |-> KeyOf(job[w].dec), count |-> 1]]
       /\ job' = [job EXCEPT ![w].at = "first", ![w].inc = i]
  /\ UNCHANGED <<todo, members, alertVars, req, boundVars, ghostVars>>

AddFirst(w) ==
  /\ At(w, "first") /\ Insert(job[w].dec, job[w].inc)
  /\ Done(w)
  /\ UNCHANGED <<todo, alertVars, req, boundVars, ghostVars>>

\* Any of these statements raises, or the process dies: what was committed
\* stays, and the decision is not offered to the engine again.
FilingFails(w) ==
  /\ w \in Filing /\ faults < MaxFaults
  /\ faults' = faults + 1
  /\ lost' = lost \cup {job[w].dec}
  /\ Done(w)
  /\ UNCHANGED <<todo, caseVars, alertVars, req, requests, stale, merged>>
-----------------------------------------------------------------------------
(* What the store does to an incident that is finished.                    *)

\* Alerts deliberately held for a human.
HeldForHuman(d) == d \in Escalated /\ human[d] = Nothing

\* Broken variant of CascadeResolve: every member is resolved.
CascadeAll(i) == resolved' = resolved \cup members[i]

CascadeResolve(i) ==
  resolved' = resolved \cup {d \in members[i] : ~HeldForHuman(d)}

\* update_incident_status, one transaction.
UpdateStatus(i, status) ==
  /\ row' = [row EXCEPT ![i].status = status]
  /\ IF status \in Finished THEN CascadeResolve(i) ELSE UNCHANGED resolved
-----------------------------------------------------------------------------
(* The analysts' requests.                                                 *)

Serving(p, step) == req[p] # Nothing /\ req[p].at = step
Request(p, r) ==
  /\ req[p] = Nothing /\ requests < MaxRequests
  /\ requests' = requests + 1
  /\ req' = [req EXCEPT ![p] = r]
Respond(p) == req' = [req EXCEPT ![p] = Nothing]

\* change_incident_status reads the incident and refuses to reopen a closed
\* one; the write comes later and checks nothing.
AskStatus(p, i, status) ==
  /\ Exists(i) /\ (row[i].status = "closed" => status = "closed")
  /\ Request(p, [at |-> "status", inc |-> i, to |-> status])
  /\ UNCHANGED <<todo, job, caseVars, alertVars, faults, ghostVars>>

SetStatus(p) ==
  /\ Serving(p, "status") /\ UpdateStatus(req[p].inc, req[p].to)
  /\ Respond(p)
  /\ UNCHANGED <<todo, job, members, human, boundVars, ghostVars>>

\* submit_human_review: an analyst's first verdict on a decision, or an
\* admin's override of one.
AskReview(p, d, verdict) ==
  /\ Request(p, [at |-> "review", dec |-> d, verdict |-> verdict])
  /\ UNCHANGED <<todo, job, caseVars, alertVars, faults, ghostVars>>

\* apply_human_override; the roll-up of the decision's incidents follows.
Review(p) ==
  LET d == req[p].dec IN
  /\ Serving(p, "review")
  /\ human' = [human EXCEPT ![d] = req[p].verdict]
  /\ resolved' = resolved \cup {d}
  /\ req' = [req EXCEPT ![p] = [at |-> "rollup", dec |-> d]]
  /\ UNCHANGED <<todo, job, caseVars, boundVars, ghostVars>>

\* propagate_incident_verdict reads the members without a human verdict ...
AskPropagate(p, i, verdict) ==
  /\ Exists(i)
  /\ Request(p, [at |-> "propagate", inc |-> i, verdict |-> verdict,
                 chosen |-> {d \in members[i] : human[d] = Nothing}])
  /\ UNCHANGED <<todo, job, caseVars, alertVars, faults, ghostVars>>

\* Broken variant of Propagate: what was read before is trusted.
PropagateUnguarded(p) ==
  LET applied == req[p].chosen IN
  /\ Serving(p, "propagate")
  /\ human' = [d \in Decisions |->
       IF d \in applied THEN req[p].verdict ELSE human[d]]
  /\ resolved' = resolved \cup applied
  /\ \/ applied = {} /\ Respond(p)
     \/ \E d \in applied : req' = [req EXCEPT ![p] = [at |-> "rollup", dec |-> d]]
  /\ UNCHANGED <<todo, job, caseVars, boundVars, ghostVars>>

\* ... and writes those that still have none; the roll-up follows.
Propagate(p) ==
  LET applied == {d \in req[p].chosen : human[d] = Nothing} IN
  /\ Serving(p, "propagate")
  /\ human' = [d \in Decisions |->
       IF d \in applied THEN req[p].verdict ELSE human[d]]
  /\ resolved' = resolved \cup applied
  /\ \/ applied = {} /\ Respond(p)
     \/ \E d \in applied : req' = [req EXCEPT ![p] = [at |-> "rollup", dec |-> d]]
  /\ UNCHANGED <<todo, job, caseVars, boundVars, ghostVars>>

\* rollup_incident_for_decision: the decision's incident and its status, if it
\* is in one, ...
FindIncident(p) ==
  /\ Serving(p, "rollup")
  /\ \/ \E i \in Incidents :
          /\ req[p].dec \in members[i] /\ row[i].status \in Open
          /\ req' = [req EXCEPT ![p] = [at |-> "mix", inc |-> i]]
     \/ /\ \A i \in Incidents : req[p].dec \in members[i] => row[i].status \notin Open
        /\ Respond(p)
  /\ UNCHANGED <<todo, job, caseVars, alertVars, boundVars, ghostVars>>

\* ... then the effective verdicts of its members ...
Effective(d) == IF human[d] = Nothing THEN VerdictOf(d) ELSE human[d]
AllBenign(i) ==
  /\ members[i] # {}
  /\ \A d \in members[i] : Effective(d) \in {"false_positive", "auto_close"}

ReadMix(p) ==
  /\ Serving(p, "mix")
  /\ IF AllBenign(req[p].inc)
     THEN req' = [req EXCEPT ![p].at = "resolve"]
     ELSE Respond(p)
  /\ UNCHANGED <<todo, job, caseVars, alertVars, boundVars, ghostVars>>

\* Broken variant of RollUp: the incident's status becomes the verdict.
RollUpToVerdict(p) ==
  /\ Serving(p, "resolve") /\ UpdateStatus(req[p].inc, "false_positive")
  /\ Respond(p)
  /\ UNCHANGED <<todo, job, members, human, boundVars, ghostVars>>

\* ... and the write, which checks nothing.
RollUp(p) ==
  /\ Serving(p, "resolve") /\ UpdateStatus(req[p].inc, "resolved")
  /\ Respond(p)
  /\ UNCHANGED <<todo, job, members, human, boundVars, ghostVars>>

\* Broken variant of Merge: the alerts are copied to the target.
MergeByCopy(p, target, source) ==
  /\ req[p] = Nothing /\ requests < MaxRequests
  /\ requests' = requests + 1
  /\ target # source /\ Exists(target) /\ Exists(source)
  /\ members' = [members EXCEPT ![target] = @ \cup members[source]]
  /\ row' = [row EXCEPT
       ![target].count = IF members'[target] = {} THEN @
                         ELSE Cardinality(members'[target]),
       ![source].status = "closed"]
  /\ merged' = merged \cup {source}
  /\ UNCHANGED <<todo, job, alertVars, req, faults, stale, lost>>

\* merge_incidents, one transaction: the alerts move, the target is recounted,
\* the source is closed with its count as it was.  No status is looked at.  A
\* request with several sources is one Merge after another.
Merge(p, target, source) ==
  /\ req[p] = Nothing /\ requests < MaxRequests
  /\ requests' = requests + 1
  /\ target # source /\ Exists(target) /\ Exists(source)
  /\ members' = [members EXCEPT ![target] = @ \cup members[source],
                                ![source] = {}]
  /\ row' = [row EXCEPT
       ![target].count = IF members'[target] = {} THEN @
                         ELSE Cardinality(members'[target]),
       ![source].status = "closed"]
  /\ merged' = merged \cup {source}
  /\ UNCHANGED <<todo, job, alertVars, req, faults, stale, lost>>

WorkerStep(w) ==
  \/ \E d \in Decisions : Match(w, d)
  \/ Join(w) \/ Reread(w) \/ SaveRow(w) \/ OpenIncident(w) \/ AddFirst(w)
  \/ FilingFails(w)

DeskStep(p) ==
  \/ \E i \in Incidents :
       \/ \E status \in Statuses : AskStatus(p, i, status)
       \/ \E verdict \in HumanVerdicts : AskPropagate(p, i, verdict)
       \/ \E j \in Incidents : Merge(p, i, j)
  \/ \E d \in Decisions, verdict \in HumanVerdicts : AskReview(p, d, verdict)
  \/ SetStatus(p) \/ Review(p) \/ Propagate(p)
  \/ FindIncident(p) \/ ReadMix(p) \/ RollUp(p)

Next ==
  \/ \E w \in Workers : WorkerStep(w)
  \/ \E p \in Desks : DeskStep(p)

Spec == Init /\ [][Next]_vars
-----------------------------------------------------------------------------
(* Properties.                                                             *)

TypeOK ==
  /\ todo \subseteq Decisions
  /\ job \in [Workers -> Jobs \cup {Nothing}]
  /\ row \in [Incidents -> Rows \cup {Nothing}]
  /\ members \in [Incidents -> SUBSET Decisions]
  /\ human \in [Decisions -> Verdicts \cup {Nothing}]
  /\ resolved \subseteq Decisions
  /\ req \in [Desks -> Requests \cup {Nothing}]
  /\ requests \in 0..MaxRequests /\ faults \in 0..MaxFaults
  /\ stale \subseteq Incidents /\ merged \subseteq Incidents
  /\ lost \subseteq Decisions

\* store.py:5171: "AN ALERT DELIBERATELY HELD FOR A HUMAN IS NEVER SWEPT UP":
\* whatever closes, rolls up, merges or spreads verdicts, an escalated alert is
\* resolved only once a human has judged it.
NeverSweptUp == \A d \in resolved : ~HeldForHuman(d)

\* store.py:5374: propagation refuses to overwrite: a human verdict changes
\* only by a review of that very decision, whatever other desks do in between.
VerdictKept ==
  [][\A d \in Decisions : human[d] # Nothing /\ human'[d] # human[d] =>
       \E p \in Desks : Serving(p, "review") /\ req[p].dec = d]_vars

\* Every decision worth an incident is in exactly one, through look-ups that
\* race with closures and merges, unless its grouping failed half-way.
FiledOnce ==
  /\ \A d \in Decisions, i, j \in Incidents :
       d \in members[i] \cap members[j] => i = j
  /\ \A d \in Decisions \ (todo \cup lost) :
       \/ \E i \in Incidents : d \in members[i]
       \/ \E w \in Filing : job[w].dec = d /\ job[w].at \in {"join", "open", "first"}

\* store.py:5794: incidents.alert_count agrees with incident_alerts, except for
\* incidents merged away and for those written back from an outdated read.
CountsAgree ==
  \A i \in Incidents \ (stale \cup merged) :
    members[i] # {} => row[i].count = Cardinality(members[i])

\* store.py:5972: "A single member verdict can therefore never close a
\* multi-alert incident that still has open or TP members".
RollupIsConservative ==
  [][\A p \in Desks : Serving(p, "resolve") /\ req'[p] = Nothing =>
       AllBenign(req[p].inc)]_vars

\* incidents.py:343: "Cannot reopen a closed incident".
ClosedStaysClosed ==
  [][\A i \in Incidents :
       Exists(i) /\ row[i].status = "closed" => row'[i].status = "closed"]_vars
=============================================================================
