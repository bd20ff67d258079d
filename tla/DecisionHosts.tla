--------------------------- MODULE DecisionHosts ---------------------------
(* The upgrade of the database (main.py --migrate, migrations 0018 and     *)
(* 0019, database/pg_version.py): every start asks for the version of the  *)
(* server and refuses an unsupported one only where there is nothing to    *)
(* lose; the migrations of a start run in one transaction and fill         *)
(* agent_decisions.agent_name, by which alerts of one host are joined,     *)
(* from what the alert said of the host.  A name is its core and the       *)
(* blanks around it: none, spaces, others that btrim can be given, or      *)
(* others.                                                                 *)
EXTENDS Integers, FiniteSets

CONSTANTS
  Rows,         \* ids of decisions
  Said,         \* what an alert may say of its host
  Procs,        \* starts of the platform
  MaxMoves,     \* bound on changes of the server
  MaxFaults

VARIABLES
  below,        \* the server is below MIN_PG_MAJOR
  revision,     \* alembic_version: 0 for an empty database
  blob,         \* what enrichment_summary says of the host, per row
  host,         \* agent_name of each row
  proc,         \* what each start is at
  outdated,     \* history: rows written by a release that knows no agent_name
  moves, faults

hostVars == <<below, revision, blob, host, proc, outdated, moves, faults>>
table == <<blob, host, outdated>>

NullName == [core |-> "null", edge |-> "clean"]
Placeholder == [core |-> "unknown", edge |-> "clean"]
NoRow == [core |-> "absent", edge |-> "clean"]    \* no row
Nameless == [core |-> "nameless", edge |-> "clean"] \* malformed, or no agent_name
Down == [at |-> "down", gate |-> 0, head |-> 0, says |-> FALSE, had |-> FALSE]

\* What the proofs ask of an instance.
IsName(n) ==
  /\ n = [core |-> n.core, edge |-> n.edge]
  /\ n.edge \in {"clean", "spaces", "tabs", "odd"}
NamesAssumption == \A n \in Said : IsName(n) /\ n # NoRow

Stored == {r \in Rows : blob[r] # NoRow}

Init ==
  /\ below \in BOOLEAN /\ revision \in {0, 17}
  /\ blob = [r \in Rows |-> NoRow] /\ host = [r \in Rows |-> NullName]
  /\ proc = [p \in Procs |-> Down]
  /\ outdated = {} /\ moves = 0 /\ faults = 0

Fault == faults < MaxFaults /\ faults' = faults + 1
Becomes(p, r) == proc' = [proc EXCEPT ![p] = r]
-----------------------------------------------------------------------------
(* Names.                                                                  *)

Trims(name, edges) == IF name.edge \in edges THEN [name EXCEPT !.edge = "clean"] ELSE name
\* btrim of one argument; btrim with _TRIM_CHARS; str.strip.
Btrim(name) == Trims(name, {"spaces"})
BtrimAll(name) == Trims(name, {"spaces", "tabs"})
Strip(name) == Trims(name, {"spaces", "tabs", "odd"})
OrNull(name) == IF name = Placeholder THEN NullName ELSE name

\* _coerce_host.
Coerce(name) == IF name = Nameless THEN NullName ELSE OrNull(Strip(name))

\* 0018: on a server that can say whether a text is JSON.
Backfill(h, b) ==
  IF below \/ h # NullName \/ b \in {NoRow, Nameless} THEN h ELSE OrNull(Btrim(b))

\* Broken variant of FillGaps: without the scope of all tenants no row is seen.
SeesNoRow(h, b) == h
\* 0019: what 0018 left NULL ...
FillGaps(h, b) ==
  IF h # NullName \/ b \in {NoRow, Nameless} THEN h ELSE OrNull(BtrimAll(b))

\* Broken variant of Renormalise: what has a value is left alone.
LeftAlone(h) == h
\* ... and what 0018 trimmed of spaces only.
Renormalise(h) == OrNull(BtrimAll(h))
-----------------------------------------------------------------------------
(* A start.                                                                *)

Begin(p) ==
  /\ proc[p].at \in {"down", "refused"}
  /\ \E head \in {18, 19} : Becomes(p, [Down EXCEPT !.at = "ask", !.gate = 1, !.head = head])
  /\ UNCHANGED <<below, revision, table, moves, faults>>

\* The verdict of the first gate is followed by the upgrade, that of the second,
\* in the store, by the work.
Passes(p, unsupported) ==
  IF proc[p].gate = 1
  THEN Becomes(p, [proc[p] EXCEPT !.at = "upgrade"])
  ELSE Becomes(p, [proc[p] EXCEPT !.at = "up", !.says = unsupported])

\* read_server_version; a look that fails is left to alembic, or ends the start.
Ask(p) ==
  /\ proc[p].at = "ask"
  /\ \/ /\ below /\ UNCHANGED faults
        /\ Becomes(p, [proc[p] EXCEPT !.at = "decisions", !.had = Stored # {}])
     \/ ~below /\ Passes(p, FALSE) /\ UNCHANGED faults
     \/ /\ Fault
        /\ IF proc[p].gate = 1 THEN Passes(p, FALSE) ELSE Becomes(p, Down)
  /\ UNCHANGED <<below, revision, table, moves>>

\* Broken variant of Scope: the session is asked as it comes.
AsItComes == "none"
\* The scope in which probe_has_history looks at a table.
Scope == "all"
\* A table that row level security hides, or that is missing, has no rows.
Sees(t) == Scope = "all" /\ revision > 0 /\ t = "decisions" /\ Stored # {}

\* Broken variant of AfterFault: what cannot be seen is not there.
TakenAsEmpty(p) == Becomes(p, [proc[p] EXCEPT !.at = "refused"])
\* A look that fails never refuses a start.
AfterFault(p) == Passes(p, TRUE)

\* probe_has_history, table by table, and decide.
Look(p) ==
  /\ proc[p].at \in {"decisions", "incidents"}
  /\ \/ /\ UNCHANGED faults
        /\ IF Sees(proc[p].at) THEN Passes(p, TRUE)
           ELSE IF proc[p].at = "decisions"
           THEN Becomes(p, [proc[p] EXCEPT !.at = "incidents"])
           ELSE Becomes(p, [proc[p] EXCEPT !.at = "refused"])
     \/ Fault /\ AfterFault(p)
  /\ UNCHANGED <<below, revision, table, moves>>

\* alembic upgrade head: all of it, or nothing; a release does not know the
\* revisions of a later one.
Upgrade(p) ==
  /\ proc[p].at = "upgrade"
  /\ \/ /\ revision <= proc[p].head
        /\ revision' = proc[p].head
        /\ host' = [r \in Rows |->
             LET h == IF revision < 18 THEN Backfill(host[r], blob[r]) ELSE host[r] IN
             IF revision < 19 /\ proc[p].head = 19
             THEN Renormalise(FillGaps(h, blob[r])) ELSE h]
        /\ Becomes(p, [proc[p] EXCEPT !.at = "ask", !.gate = 2])
        /\ UNCHANGED faults
     \/ /\ \/ revision > proc[p].head /\ UNCHANGED faults
           \/ Fault
        /\ Becomes(p, Down) /\ UNCHANGED <<revision, host>>
  /\ UNCHANGED <<below, blob, outdated, moves>>

\* save_decision.
Save(p) ==
  /\ proc[p].at = "up"
  /\ \E r \in Rows \ Stored, n \in Said :
       /\ blob' = [blob EXCEPT ![r] = n]
       /\ host' = [host EXCEPT ![r] = Coerce(n)]
  /\ UNCHANGED <<below, revision, proc, outdated, moves, faults>>

Stop(p) ==
  /\ proc[p].at = "up" /\ Becomes(p, Down)
  /\ UNCHANGED <<below, revision, table, moves, faults>>

\* A decision saved by an earlier release, before the upgrade or beside it.
OldSave ==
  /\ revision > 0
  /\ \E r \in Rows \ Stored, n \in Said :
       /\ blob' = [blob EXCEPT ![r] = n]
       /\ outdated' = IF revision > 17 THEN outdated \cup {r} ELSE outdated
  /\ UNCHANGED <<below, revision, host, proc, moves, faults>>

\* The database moves to a server of another version.
MoveServer ==
  /\ moves < MaxMoves /\ moves' = moves + 1 /\ below' = ~below
  /\ UNCHANGED <<revision, table, proc, faults>>

Next ==
  \/ \E p \in Procs : Begin(p) \/ Ask(p) \/ Look(p) \/ Upgrade(p) \/ Save(p) \/ Stop(p)
  \/ OldSave \/ MoveServer
-----------------------------------------------------------------------------
TypeOK ==
  /\ revision \in {0, 17, 18, 19} /\ outdated \subseteq Stored
  /\ \A r \in Rows : blob[r] \in Said \cup {NoRow}
  /\ \A p \in Procs : proc[p].gate \in 0..2 /\ proc[p].head \in {0, 18, 19}

\* A start is refused only if there was nothing to lose when it began to look
\* (pg_version.py:329).
NeverBricked == \A p \in Procs : proc[p].at = "refused" => ~proc[p].had

\* Once 0019 ran, every decision of a host is found under the one name of the
\* host, and those of no host under none, whatever the version of the server
\* was; but for rows of an earlier release, and for blanks no btrim is given
\* (0019_backfill_host_pg14.py:17).
OneNamePerHost ==
  revision = 19 =>
    \A r \in Stored : host[r] = Coerce(blob[r]) \/ r \in outdated \/ blob[r].edge = "odd"

\* Nothing is migrated into an empty database of an unsupported server, unless
\* a look at it failed or it was moved (main.py:2104).
NothingMigratedBelow ==
  [][revision = 0 /\ revision' > 0 =>
       ~below \/ faults > 0 \/ moves > 0]_hostVars

\* A good name is never rewritten: not by an upgrade, nor by what one left out.
NamesStay ==
  [][\A r \in Rows : host[r] # NullName /\ host[r].edge = "clean" /\ host[r] # Placeholder
       => host'[r] = host[r]]_hostVars
=============================================================================
