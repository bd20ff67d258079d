----------------------------- MODULE RuleManager -----------------------------
(* The client of the Wazuh manager (wazuh_client.py), where it writes: the *)
(* rules that are tried out in the manager's live rule set, the file of    *)
(* tuned rules, the restart that loads them, and whether an agent has the  *)
(* script a response needs.  Validations share the name of one probe file. *)
(* Any call may fail; the token of the session may be refused.             *)
EXTENDS Integers, FiniteSets

CONSTANTS
  Validators,        \* threads that validate a rule
  Malformed,         \* rules the manager's API refuses,
  Illogical,         \* and rules only wazuh-logtest objects to
  Sound,
  MaxFaults, MaxRuns

Rules == Malformed \cup Illogical \cup Sound
None == "none"

\* A rule is of one kind.
RulesAssumption ==
  /\ Malformed \cap Sound = {} /\ Illogical \cap Sound = {}
  /\ Malformed \cap Illogical = {} /\ None \notin Rules

VARIABLES
  token,        \* none, good, or refused by the manager until it expires
  probe,        \* what the probe file in the rule set holds
  trial,        \* a validation: where it is, its rule, its answer
  layer2,       \* an SSH user is configured
  overlap,      \* history: a probe was overwritten or deleted under a validation
  leftover,     \* history: a deletion failed, or its process was killed
  tuned, merge, \* the file of tuned rules, and the deployment under way
  deployed,     \* history: rules whose deployment was confirmed
  script,       \* on the agent: none, old or new; monitored or not
  check,        \* the query about it
  blind,        \* history: its first question got no answer
  faults, runs

managerVars == <<token, probe, trial, layer2, overlap, leftover, tuned, merge,
                 deployed, script, check, blind, faults, runs>>
probing == <<probe, trial, overlap, leftover>>
tuning == <<tuned, merge, deployed>>
asking == <<script, check, blind>>

Away == [at |-> "away", rule |-> None, answer |-> None]
Init ==
  /\ token = None /\ probe = None
  /\ trial = [v \in Validators |-> Away]
  /\ layer2 \in BOOLEAN /\ overlap = {} /\ leftover = FALSE
  /\ tuned = {} /\ merge = [at |-> "away", base |-> {}] /\ deployed = {}
  /\ script \in [version : {None, "old", "new"}, monitored : BOOLEAN]
  /\ check = "away" /\ blind = FALSE
  /\ faults = 0 /\ runs = 0
-----------------------------------------------------------------------------
(* Calls.  _headers asks for a token when there is none or 850 seconds     *)
(* have passed; one the manager refuses fails every call until then.       *)

Works == token # "refused" /\ token' = "good" /\ UNCHANGED faults
Fails ==
  \/ token = "refused" /\ UNCHANGED <<token, faults>>
  \/ faults < MaxFaults /\ faults' = faults + 1 /\ UNCHANGED token

Refuse ==
  /\ token = "good" /\ faults < MaxFaults
  /\ token' = "refused" /\ faults' = faults + 1
  /\ UNCHANGED <<probing, layer2, tuning, asking, runs>>
Expire ==
  /\ token # None /\ token' = None
  /\ UNCHANGED <<probing, layer2, tuning, asking, faults, runs>>
-----------------------------------------------------------------------------
(* validate_rule_with_logtest.                                             *)

Others(v) == {w \in Validators \ {v} : trial[w].at \in {"logtest", "delete"}}
Goes(v, to, answer) ==
  trial' = [trial EXCEPT ![v].at = to, ![v].answer = answer]

Begin(v) ==
  /\ trial[v].at = "away" /\ runs < MaxRuns /\ runs' = runs + 1
  /\ \E r \in Rules : trial' = [trial EXCEPT ![v] =
                                  [at |-> "upload", rule |-> r, answer |-> None]]
  /\ UNCHANGED <<token, probe, overlap, leftover, layer2, tuning, asking, faults>>

\* Broken variant of AfterRefusal: a refused upload leaves nothing to delete.
EndsThere == "away"
AfterRefusal == "delete"

\* Layer 1: the manager keeps the file even where it reports an error in it.
Upload(v) ==
  /\ trial[v].at = "upload"
  /\ \/ /\ Works
        /\ probe' = trial[v].rule /\ overlap' = overlap \cup Others(v)
        /\ IF trial[v].rule \in Malformed THEN Goes(v, AfterRefusal, "invalid")
           ELSE Goes(v, "logtest", None)
     \/ /\ Fails /\ Goes(v, AfterRefusal, "invalid") /\ UNCHANGED <<probe, overlap>>
  /\ UNCHANGED <<leftover, layer2, tuning, asking, runs>>

\* Broken variant of Unanswered: as for the detail of an error, a failure of
\* SSH is no objection.
NoObjection == "valid"
Unanswered == "invalid"

\* Layer 2, over SSH: the manager's word on whatever rule set is there.
Logtest(v) ==
  /\ trial[v].at = "logtest"
  /\ \/ /\ UNCHANGED faults
        /\ Goes(v, "delete", IF layer2 /\ probe \in Malformed \cup Illogical
                             THEN "invalid" ELSE "valid")
     \/ /\ layer2 /\ faults < MaxFaults /\ faults' = faults + 1
        /\ Goes(v, "delete", Unanswered)
  /\ UNCHANGED <<token, probe, overlap, leftover, layer2, tuning, asking, runs>>

\* The finally clause, on every way out, after which the answer is returned.
Delete(v) ==
  /\ trial[v].at = "delete" /\ trial' = [trial EXCEPT ![v] = Away]
  /\ \/ /\ Works /\ probe' = None /\ UNCHANGED leftover
        /\ overlap' = (overlap \cup Others(v)) \ {v}
     \/ Fails /\ leftover' = TRUE /\ overlap' = overlap \ {v} /\ UNCHANGED probe
  /\ UNCHANGED <<layer2, tuning, asking, runs>>

Kill ==
  /\ faults < MaxFaults /\ faults' = faults + 1
  /\ \E v \in Validators : trial[v].at # "away"
  /\ trial' = [v \in Validators |-> Away] /\ leftover' = TRUE
  /\ token' = None /\ merge' = [at |-> "away", base |-> {}] /\ check' = "away"
  /\ overlap' = {}
  /\ UNCHANGED <<probe, layer2, tuned, deployed, script, blind, runs>>
-----------------------------------------------------------------------------
(* A deployment reads the file of tuned rules, adds one and writes it back *)
(* (the caller is not part of this repository).                            *)

\* Broken variant of AfterUnread: what cannot be read counts as absent.
TakenAsAbsent == merge' = [at |-> "write", base |-> {}]
\* WazuhRuleFileUnavailable
AfterUnread == merge' = [at |-> "away", base |-> {}]

ReadTuned ==
  /\ merge.at = "away" /\ Cardinality(tuned) < 2
  /\ \/ Works /\ merge' = [at |-> "write", base |-> tuned]
     \/ Fails /\ AfterUnread
  /\ UNCHANGED <<probing, layer2, tuned, deployed, asking, runs>>

WriteTuned ==
  /\ merge.at = "write" /\ merge' = [at |-> "away", base |-> {}]
  /\ \E r \in Sound \ merge.base :
       \/ Works /\ tuned' = merge.base \cup {r} /\ deployed' = deployed \cup {r}
       \/ Fails /\ UNCHANGED deployed
                /\ tuned' \in {tuned, merge.base \cup {r}}   \* the answer was lost
  /\ UNCHANGED <<probing, layer2, asking, runs>>
-----------------------------------------------------------------------------
(* ar_script_state: file integrity monitoring is asked for the script, and *)
(* where it knows nothing for a file that every agent has.                 *)

AskScript ==
  /\ check = "away" /\ runs < MaxRuns /\ runs' = runs + 1
  /\ \/ /\ Works /\ blind' = FALSE
        /\ check' = IF ~script.monitored \/ script.version = None THEN "ask stock"
                    ELSE IF script.version = "new" THEN "current" ELSE "stale"
     \/ Fails /\ blind' = TRUE /\ check' = "ask stock"
  /\ UNCHANGED <<probing, layer2, tuning, script>>

\* Broken variant of StockKnown: a script that is not reported is missing.
NotAsked == TRUE
StockKnown == script.monitored

AskStock ==
  /\ check = "ask stock"
  /\ \/ Works /\ check' = IF StockKnown THEN "missing" ELSE "unmonitored"
     \/ Fails /\ check' = "unmonitored"
  /\ UNCHANGED <<probing, layer2, tuning, script, blind, runs>>

Told ==
  /\ check \notin {"away", "ask stock"} /\ check' = "away"
  /\ UNCHANGED <<token, probing, layer2, tuning, script, blind, faults, runs>>

Next ==
  \/ Refuse \/ Expire \/ Kill
  \/ \E v \in Validators : Begin(v) \/ Upload(v) \/ Logtest(v) \/ Delete(v)
  \/ ReadTuned \/ WriteTuned
  \/ AskScript \/ AskStock \/ Told
-----------------------------------------------------------------------------
TypeOK ==
  /\ token \in {None, "good", "refused"} /\ probe \in Rules \cup {None}
  /\ trial \in [Validators -> [at : {"away", "upload", "logtest", "delete"},
                  rule : Rules \cup {None}, answer : {None, "valid", "invalid"}]]
  /\ deployed \subseteq Sound /\ tuned \subseteq Sound

\* A rule found valid has no error, where both layers are configured and no
\* other validation touched the shared probe file meanwhile; a manager or an
\* SSH server that does not answer validates nothing (wazuh_client.py:757).
ValidIsChecked ==
  \A v \in Validators :
    trial[v].answer = "valid" =>
      /\ trial[v].rule \notin Malformed
      /\ layer2 /\ v \notin overlap => trial[v].rule \in Sound

\* No probe stays in the live rule set, where the next restart of the manager
\* would load it, unless its deletion failed or its process was killed
\* (wazuh_client.py:779).
NoProbeStays ==
  (\A v \in Validators : trial[v].at = "away") /\ ~leftover => probe = None

\* A rule once deployed is never written away by a later deployment
\* (wazuh_client.py:455, 473).
DeployedStays == deployed \subseteq tuned

\* A script is reported current or stale as it is, and missing only where it is
\* not there or the first question got no answer (wazuh_client.py:944).
ScriptAsReported ==
  /\ check = "current" => script = [version |-> "new", monitored |-> TRUE]
  /\ check = "stale" => script.version = "old"
  /\ check = "missing" => script.monitored /\ (script.version = None \/ blind)
=============================================================================
