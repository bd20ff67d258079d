----------------------------- MODULE MCCaseWork -----------------------------
(* What the API does around the cases, on small instances: the case desk   *)
(* (IncidentDesk) and who has a case in hand (CaseHands), who is signed in *)
(* (Sessions) and for which tenant (TenantSwitch), which accounts exist    *)
(* (UserAdmin), what is configured for a tenant (TenantConfigs); the       *)
(* guidance files: their reload (GuidanceReload) and the severity policy   *)
(* in them (SeverityPolicy); the rules written to the Wazuh manager        *)
(* (RuleManager), what is known of a rule (RuleRecord), when people work   *)
(* (WorkHours); and the jobs that tend the tables for each tenant          *)
(* (PeriodicJobs, Retention). They share no state that a model keeps, so   *)
(* that a run checks one of them at a time: part says which.               *)
EXTENDS MCIncidentDesk

CONSTANTS
  a1, a2, v1, v2, Unset,
  Fields, Admins, Builders, MaxKeys, MaxRestarts,          \* of TenantConfigs
  JobThreads, Each, Whole, Tenants, Default, MaxChanges,   \* of PeriodicJobs
  Ids, Batch, Configured, MaxAdded,                        \* of Retention
  Validators, Malformed, Illogical, Sound, MaxRuns,        \* of RuleManager
  Subjects, Tokens, Lifetime, MaxTime, MaxStarts, MaxFailures, \* of Sessions
  Accounts, Mssp, Admin, MaxUsers, Community, MaxSteps,    \* of UserAdmin
  Analysts, Seniors, Nobody, MaxAsks,                      \* of CaseHands
  Actors, Providers, Clients, Home, Window, MaxSwitches,   \* of TenantSwitch
  MaxEdits, MaxReloads, MaxBegins, Faulty,                 \* of GuidanceReload
  Entries, Standing, Triaged, Bands,                       \* of SeverityPolicy
  MaxDecisions, Prior, MinLabels, Share, Cap,              \* of RuleRecord
  LastDay, LastSlot, Weekend, DefaultDays, DefaultStart, DefaultEnd, Zones \* of WorkHours

VARIABLES part,
  clock, enabled, password, token, out, stored, told, blind, starts, failures,
  role, active, card, gate, grantor, slack, steps,
  multi, genCur, keyCur, keyOld, safe, config, cachedCfg, backend, building,
  basis, acked, restarts, readFaults, mixed, crossed,
  disk, up, loader, always, criteria, policy, loaded, cache, reader, at, ok,
  held, raced, begun, edits, reloads,
  file, alert, band, malicious, severity, applied,
  session, probe, trial, layer2, overlap, leftover, tuned, merge, deployed,
  script, check, unheard, slips, runs,
  owner, tier, chain, notes, claimed, asking, holds, thanked, overlapped, asks,
  lapses,
  count, prompted, misses,
  serving, mode, ctx, work, joblock, misled, lostLock, judged, revisions, stumbles,
  rows, turn, before, failed, gone, spoilt, added, losses,
  zone, hours, window, outside, now,
  minutes, trading, switches, last, served, stay, moved, noted, unnoted, gaps

SignIns == INSTANCE Sessions WITH
  Users <- Subjects, Replicas <- Desks, Ids <- Tokens
People == INSTANCE UserAdmin WITH Replicas <- Desks
Configs == INSTANCE TenantConfigs WITH
  row <- config

Guides == INSTANCE GuidanceReload WITH MaxStarts <- MaxBegins, starts <- begun

\* Pages and ceilings to "low", with or without each of their conditions.
Entry == [kind : {"floor", "ceiling"}, severity : {0, 2}, ids : SUBSET {1},
          groups : SUBSET {"web"}, excludes : BOOLEAN, cap : {Unset, 9, 12},
          status : {Unset, "4xx"}, signal : {Unset, "escalate"}]
PageOrLow == {e \in Entry : e.kind = "floor" <=> e.severity = 2}
QuietWeb == [kind |-> "ceiling", severity |-> 0, ids |-> {1}, groups |-> {"web"},
             excludes |-> FALSE, cap |-> 9, status |-> Unset, signal |-> Unset]
RaisedWeb == [QuietWeb EXCEPT !.kind = "floor", !.severity = 1, !.ids = {}, !.cap = Unset]
Plain == [id |-> 2, groups |-> {"web"}, level |-> 5, path |-> "none",
          status |-> "none", guidance |-> "loaded", signal |-> Unset]
SomeAlerts ==
  {[Plain EXCEPT !.id = i, !.level = l, !.path = p, !.status = s] :
     i \in {1, 2}, l \in {-1, 0, 5, 12}, p \in {"excluded", "none"},
     s \in {"none", "4xx"}}
  \cup {[Plain EXCEPT !.id = i, !.groups = g, !.signal = s] :
          i \in {1, 2}, g \in SUBSET {"web"}, s \in {Unset, "escalate"}}
  \cup {[Plain EXCEPT !.guidance = "failed"]}
TwoStanding == {QuietWeb, RaisedWeb}
Severity == INSTANCE SeverityPolicy WITH Alerts <- Triaged
Manager == INSTANCE RuleManager WITH
  token <- session, blind <- unheard, faults <- slips
Hands == INSTANCE CaseHands WITH
  MaxRequests <- MaxAsks, req <- asking, acked <- thanked, requests <- asks,
  faults <- lapses
Records == INSTANCE RuleRecord WITH told <- prompted, faults <- misses

Periodic == INSTANCE PeriodicJobs WITH
  Replicas <- Desks, Threads <- JobThreads,
  active <- serving, lock <- joblock, changes <- revisions, faults <- stumbles
\* A table whose days are no number, and one that has some.
TwoTables == [t \in {"decision_reviews", "agent_decisions"} |->
                IF t = "agent_decisions" THEN "junk" ELSE "days"]
Nights == INSTANCE Retention WITH
  faults <- losses
ASSUME TenantsAssumption ==
  Configs!ConfigsAssumption /\ Periodic!JobsAssumption /\ Nights!NightsAssumption
ASSUME RulesAssumption == Manager!RulesAssumption

Labour == INSTANCE WorkHours
ASSUME GuidanceAssumption ==
  /\ Guides!GuidanceAssumption /\ Severity!PolicyAssumption
  /\ Records!RecordAssumption /\ Labour!HoursAssumption

Switching == INSTANCE TenantSwitch WITH
  Tenants <- Clients, clock <- minutes, active <- trading, missed <- unnoted,
  faults <- gaps
ASSUME AccountsAssumption ==
  /\ SignIns!SessionsAssumption /\ People!AccountsAssumption
  /\ Hands!HandsAssumption /\ Switching!SwitchAssumption

sessionVars == <<clock, enabled, password, token, out, stored, told, blind,
                 starts, failures>>
userVars == <<role, active, card, gate, grantor, slack, steps>>
configVars == <<multi, genCur, keyCur, keyOld, safe, config, cachedCfg, backend,
                building, basis, acked, restarts, readFaults, mixed, crossed>>
guideVars == <<disk, up, loader, always, criteria, policy, loaded, cache, reader,
               at, ok, held, raced, begun, edits, reloads>>
managerVars == <<session, probe, trial, layer2, overlap, leftover, tuned, merge,
                 deployed, script, check, unheard, slips, runs>>
severityVars == <<file, alert, band, malicious, severity, applied>>
handVars == <<owner, tier, chain, notes, claimed, asking, holds, thanked,
              overlapped, asks, lapses>>
recordVars == <<count, prompted, misses>>
jobVars == <<serving, mode, ctx, work, joblock, misled, lostLock, judged,
             revisions, stumbles>>
nightVars == <<rows, turn, before, failed, gone, spoilt, added, losses>>
tendVars == <<jobVars, nightVars>>
weekVars == <<zone, hours, window, outside, now>>
switchVars == <<minutes, trading, switches, last, served, stay, moved, noted,
                unnoted, gaps>>
labourVars == <<handVars, recordVars, tendVars, weekVars, switchVars>>
allVars == <<part, vars, sessionVars, userVars, configVars, guideVars, severityVars,
             managerVars, labourVars>>

AllInit ==
  /\ part \in {"desk", "sign-in", "users", "configs", "guides", "severity",
              "manager", "hands", "record", "jobs", "nights", "week", "switch"}
  /\ Init /\ SignIns!Init /\ People!Init /\ Configs!Init /\ Guides!Init
  /\ Manager!Init /\ Hands!Init /\ Records!Init
  /\ Periodic!Init /\ Switching!Init
  /\ layer2 => script \in {[version |-> "new", monitored |-> TRUE],
                           [version |-> "none", monitored |-> FALSE]}
  /\ ~layer2 => part = "manager" /\ script.monitored /\ script.version # "new"
  /\ part # "manager" => script.monitored
  /\ IF part = "severity" THEN Severity!Init
     ELSE /\ file = {} /\ applied = {} /\ severity = -1
          /\ alert = Plain /\ band = 1 /\ malicious = FALSE
  /\ part # "configs" => ~multi /\ acked = {}
  /\ part # "jobs" => serving = {Default}
  /\ IF part = "nights" THEN Nights!Init
     ELSE /\ rows = <<>> /\ turn = 0 /\ before = {} /\ failed = {} /\ gone = {}
          /\ spoilt = {} /\ added = 0 /\ losses = 0
  /\ IF part = "week" THEN Labour!Init
     ELSE /\ zone = 0 /\ hours = Labour!Absent /\ window = Labour!Absent
          /\ outside = Labour!NotSet /\ now = 0

DeskPart ==
  /\ part = "desk" /\ Next
  /\ UNCHANGED <<part, sessionVars, userVars, configVars, guideVars, severityVars,
                 managerVars, labourVars>>
SignInPart ==
  /\ part = "sign-in" /\ SignIns!Next
  /\ UNCHANGED <<part, vars, userVars, configVars, guideVars, severityVars,
                 managerVars, labourVars>>
UsersPart ==
  /\ part = "users" /\ People!Next
  /\ UNCHANGED <<part, vars, sessionVars, configVars, guideVars, severityVars,
                 managerVars, labourVars>>
ConfigsPart ==
  /\ part = "configs" /\ Configs!Next
  /\ UNCHANGED <<part, vars, sessionVars, userVars, guideVars, severityVars,
                 managerVars, labourVars>>
GuidesPart ==
  /\ part = "guides" /\ Guides!Next
  /\ UNCHANGED <<part, vars, sessionVars, userVars, configVars, severityVars,
                 managerVars, labourVars>>
SeverityPart ==
  /\ part = "severity" /\ Severity!Next
  /\ UNCHANGED <<part, vars, sessionVars, userVars, configVars, guideVars,
                 managerVars, labourVars>>
ManagerPart ==
  /\ part = "manager" /\ Manager!Next
  /\ UNCHANGED <<part, vars, sessionVars, userVars, configVars, guideVars,
                 severityVars, labourVars>>
OtherParts == <<part, vars, sessionVars, userVars, configVars, guideVars,
                severityVars, managerVars>>
HandsPart ==
  /\ part = "hands" /\ Hands!Next
  /\ UNCHANGED <<OtherParts, recordVars, tendVars, weekVars, switchVars>>
RecordPart ==
  /\ part = "record" /\ Records!Next
  /\ UNCHANGED <<OtherParts, handVars, tendVars, weekVars, switchVars>>
JobsPart ==
  /\ part = "jobs" /\ Periodic!Next
  /\ UNCHANGED <<OtherParts, handVars, recordVars, nightVars, weekVars, switchVars>>
NightsPart ==
  /\ part = "nights" /\ Nights!Next
  /\ UNCHANGED <<OtherParts, handVars, recordVars, jobVars, weekVars, switchVars>>
WeekPart ==
  /\ part = "week" /\ Labour!Next
  /\ UNCHANGED <<OtherParts, handVars, recordVars, tendVars, switchVars>>
SwitchPart ==
  /\ part = "switch" /\ Switching!Next
  /\ UNCHANGED <<OtherParts, handVars, recordVars, tendVars, weekVars>>
AllNext ==
  \/ DeskPart \/ SignInPart \/ UsersPart \/ ConfigsPart
  \/ GuidesPart \/ SeverityPart \/ ManagerPart \/ HandsPart \/ RecordPart
  \/ JobsPart \/ NightsPart \/ WeekPart \/ SwitchPart

AllSpec == AllInit /\ [][AllNext]_allVars
-----------------------------------------------------------------------------
(* Properties.                                                             *)

\* A token whose sign-out was acknowledged by a replica that could store it is
\* not accepted there again (auth.py:164), and nowhere after a start
\* (auth.py:43); nobody is signed in long after the account is switched off.
\* No administrator makes somebody of the own rank or above (admin.py:102), the
\* top account is changed by itself alone (admin.py:134), and the licence's user
\* limit is exceeded only by reactivations and by creations that overlap on two
\* replicas (feature_gates.py:208).  Nobody but a provider is served by another
\* tenant, and by none that is switched off; such stays are paced and noted
\* (middleware.py:90, 104, 139).
AccountsHold ==
  /\ [](part = "sign-in" => /\ SignIns!TypeOK /\ SignIns!SignedOutStaysOut
                             /\ SignIns!SwitchedOffLeaves)
  /\ SignIns!SpreadsByStart
  /\ [](part = "users" => /\ People!TypeOK /\ People!NoPeerIsMade
                           /\ People!TopUntouched /\ People!WithinQuota)
  /\ [](part = "switch" => /\ Switching!TypeOK /\ Switching!SwitchesArePaced
                            /\ Switching!StaysAreNoted)
  /\ Switching!NoneAbroad

\* No row is encrypted under a key the process made up (tenant_crypto.py:242);
\* a rotation that --rotate-tenant-key called safe leaves no row unreadable; an
\* update of one field keeps what earlier updates stored in the others; a
\* configuration that cannot be read never makes a tenant use the global backend
\* (tenant_registry.py:255); and once an update is acknowledged, the backend is
\* built from the new row, but for a build that was under way.
ConfigsHold ==
  /\ part = "desk" => TypeOK
  /\ part = "configs" =>
       /\ Configs!TypeOK /\ Configs!NeverUnderOwnKey /\ Configs!RotationKeepsRows
       /\ Configs!FieldsSurvive /\ Configs!NeverGlobalByFault
       /\ Configs!ServesTheNew

\* A thread is left across tenants by no job (store.py:1419), a job runs in one
\* replica at a time (main.py:1201), every tenant has its turn in it
\* (main.py:1392) and is polled by every replica that could know of it
\* (admin.py:33).  The nightly deletion leaves no row that names a decision that
\* is gone (store.py:3491), and nothing that is past its days (store.py:3477).
JobsHold ==
  /\ part = "jobs" =>
       /\ Periodic!TypeOK /\ Periodic!NeverLeftAcross /\ Periodic!OneRunner
       /\ Periodic!EveryTenantHasItsTurn /\ Periodic!PollsAll
  /\ part = "nights" => Nights!TypeOK /\ Nights!NothingDangles /\ Nights!OldRowsGo

\* What holds for each tenant, as above.
TenantsHold == ConfigsHold /\ JobsHold

\* An answer of ok to a reload means that its consumers use the files as they are
\* (health.py:320); a reload never takes from a consumer what it had
\* (engine.py:126), and leaves a stale text only where a thread was rendering it
\* (loader.py:253).  The policy in the files pages nobody for a whole group of
\* rules (severity.py:441), quietens no confirmed or unmeasured alert
\* (severity.py:588), and its floors hold for the rules they name
\* (severity.py:571).  Machine labels move a rule's rate only so far
\* (service.py:901) and not at all once people have spoken (service.py:920), and
\* no prompt calls a rule unknown because its record could not be read
\* (store.py:2541).  Business hours and maintenance windows are taken as meant, in
\* the zone of the office (enrichers/__init__.py:782), and raise or lower a score
\* only so (enrichers/__init__.py:1186).
GuidanceHolds ==
  /\ [](part = "guides" => /\ Guides!TypeOK /\ Guides!OkMeansApplied
                            /\ Guides!StaleOnlyByRace)
  /\ Guides!ReloadsLoseNothing
  /\ [](part = "severity" => /\ Severity!PagesAreBounded
                              /\ Severity!QuietedOnPurpose
                              /\ Severity!NamedFloorHolds)
  /\ [](part = "record" => /\ Records!TypeOK /\ Records!MachinesAreBounded
                            /\ Records!PeopleDecide)
  /\ Records!NoneMeansNone
  /\ [](part = "week" => /\ Labour!TypeOK /\ Labour!HoursAsMeant
                          /\ Labour!WindowAsMeant /\ Labour!RiskAsMeant)

\* A decision is in the hands of one analyst at most, who has it as long as told
\* so (store.py:2867); of an incident that holds unless assignments overlap
\* (incidents.py:285); what was acknowledged as added to a case is in it but for
\* evidence added at the same time (store.py:5625), and its tier falls only by
\* overlapping escalations (sla.py:132).
HandsHold ==
  /\ [](part = "hands" => /\ Hands!TypeOK /\ Hands!OneOwner
                           /\ Hands!OwnerIsOwner /\ Hands!AckedIsKept)
  /\ Hands!TierNeverFalls

\* A rule found valid has no error and no probe of it stays behind
\* (wazuh_client.py:757, 779); a rule once deployed is not written away by a
\* later deployment (wazuh_client.py:473); a script is reported as it is
\* (wazuh_client.py:944).
ManagerHolds ==
  part = "manager" =>
    /\ Manager!TypeOK /\ Manager!ValidIsChecked /\ Manager!NoProbeStays
    /\ Manager!DeployedStays /\ Manager!ScriptAsReported
=============================================================================
