--------------------------- MODULE GuidanceReload ---------------------------
(* The guidance files and who uses them (guidance/loader.py, rule_guidance *)
(* .py): the triage agent, the enrichment service and the incident engine  *)
(* each read them for themselves, at their start and when an administrator *)
(* asks for a reload (routes/health.py).  Files are versions: the larger   *)
(* the later, 0 what cannot be read.  Meanwhile triage reads the texts     *)
(* that the loader renders and caches, and administrators edit the files.  *)
EXTENDS Integers, Sequences

CONSTANTS
  MaxEdits, MaxReloads, MaxStarts,
  Faulty        \* versions of a file in which an entry is unusable

\* What the proofs ask of an instance.
GuidanceAssumption == MaxEdits \in Nat

Unread == 0
None == -1
Files == {"risk", "escalation", "rules", "playbook"}

VARIABLES
  disk,        \* the version of each file; "playbook" is one playbook
  up,
  loader,      \* what the triage agent's loader holds
  always,      \* the always-escalate rules the triage agent works with
  criteria,    \* the risk criteria of the enrichment service
  policy,      \* the severity policy of the incident engine
  loaded,      \* the engine has a loader: its next load is a reload
  cache,       \* the rendered risk criteria, until they expire
  reader,      \* the triage thread that renders them
  at, ok,      \* the reload under way, and whether it went well so far
  held,        \* history: no file was edited since the reload began
  raced,       \* history: a text was rendered while the last reload began
  starts, edits, reloads

guidanceVars == <<disk, up, loader, always, criteria, policy, loaded, cache,
                  reader, at, ok, held, raced, starts, edits, reloads>>
uses == <<loader, always, criteria, policy, loaded>>
endpoint == <<at, ok, reloads, raced>>
bounds == <<starts, edits>>

Fresh(v) == [f \in Files |-> v]
Init ==
  /\ disk = Fresh(1) /\ loader = Fresh(1)
  /\ up = TRUE /\ always = 1 /\ criteria = 1 /\ policy = 1 /\ loaded = TRUE
  /\ cache = None /\ reader = None
  /\ at = "idle" /\ ok = TRUE /\ held = TRUE /\ raced = FALSE
  /\ starts = 0 /\ edits = 0 /\ reloads = 0

\* An administrator saves a file, or breaks it; a playbook is also removed.
Edit ==
  /\ edits < MaxEdits /\ edits' = edits + 1
  /\ \E f \in Files : \E v \in {Unread, edits + 2} : disk' = [disk EXCEPT ![f] = v]
  /\ held' = FALSE
  /\ UNCHANGED <<up, uses, cache, reader, endpoint, starts>>
-----------------------------------------------------------------------------
(* Loading.                                                                *)

Required == {"risk", "escalation"}
Readable == \A f \in Required : disk[f] # Unread

\* Broken variant of KeepPlaybook: a playbook that cannot be read goes.
ForgetPlaybook == disk["playbook"]
\* _load_playbooks adds to what is there: a removed playbook stays until the
\* next start.
KeepPlaybook ==
  IF disk["playbook"] = Unread THEN loader["playbook"] ELSE disk["playbook"]

\* The policy of the engine: of a version with unusable entries a reload takes
\* nothing, a first load what is usable.
Rejected(v) == v \in Faulty

\* Broken variant of EngineTakes: what is usable is taken at any time.
TakesUsable == Readable
\* Broken variant of EngineTakes: an unusable entry costs the whole policy.
AllOrNothing == Readable /\ ~Rejected(disk["escalation"])
EngineTakes == /\ Readable
               /\ ~(loaded /\ Rejected(disk["escalation"]))

\* The service's start: without its required files the loader exits, and the
\* process with it; the enrichment service and the engine start all the same,
\* with nothing.
StartDocuments ==
  /\ ~up /\ at = "idle" /\ Readable
  /\ loader' = disk /\ always' = disk["escalation"]
  /\ at' = "start enrichment"
  /\ UNCHANGED <<disk, up, criteria, policy, loaded, cache, reader, ok, reloads,
                 raced, held, bounds>>

StartEnrichment ==
  /\ at = "start enrichment" /\ at' = "start engine"
  /\ criteria' = disk["risk"]
  /\ UNCHANGED <<disk, up, loader, always, policy, loaded, cache, reader, ok,
                 reloads, raced, held, bounds>>

StartEngine ==
  /\ at = "start engine" /\ at' = "idle" /\ up' = TRUE
  /\ loaded' = Readable
  /\ policy' = IF EngineTakes THEN disk["escalation"] ELSE Unread
  /\ UNCHANGED <<disk, loader, always, criteria, cache, reader, ok, reloads, raced,
                 held, bounds>>

Stop ==
  /\ up /\ starts < MaxStarts /\ starts' = starts + 1
  /\ up' = FALSE /\ cache' = None /\ reader' = None
  /\ at' = "idle" /\ ok' = TRUE /\ loaded' = FALSE
  /\ UNCHANGED <<disk, loader, always, criteria, policy, reloads, raced, held, edits>>
-----------------------------------------------------------------------------
(* POST /api/guidance/reload, on the event loop: one at a time.            *)

Goes(to) == at' = to /\ UNCHANGED <<reloads, raced>>
NoText == UNCHANGED <<cache, reader>>

\* Broken variant of Cleared: the texts stay until they expire.
NotCleared == cache
Cleared == None

\* GuidanceLoader.reload empties the cache first, ...
BeginReload ==
  /\ up /\ at = "idle" /\ reloads < MaxReloads
  /\ reloads' = reloads + 1 /\ at' = "documents" /\ ok' = TRUE
  /\ cache' = Cleared /\ held' = TRUE /\ raced' = (reader # None)
  /\ UNCHANGED <<disk, up, uses, reader, bounds>>

\* ... then takes the files in turn, up to the first that it must have and
\* cannot read.
ReloadDocuments ==
  /\ at = "documents" /\ Goes("enrichment")
  /\ IF disk["risk"] = Unread THEN ok' = FALSE /\ UNCHANGED loader
     ELSE IF disk["escalation"] = Unread
       THEN ok' = FALSE /\ loader' = [loader EXCEPT !["risk"] = disk["risk"]]
     ELSE /\ ok' = (ok /\ disk["rules"] # Unread /\ disk["rules"] \notin Faulty)
          /\ loader' = [disk EXCEPT !["playbook"] = KeepPlaybook]
  /\ NoText /\ UNCHANGED <<disk, up, always, criteria, policy, loaded, held, bounds>>

\* Broken variant of KeepCriteria: an unreadable file empties them.
TakeCriteria == criteria' = disk["risk"]
\* reload_risk_criteria keeps what it has when the file gives nothing.
KeepCriteria ==
  criteria' = IF disk["risk"] = Unread THEN criteria ELSE disk["risk"]

ReloadEnrichment ==
  /\ at = "enrichment" /\ Goes("engine")
  /\ KeepCriteria /\ ok' = (ok /\ disk["risk"] # Unread)
  /\ NoText /\ UNCHANGED <<disk, up, loader, always, policy, loaded, held, bounds>>

\* Broken variant of Answers: the answer does not wait for the engine's.
AnswersEarly == ok' = ok
Answers == ok' = (ok /\ Readable /\ ~Rejected(disk["escalation"]))

\* reload_severity_policy, whose loader reads all files once more.
ReloadEngine ==
  /\ at = "engine" /\ Goes("answer")
  /\ policy' = IF EngineTakes THEN disk["escalation"] ELSE policy
  /\ loaded' = (loaded \/ Readable)
  /\ Answers
  /\ NoText /\ UNCHANGED <<disk, up, loader, always, criteria, held, bounds>>

Answer ==
  /\ at = "answer" /\ Goes("idle")
  /\ NoText /\ UNCHANGED <<disk, up, uses, ok, held, bounds>>
-----------------------------------------------------------------------------
(* get_risk_criteria_text, on a triage thread: what it renders is put into *)
(* the cache in a second step.                                             *)

Render ==
  /\ up /\ cache = None /\ reader = None
  /\ reader' = loader["risk"]
  /\ raced' = (raced \/ at = "documents")
  /\ UNCHANGED <<disk, up, uses, cache, at, ok, reloads, held, bounds>>

PutText ==
  /\ reader # None
  /\ cache' = reader /\ reader' = None
  /\ UNCHANGED <<disk, up, uses, endpoint, held, bounds>>

\* TTLCache, after 300 seconds.
Expire ==
  /\ cache # None /\ cache' = None
  /\ UNCHANGED <<disk, up, uses, reader, endpoint, held, bounds>>

ReloadStep == ReloadDocuments \/ ReloadEnrichment \/ ReloadEngine \/ Answer
Next ==
  \/ Edit
  \/ Stop \/ StartDocuments \/ StartEnrichment \/ StartEngine
  \/ BeginReload \/ ReloadStep
  \/ Render \/ PutText \/ Expire
-----------------------------------------------------------------------------
Versions == 0..MaxEdits + 1
TypeOK ==
  /\ disk \in [Files -> Versions] /\ loader \in [Files -> Versions]
  /\ {always, criteria, policy} \subseteq Versions
  /\ {cache, reader} \subseteq Versions \cup {None}

\* An answer of ok to a reload, during which no file was edited, means that the
\* loader, the enrichment service and the engine use the files as they are
\* (health.py:320); the always-escalate rules are not reloaded at all, and a
\* playbook that is gone stays.
OkMeansApplied ==
  at = "answer" /\ ok /\ held =>
    /\ \A f \in Files : loader[f] = disk[f] \/ (f = "playbook" /\ disk[f] = Unread)
    /\ criteria = disk["risk"] /\ policy = disk["escalation"]

\* A reload never leaves a consumer without what it had: no criteria, a policy
\* short of its unusable entries, a playbook less (engine.py:126,
\* service.py:424); but a start takes what is usable, and an engine without a
\* policy what it is given.
ReloadsLoseNothing ==
  [][/\ up /\ up' =>
          /\ criteria # Unread => criteria' # Unread
          /\ policy' # policy => ~Rejected(policy') \/ policy = Unread
          /\ loader["playbook"] # Unread => loader'["playbook"] # Unread
     /\ ~up /\ up' /\ Readable => policy' = disk["escalation"]]_guidanceVars

\* After a reload the texts are those of the files loaded, but for one that a
\* thread was rendering when the reload began, which stays until it expires
\* (loader.py:253, 267).
StaleOnlyByRace == cache \in {None, loader["risk"]} \/ raced \/ at = "documents"
=============================================================================
