---------------------------- MODULE MCAlertStore ----------------------------
(* The alert loop and what it rests on, on small instances.  AlertPipeline *)
(* takes a statement of the store as one step, StoreConnections says on    *)
(* which session and for which tenant it runs; ServiceLife says when the   *)
(* loop runs at all, AssetInventory and HostContext what an alert is told  *)
(* of its host, Anonymizer what leaves with an alert it queued, and        *)
(* DecisionHosts how the tables are upgraded under it.                     *)
(* A run checks one of them at a time: part says which.                    *)
EXTENDS MCAlertPipeline

CONSTANTS
  Tenants, Tasks, ThreadOf(_), Slots, MaxDeaths,        \* of StoreConnections
  Rows, Said, Procs, MaxMoves,                          \* of DecisionHosts
  Files, CheckEvery, Stale, Watched, MaxQueue, MaxDecided, MaxChanges, \* ServiceLife
  Triages, Owners, Values, Emails, Notes, Texts, Configured, Earlier,
  MaxCalls, MaxStarts,                                  \* of Anonymizer
  Home, Hosts, Patterned, Loaders, MaxEdits, MaxLoads,  \* of AssetInventory
  Agents, Enrolled,                                     \* of HostContext
  t1, t2, t3, s1, s2, hn, u, e, Absent, Null

VARIABLES part,
  cached, free, session, at_, who, outer, call, block, written, durable,
  torn, deaths, strayed,
  tls, file, lapsed, proc, lic, halting, due, missed, loop, beat, queued, hand,
  decided, overtime, cut, changes, mishaps,
  booted, toToken, toOriginal, hydrated, mappings, talk, raced, begun, misses,
  below, revision, blob, host, started, outdated, moves, glitches,
  inventory, slice, shared, failed, cooling, job, lost, behind, listings, loads, slips,
  look, posture, mapped, kept, work, turns, gaps

\* t1 and t2 run on the event loop's thread, t3 on one of its executor.
OwnThread(t) == IF t = t3 THEN "pool" ELSE "loop"

Conns == INSTANCE StoreConnections

\* A licence of the team, one that runs out and has a limit of null, and none.
TeamFile ==
  [state |-> "signed", left |-> -1, version |-> 2, tier |-> "team",
   features |-> Absent, daily |-> Absent, agents |-> 1, users |-> Absent]
ShortFile == [TeamFile EXCEPT !.left = 1, !.daily = Null]
NoFile == [TeamFile EXCEPT !.state = "missing"]
ThreeFiles == {TeamFile, ShortFile, NoFile}
Service == INSTANCE ServiceLife WITH
  queue <- queued, late <- overtime, faults <- mishaps

\* The user and the text of an alert name what a note mentions too.
Talkative == [agent |-> hn, user |-> u, identity |-> Nobody, text |-> {u, e},
              command |-> {u}]
Silent == [agent |-> hn, user |-> Nobody, identity |-> Nobody, text |-> {},
           command |-> {}]
OneNote == {{u, e}}
TwoTexts == {Talkative, Silent}
OneStored == {[of |-> u, as |-> "HOST", salt |-> -1]}
Names == INSTANCE Anonymizer WITH
  Tenants <- Owners, Alerts <- Texts,
  starts <- booted, rows <- mappings, call <- talk, calls <- begun,
  faults <- misses

Named(core, edge) == [core |-> core, edge |-> edge]
FourNames == {Named("nameless", "clean"), Named("web", "tabs"), Named("web", "odd"),
              Named("unknown", "tabs")}
Upgrades == INSTANCE DecisionHosts WITH proc <- started, faults <- glitches
ASSUME StoreAssumption == Conns!PoolAssumption /\ Upgrades!NamesAssumption

Inventory == INSTANCE AssetInventory WITH
  Threads <- Loaders, edits <- listings, faults <- slips
AllEnrolled == [g \in {"001"} |-> "a"]
Context == INSTANCE HostContext WITH
  Threads <- Loaders, host <- posture, cache <- kept, changes <- turns, faults <- gaps

ASSUME ProcessAssumption ==
  /\ Service!LifeAssumption /\ Names!TextsAssumption
  /\ Inventory!AssetsAssumption /\ Context!AgentsAssumption

connVars == <<cached, free, session, at_, who, outer, call, block, written,
              durable, torn, deaths, strayed>>

lifeVars == <<tls, file, lapsed, proc, lic, halting, due, missed, loop, beat,
              queued, hand, decided, overtime, cut, changes, mishaps>>
nameVars == <<booted, toToken, toOriginal, hydrated, mappings, talk, raced, begun,
              misses>>
upgradeVars == <<below, revision, blob, host, started, outdated, moves, glitches>>
assetVars == <<inventory, slice, shared, failed, cooling, job, lost, behind, listings,
               loads, slips>>
contextVars == <<look, posture, mapped, kept, work, turns, gaps>>
hostVars == <<upgradeVars, assetVars, contextVars>>
allVars == <<part, vars, connVars, lifeVars, nameVars, hostVars>>

NothingListed ==
  /\ inventory = [t \in Tenants |-> Inventory!Nowhere] /\ slice = inventory
  /\ shared = Inventory!Nowhere /\ failed = {} /\ cooling = {} /\ lost = {}
  /\ behind = {} /\ job = [th \in Loaders |-> Inventory!Idle]
  /\ listings = 0 /\ loads = 0 /\ slips = 0
AllInit ==
  /\ part \in {"loop", "store", "life", "names", "hosts", "assets", "context"}
  /\ Init /\ Conns!Init /\ Service!Init /\ Names!Init /\ Upgrades!Init
  /\ Context!Init /\ IF part = "assets" THEN Inventory!Init ELSE NothingListed
  /\ part # "life" => tls /\ file = NoFile
  /\ part # "hosts" => below /\ revision = 17
  /\ part # "names" => mappings = [o \in Owners |-> {}]
  /\ part # "context" => look = "vuln"

LoopPart ==
  /\ part = "loop" /\ Next
  /\ UNCHANGED <<part, connVars, lifeVars, nameVars, hostVars>>
StorePart ==
  /\ part = "store" /\ Conns!Next
  /\ UNCHANGED <<part, vars, lifeVars, nameVars, hostVars>>
LifePart ==
  /\ part = "life" /\ Service!Next
  /\ UNCHANGED <<part, vars, connVars, nameVars, hostVars>>
NamesPart ==
  /\ part = "names" /\ Names!Next
  /\ UNCHANGED <<part, vars, connVars, lifeVars, hostVars>>
HostsPart ==
  /\ part = "hosts" /\ Upgrades!Next
  /\ UNCHANGED <<part, vars, connVars, lifeVars, nameVars, assetVars, contextVars>>
AssetsPart ==
  /\ part = "assets" /\ Inventory!Next
  /\ UNCHANGED <<part, vars, connVars, lifeVars, nameVars, upgradeVars, contextVars>>
ContextPart ==
  /\ part = "context" /\ Context!Next
  /\ UNCHANGED <<part, vars, connVars, lifeVars, nameVars, upgradeVars, assetVars>>
\* The bounds on calls, restarts, edits and loads are reached.
Ended ==
  /\ \/ /\ part = "names" /\ begun = MaxCalls /\ booted = MaxStarts
        /\ \A c \in Triages : talk[c].at = "away"
     \/ /\ part = "assets" /\ listings = MaxEdits /\ loads = MaxLoads /\ cooling = {}
        /\ \A th \in Loaders : job[th].at = "idle"
  /\ UNCHANGED allVars
AllNext ==
  \/ LoopPart \/ StorePart \/ LifePart \/ NamesPart \/ HostsPart
  \/ AssetsPart \/ ContextPart
  \/ Ended

AllSpec == AllInit /\ [][AllNext]_allVars

SymAll == SymReplicas \cup Permutations({t1, t2}) \cup Permutations({s1, s2})
-----------------------------------------------------------------------------
(* Properties.                                                             *)

\* Types, of the loop too.  Every statement runs on a session scoped to the
\* tenant of its task (store.py:1556); the statements of one block are durable
\* together or not at all (store.py:1754); a pool as large as the threads' needs
\* is never found empty (store.py:1161); no two threads hold the same session.
ConnectionsHold ==
  /\ part = "loop" => TypeOK
  /\ part = "store" =>
       /\ Conns!TypeOK /\ Conns!RunsAsCaller /\ Conns!StoredTogether
       /\ Conns!PoolSuffices /\ Conns!NotShared

\* A platform whose licence lapses goes on fetching for one interval of the check
\* and no longer (main.py:1087); a stop that is in time leaves nothing in hand
\* (main.py:2087); and the gates of a licence stay in what it lists and in its
\* tier (licensing.py:470), a statement about all payloads, for which one state
\* of each file is enough.
LifeHolds ==
  part = "life" =>
    /\ Service!TypeOK /\ Service!LapseIsNoticed /\ Service!StopDecides
    /\ proc = "down" /\ changes + mishaps + decided = 0 => Service!GatesStayInTier

\* What an alert names leaves nowhere in its data (anonymizer.py:360), what is
\* stored for the tenant leaves in no note (anonymizer.py:470), under one name
\* (anonymizer.py:525), and every name that left can be restored
\* (anonymizer.py:621).
NamesHold ==
  part = "names" =>
    /\ Names!TypeOK /\ Names!NamedLeavesNowhere /\ Names!StoredLeavesInNoNote
    /\ Names!AnswersResolve /\ Names!OneName

\* What an alert is told of its host and can trust is what the tenant recorded,
\* up to its last change (enrichers/__init__.py:235), a load that failed is said
\* (enrichers/__init__.py:174), what people said of a host stays (store.py:7350),
\* and no user hides another's risk (enrichers/__init__.py:355).  What is told of a
\* host's state is so, is of the tenant's own host (enrichers/__init__.py:1266),
\* is not what a failed look gave (enrichers/__init__.py:1489), and sharpens a
\* score within bounds (enrichers/__init__.py:1289).
ContextHolds ==
  /\ part = "assets" =>
       /\ Inventory!TypeOK /\ Inventory!TrustedIsRecorded /\ Inventory!DoubtIsSaid
       /\ Inventory!DiscoveryAddsOnly /\ Inventory!NoUserIsHidden
  /\ part = "context" =>
       /\ Context!TypeOK /\ Context!OwnHostsOnly /\ Context!ToldAsItIs
       /\ Context!FailureIsNotKept /\ Context!SharpenedOnly

\* A start is refused only where there is nothing to lose (pg_version.py:329), and
\* nothing is migrated into an empty database of an unsupported server
\* (main.py:2104).  After the upgrade a host has one name
\* (0019_backfill_host_pg14.py:17), which stays.
UpgradesHold ==
  /\ [](part = "hosts" => /\ Upgrades!TypeOK /\ Upgrades!NeverBricked
                           /\ Upgrades!OneNamePerHost)
  /\ Upgrades!NothingMigratedBelow /\ Upgrades!NamesStay

\* What holds of a process and of what it stores in, as above.
ProcessHolds == LifeHolds /\ NamesHold /\ ContextHolds
StoreHolds == []ConnectionsHold /\ UpgradesHold
=============================================================================
