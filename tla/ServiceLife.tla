---------------------------- MODULE ServiceLife ----------------------------
(* The life of one process of the platform (main.py): it reads its licence,*)
(* starts the scheduler, the triage workers and the alert loop, then serves*)
(* the API; it looks at the licence file again every CheckEvery ticks; and *)
(* it ends by a signal, a probe that finds it degraded, or a kill.  What   *)
(* the workers do with an alert is TriageDispatcher's, what the loop       *)
(* fetches AlertPipeline's; here an alert is queued, in hand or decided.   *)
EXTENDS Licence

CONSTANTS
  Files,        \* what is on disk, or is put there
  CheckEvery,   \* licensing.check_interval_hours, in ticks
  Stale,        \* health.alert_loop_staleness_seconds, in ticks
  Watched,      \* somebody restarts what answers 503
  MaxQueue, MaxDecided, MaxChanges, MaxFaults

VARIABLES
  tls,            \* the API has a certificate, or needs none
  file, lapsed,   \* the file; history: ticks of this process without a valid one
  proc,           \* "down", "opening", "serving", "stopping", "sentinels"
  lic, halting,   \* _license_info; running is off and _shutdown_event set
  due, missed,    \* ticks to the next check; history: checks that were missed
  loop, beat,     \* the alert loop; age of its last heartbeat
  queue, hand, decided, late, cut, changes, faults

life == <<lapsed, lic, halting, due, missed>>
work == <<queue, hand, decided, late, cut>>
bounds == <<changes, faults>>
lifeVars == <<tls, file, proc, loop, beat, life, work, bounds>>

\* What the proofs ask of an instance.
LifeAssumption ==
  LicenceAssumption /\ {CheckEvery, Stale, MaxQueue, MaxDecided, MaxFaults} \subseteq Nat

None == -1
Valid == Verdict(file) = "valid"
Fault == faults < MaxFaults /\ faults' = faults + 1
Scheduled == proc \in {"opening", "serving"}
Least(a, b) == IF a < b THEN a ELSE b

\* Files of a Community install, which has no licence and gets none.
OnlyNoFile ==
  {[state |-> "missing", left |-> -1, version |-> 2, tier |-> "team",
    features |-> Absent, daily |-> Absent, agents |-> Absent, users |-> Absent]}

Init ==
  /\ tls \in BOOLEAN /\ file \in Files /\ lapsed = 0
  /\ proc = "down" /\ lic = Community /\ halting = FALSE
  /\ due = None /\ missed = 0
  /\ loop = "off" /\ beat = None
  /\ queue = 0 /\ hand = 0 /\ decided = 0 /\ late = 0 /\ cut = FALSE
  /\ changes = 0 /\ faults = 0
-----------------------------------------------------------------------------
(* Start and licence.                                                      *)

\* Without a file the platform runs as Community; a file that is not valid ends
\* the start, and so does a limit of agents that is null or exceeded.
Boot ==
  /\ proc = "down" /\ Verdict(file) \in {"valid", "missing"}
  /\ lic' = IF Valid THEN Resolve(file) ELSE Community
  /\ lic'.agents # Null
  /\ \E active \in {1, 2} : AgentsCovered(lic', active)
  /\ proc' = "opening" /\ halting' = FALSE
  /\ due' = CheckEvery /\ missed' = 0
  /\ loop' = "idle" /\ beat' = None /\ lapsed' = 0
  /\ UNCHANGED <<tls, file, late, queue, hand, decided, cut, bounds>>

\* The process is gone, and its threads and what they had with it.
Gone ==
  /\ proc' = "down" /\ loop' = "off" /\ beat' = None /\ due' = None
  /\ queue' = 0 /\ hand' = 0 /\ late' = 0 /\ lapsed' = 0
  /\ halting' = FALSE /\ missed' = 0

Serve ==
  /\ proc = "opening" /\ tls /\ proc' = "serving"
  /\ UNCHANGED <<tls, file, loop, beat, life, work, bounds>>

\* SystemExit is not caught: nothing that started is stopped.
NoCertificate ==
  /\ proc = "opening" /\ ~tls /\ Gone
  /\ UNCHANGED <<tls, file, lic, decided, cut, bounds>>

\* Broken variant of Refuses: a file that has run out is no reason.
NotExpired(verdict) == verdict \notin {"valid", "expired"}
Refuses(verdict) == verdict # "valid"

\* _check_license_periodic, on every replica: anything but a valid file clears
\* running and sets the event; nothing ends the server, or starts the loop again.
Check ==
  /\ Scheduled /\ due = 0 /\ due' = CheckEvery
  /\ halting' = (halting \/ Refuses(Verdict(file)))
  /\ UNCHANGED <<tls, file, lapsed, proc, lic, missed, loop, beat, work, bounds>>

\* The scheduler drops a run that starts over a second late.
CheckMissed ==
  /\ Scheduled /\ due = 0 /\ due' = CheckEvery /\ Fault
  /\ missed' = missed + 1
  /\ UNCHANGED <<tls, file, lapsed, proc, lic, halting, loop, beat, work, changes>>

Tick ==
  /\ due # 0 /\ ~(loop = "idle" /\ halting)
  /\ file' = [file EXCEPT !.left = IF @ > 0 THEN @ - 1 ELSE @]
  /\ lapsed' = IF Verdict(file') = "valid" \/ proc = "down" THEN 0
               ELSE Least(lapsed + 1, 2 * CheckEvery * (MaxFaults + 1))
  /\ due' = IF due = None THEN None ELSE due - 1
  /\ beat' = IF beat = None THEN None
             ELSE IF loop = "idle" THEN 0 ELSE Least(beat + 1, Stale + 1)
  /\ UNCHANGED <<tls, proc, lic, halting, missed, loop, work, bounds>>

\* Somebody puts another file there, or takes it away.
ChangeFile ==
  /\ changes < MaxChanges /\ changes' = changes + 1
  /\ file' \in Files \ {file} /\ UNCHANGED tls
  /\ lapsed' = IF Verdict(file') = "valid" THEN 0 ELSE lapsed
  /\ UNCHANGED <<proc, lic, halting, due, missed, loop, beat, work, faults>>
-----------------------------------------------------------------------------
(* The alert loop and the workers.                                         *)

\* One iteration of the loop that leads; one that does not only beats.
LoopBegin ==
  /\ loop = "idle" /\ ~halting /\ loop' = "cycle"
  /\ UNCHANGED <<tls, file, proc, life, beat, work, bounds>>

Standby ==
  /\ loop = "idle" /\ ~halting /\ beat' = 0 /\ beat # 0
  /\ UNCHANGED <<tls, file, proc, loop, life, work, bounds>>

\* The day's quota is asked once an alert is worth it.  A limit of null raises,
\* and the alert is left out as it is over the quota.
OverQuota == lic.daily = Null \/ (lic.daily > 0 /\ decided >= lic.daily)

LoopEnd ==
  /\ loop = "cycle" /\ loop' = "idle" /\ beat' = 0
  /\ \/ ~OverQuota /\ queue < MaxQueue /\ queue' = queue + 1
        /\ late' = IF proc = "sentinels" THEN late + 1 ELSE late
     \/ UNCHANGED <<queue, late>>          \* over the quota, or no such alert
  /\ UNCHANGED <<tls, file, proc, life, hand, decided, cut, bounds>>

LoopStops ==
  /\ loop = "idle" /\ halting /\ loop' = "off"
  /\ UNCHANGED <<tls, file, proc, life, beat, work, bounds>>

Take ==
  /\ queue > 0 /\ hand = 0 /\ proc \in {"opening", "serving", "stopping"}
  /\ queue' = queue - 1 /\ hand' = 1
  /\ UNCHANGED <<tls, file, proc, loop, beat, life, decided, late, cut, bounds>>

Decide ==
  /\ hand = 1 /\ hand' = 0 /\ decided' = Least(decided + 1, MaxDecided)
  /\ UNCHANGED <<tls, file, proc, loop, beat, life, queue, late, cut, bounds>>
-----------------------------------------------------------------------------
(* The end.  stop() clears running, waits for the scheduler's jobs, drains *)
(* the queue within a deadline, and puts the sentinels ahead of the rest.  *)

\* Broken variant of AtShutdown: the server ends without the hook.
NoHook == "exit"
AtShutdown == "stopping"

\* The server has the signals: it runs its shutdown, and stop() in it.
Stop ==
  /\ proc = "serving"
  /\ IF AtShutdown = "stopping"
     THEN /\ proc' = "stopping" /\ halting' = TRUE /\ due' = None
          /\ UNCHANGED <<loop, beat, lapsed, missed, work>>
     ELSE Gone /\ cut' = (cut \/ queue + hand > 0) /\ UNCHANGED decided
  /\ UNCHANGED <<tls, file, lic>>

Terminate == changes < MaxChanges /\ changes' = changes + 1 /\ Stop /\ UNCHANGED faults

\* health_check degrades a heartbeat that is stale, never one that is absent.
Degraded == beat # None /\ beat > Stale
Probe == Watched /\ Degraded /\ Stop /\ UNCHANGED bounds

\* Until the server runs, the handler of start() only asks the loop to end.
EarlySignal ==
  /\ proc = "opening" /\ Fault /\ halting' = TRUE
  /\ UNCHANGED <<tls, file, lapsed, proc, lic, due, missed, loop, beat, work, changes>>

Drained ==
  /\ proc = "stopping"
  /\ \/ queue = 0 /\ hand = 0 /\ UNCHANGED <<late, faults>>
     \/ Fault /\ late' = queue + hand                    \* the deadline passes
  /\ proc' = "sentinels"
  /\ UNCHANGED <<tls, file, loop, beat, life, queue, hand, decided, cut, changes>>

\* Workers that have something in hand end after it, or are left behind.
Exit ==
  /\ proc = "sentinels" /\ (hand = 0 \/ late > 0)
  /\ cut' = (cut \/ queue + hand > late)
  /\ Gone /\ UNCHANGED <<tls, file, lic, decided, bounds>>

Kill ==
  /\ proc # "down" /\ Fault /\ Gone
  /\ UNCHANGED <<tls, file, lic, decided, cut, changes>>

\* The main thread, with who starts it again; the loop; the workers.
MainStep == Boot \/ Serve \/ NoCertificate \/ Probe \/ Drained \/ Exit
LoopStep == LoopBegin \/ LoopEnd \/ LoopStops
WorkStep == Take \/ Decide
Next ==
  \/ MainStep \/ LoopStep \/ WorkStep \/ Check \/ CheckMissed \/ Tick \/ ChangeFile
  \/ Standby \/ Terminate \/ EarlySignal \/ Kill

\* Threads run, time passes, and a service that ended is started again.
Fairness ==
  /\ WF_lifeVars(MainStep) /\ WF_lifeVars(LoopStep) /\ WF_lifeVars(WorkStep)
  /\ WF_lifeVars(Check) /\ WF_lifeVars(Tick)

Spec == Init /\ [][Next]_lifeVars /\ Fairness
-----------------------------------------------------------------------------
TypeOK ==
  /\ proc \in {"down", "opening", "serving", "stopping", "sentinels"}
  /\ loop \in {"off", "idle", "cycle"} /\ due \in None..CheckEvery
  /\ beat \in None..(Stale + 1) /\ queue \in 0..MaxQueue /\ hand \in 0..1

\* A platform without a valid file goes on fetching for one interval of the
\* check and no longer, but for checks that the scheduler missed (main.py:1087).
LapseIsNoticed ==
  Scheduled /\ ~halting => lapsed <= CheckEvery * (1 + missed)

\* A stop that is in time leaves nothing queued or in hand, but for what the loop
\* queues while the workers are told to end (main.py:2087, 2068).
StopDecides == ~cut

\* docs/SETUP-GUIDE.md:77: without a licence file the platform runs, free for
\* ever; so it goes on fetching alerts.
CommunityKeepsFetching == tls => []<>(loop = "cycle")
=============================================================================
