# DHRUVA: formal models and proofs

DHRUVA triages the alerts of a Wazuh installation with a language model. It
polls the Wazuh index, enriches what it finds, asks the model for a verdict,
stores a decision for each alert and groups decisions into incidents that
analysts work on. These TLA+ modules model the parts of it where the order of
events decides whether an alert is lost, dismissed by mistake, triaged twice,
read by the wrong tenant or closed unseen. TLC checks them on small instances;
TLAPS proves some of the results for every value of the constants. Line numbers
below are those of `src/`; `PROJECT.json` maps each definition to the lines it
stands for.

    tlc -config pipeline_single.cfg MCAlertPipeline     # any run: cfg and module in section 3
    tlapm AlertStore_proofs.tla                         # and the other seven *_proofs

## 1. The system

### Components, their state and how they interact

    Wazuh index --poll--> fetcher --enrich--> alert loop --submit--> dispatcher
                          (cursor, seen ids)  (job lock)             (heap, workers)
                             |                                            |
              assets, hosts, feeds, hours, rule record             budget, LLM backends,
                                                                      anonymizer
                                                                          |
       analysts --requests--> case desk <--group-- downstream <--save-- triage agent
       (tokens, tenant)       (incidents)                      (window, cache, guidance)
                                  |
       scheduler --jobs--> SLA announcer, buffer flush, feeds, retention, licence check

| Component | Code | State | Operations | Module |
|---|---|---|---|---|
| Alert loop, fetcher | `main.py` 1828-1977, `enrichment/service.py` 1150-1475 | job lock, batch in hand; cursor, `processed_ids` (memory); `processed_alerts` (database) | a cycle per replica that gets the lock: poll, look back, dedup, enrich, trim, checkpoint, quota, submit | AlertPipeline |
| Triage dispatcher | `agents/triage_dispatcher.py` | bounded heap, in-flight set, threads, counter | submit, take, finish, stop: drain, sentinels, joins | TriageDispatcher |
| Triage agent, guard, window, decision cache | `agents/triage_agent.py`, `verdict_guard.py`, `cost_controls.py` | window (memory), cache (database) | reuse, rules, noise filter, model, guard, save, write through, disable, expire | TriageAgent |
| Budget guard | `agents/cost_controls.py` | reservations, usage rows | reserve, record, release, purge | BudgetGuard |
| LLM backends | `agents/claude_backend.py`, `llm_providers/` | start slot, semaphore, last usage; provider cache, breaker | a call with retries; look-up, call, report | LlmBackend, TenantBackend |
| Anonymizer | `anonymization/anonymizer.py` | token maps (memory), mappings (database) | tokenise, scrub, hydrate, restore | Anonymizer |
| Incident engine, case desk | `incidents/engine.py`, `routes/incidents.py`, `routes/triage.py`, `store.py` | incidents, memberships, verdicts, owners, evidence | match, join, open; status, review, propagate, roll up, merge; assign, escalate, claim | IncidentDesk, CaseHands |
| Severity policy | `incidents/severity.py` | entries of a file | accept, match, cap, raise | SeverityPolicy |
| SLA manager | `incidents/sla.py` | breach rows, retry ledger (memory) | pass over breaches, announce, record | SlaAnnouncer |
| Rule record, risk score | `store.py`, `enrichment/service.py` 846-935 | labels of decisions | label, rate, precedent | RuleRecord |
| Enrichers | `enrichment/enrichers/__init__.py` | inventory slices, host cache, hours | load, heal, look up, score | AssetInventory, HostContext, WorkHours |
| Threat-intel feeds | `enrichment/threat_intel/` | indicators, CVEs, feed status, look-up cache | collect, expire, look up | ThreatFeeds |
| Enriched-alert buffer | `enrichment/inmem_buffer.py` | ring buffer | append, flush | EnrichedBuffer |
| Manager client | `enrichment/wazuh_client.py` | token, the manager's rule files | validate, deploy, ask for a script | RuleManager |
| Store | `database/store.py` | pool, cached sessions, tenant scope | checkout, block, cross-tenant block, job lock | StoreConnections, PeriodicJobs |
| Migrations | `database/pg_version.py`, `migrations/` | schema revision, host names | version gate, backfill | DecisionHosts |
| Tenant registry and secrets | `database/tenant_registry.py`, `tenant_crypto.py`, `routes/admin.py` | keys, encrypted rows, cached backends | update, rotate, build, reload | TenantConfigs |
| Guidance | `guidance/`, `routes/health.py` | versions in four consumers, rendered texts | start, reload, render | GuidanceReload |
| Accounts and tokens | `api/auth.py`, `routes/auth.py`, `routes/admin.py` | accounts, revoked tokens | sign in and out, promote, switch off, create | Sessions, UserAdmin |
| Tenant of a request | `api/middleware.py` | switch log | override, pace, note | TenantSwitch |
| Licence and gates | `licensing.py`, `api/feature_gates.py` | licence in memory | validate, check, gate | Licence, ServiceLife |
| Start, stop, jobs | `main.py`, systemd unit | threads, heartbeat, locks | start, tick, stop; elect, iterate; prune | ServiceLife, PeriodicJobs, Retention |

The components share a PostgreSQL database and, inside one process, memory. The
alert loop calls the fetcher and the dispatcher in its own thread; the workers
are threads that call the triage agent, the store and the incident engine; API
handlers run on an event loop; the scheduler's jobs run on a pool; several
replicas may run against one database, each with its own memory.

### What is hard about it

* **Two memories of one fact.** Whether an alert is handled, a token signed
  out, a name tokenised, an asset listed or a key rotated is known to a process
  and to the database. They are updated at different moments by different
  threads, and the first is lost in a crash.
* **A lock that covers less than the work.** The job lock is held for a cycle,
  the triage it starts goes on after it.
* **Alerts arrive late.** The index is searched in timestamp order while
  documents with older timestamps are still being added.
* **Verdicts and answers are reused.** A verdict, a look-up or a rendered text
  is applied later, elsewhere, after what it rested on has changed or failed.
* **Read, then write.** Budget, roll-up, propagation, status, assignment,
  evidence, tenant updates, rule deployment and the engine's whole-row save read
  in one statement and write in another.
* **Failure that looks like absence.** A search, a load or a query that fails
  must not be taken for "nothing known", "no policy" or "clean".
* **One session, many tenants.** Threads keep database sessions and a context
  variable, tasks of several tenants share them.
* **Stopping.** A drain with a deadline, a blocking queue, sentinels, signals
  and a licence check race with a producer.

### What correctness means, by component

* Pipeline: one cycle at a time; no process has an alert twice; an alert a
  process will not look at again is durable, on its way, or was dropped by a
  logged error; what a crash wipes out is fetched again; one decision per alert
  and process; everything indexed is handled in the end; no foreign alerts.
* Dispatcher: the drain's counter is exact, a clean drain leaves nothing, no
  work after the sentinels, urgency order, no starvation, `stop()` returns.
* Verdicts: no dismissal without a human against evidence or without the means
  to look for it; reuse only of safe verdicts; an analyst's disable holds.
* Calls: reservations and calls match, overshoot has named causes only; calls
  are paced, paid for once, and end; a dead provider is left alone, a live one
  is used again. Nothing that is known to be a name leaves untokenised.
* Cases: held alerts are not swept up, verdicts of humans are not overwritten,
  every decision is in one incident, counts agree; one owner; what was
  acknowledged is there; a breach is announced or given up, and not repeated.
* Context of an alert: what is told of a host is the tenant's own and true up to
  its last change, a failure is not kept as an answer; a listed indicator or CVE
  stays listed; labels of machines move a rate only so far.
* Store and tenants: a statement runs for its caller's tenant, a block is
  stored whole, no row becomes unreadable, no tenant falls back to another's
  configuration, a job runs once and for every tenant, nothing dangles.
* Process: a lapse is noticed in time, a stop decides what it took, a reload that
  says ok is ok, a start is refused only where nothing is lost.
* Access: a sign-out holds, ranks hold, a user quota holds; another tenant is
  served to providers only, at a pace and on record.

## 2. The modules

Each module has one action per step that other actors can interleave with: a
database transaction, a critical section under a Python lock, or the stretch
between two of them. Definitions whose comment starts with "Broken variant of"
are not part of a specification: they are plausible mistakes that each property
is shown to catch. Names such as `missed`, `raced` or `overlap` that a comment
calls history are not state of the program: they remember why a property may
fail, so that the property can say so.

### The alert pipeline

**AlertPipeline** (with AlertLedger, MCAlertPipeline, AlertStore_proofs). One
tenant's alerts on any number of replicas. An alert is a natural number: its
place in (timestamp, id) order and, at once, its timestamp. `now`, `indexed`
are the environment; `Ingest` lets an alert reach the index up to `MaxLate`
after its time. `lock` is the advisory lock `dhruva:job:alert_loop`
(`job_lock`, store.py 1458); `pc` is where each replica's loop is.

| Definitions | Code |
|---|---|
| `BeginCycle`, `Unlock`, `EndCycle`, `CycleRaises` | `run_alert_loop` 1828-1842 and the exits of `_run_alert_loop_cycle` |
| `Fetch`, `Ahead`, `Behind`, `WindowStart`, `MovePast`, `NotePoll` | `process_batch`: window of the first poll 1185-1211, agent clause 1245-1260, forward search, cursor 1315, look-back 1340-1400 |
| `SkipKnown`, `Enrich`, `Trimmed`, `Enriched` | the dedup loop 1405-1469, with the cache that is re-filled with ids no look-up matches |
| `SkipLowRisk`, `CheckpointFails`, `DropOverQuota`, `StartSubmitting` | `main.py` 1915-1960 |
| `Submit`, `SkipInFlight`, `Dequeue`, `LetGo` | `submit`, `_worker_loop` |
| `SaveDecision`, `Downstream`, `TriageFails` | `save_decision` (store.py 2060, one transaction with the checkpoint), `_process_decision_downstream`, the workers' except clause |
| `Crash`, `Restart` | loss of memory and database sessions; `processed_ids` loaded at construction |

`AlertLedger` is what one process owes: an alert gets one verdict for ever,
together with its durable mark, or a quiet alert only the mark. `Ledger` in
`AlertPipeline` is the refinement mapping.

**TriageDispatcher** (with TriagePool, MCService, Service_proofs). Items are heap records ordered by tier, negated risk
and sequence number; `Submit` and `Put` are separate because the put blocks;
`Take`/`Exit` pop the top; `Finish` is the `finally`; `BeginStop`, `Drained`,
`DrainTimesOut`, `Signal`, `StartJoining`, `Joined` are `stop()`. `TriagePool`
is the abstract promise (an alert is waiting, in one worker's hands, or not in
the pool; a worker takes only waiting ones) and is refined by it.
`AlertPipeline` uses the dispatcher at the level of `TriagePool`: a worker may
take any queued alert.

**TriageAgent** (with MCTriageAgent, TriageAgent_proofs). An enrichment is a set
of flags; `ReuseSafe` and `CacheSafe` are the gates of `triage_and_dedup`
(1640-1700); `RepFor` and `EntryFor` the look-ups; `AlwaysEscalate`,
`DismissNoise`, `NoAnswer`, `Answer` the ways of `triage_alert` with `Guard`
(`evaluate_verdict_guard`); `Remember` the write to both stores; `Switch`,
`EditVerdict`, `EntryGoes` what senior analysts and time do to the cache;
`Restart` a process start with a possibly different `auto_close_enabled`. The
model's verdict, its adjusted confidence, a rule's tuned threshold and a request
for escalation are free choices.

**StoreConnections.** What `AlertPipeline` takes as one statement: each call
probes the thread's cached session (`Probe`, `Retire`, `Draw`), writes the
caller's tenant into it (`Checkout`, `Scoped`), and runs, alone or as the first
or second statement of a block (`RunAlone`, `RunFirst`, `RunSecond`,
`EndBlock`); `EnterCross`/`LeaveCross` are `cross_tenant`. Tasks of one thread
share its session and switch between calls. `Dies` ends any session.

**ServiceLife** (with Licence). One process: `Boot` reads the licence, `Serve`
starts the API; the loop (`LoopBegin` to `LoopEnd`), the workers (`Take`,
`Decide`), the periodic `Check` and its `CheckMissed`; `Stop`, `Terminate`,
`EarlySignal`, `Probe`, `Kill`, `Drained`, `Exit`. **Licence** is the pure part:
`Verdict`, `Resolve`, the limits and gates over all payloads, with absent and
null fields kept apart.

**Anonymizer.** Two triages share the process's token maps: `Look` and `Put` are
the locked look-up and the write that follows a database insert, `Data` builds
what leaves, `Hydrate`/`Load` read the tenant's mappings once, `Send`,
`Answered` restore. A text is the set of identifiers it mentions.

**AssetInventory.** A tenant's rows (`Classify`, `Discover`), loads in two steps
(`Begin`/`AskReload`/`Heal`, then `Read`, `Keep`) by several threads, the slice
of each tenant and the shared one (`SliceOf`), and what an alert is told
(`Tier`, `Trusted`); the identity multiplier is the operator `UserRisk`.
**HostContext** follows one look-up from the cache (`Start`, `Key`) through the
agent's scope (`Scope`, `Says`) and two searches (`First`, `Second`), each of
which may fail in its own way, to the factor it gives (`Multiplier`).

**DecisionHosts.** Two starts ask the server's version and the tables (`Ask`,
`Look`), migrate (`Upgrade`, with `Coerce`, `Backfill` of 0018 and
`Renormalise`, `FillGaps` of 0019) and save decisions, while an earlier release
still writes rows (`OldSave`) and the database may move (`MoveServer`).

### Model calls

**BudgetGuard.** Reservations of one tenant in one billing period, with a
positive cap. `ReadSpend` and `Admit`/`Refuse` are the two reads of
`_reserve_locked` (the second is one transaction with the insert); `Record` is a
usage row, which takes no lock and may cost nothing; `Release`, `ReleaseFails`,
`Expire`, `FailOpen`, `Crash` are the other ways a reservation ends. `slipped`
and `worst` are history: reservations that went away between the two reads.

**LlmBackend.** A caller reserves the next start slot (`Reserve`), sleeps until
it comes (`Start`, with the semaphore), gets an answer, takes the provider's
`last_usage` (`TakeUsage`), writes a usage row (`Track`) and parses it; a call
that raises is repeated. **TenantBackend** is a tenant's provider cache and
circuit breaker, without locks: `Lookup`, `CreateProvider`, `Ask`, `Succeed`,
`Fails`/`RecordFailure` (two steps), `Rest` to half-open.

### Background work of a process

**EnrichedBuffer.** `Enrich`/`Buffer` append and drop the oldest at the cap,
`Peek`, `Send`, `Pop` are one step of the flush each. **SlaAnnouncer.** A pass of
the leader over one tenant's breaches: `BeginPass` with every way its reads
fail, `Announce` per breach with a budget, `Prune`/`Touched` for the ledger,
`OtherPass` of another tenant, `Restart`. **ThreatFeeds.** One indicator and one
CVE: a cycle feed by feed (`Fetch`, `Store`, `ReportSuccess`, `RecordError`),
upserts, `Cleanup`, and the alert's look-up (`LookUp`, `LiveLookUp`, `ReadCve`,
`AskEpss`) with its cache and rate limiter.

### The API and the jobs

**IncidentDesk** (with MCIncidentDesk). Workers that file decisions and API
processes that serve analysts, on the same two tables. `Match`, `Join`,
`Reread`, `SaveRow` and `OpenIncident`, `AddFirst` are the statements of
`_process_single` (413-790). A request of an analyst is split where its handler
reads and later writes: `AskStatus`/`SetStatus`, `AskReview`/`Review`,
`AskPropagate`/`Propagate`, then `FindIncident`/`ReadMix`/`RollUp` for the
roll-up that follows; `Merge` is one transaction. Handlers are `async def`
without an await, so one API process serves one request at a time; `Desks` are
processes. Correlation keys, time windows and attack-chain matching are the
operators `KeyOf` and `JoinKeys`. `stale`, `merged`, `lost` are history.

**CaseHands.** The other columns of a case, one user per replica: ask, then
write, for assignment, tier, evidence, notes, claim and release.

**Sessions** has tokens, the table of revoked ones and each replica's memory of
it; **UserAdmin** accounts, roles in tokens, and the two steps of a creation;
**TenantSwitch** the tenant a request is served for (`AtHome`, `TooMany`,
`LeftAtHome`, `Abroad`), in one step, because the event loop does not switch
tasks before the handler. The limiter's log (`switches`) and the history of the
changes of tenant that took effect (`moved`) are sets of distinct stamps, pruned
to the window.

**TenantConfigs.** Master keys and their generations, rows that decrypt with one
of them, updates in two steps, the registry's cached configuration and backend
with a thread that builds one (`Fetch`, `Keep`), rotation with its restarts.

**GuidanceReload.** Which version of the files each of four consumers has:
starts, a reload that goes through them one by one (`ReloadDocuments`,
`ReloadEnrichment`, `ReloadEngine`, `Answer`), each of which may fail, and the
rendered texts. **SeverityPolicy** is the algorithm of the policy: `Usable`,
`Matches`, `Ceilings`, `Floors`, `Capped`, `Moved`, over all entries and alerts
of a small domain. **RuleRecord** has labels of recent decisions as counts, the
rate with its capped machine share, and the precedent a prompt quotes.
**WorkHours** normalises what was written of hours and windows (`Business`,
`Usable`) and scores each slot of a week against what was meant (`Meant`).

**RuleManager.** Validations that share one probe file on the manager
(`Upload`, `Logtest`, `Delete`), deployments that read and rewrite a file
(`ReadTuned`, `WriteTuned`), two questions about a script; calls fail, tokens
expire, the process is killed.

**PeriodicJobs.** The scheduler's threads in each replica: `Start` with the job
lock, `Turn` per tenant, `Across` for jobs over all tenants, `Judge` for the
health check of the model, and the multi-tenant mode of the loop (`Polled`,
`Recomputed`). **Retention.** `DeleteBatch` by table, children before parents,
with failing tables and rows added meanwhile.

### How they are composed

MCAlertPipeline, MCTriageAgent and MCIncidentDesk give one module its constants
(the run of ServiceLife alone needs none). The other MC modules are sums: a variable `part` picks, in the initial state,
which component moves; the others keep a fixed initial state.

| Sum | Parts |
|---|---|
| MCAlertStore | loop (AlertPipeline), store, life, names, hosts (DecisionHosts), assets, context |
| MCService | dispatcher, buffer, sla, feeds |
| MCModelCalls | budget, llm, tenant |
| MCCaseWork | desk, hands, sign-in, users, switch, configs, guides, severity, manager, record, week, jobs, nights |

A sum is parameterised like its parts; `OwnThread`, `ThreeFiles` and the like in
the MC modules are values that the `.cfg` files give to its constants. A sum
explores exactly the union of its parts' behaviours. That is sound because
the parts share no variable that a model keeps: where one rests on another, it
does so through a promise that the other part is checked for (a statement of
the pipeline runs in its tenant and whole: `RunsAsCaller`, `StoredTogether`; a
worker takes a queued alert once: `ImplementsPool`; the loop runs while the
service does; a triage's call ends: `CallsEnd`). The one place where two
components do work on the same data in one model is `AlertPipeline` itself
(loop, fetcher, workers, database, crashes of all) and `IncidentDesk` (engine
and API). A property of a sum is a conjunction of properties of its parts, each
with the guard `part = ...` where the fixed state of an idle part would make it
fail or trivial.

## 3. The runs

| Run | Question | Properties | Instance |
|---|---|---|---|
| `pipeline_single` | does one replica ever forget or repeat an alert? | `TypeOK`, `SeenIsAccountedFor`, `DroppedIsRefetched`, `OneReplicaKeepsLedger` | 1 replica, 2 workers, 3 alerts (one quiet), batch 2, queue 1, quota 1, 2 crashes, 2 faults |
| `pipeline_trim` | do trims, late arrivals and foreign agents break anything, and is everything handled in the end? | `NeverHeldTwice`, `TenantScoped`, `LateArrivalsAreFetched`, `EventuallyHandled` | 3 alerts (one foreign), cache of 1, look-back 2, arrivals up to 2 late, 2 crashes, fair |
| `pipeline_replicas` | do two replicas exclude each other, and does what they rest on hold? | `OneCycleAtATime`, `OnceEachReplica`, `ProcessHolds`, `StoreHolds` | MCAlertStore, see below |
| `dispatcher` | queue, priority, shutdown, and the other background work | `TasksCounted`, `CleanDrain`, `NoWorkAfterSentinels`, `MostUrgentFirst`, `ImplementsPool`, `NothingLost`, `AnnouncementsHold`, `FeedsHold`, `EventuallyDelivered` | MCService, see below, fair |
| `budget` | which ways lead past the cap, and do calls end? | `RowsAreCalls`, `OvershootAccounted`, `EventuallyAnswered`, `CallsHold`, `CallsEnd` | MCModelCalls, see below, fair |
| `verdicts` | can reuse, outages, restarts or edits dismiss an alert against its evidence? | `TypeOK`, `NoSuppression`, `ClonesTrace`, `CacheHoldsSafe`, `RevokedStays` | 2 workers, 3 alerts of one fingerprint, 6 kinds of enrichment, 3 model verdicts, 3 confidence levels, 1 restart, 1 edit |
| `incidents` | do engine, analysts, administrators and jobs respect each other? | `NeverSweptUp`, `FiledOnce`, `CountsAgree`, `VerdictKept`, `HandsHold`, `AccountsHold`, `TenantsHold`, `GuidanceHolds`, `ManagerHolds` | MCCaseWork, see below |
| `community_stops` | violated: `CommunityKeepsFetching` | see findings | ServiceLife: no licence file, no fault, no signal |
| `pipeline_no_history` | violated: `DroppedIsRefetched` | see findings | 1 replica, empty `processed_alerts`, 1 crash |
| `verdicts_held_shut` | violated: `HeldShut` | see findings | 1 worker, 1 restart |
| `incidents_rollup` | violated: `RollupIsConservative` | see findings | 1 worker, 1 desk |
| `incidents_reopened` | violated: `ClosedStaysClosed` | see findings | 1 worker, 1 desk |

### The parts of the sums

| Part | Instance | What is shown |
|---|---|---|
| loop | 2 replicas with a worker each, 2 alerts, queue 1, 1 crash, 1 fault | `OneCycleAtATime`; `OnceEachReplica`: no process decides an alert twice |
| store | 3 tasks of 2 tenants on 2 threads, 2 sessions, 1 death | `RunsAsCaller`, `StoredTogether`, `PoolSuffices`, `NotShared` |
| life | a file without end, one that lapses and has a limit of null, none; check every tick, queue 1, 1 change of file, 1 fault | `LapseIsNoticed`, `StopDecides`, `GatesStayInTier` |
| names | 2 triages, 3 identifiers, a note with two, 1 row of an earlier process, 1 restart, 1 fault | `NamedLeavesNowhere`, `StoredLeavesInNoNote`, `AnswersResolve`, `OneName` |
| hosts | 2 starts, 1 row, 4 forms of a name, server below or above the minimum, 1 move, 1 fault | `NeverBricked`, `OneNamePerHost`, `NothingMigratedBelow`, `NamesStay` |
| assets | 2 tenants, 2 hosts, 2 threads, 1 edit, 2 loads, 1 fault | `TrustedIsRecorded`, `DoubtIsSaid`, `DiscoveryAddsOnly`, `NoUserIsHidden` |
| context | 2 tenants, 1 agent, 2 threads, either enricher, 1 change, 1 fault | `OwnHostsOnly`, `ToldAsItIs`, `FailureIsNotKept`, `SharpenedOnly` |
| dispatcher | 3 alerts of different urgency, 4 submissions, 2 workers, queue 2 | the five properties of the dispatcher; `EventuallyTaken`, `StopReturns` |
| buffer | 3 alerts, one rejected for good, room for 2, 2 outages | `LossIsAccounted`, `EventuallyFlushed` |
| sla | 1 incident with 2 deadlines and 2 tiers, another tenant, 2 attempts, 1 per pass, ledger of 3 passes, 1 fault | `RetriesAreCapped`, `ToldOnce`, `NoBreachOutranked`, `EventuallyToldOrAbandoned` |
| feeds | a dead feed, a catalogue, a bulk feed, 2 units of time, 1 fault | `KevStays`, `NotDroppedEarly`, `RemembersVerdict`, `EventuallyRecorded` |
| budget | 2 workers, cap 3, estimate 2, 2 calls of at most 1 each, 1 fault, 1 leak | `RowsAreCalls`, `OvershootAccounted`, `EventuallyAnswered` |
| llm | 2 callers, 1 or 2 permits, 2 attempts, 2 failures | `CallsArePaced`, `UsageStaysInside`, `AnswersArePaid`, `CallsEnd` |
| tenant | 2 callers, threshold 2, 1 outage | `EventuallyRejects`, `EventuallyCloses` |
| desk | 2 workers, 2 API processes, 2 decisions of one key (one held for a human), 3 requests, 1 fault | the four properties of the desk |
| hands | 2 analysts and a senior, 4 requests, 1 fault | `OneOwner`, `OwnerIsOwner`, `AckedIsKept`, `TierNeverFalls` |
| sign-in | 1 user, 2 replicas, 2 tokens that live 2 of 3 units, 2 starts, 1 failure | `SignedOutStaysOut`, `SpreadsByStart`, `SwitchedOffLeaves` |
| users | a provider's and a tenant's administrator, 2 accounts, quota 3, 2 replicas, 3 steps | `NoPeerIsMade`, `TopUntouched`, `WithinQuota` |
| switch | a provider and a user, 3 tenants, 2 switches per 2 of 3 units of time, 1 fault | `SwitchesArePaced`, `StaysAreNoted`, `NoneAbroad` |
| configs | 2 fields, 2 administrators, 1 builder, 3 keys, 3 restarts, 1 fault | `NeverUnderOwnKey`, `RotationKeepsRows`, `FieldsSurvive`, `NeverGlobalByFault`, `ServesTheNew` |
| guides | 2 edits (one unusable), 2 reloads, 1 restart | `OkMeansApplied`, `ReloadsLoseNothing`, `StaleOnlyByRace` |
| severity | every entry of the domain beside two standing ones, 29 alerts, 2 bands | `PagesAreBounded`, `QuietedOnPurpose`, `NamedFloorHolds` |
| manager | 2 validators, 4 rules (malformed, illogical, two sound), 1 fault, 2 runs | `ValidIsChecked`, `NoProbeStays`, `DeployedStays`, `ScriptAsReported` |
| record | 6 decisions, 2 labels needed, machine share and cap scaled, 1 fault | `MachinesAreBounded`, `PeopleDecide`, `NoneMeansNone` |
| week | 3 days of 4 slots, every way to write hours and a window, 1 zone | `HoursAsMeant`, `WindowAsMeant`, `RiskAsMeant` |
| jobs | 2 replicas with a thread, a job per tenant and one across, 2 tenants, 1 change, 1 fault | `NeverLeftAcross`, `OneRunner`, `EveryTenantHasItsTurn`, `PollsAll` |
| nights | 2 decisions, batch 1, one junk and one numeric period, 1 row added, 1 fault | `NothingDangles`, `OldRowsGo` |

The runs' combined properties are: `ProcessHolds` (life, names, assets, context),
`StoreHolds` (types of the loop, store, hosts), `NothingLost` (dispatcher types,
buffer), `AnnouncementsHold` (sla), `FeedsHold` (feeds), `EventuallyDelivered`
(the liveness of all four parts of MCService), `CallsHold` and `CallsEnd` (llm,
tenant), `AccountsHold` (sign-in, users, switch), `TenantsHold` (desk types,
configs, jobs, nights), `GuidanceHolds` (guides, severity, record, week),
`ManagerHolds`, `HandsHold`. Each conjunct is stated, with its comment, in the
module of its part, and has mutants of that module.

### Why the bounds are enough

Every behaviour named above needs at most two actors of a kind and one item more
than some capacity. In `pipeline_single` three alerts exceed the batch and the
queue, one crash can hit a batch, a queue and a worker's hands at once, a second
one the recovery from the first, and the two faults combine a failed search with
a failed write. In `pipeline_trim` the cache of one entry makes every batch trim
it, and the batch holds the whole look-back window, which is the condition under
which late arrivals are found. The dispatcher's queue is smaller than its
submissions, so puts block before, during and after the drain. The budget's cap
admits one triage beside another and no third. In `verdicts` three alerts are a
representative, its duplicate and one that arrives after a change; one
fingerprint makes them all related. In the case desk a decision that must be
held meets one that raises the incident, and three requests are enough for a
review, a propagation with its roll-up and a merge or a close around them.

The other parts have two actors where code is shared (threads, replicas,
callers, administrators, tenants), one fault where a failure can be mistaken for
an answer, and one restart where memory is rebuilt from the database; time runs
for one expiry more than what is remembered. `severity`, `week` and `life`'s
gates range over whole input domains; each interval has its two ends, the value
on each side, and the unusable. All `Max...` constants bound the environment
only, or the number of calls one actor makes. `CHECK_DEADLOCK FALSE` is set where the
instance really ends: the dispatcher stops, every alert has its verdict, every
request is answered. `Ended` in two sums is the same, where the run checks
deadlock for its other parts.

### Fairness

*AlertPipeline*: the loop of a live process keeps polling (a timed wait in a
thread that catches every exception, `main.py` 1855-1868), workers keep working
(LLM calls have timeouts), a dead process is restarted (`Restart=on-failure`,
systemd). *TriageDispatcher*: a thread that waits in `get` or `put` and can go
on does; a triage ends. *EnrichedBuffer*, *SlaAnnouncer*, *ThreatFeeds*: the
scheduler runs each job again and again (`main.py`, interval jobs; with several
replicas, a job that finds its lock taken waits for the next interval) and HTTP
calls have timeouts; outages of the index end. *BudgetGuard*: strong fairness
for the advisory lock, which PostgreSQL grants in the order of requests;
statements return; calls time out. *LlmBackend*: time passes, calls time out,
and strong fairness for the semaphore, whose waiters are served in turn.
*TenantBackend*: a breaker's rest ends, calls end. *ServiceLife*: time passes and
the loop's and the workers' steps happen, so that `CommunityKeepsFetching` is not
violated by a process that merely does nothing. Crashes, faults, requests,
edits and administrators are never fair, and bounded. `EventuallyTaken` is about
a bounded number of submissions; an endless stream of urgent alerts does starve
the others, as a priority queue will.

## 4. Findings

Places where a comment or document promises what the code does not do; each is
the violated property of a run.

1. *A free installation stops after a day* (`community_stops`). A missing licence
   file means the Community edition at start, but is a refused licence to the
   periodic check (`main.py` 1115), which ends the alert loop; the API and
   `/api/health` go on. `docs/SETUP-GUIDE.md` 77-78 promises "free forever, no
   key required".
2. *Lost on the first restart* (`pipeline_no_history`). Before anything of the
   tenant is checkpointed, a restarted process polls from now-1m and never sees
   what was queued. `main.py` 2083-2085 promises "safely re-triaged on restart".
3. *Held shut, but still closing* (`verdicts_held_shut`). The decision cache
   hands out dismissals after a restart with `auto_close_enabled: false`.
   `triage_agent.py` 1070 promises that every dismissal then goes to a human.
4. *Roll-up over a new member* (`incidents_rollup`). A true positive that joins
   between the read of the verdict mix and the write is resolved with the rest,
   against `store.py` 5972.
5. *A closed incident reopens* (`incidents_reopened`). The engine's whole-row
   save writes an old status back, against `incidents.py` 343.

The models made more divergences visible. The properties that meet them say so,
by a history variable or an exception in their comment; they have no run of
their own.

*Pipeline and triage*

* Two replicas triage one alert: the job lock ends with the cycle, the next
  leader's cursor and seen ids know nothing of what the first is triaging.
  `main.py` 1811-1814 says "EXACTLY ONE actually fetches + enqueues".
* When a tenant's agents cannot be read, that poll's look-back search runs
  without the agent clause (`service.py` 1253, 1354); `TenantScoped` is stated
  for the absence of that failure.
* A late arrival is lost when the look-back search that would return it fails,
  or when the window holds more than a batch (`service.py` 1387).
* The trim of the seen ids forgets all of them (`service.py` 1466); the in-flight
  set and the durable row keep alerts from being decided twice, but for one that
  is enriched again just before its decision commits and submitted just after it
  left the in-flight set. `OnceEachReplica` is for caches that are not trimmed.
* Alerts dropped by an error (failed checkpoint, aborted cycle, quota, failed
  triage) stay in the seen ids: they come back only after a restart.
* `stop()` hangs when the queue is full and every worker is stuck, because the
  sentinels are put without a timeout (`triage_dispatcher.py` 155).
* A decision whose grouping fails, or whose process dies before it, is in no
  incident, and nothing repeats it (`main.py` 1775).
* Purging an expired cache entry drops an analyst's disable with it; an
  override upgrades neither the window nor the cache (comment at
  `triage_agent.py` 1724); a clone does not carry `llm_failed`.
* Three unanimous human labels "true positive" lower an unlearned rule's score
  from 75 to 68.75 (`service.py` 855-870 speaks of a rule that earns a lower
  one); overlapping reviews let an analyst overwrite a verdict and record an
  outdated previous one.

*Model calls*

* The cap can be passed when a reservation is released between the two reads of
  `_reserve_locked` (`cost_controls.py` 290); `worst` counts it.
* The tokens of one call can be charged to another with more than one permit
  (`claude_backend.py` 180, comment 222), and an answer that cannot be parsed
  leaves a row of success and one of failure.
* The breaker of a tenant is looked up before its provider exists, so first
  calls are not counted and a second first call replaces it.
* Whether the model is healthy is asked in whatever tenant context the job's
  thread was left with, on every replica (`main.py` 1043-1056).
* A value that another tenant of the process tokenised first is never stored for
  the second (`anonymizer.py` 834), so that after a restart its notes are not
  scrubbed, although 473-495 says so; identifiers that only identity fields name
  stay in command lines; two threads can give one value two tokens.

*Cases and announcements*

* The whole-row save loses concurrent severity, assignment and count changes;
  two workers can open two incidents for one key; an alert can join an incident
  closed or merged away since the look-up.
* Evidence added at the same time is lost (`store.py` 5625); two assignments can
  both succeed (`routes/incidents.py` 285); overlapping escalations lower a tier
  (`sla.py` 132 "Can't de-escalate"); a release answers ok when nothing was
  released.
* A breach row is unique per incident and kind and survives a tier escalation,
  so a later tier's breach of that kind is not announced.
* The flush of the buffer pops an unsent alert when another makes room between
  its peek and its pop (`inmem_buffer.py` 87); only that is excepted.

*Context of an alert*

* `routes/admin.py` 866-868 says the asset enricher reloads on its own cycle; it
  does so at the start (for the configured tenant only), by the admin reload or
  after a failed load (`service.py` 320). Other tenants stay unloaded without
  being marked failed; an edit without a reload, or on another replica, leaves a
  trusted outdated tier; emptying an inventory keeps the old slice; a slower load
  overwrites a newer one.
* Set order decides whether an unknown user's risk of 1.5 is hidden by a listed
  1.2 (`enrichers/__init__.py` 332-355).
* A failed read of an agent's scope and failed calls to the manager (which return
  an empty list) are cached as a clean host for `cache_ttl`.
* Hours past midnight never match; the morning of an overnight window is taken
  on the named day, not the day after (1213-1222).
* The first status row of a feed drops its counts and times; `misp.collect`
  records its own error and still counts as collected; the first collection is
  not left to the leader; a CVE in the catalogue never asks EPSS.

*Store, tenants and process*

* `_checkout` takes what the pool gives it for a new session without a tenant
  (`store.py` 1849-1851); it may be one that served another. Rows written by a
  still-running earlier release after the migration keep a null host name; the
  advice in `pg_version.py` 365-375 to run `--migrate` again does nothing at head;
  blanks that `btrim` is not given make a second name.
* Overlapping updates of a tenant lose fields (`admin.py` 637); a reload during a
  build leaves the old backend cached; other replicas are not reloaded.
* A tenant added or removed on another replica changes multi-tenant mode only
  there; if the default tenant is switched off and one other is left, the loop
  polls the one that is off; a start that cannot list tenants turns the mode off
  and skips the check of row security.
* `_leader_job` is said to be for shared effects only (`main.py` 1195-1197), but
  it wraps the flush of the in-memory buffer and the queue sampler, which each
  replica needs to run; the health check of the model is not wrapped.
* Always-escalate rules are never reloaded although `health.py` 320 says the
  answer reflects every consumer; a removed playbook stays; a text being rendered
  during a reload may be outdated for 300 s; a reload that fails half-way leaves
  consumers on different versions.
* Validations share a probe file, so each may test the other's rule; a refused
  token is renewed only after 850 s; a script is called missing when the first
  question failed and the second did not.
* A limit of null in a licence raises a `TypeError` (`main.py` 491, 1950),
  although `licensing.py` 271-293 means unlimited; a lapsed licence stops the
  alert loop only (comment 1088), and a renewed file does not resume it; a signal
  between the handlers and the server ends only the loop.
* The token of an account that was switched off works until it expires; a
  sign-out reaches other replicas when they start; switching an account on again
  asks no quota.
* A provider's request for a tenant that cannot be read, or is inactive, runs in
  the provider's own tenant; the next one is applied without an audit row
  (`middleware.py` 140-155); the pace can be exceeded by one, by a switch that
  was counted earlier and took effect later.

## 5. The proofs

A theorem holds for every value of the constants that the assumptions of its
module allow. They are as weak as the code justifies: parameters are of their
kind, thresholds are levels, what is counted is finite, placeholder values are no
records. `PipelineAssumption`, `DispatcherAssumption`, `TriageAssumption` and
those of the other components are evaluated by TLC in the runs, where the sums
repeat the assumptions of their parts with the parts' parameters
(`StoreAssumption`, `ProcessAssumption` in MCAlertStore, `CallsAssumption` in
MCModelCalls, `BufferAssumption`, `SlaAssumption`, `FeedsAreNamed` in MCService,
`TenantsAssumption`, `RulesAssumption`, `GuidanceAssumption`,
`AccountsAssumption` in MCCaseWork). A hypothesis that a
theorem needs beyond those is named in its statement, and below.

The sums are parameterised (their instances are in the `.cfg` files), so that
what a run checks of a sum is also proved of the sum: `PartsMove` says that a step
of the sum is a step of each part or leaves it alone, which carries the invariant
of a part over. Where a part has a module of proofs of its own
(StoreConnections, TenantConfigs, SlaAnnouncer), the sum instantiates that module
and shows that its instance of the part is the same.

| Module | Proves about |
|---|---|
| `AlertStore_proofs` | AlertPipeline, AlertLedger; ServiceLife, Licence, Anonymizer, DecisionHosts, AssetInventory, HostContext; MCAlertStore |
| `StoreConnections_proofs` | StoreConnections |
| `TriageAgent_proofs` | TriageAgent |
| `ModelCalls_proofs` | BudgetGuard, LlmBackend, TenantBackend; MCModelCalls |
| `Service_proofs` | TriageDispatcher, TriagePool, EnrichedBuffer, ThreatFeeds; MCService |
| `SlaAnnouncer_proofs` | SlaAnnouncer |
| `CaseWork_proofs` | IncidentDesk, PeriodicJobs, Retention, RuleManager; CaseHands, Sessions, UserAdmin, TenantSwitch; GuidanceReload, SeverityPolicy, RuleRecord, WorkHours; MCCaseWork |
| `TenantConfigs_proofs` | TenantConfigs |

### The alert loop (`AlertStore_proofs`)

| Theorem | Property | Argument |
|---|---|---|
| `TypeCorrect` | `TypeOK` | inductive as it stands |
| `CycleExclusion` | `OneCycleAtATime` | inductive with `TypeOK`: only `BeginCycle` takes a free lock, every exit passes `Unlock` |
| `HeldOnce` | `NeverHeldTwice` | inductive with `TypeOK`: an alert enters the queue and the in-flight set together, and only a worker that lets go takes it out of the latter |
| `NothingForgotten` | `SeenIsAccountedFor` | strengthened by: what is `worthy` outside a cycle is empty, and what is in a worker's hands and saved is processed |
| `DecidedOnce` | `OnceEachReplica` | assumes `NoTrim`; strengthened by: an alert on its way and not saved has no decision of that process, pending alerts are seen, and a decided alert is processed |
| `LedgerKept` | `OneReplicaKeepsLedger` | for one replica and `NoTrim`: `SaveDecision` and `SkipLowRisk` map to the two ledger steps, every other step stutters |
| `KeepsToTenant` | `TenantScoped` | inductive: what is in hand grows by a fetch only, and a fetch without the agent clause is a fault |
| `LostIsRefetched` | `DroppedIsRefetched` | for one replica, `NoTrim` and `BackfillCovers`; strengthened by `Refetch`: what is in hand or owed can still be searched for, and an owed alert that the cursor has passed is known |
| `LateOnesAreFetched` | `LateArrivalsAreFetched` | assumes `WindowFitsBatch`: fewer than a batch of a window's alerts are older than any one of them, by cardinality, so the search returns it |

`NoTrim`: the alerts fit the cache of seen ids. `BackfillCovers`: the tenant has
history, and no alert is older than the first poll looks back. `WindowFitsBatch`:
the look-back is on and its window holds at most a batch of the tenant's alerts.
The runs whose instances satisfy these are `pipeline_single` (the first two) and
`pipeline_trim` (the last); `pipeline_no_history` shows that history is needed,
section 4 what a trim or a full window costs.

### What the loop rests on (`AlertStore_proofs`, `StoreConnections_proofs`)

`ProcessIsSound` (`ProcessHolds`) and `StoreIsSound` (`StoreHolds`) follow from
one invariant per part, joined in `PartsInv`:

* `LifeInv`: a lapse is at most what the missed checks and the elapsed part of the
  interval make it (`Lapsing`), and there is none while the file is valid; once
  the sentinels are put, what is queued or in hand came after the deadline. The
  first needs both sides of the sum, because `Check` and `CheckMissed` reset the
  countdown that pays for the lapse. `GatesStay` is the statement about all
  payloads: what a payload resolves to never holds the placeholder "full".
* `NamesInv`: `MapsTrue` says that a token is its value's own, can be restored, and
  exists for every identifier stored for a tenant whose rows were read; `CallTrue`
  what each call has read, used and scrubbed. `Grown` carries every call through
  the steps of the others: the maps only grow, and a token is replaced only where
  two threads raced (`Grows`).
* `HostsInv`: a row that 0018 has filled is one of three forms (`Near`), of which
  `Named19` shows that 0019 makes the name of the host; what a start has seen is
  still so or excused by a move or fault.
* `AssetsInv`: what was not changed since it was kept is in the slice, and a load
  that failed is known until the next one succeeds.
* `ContextInv`: every cached and every running look-up has only what the agent's
  own tenant may see, and is complete but for what it says it missed.

| Theorem (`StoreConnections_proofs`) | Property | Argument |
|---|---|---|
| `SessionTypes` | `TypeOK` | with `IInv`: one call at a time on a thread, no place gets lost |
| `SessionsAreNotShared` | `NotShared` | a place is free or with one thread; a draw takes a free one, `Retire` frees it |
| `CallersTenant` | `RunsAsCaller` | between `Checkout` and its statement a session either carries the caller's tenant or is dead |
| `BothOrNone` | `StoredTogether` | an open block is on the thread's session or that session is dead; its writes are durable with its end only |
| `PoolIsEnough` | `PoolSuffices` | a thread that draws holds nothing, so the places with the others are fewer than the threads |

### Verdicts (`TriageAgent_proofs`)

`IInv` has `JobsTrue` (an alert in a worker's hands has no decision until that
worker saves one, and no second worker), `WindowTrue` (a representative repeats
the decision of the alert it names, which was triaged itself and free of signals,
and knows whether evidence was missing) and `RevokedAreOff` (an entry that was
disabled is there and off), besides the four invariants of the run. `WindowTrue`
is what `NoSuppression` needs: a duplicate that was looked up without evidence
inherits a dismissal only from a representative judged without evidence, and the
guard lets none of those be dismissed. `JobsTrue` is what all need of the two
steps save and remember: the decision that is written through is the one the
worker saved.

| Theorem | Property | Argument |
|---|---|---|
| `VerdictTypes` | `TypeOK` | with `JobsTrue`: only verdicts of the triage itself enter the window, only unescalated ones the cache |
| `NeverSuppressed` | `NoSuppression` | per path: rule, filter, guard, gate of the window (with `WindowTrue`), gate of the cache |
| `ClonesFaithful` | `ClonesTrace` | from `WindowTrue`; decisions are never changed |
| `EntriesSafe` | `CacheHoldsSafe` | from `JobsTrue`; edits leave an entry's origin alone |
| `RevokedHold` | `RevokedStays` | from `RevokedAreOff`: an upsert keeps the switch of the entry it finds |

### Model calls (`ModelCalls_proofs`)

The budget's `IInv` is `RowsInv` (a worker has at most one row, and rows without
a caller or callers without a row are as many as leaks and faults), `SectionInv`
(one worker between its two reads) and, where an estimate covers a triage's
calls, `CoveredInv` and `CapInv`: what was spent and may still be spent by whoever
is admitted (`Committed`, a cardinality over the calls `ToCome`) is below the cap
and one estimate for each reservation that went away between the reads and each
fault. The condition on the estimate is the property's own.

For the backend, `OnTime` is stated for every later time `v` and not only for
now: were all who sleep until `v` admitted then, the pace would be kept. Only so
it is inductive, since callers whose slots have come may start in any order; `Near`
bounds the last slot by those who wait. `Usage` pairs callers who were inside the
semaphore together, `Bills` the attempts and their rows. For a tenant's backend,
`TenantInv` bounds the providers made by the callers that found none (`Creating`).

| Theorem | Property | Argument |
|---|---|---|
| `BudgetTypes`, `RowsStandForCalls` | `TypeOK`, `RowsAreCalls` | `RowsInv` |
| `OvershootBounded` | `OvershootAccounted` | `CapInv` |
| `SectionExclusive` | (`SectionInv`) | who compares is alone |
| `CallsArePacedAndPaid` | `CallsHold` | the two backends' invariants |

### Background work (`Service_proofs`, `SlaAnnouncer_proofs`)

The dispatcher's `IInv` is in five parts: `Shape` (types), `Places` (sentinels are
numbered, only in the queue, and only from `Signal` on; a worker that left holds
nothing), `Copies` (an alert in flight is exactly one item, being put, queued or
held), `Counts` (the counter, the queue's limit, and as many sentinels queued as
were sent and not taken) and `Owes` (whatever is submitted has a number of its
own, so nothing owed at the stop comes back). `BufferInv` says that the alert
under way is the buffer's head until another makes room (`HeadTrue`), so that the
pop takes what was sent. The announcer's `IInv` counts, for each breach, the
attempts of the ledger against those made (`Counted`) and how old its entry may
be (`Aged`). Of the feeds, `AtFeed` keeps a cycle at one of the feeds, and
`KnownTrue` says that while a live answer is to be remembered its row is active,
says what was answered and expires no earlier: the feeds write rows of their own
sources, and the purge takes only what has expired.

| Theorem | Property | Argument |
|---|---|---|
| `DispatcherTypes`, `DrainCounts`, `DrainIsClean` | `TypeOK`, `TasksCounted`, `CleanDrain` | parts of `IInv`: a counter of zero means an empty queue and idle workers, and a put that was blocked at that moment is not owed |
| `StopStops` | `NoWorkAfterSentinels` | from `Counts`: while joining, sentinels sent and not taken are as many as workers left, so a worker in `get` finds one, and it sorts before all work |
| `IsPool` | `ImplementsPool` | from `Copies`: waiting and busy alerts are disjoint, and `Finish` removes the one copy |
| `UrgentFirst` | `MostUrgentFirst` | the order of `_QueuedItem` is tier, then risk, then number |
| `NoAlertIsLost` | `NothingLost` | `BufferInv`: enriched alerts are kept somewhere or buffered |
| `IntelligenceIsKept` | `FeedsHold` | `FeedsInv`; for any order of feeds and any spans with `FeedsAreNamed` |
| `AnnouncementsAreKept` | `AnnouncementsHold` | `CeilingHolds`, `NoneToldTwice`, `LeastTriedFirst` through the instance |
| `AnnouncerTypes`, `CeilingHolds`, `NoneToldTwice`, `LeastTriedFirst` | of SlaAnnouncer | assume `LedgerOutlivesRounds` |

`LedgerOutlivesRounds` is exact: with `t` tenants and `f` passes that fail, an
entry must be allowed an age of `f * t + t - 1` passes. `sla.py` 68-71 only says
that the limit should "comfortably exceed" the passes between two attempts; with
more tenants than that a breach can be announced again and again.

### Cases, jobs and rules (`CaseWork_proofs`, `TenantConfigs_proofs`)

The desk's `IInv` is `Base` (types, and whoever names an incident names one with a
row), `NeverSweptUp`, `FiledInv` (a decision that is still to be added is with one
worker) and `CountsAgree`. `JobsInv` says which tenant context each thread is in at
each point of a round (`ContextsTrue`), who has the lock (`LocksTrue`), and that a
replica which heard of the last change has the mode of the table (`ModesTrue`).
`NightsInv` says, table after table, that what was old has been dealt with once
the table had its turn: a batch that was not full was all there was. `ManagerInv`:
the probe file holds the rule of the validation at work until another one touches
it, and a deployment writes back the file as it is.

Of the other parts of the API:

* `HandsInv` says of each request what was read for it and is still so unless
  another request overlapped it (`RequestTrue`), and that who was told to have
  the incident has it (`IncidentIsHis`).
* `SignInsInv` bounds a token's expiry by the lifetime of one issued now or when its
  account was switched off (`TokenTrue`), and says where a sign-out that was
  answered is stored and remembered until the token expires (`SignedOut`).
* `PeopleInv` carries the user limit through the two steps of a creation: while a
  creation is between its check and its insert there is room for it, but for what
  `slack` counts (`Counted`, by cardinality of the active accounts).
* `SwitchInv` is about two logs of times, the counted switches and the moves from
  one tenant to another. That there are at most `MaxSwitches + 1` moves in a window
  is not inductive for the window as it is now: entries leave it, and a move may
  be older or newer than the switch that paid for it. `PacedLogs` says instead
  that since *every* time of the window there are no more moves than counted
  switches, and one more if the tenant asked for last has been entered.
* `GuidesInv` follows a reload step by step (`ReloadTrue`: while no edit and no
  failure came between, what the earlier steps reloaded is what is on disk) and
  says of a rendered text that it is the loader's unless a reload raced the
  thread (`TextsTrue`).
* `SeverityInv`: what was judged is the policy's outcome for file, alert and
  band, which do not change. What is proved of the outcome is proved for all
  entries: a maximum of ranks is one of them and above each (`Ranked`, `Bounds`).
* `RecordInv`: the recent decisions are at most `MaxDecisions`, however they are
  labelled. The share of the machine (`MachineShare`) is an inequality of products
  over all labels, priors, shares and caps, shown term by term.
* `WeekInv` has only the shapes of what was written. The work is in the
  arithmetic of a week of any number of days and slots and any zone: `Shifted`
  (a clock is read by undoing the zone's shift), `SameDay` and `PastMidnight`
  (what is meant by hours within a day, and by a window that crosses midnight).

| Theorem | Property | Argument |
|---|---|---|
| `DeskTypes` | (types) | `Base` |
| `HeldStaysHeld` | `NeverSweptUp` | every path that resolves asks for the human's verdict |
| `EachIsFiledOnce` | `FiledOnce` | `OneFiler` through joins, merges and failed groupings |
| `CountsAreTrue` | `CountsAgree` | each add and its count are one statement, but for what a stale row writes back |
| `HumanVerdictKept` | `VerdictKept` | a propagation writes where no human verdict is, at the time it writes |
| `RulesAreSafe` | `ManagerHolds` | `ManagerInv` |
| `CasesAreHeld` | `HandsHold` | `HandsInv`; a tier falls in no step but by an escalation that overlapped another |
| `AccountsAreKept` | `AccountsHold` | `SignInsInv`, `PeopleInv`, `SwitchInv` |
| `GuidanceIsApplied` | `GuidanceHolds` | `GuidesInv`, `SeverityInv`, `RecordInv`, `WeekInv`; that a reload takes nothing away, and that "no history" is said of none that has one, from the same invariants step by step |
| `TenantsAreTended` | `TenantsHold` | `JobsInv`, `NightsInv`, and the theorems of TenantConfigs through the instance |
| `ConfigTypes`, `NoOwnKey`, `RowsStayReadable`, `UpdatesSurvive`, `NoFallBack`, `NewIsServed` | of TenantConfigs | `KeysTrue`: the process's keys are those on file but for the current one; a row is under a key on file or a stray one; what is being built is the row unless a reload overtook it |

### What stays with TLC

All liveness (`EventuallyHandled`, `EventuallyAnswered`, `EventuallyDelivered`,
`CallsEnd`), which is out of the prover's reach, as is fairness. Every safety
property that a passing run checks is stated by a theorem. None of the modules
has a `RECURSIVE` operator. The findings of section 4 are counterexamples, and
TLC's alone.

## 6. Not modelled, and the plan

Not modelled at all: active-response, detection and playbook proposals (the
store's methods have no caller in the repository, so their protocol is unknown),
the knowledge base, MITRE look-ups and metrics (reads of static data and stored
rows), the dashboard, scripts and deployment files, request models, headers and
CORS. `scripts/backfill_incidents.py` passes a file path where the store takes a
DSN and no longer runs.

Left out of modelled components: prompts, parsing and validation of answers, the
text of grounding checks, path patterns and name patterns as text, formats of
feeds, the signature of a licence, cryptography, password hashing and the limit
of log-ins, the search client's queries, agent synchronisation, reports. Where
their outcome matters it is an input. `AlertPipeline` has one tenant with foreign
alerts; the iteration over tenants is in `PeriodicJobs`. `IncidentDesk` and
`CaseHands` write different columns of one row and are not composed, although the
engine's whole-row save touches both: that it loses an assignment is listed above.

Next, in this order:

1. The composition of IncidentDesk and CaseHands on one row.
2. What is left of `routes/triage.py`: bulk reviews and feedback.
3. A bound on announcements under more tenants than `LedgerOutlivesRounds` allows,
   as a theorem about how often a breach is announced again.
