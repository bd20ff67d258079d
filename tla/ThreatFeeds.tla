----------------------------- MODULE ThreatFeeds -----------------------------
(* Threat intelligence, for one indicator and one CVE: the collection of   *)
(* the feeds (collector.py), the rows they leave in the store, the expiry  *)
(* job, and the look-up an alert's enrichment makes (enricher.py).         *)
EXTENDS Integers, Sequences, FiniteSets

CONSTANTS
  Order,       \* the bulk feeds, as registered; "kev" is CISA's catalogue
  Dead,        \* feeds that never answer
  Reported,    \* severities a bulk feed reports
  Interval, ListedFor, LiveFor,   \* in ticks of the clock
  MaxTime,
  MaxFaults    \* bound on failing statements and restarts

VARIABLES
  clock,
  status,      \* threat_intel_feeds, by feed
  ioc,         \* threat_intel_iocs for the indicator, by source
  cve,         \* threat_intel_cve: which upserts the row has seen
  at, step,    \* the feed the cycle is at, and what comes next
  cache,       \* the live feed's TTL cache: nothing, clean or a severity
  token,       \* the rate limiter lets a live call through
  enrich,      \* the enrichment under way
  known,       \* until when a live answer should be remembered
  faults

feedVars == <<clock, status, ioc, cve, at, step, cache, token, enrich, known,
              faults>>
cycle == <<at, step>>
lookup == <<cache, token, enrich, known>>

Feeds == {Order[n] : n \in 1..Len(Order)}
Sources == Feeds \cup {"abuseipdb"}
Nothing == -1   Clean == 0   Low == 1   High == 3   Critical == 4          \* SEVERITY_RANK

\* What the proofs ask of an instance.
FeedsAssumption ==
  /\ Order \in Seq(STRING) \ {<<>>} /\ "abuseipdb" \notin Feeds /\ Reported \subseteq Low..High
  /\ {Interval, ListedFor, LiveFor} \subseteq Nat /\ MaxTime \in Nat \ {0}

NoRow == [sev |-> 0, exp |-> 0, active |-> FALSE]
Away == [at |-> "away", sev |-> 0]
Init ==
  /\ clock = 1
  /\ status = [f \in Feeds |-> [there |-> FALSE, last |-> 0]]
  /\ ioc = [s \in Sources |-> NoRow] /\ cve = {}
  /\ at = 0 /\ step = "idle"
  /\ cache = Nothing /\ token = TRUE /\ enrich = Away /\ known = 0
  /\ faults = 0

Tick ==
  /\ clock < MaxTime /\ clock' = clock + 1 /\ token' = TRUE
  /\ cache' \in {cache, Nothing}                    \* its entry may have expired
  /\ UNCHANGED <<status, ioc, cve, cycle, enrich, known, faults>>

Fails == faults < MaxFaults /\ faults' = faults + 1
Works == UNCHANGED faults
-----------------------------------------------------------------------------
(* The store.                                                              *)

\* upsert_ioc, upsert_iocs_batch: the row takes severity and expiry of the new
\* report and is active again.
Upsert(s, sev, days) ==
  ioc' = [ioc EXCEPT ![s] = [sev |-> sev, exp |-> clock + days, active |-> TRUE]]

\* Broken variant of UpsertCve: the row takes what the new report says.
ReplaceCve(parts) == cve' = parts
\* upsert_cve: COALESCE and GREATEST keep what the new report does not know.
UpsertCve(parts) == cve' = cve \cup parts

\* update_feed_status: the first report of a feed only inserts its row, without
\* the time of a success.  The count of errors is left out.
Report(f, ok) ==
  status' = [status EXCEPT ![f] =
    IF ~@.there THEN [@ EXCEPT !.there = TRUE]
    ELSE IF ok THEN [@ EXCEPT !.last = clock] ELSE @]

\* Broken variant of Expired: the expiry is not looked at.
AnyRow(s) == ioc[s].active
\* cleanup_expired_iocs
Expired(s) == ioc[s].active /\ ioc[s].exp < clock
Cleanup ==
  /\ \E s \in Sources : Expired(s)
  /\ ioc' = [s \in Sources |-> IF Expired(s) THEN [ioc[s] EXCEPT !.active = FALSE]
                               ELSE ioc[s]]
  /\ UNCHANGED <<clock, status, cve, cycle, lookup, faults>>
-----------------------------------------------------------------------------
(* collect_all, feed after feed.                                           *)

Due(f) == status[f].last = 0 \/ clock >= status[f].last + Interval

GivesUp == at' = 0 /\ step' = "idle"
NextFeed ==
  IF at = Len(Order) THEN GivesUp ELSE at' = at + 1 /\ step' = "check"
Goes(to) == step' = to /\ UNCHANGED at

BeginCycle ==
  /\ step = "idle" /\ at' = 1 /\ step' = "check"
  /\ UNCHANGED <<clock, status, ioc, cve, lookup, faults>>

Check ==
  /\ step = "check"
  /\ IF Due(Order[at]) THEN Goes("fetch") ELSE NextFeed
  /\ UNCHANGED <<clock, status, ioc, cve, lookup, faults>>

\* feed.collect: the download; a feed that does not answer raises.
Fetch ==
  /\ step = "fetch"
  /\ Goes(IF Order[at] \in Dead THEN "error" ELSE "store")
  /\ UNCHANGED <<clock, status, ioc, cve, lookup, faults>>

\* Then the rows, ...
Store ==
  /\ step = "store"
  /\ \/ /\ Works /\ Goes("report")
        /\ IF Order[at] = "kev"
           THEN UpsertCve({"kev"}) /\ UNCHANGED ioc
           ELSE /\ \E sev \in Reported : Upsert(Order[at], sev, ListedFor)
                /\ UNCHANGED cve
     \/ Fails /\ Goes("error") /\ UNCHANGED <<ioc, cve>>
  /\ UNCHANGED <<clock, status, lookup>>

\* ... and in a transaction of its own the feed's status.
ReportSuccess ==
  /\ step = "report"
  /\ \/ Works /\ Report(Order[at], TRUE) /\ NextFeed
     \/ Fails /\ Goes("error") /\ UNCHANGED status
  /\ UNCHANGED <<clock, ioc, cve, lookup>>

\* Broken variant of AfterError: a feed that failed ends the cycle.
StopsThere == GivesUp
AfterError == NextFeed

\* collect_all's except clause; where the error cannot be recorded either, the
\* whole cycle ends.
RecordError ==
  /\ step = "error"
  /\ \/ Works /\ Report(Order[at], FALSE) /\ AfterError
     \/ Fails /\ GivesUp /\ UNCHANGED status
  /\ UNCHANGED <<clock, ioc, cve, lookup>>

CycleStep ==
  BeginCycle \/ Check \/ Fetch \/ Store \/ ReportSuccess \/ RecordError
-----------------------------------------------------------------------------
(* enrich, for an alert with the indicator and the CVE.                    *)

Worst(sources) ==
  LET listed == {ioc[s].sev : s \in {t \in sources : ioc[t].active}} \cup {0}
  IN CHOOSE m \in listed : \A n \in listed : n <= m

\* lookup_iocs_batch; a failure leaves the enrichment without an answer.
LookUp ==
  /\ enrich.at = "away"
  /\ \/ /\ Works /\ enrich' = [at |-> IF Worst(Sources) = 0 THEN "live" ELSE "cve",
                               sev |-> Worst(Sources)]
     \/ Fails /\ enrich' = Away
  /\ UNCHANGED <<clock, status, ioc, cve, cycle, cache, token, known>>

\* Broken variant of Remembered: the live answer is cached, not stored.
CachedOnly(sev) == UNCHANGED ioc
\* AbuseIPDBCollector.lookup stores what it was told under its own name.
Remembered(sev) == Upsert("abuseipdb", sev, LiveFor)

\* An indicator nobody lists is looked up live, if the rate limiter allows it:
\* from the cache, or by a call that fails, clears the address or reports it.
LiveLookUp ==
  /\ enrich.at = "live"
  /\ token' = FALSE
  /\ \/ /\ ~token \/ cache = Clean
        /\ enrich' = [enrich EXCEPT !.at = "cve"] /\ UNCHANGED <<ioc, cache, known>>
     \/ /\ token /\ cache \in {Low, High}
        /\ enrich' = [at |-> "cve", sev |-> cache] /\ UNCHANGED <<ioc, cache, known>>
     \/ /\ token /\ cache = Nothing
        /\ \/ /\ enrich' = [enrich EXCEPT !.at = "cve"]
              /\ cache' \in {Nothing, Clean} /\ UNCHANGED <<ioc, known>>
           \/ \E sev \in {Low, High} :
                /\ Remembered(sev) /\ cache' = sev
                /\ enrich' = [at |-> "cve", sev |-> sev]
                /\ known' = IF sev = High THEN clock + LiveFor ELSE known
  /\ UNCHANGED <<clock, status, cve, cycle, faults>>

\* _enrich_cves: the row of the CVE, if it has one, ...
Severity(row) == IF "kev" \in row THEN Critical ELSE enrich.sev
ReadCve ==
  /\ enrich.at = "cve"
  /\ enrich' = [at |-> IF cve = {} THEN "epss" ELSE "done", sev |-> Severity(cve)]
  /\ UNCHANGED <<clock, status, ioc, cve, cycle, cache, token, known, faults>>

\* ... or EPSS's answer, which is stored and read back with the rest of the row:
\* the catalogue may have been collected meanwhile.
AskEpss ==
  /\ enrich.at = "epss"
  /\ \/ UpsertCve({"epss"}) /\ enrich' = [at |-> "done", sev |-> Severity(cve')]
     \/ UNCHANGED cve /\ enrich' = [enrich EXCEPT !.at = "done"]
  /\ UNCHANGED <<clock, status, ioc, cycle, cache, token, known, faults>>

Answered ==
  /\ enrich.at = "done" /\ enrich' = Away
  /\ UNCHANGED <<clock, status, ioc, cve, cycle, cache, token, known, faults>>

Crash ==
  /\ Fails
  /\ at' = 0 /\ step' = "idle"
  /\ cache' = Nothing /\ token' = TRUE /\ enrich' = Away
  /\ UNCHANGED <<clock, status, ioc, cve, known>>

Next ==
  \/ Tick \/ Cleanup \/ Crash
  \/ CycleStep
  \/ LookUp \/ LiveLookUp \/ ReadCve \/ AskEpss \/ Answered
-----------------------------------------------------------------------------
TypeOK ==
  /\ ioc \in [Sources -> [sev : 0..High, exp : 0..MaxTime + ListedFor + LiveFor,
                          active : BOOLEAN]]
  /\ cve \subseteq {"kev", "epss"} /\ at \in 0..Len(Order)
  /\ enrich.sev \in 0..Critical

\* A CVE once listed in the catalogue stays listed, whatever EPSS stores for it
\* at the same time (store.py:6719).
KevStays == [][("kev" \in cve) => ("kev" \in cve')]_feedVars

\* An indicator is dropped only when its last report has expired, however
\* collections and the expiry job alternate (store.py:6762).
NotDroppedEarly ==
  \A s \in Sources : ioc[s].exp # 0 /\ ~ioc[s].active => ioc[s].exp < clock

\* A live answer that an address is malicious holds for LiveFor, across
\* restarts and for alerts the rate limiter allows no call (abuseipdb.py:76).
RemembersVerdict ==
  [][enrich.at = "away" /\ enrich'.at # "away" /\ clock <= known =>
       enrich'.sev >= High]_feedVars

\* The feeds that answer are collected, and their success recorded, although feeds
\* before them fail for ever and its first report records none (collector.py:93).
EventuallyRecorded ==
  <>(\A f \in Feeds \ Dead :
       status[f].last # 0 /\ (IF f = "kev" THEN "kev" \in cve ELSE ioc[f].exp # 0))
=============================================================================
