----------------------------- MODULE MCService -----------------------------
(* The background work of one process, on small instances: the triage      *)
(* workers (TriageDispatcher), the flush of the enriched-alert buffer      *)
(* (EnrichedBuffer), the SLA announcer (SlaAnnouncer), the collection of   *)
(* threat intelligence (ThreatFeeds).  They share no state that a model    *)
(* keeps, so that a run checks one of them at a time: part says which.     *)
EXTENDS TriageDispatcher, TLC

CONSTANTS
  hot, warm, mild, w1, w2,
  Enriched, Poison, MAX_SIZE, MaxOutages,             \* of EnrichedBuffer
  Incidents, Others, MaxAttempts, Limit, Stale,       \* of SlaAnnouncer
  MaxFaults, MaxTier,
  Order, Dead, Reported, Interval, ListedFor, LiveFor, MaxTime   \* of ThreatFeeds

ThreeKinds == {hot, warm, mild}
\* hot is TI-confirmed but of lower risk than warm.
OnlyHot == {hot}
Risks(a) == IF a = warm THEN 9 ELSE 5
TwoWorkers == {w1, w2}
ThreeFeeds == <<"bad", "kev", "bulk">>

VARIABLES part,
  todo, buffer, up, flush, to_try, head, indexed, rejected, overflowed,
  outages, popped, raced,
  open, tier, answered, late, table, tries, age, at, pending, budget, wait,
  slips, blind, sent,
  clock, status, ioc, cve, feedAt, step, cache, token, enrich, known, faults

Buffer == INSTANCE EnrichedBuffer WITH Alerts <- Enriched
ASSUME BufferAssumption == Buffer!SizesAssumption
Sla == INSTANCE SlaAnnouncer
ASSUME SlaAssumption == Sla!AnnouncerAssumption /\ Sla!LedgerOutlivesRounds
Feeds == INSTANCE ThreatFeeds WITH at <- feedAt
ASSUME FeedsAreNamed == Feeds!FeedsAssumption

bufferVars == <<todo, buffer, up, flush, to_try, head, indexed, rejected,
                overflowed, outages, popped, raced>>
slaVars == <<open, tier, answered, late, table, tries, age, at, pending,
             budget, wait, slips, blind, sent>>
feedVars == <<clock, status, ioc, cve, feedAt, step, cache, token, enrich, known,
              faults>>
allVars == <<part, vars, bufferVars, slaVars, feedVars>>

AllInit ==
  /\ part \in {"dispatcher", "buffer", "sla", "feeds"}
  /\ Init /\ Buffer!Init /\ Sla!Init /\ Feeds!Init

DispatcherPart ==
  /\ part = "dispatcher" /\ Next
  /\ UNCHANGED <<part, bufferVars, slaVars, feedVars>>
BufferPart ==
  /\ part = "buffer" /\ Buffer!Next
  /\ UNCHANGED <<part, vars, slaVars, feedVars>>
SlaPart ==
  /\ part = "sla" /\ Sla!Next
  /\ UNCHANGED <<part, vars, bufferVars, feedVars>>
FeedsPart ==
  /\ part = "feeds" /\ Feeds!Next
  /\ UNCHANGED <<part, vars, bufferVars, slaVars>>
AllNext == DispatcherPart \/ BufferPart \/ SlaPart \/ FeedsPart

\* The fairness of each part, for runs of that part.
AllFair ==
  /\ WF_vars(part = "dispatcher" /\ Put)
  /\ \A w \in Workers : WF_vars(part = "dispatcher" /\ GetStep(w))
  /\ WF_vars(part = "dispatcher" /\ StopStep /\ phase # "running")
  /\ \A w \in Workers : WF_vars(part = "dispatcher" /\ Finish(w))
  /\ WF_bufferVars(part = "buffer" /\ Buffer!FlushStep)
  /\ WF_bufferVars(part = "buffer" /\ ~up /\ Buffer!Flips)
  /\ WF_slaVars(part = "sla" /\ Sla!PassStep)
  /\ WF_feedVars(part = "feeds" /\ Feeds!CycleStep)

AllSpec == AllInit /\ [][AllNext]_allVars /\ AllFair
-----------------------------------------------------------------------------
(* Properties.                                                             *)

\* Types of the dispatcher and the buffer.  An enriched alert leaves the buffer
\* indexed, rejected by the index or counted as overflow, but for one that the
\* overflow raced (inmem_buffer.py:87).
NothingLost == TypeOK /\ Buffer!TypeOK /\ Buffer!LossIsAccounted

\* The announcer's types; one process announces a breach at most MaxAttempts
\* times (sla.py:316), repeats none that is recorded (sla.py:161), and serves
\* the least tried of the breaches it has read (sla.py:376).
AnnouncementsHold ==
  []Sla!TypeOK /\ []Sla!RetriesAreCapped /\ Sla!ToldOnce /\ Sla!NoBreachOutranked

\* A CVE once listed as exploited stays listed (store.py:6719), an indicator is
\* dropped only when its last report expired (store.py:6762), and a live answer
\* that it is malicious is remembered (abuseipdb.py:76).
FeedsHold ==
  /\ []Feeds!TypeOK /\ Feeds!KevStays
  /\ []Feeds!NotDroppedEarly /\ Feeds!RemembersVerdict

\* What waits in the queue is taken in the end and a stop returns, once no more is
\* submitted (triage_dispatcher.py:155, 273).  What the buffer holds is sent in the
\* end, once the index is back; a breach is
\* announced in the end, or given up after MaxAttempts; and a feed that answers is
\* collected, whatever the feeds before it do (collector.py:93).
EventuallyDelivered ==
  /\ EventuallyTaken /\ StopReturns
  /\ Buffer!EventuallyFlushed /\ Sla!EventuallyToldOrAbandoned
  /\ part = "feeds" => Feeds!EventuallyRecorded
=============================================================================
