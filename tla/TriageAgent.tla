---------------------------- MODULE TriageAgent ----------------------------
(***************************************************************************)
(* How an alert gets its verdict (agents/triage_agent.py, cost_controls.py *)
(* and verdict_guard.py).  A worker looks for a verdict to reuse: first in *)
(* the process's dedup window, then in the durable decision cache.  Only   *)
(* when there is none does the alert go through the always-escalate rules, *)
(* the noise filter, the budget and the model, and the model's verdict     *)
(* through the guard and the thresholds.  The decision is saved, and then  *)
(* remembered in both stores.  Senior analysts edit the durable cache.     *)
(*                                                                         *)
(* An alert's enrichment is a set of flags: "hit" (blocking evidence),     *)
(* "unknown" (an evidence enricher is down), "odd" (baseline anomaly),     *)
(* "critical" (an always-escalate rule matches), "noise" (the filter's     *)
(* rules match).  Confidence is a level; dismissals pass at AutoCloseAt.   *)
(***************************************************************************)
EXTENDS Integers, FiniteSets

CONSTANTS
  Workers, Alerts,
  FpOf(_),         \* structural fingerprint of an alert
  Enrichments,     \* sets of flags an alert may come with
  ModelVerdicts,   \* verdicts the model may give, a confirming call included
  NoiseVerdict,    \* verdict of the noise filter
  Nothing,         \* no job, no decision, no entry
  AutoCloseAt,     \* auto_close_confidence_threshold
  EscalateBelow,   \* escalation_confidence_threshold
  CacheAt,         \* min_confidence of the decision cache
  NoiseConf,       \* confidence of the noise filter
  TopConf,         \* highest level
  MaxRestarts, MaxAdmin   \* bounds on restarts and on edits of the cache

ASSUME TriageAssumption ==
  /\ \A e \in Enrichments :
       e \subseteq {"hit", "unknown", "odd", "critical", "noise"}
  /\ {AutoCloseAt, EscalateBelow, CacheAt, NoiseConf} \subseteq 0..TopConf
  /\ NoiseVerdict \in {"auto_close", "false_positive"}
  /\ ModelVerdicts \subseteq {"auto_close", "false_positive", "true_positive",
                              "needs_investigation"}
  /\ TopConf \in Nat /\ MaxRestarts \in Nat /\ MaxAdmin \in Nat

VARIABLES
  job,        \* what each worker is triaging
  decided,    \* the decision saved for each alert
  window,     \* AlertDeduplicator._seen
  cache,      \* the decision_cache table
  autoClose,  \* auto_close_enabled of the running process
  revoked,    \* history: fingerprints whose entry an analyst disabled
  restarts, edits

vars == <<job, decided, window, cache, autoClose, revoked, restarts, edits>>

Fps == {FpOf(a) : a \in Alerts}
Dismissals == {"auto_close", "false_positive"}
Verdicts == Dismissals \cup {"true_positive", "needs_investigation"}
Cacheable == Dismissals \cup {"needs_investigation", "benign"}

Decisions ==
  [path : {"critical", "noise", "unanswered", "model", "dedup", "cache"},
   verdict : Verdicts \cup Cacheable, escalated : BOOLEAN,
   enr : Enrichments, origin : Alerts]

\* The entries of the durable cache: it never holds an escalated decision.
Entries ==
  [verdict : Cacheable, escalated : {FALSE}, origin : Alerts, enabled : BOOLEAN]

ASSUME NothingAssumption == Nothing \notin Decisions /\ Nothing \notin Entries

\* What a verdict needs to be reused, evaluated on the incoming alert.
ReuseSafe(enr) == enr \cap {"hit", "odd", "critical"} = {}
CacheSafe(enr) == ReuseSafe(enr) /\ "unknown" \notin enr

\* evaluate_verdict_guard.
Guard(verdict, enr) ==
  IF verdict \in Dismissals /\ enr \cap {"hit", "unknown"} # {}
  THEN "needs_investigation" ELSE verdict

Init ==
  /\ job = [w \in Workers |-> Nothing]
  /\ decided = [a \in Alerts |-> Nothing]
  /\ window = [f \in Fps |-> Nothing] /\ cache = [f \in Fps |-> Nothing]
  /\ autoClose \in BOOLEAN
  /\ revoked = {} /\ restarts = 0 /\ edits = 0

Busy == {w \in Workers : job[w] # Nothing}
Waiting(a) == decided[a] = Nothing /\ a \notin {job[w].alert : w \in Busy}
-----------------------------------------------------------------------------
(* Reuse.                                                                  *)

\* Broken variant of RepFor: the evidence the representative was judged on is
\* ignored.
AnyRepFor(a, enr) == IF ReuseSafe(enr) THEN window[FpOf(a)] ELSE Nothing

\* The representative in the dedup window that may stand for this alert: one
\* judged with evidence does not stand for an alert that has none.
RepFor(a, enr) ==
  LET rep == window[FpOf(a)] IN
  IF ReuseSafe(enr) /\ rep # Nothing /\ ("unknown" \in enr => rep.degraded)
  THEN rep ELSE Nothing

\* The cache entry that may stand for it.
EntryFor(a, enr) ==
  LET entry == cache[FpOf(a)] IN
  IF CacheSafe(enr) /\ entry # Nothing /\ entry.enabled
  THEN entry ELSE Nothing

Clone(a, enr, of, path) ==
  [path |-> path, verdict |-> of.verdict, escalated |-> of.escalated,
   enr |-> enr, origin |-> of.origin]

\* Broken variant of FanOutDuplicate: the clone becomes the representative.
FanOutAndRegister(a, enr) ==
  /\ Waiting(a) /\ RepFor(a, enr) # Nothing
  /\ decided' = [decided EXCEPT ![a] = Clone(a, enr, RepFor(a, enr), "dedup")]
  /\ window' = [window EXCEPT ![FpOf(a)] = [RepFor(a, enr) EXCEPT !.origin = a]]
  /\ UNCHANGED <<job, cache, autoClose, revoked, restarts, edits>>

FanOutDuplicate(a, enr) ==
  /\ Waiting(a) /\ RepFor(a, enr) # Nothing
  /\ decided' = [decided EXCEPT ![a] = Clone(a, enr, RepFor(a, enr), "dedup")]
  /\ UNCHANGED <<job, window, cache, autoClose, revoked, restarts, edits>>

FanOutCached(a, enr) ==
  /\ Waiting(a) /\ RepFor(a, enr) = Nothing /\ EntryFor(a, enr) # Nothing
  /\ decided' = [decided EXCEPT ![a] = Clone(a, enr, EntryFor(a, enr), "cache")]
  /\ UNCHANGED <<job, window, cache, autoClose, revoked, restarts, edits>>
-----------------------------------------------------------------------------
(* Triage.                                                                 *)

\* Nothing to reuse: the worker goes on to triage_alert, which takes a while.
StartTriage(w, a, enr) ==
  /\ job[w] = Nothing /\ Waiting(a)
  /\ RepFor(a, enr) = Nothing /\ EntryFor(a, enr) = Nothing
  /\ job' = [job EXCEPT ![w] = [alert |-> a, enr |-> enr, done |-> FALSE, conf |-> 0]]
  /\ UNCHANGED <<decided, window, cache, autoClose, revoked, restarts, edits>>

\* The decision is saved.
Save(w, path, verdict, escalated, conf) ==
  LET a == job[w].alert IN
  /\ decided' = [decided EXCEPT ![a] =
       [path |-> path, verdict |-> verdict, escalated |-> escalated,
        enr |-> job[w].enr, origin |-> a]]
  /\ job' = [job EXCEPT ![w] =
       [alert |-> a, enr |-> job[w].enr, done |-> TRUE, conf |-> conf]]
  /\ UNCHANGED <<window, cache, autoClose, revoked, restarts, edits>>

Triaging(w) == w \in Busy /\ ~job[w].done

AlwaysEscalate(w) ==
  /\ Triaging(w) /\ "critical" \in job[w].enr
  /\ Save(w, "critical", "true_positive", TRUE, TopConf)

\* NoisePreFilter.is_noise: no positive signal and no missing evidence.
IsNoise(enr) == "noise" \in enr /\ enr \cap {"hit", "unknown", "odd"} = {}

DismissNoise(w) ==
  /\ Triaging(w) /\ "critical" \notin job[w].enr /\ IsNoise(job[w].enr)
  /\ Save(w, "noise", NoiseVerdict, FALSE, NoiseConf)

ForModel(w) == Triaging(w) /\ "critical" \notin job[w].enr /\ ~IsNoise(job[w].enr)

\* The budget refuses the call, or the call fails: a human looks.
NoAnswer(w) ==
  ForModel(w) /\ Save(w, "unanswered", "needs_investigation", TRUE, 0)

\* The model answers: guard, auto-close switch, thresholds.  conf is its
\* confidence after the adjustment for past overrides of the rule; bar is the
\* threshold with the rule's tuning, never below the configured one.
Answer(w, verdict, conf, asks, bar) ==
  LET kept == Guard(verdict, job[w].enr) IN
  /\ ForModel(w)
  /\ Save(w, "model", kept,
          \/ asks \/ conf < EscalateBelow \/ kept # verdict
          \/ kept \in Dismissals /\ (~autoClose \/ conf < bar), conf)

\* The save, or anything before it, raises: the alert has no decision and will
\* be fetched again.
Abandon(w) ==
  /\ Triaging(w)
  /\ job' = [job EXCEPT ![w] = Nothing]
  /\ UNCHANGED <<decided, window, cache, autoClose, revoked, restarts, edits>>

\* should_cache.
WorthCaching(d, conf) ==
  ~d.escalated /\ conf >= CacheAt /\ d.verdict \in Cacheable

\* Broken variant of Stored: the upsert enables the entry again.
StoredEnabled(f, d) ==
  [verdict |-> d.verdict, escalated |-> d.escalated, origin |-> d.origin,
   enabled |-> TRUE]

\* decision_cache_upsert: the switch of an existing entry is left alone.
Stored(f, d) ==
  [verdict |-> d.verdict, escalated |-> d.escalated, origin |-> d.origin,
   enabled |-> cache[f] = Nothing \/ cache[f].enabled]

\* Broken variants of Remember: the write is not gated on the evidence; any
\* verdict that was not escalated is cached.
RememberUngated(w) ==
  LET a == job[w].alert  f == FpOf(a)  d == decided[a] IN
  /\ w \in Busy /\ job[w].done
  /\ window' = [window EXCEPT ![f] =
       IF ReuseSafe(d.enr)
       THEN [verdict |-> d.verdict, escalated |-> d.escalated, origin |-> a,
             degraded |-> "unknown" \in d.enr]
       ELSE @]
  /\ cache' = [cache EXCEPT ![f] =
       IF ReuseSafe(d.enr) /\ WorthCaching(d, job[w].conf) THEN Stored(f, d) ELSE @]
  /\ job' = [job EXCEPT ![w] = Nothing]
  /\ UNCHANGED <<decided, autoClose, revoked, restarts, edits>>

RememberAny(w) ==
  LET a == job[w].alert  f == FpOf(a)  d == decided[a] IN
  /\ w \in Busy /\ job[w].done
  /\ window' = [window EXCEPT ![f] =
       IF ReuseSafe(d.enr)
       THEN [verdict |-> d.verdict, escalated |-> d.escalated, origin |-> a,
             degraded |-> "unknown" \in d.enr]
       ELSE @]
  /\ cache' = [cache EXCEPT ![f] =
       IF CacheSafe(d.enr) /\ ~d.escalated THEN Stored(f, d) ELSE @]
  /\ job' = [job EXCEPT ![w] = Nothing]
  /\ UNCHANGED <<decided, autoClose, revoked, restarts, edits>>

\* Register the decision in the window and write it through to the cache.
Remember(w) ==
  LET a == job[w].alert  f == FpOf(a)  d == decided[a] IN
  /\ w \in Busy /\ job[w].done
  /\ window' = [window EXCEPT ![f] =
       IF ReuseSafe(d.enr)
       THEN [verdict |-> d.verdict, escalated |-> d.escalated, origin |-> a,
             degraded |-> "unknown" \in d.enr]
       ELSE @]
  /\ cache' = [cache EXCEPT ![f] =
       IF CacheSafe(d.enr) /\ WorthCaching(d, job[w].conf) THEN Stored(f, d) ELSE @]
  /\ job' = [job EXCEPT ![w] = Nothing]
  /\ UNCHANGED <<decided, autoClose, revoked, restarts, edits>>
-----------------------------------------------------------------------------
(* Time, restarts and the people who govern the cache.                     *)

\* window_seconds pass.
WindowCloses(f) ==
  /\ window[f] # Nothing /\ window' = [window EXCEPT ![f] = Nothing]
  /\ UNCHANGED <<job, decided, cache, autoClose, revoked, restarts, edits>>

\* An entry expires and is purged, or is deleted: an alert like it goes to the
\* model again.
EntryGoes(f) ==
  /\ cache[f] # Nothing /\ cache' = [cache EXCEPT ![f] = Nothing]
  /\ revoked' = revoked \ {f}
  /\ UNCHANGED <<job, decided, window, autoClose, restarts, edits>>

Switch(f, on) ==
  /\ cache[f] # Nothing /\ edits < MaxAdmin
  /\ cache' = [cache EXCEPT ![f].enabled = on]
  /\ revoked' = IF on THEN revoked \ {f} ELSE revoked \cup {f}
  /\ edits' = edits + 1
  /\ UNCHANGED <<job, decided, window, autoClose, restarts>>

EditVerdict(f, verdict) ==
  /\ cache[f] # Nothing /\ edits < MaxAdmin
  /\ cache' = [cache EXCEPT ![f].verdict = verdict]
  /\ edits' = edits + 1
  /\ UNCHANGED <<job, decided, window, autoClose, revoked, restarts>>

\* The process starts again, perhaps with another configuration; window and
\* jobs are gone, and an alert without a decision is fetched again.
Restart ==
  /\ restarts < MaxRestarts /\ restarts' = restarts + 1
  /\ job' = [w \in Workers |-> Nothing]
  /\ window' = [f \in Fps |-> Nothing]
  /\ autoClose' \in BOOLEAN
  /\ UNCHANGED <<decided, cache, revoked, edits>>

Begin(a, enr) ==
  \/ FanOutDuplicate(a, enr) \/ FanOutCached(a, enr)
  \/ \E w \in Workers : StartTriage(w, a, enr)

ModelAnswers(w) ==
  \E verdict \in ModelVerdicts, conf \in 0..TopConf, asks \in BOOLEAN,
     bar \in AutoCloseAt..(TopConf + 1) : Answer(w, verdict, conf, asks, bar)

Next ==
  \/ \E a \in Alerts, enr \in Enrichments : Begin(a, enr)
  \/ \E w \in Workers :
       \/ AlwaysEscalate(w) \/ DismissNoise(w) \/ NoAnswer(w) \/ ModelAnswers(w)
       \/ Abandon(w) \/ Remember(w)
  \/ \E f \in Fps :
       \/ WindowCloses(f) \/ EntryGoes(f)
       \/ \E on \in BOOLEAN : Switch(f, on)
       \/ \E verdict \in Cacheable : EditVerdict(f, verdict)
  \/ Restart

Spec == Init /\ [][Next]_vars
-----------------------------------------------------------------------------
(* Properties.                                                             *)

TypeOK ==
  /\ job \in [Workers -> [alert : Alerts, enr : Enrichments, done : BOOLEAN,
                          conf : 0..TopConf] \cup {Nothing}]
  /\ decided \in [Alerts -> Decisions \cup {Nothing}]
  /\ window \in [Fps -> [verdict : Verdicts, escalated : BOOLEAN,
                         origin : Alerts, degraded : BOOLEAN] \cup {Nothing}]
  /\ cache \in [Fps -> Entries \cup {Nothing}]
  /\ autoClose \in BOOLEAN /\ revoked \subseteq Fps
  /\ restarts \in 0..MaxRestarts /\ edits \in 0..MaxAdmin

Dismissed(d) == ~d.escalated /\ d.verdict \in Dismissals \cup {"benign"}

\* triage_agent.py:1647, the no-suppression invariant: an alert whose own
\* enrichment carries blocking evidence, could not be looked up, or matches an
\* always-escalate rule is never dismissed without a human, by the model, the
\* filter or either reuse, however workers, outages, restarts and edits of the
\* cache interleave; one with a baseline anomaly is dismissed by the model only.
NoSuppression ==
  \A a \in Alerts : decided[a] # Nothing /\ Dismissed(decided[a]) =>
    /\ decided[a].enr \cap {"hit", "unknown", "critical"} = {}
    /\ "odd" \in decided[a].enr => decided[a].path = "model"

\* A verdict that was fanned out is, unchanged, the one a triage of its own
\* reached on an alert of the same fingerprint that was itself free of signals:
\* clones are not cloned, and the window is not stretched by them.
ClonesTrace ==
  \A a \in Alerts : decided[a] # Nothing /\ decided[a].path = "dedup" =>
    LET d == decided[a]  o == decided[d.origin] IN
    /\ o # Nothing /\ o.path \notin {"dedup", "cache", "critical"}
    /\ FpOf(d.origin) = FpOf(a) /\ ReuseSafe(o.enr)
    /\ d.verdict = o.verdict /\ d.escalated = o.escalated

\* Every entry of the durable cache comes from a decision that was not
\* escalated, on an alert with its evidence available and without a signal.
CacheHoldsSafe ==
  \A f \in Fps : cache[f] # Nothing =>
    LET o == decided[cache[f].origin] IN
    o # Nothing /\ ~o.escalated /\ CacheSafe(o.enr) /\ FpOf(cache[f].origin) = f

\* store.py:7498: an analyst's disable survives later triages of such alerts:
\* nothing is decided from an entry that was disabled, until it is enabled or
\* deleted.
RevokedStays ==
  [][\A a \in Alerts :
       decided[a] = Nothing /\ decided'[a] # Nothing /\ decided'[a].path = "cache"
         => FpOf(a) \notin revoked]_vars

\* triage_agent.py:1070: "when auto-close is held shut, EVERY AI dismissal still
\* goes to a human, whatever its confidence".
HeldShut ==
  [][\A a \in Alerts :
       /\ ~autoClose /\ decided[a] = Nothing /\ decided'[a] # Nothing
       /\ decided'[a].path \in {"model", "dedup", "cache"}
       => ~Dismissed(decided'[a])]_vars
=============================================================================
