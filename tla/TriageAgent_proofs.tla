------------------------- MODULE TriageAgent_proofs -------------------------
(***************************************************************************)
(* Which verdicts an alert can get, proved for any number of workers,      *)
(* alerts and fingerprints, any enrichments and any thresholds.            *)
(***************************************************************************)
EXTENDS TriageAgent, TLAPS

\* An alert that was triaged itself, neither a clone nor undecided.
Own(a) ==
  /\ decided[a] # Nothing
  /\ decided[a].path \in {"critical", "noise", "unanswered", "model"}
  /\ decided[a].path = "critical" => "critical" \in decided[a].enr
  /\ decided[a].origin = a /\ decided[a].verdict \in Verdicts

\* A worker's alert has no decision until the worker saves one, and no other
\* worker has it.
JobsTrue ==
  /\ \A w \in Busy : ~job[w].done => decided[job[w].alert] = Nothing
  /\ \A w \in Busy : job[w].done => Own(job[w].alert)
  /\ \A v, w \in Busy : job[v].alert = job[w].alert => v = w

\* A representative repeats the decision it stands for, and knows whether that
\* was reached without evidence.
WindowTrue ==
  \A f \in Fps : window[f] # Nothing =>
    LET rep == window[f]  o == decided[rep.origin] IN
    /\ Own(rep.origin) /\ FpOf(rep.origin) = f /\ ReuseSafe(o.enr)
    /\ rep.verdict = o.verdict /\ rep.escalated = o.escalated
    /\ rep.degraded <=> "unknown" \in o.enr

RevokedAreOff ==
  \A f \in revoked : cache[f] # Nothing /\ ~cache[f].enabled

IInv ==
  /\ TypeOK /\ JobsTrue /\ WindowTrue /\ RevokedAreOff
  /\ NoSuppression /\ ClonesTrace /\ CacheHoldsSafe

-----------------------------------------------------------------------------
(* Lemmas.                                                                 *)

LEMMA FpIn == \A a \in Alerts : FpOf(a) \in Fps
  BY DEF Fps

LEMMA BusyJob ==
  ASSUME TypeOK, NEW w \in Busy
  PROVE  /\ w \in Workers /\ job[w].alert \in Alerts /\ job[w].enr \in Enrichments
         /\ job[w].done \in BOOLEAN /\ job[w].conf \in 0..TopConf
         /\ job[w] = [alert |-> job[w].alert, enr |-> job[w].enr,
                      done |-> job[w].done, conf |-> job[w].conf]
  BY DEF TypeOK, Busy

\* A step that decides nothing keeps everything that is said of decisions.
LEMMA NothingDecided ==
  ASSUME IInv, UNCHANGED decided
  PROVE  NoSuppression' /\ ClonesTrace' /\ (\A a : Own(a) => Own(a)')
  BY DEF IInv, NoSuppression, ClonesTrace, Own

\* A step that decides one alert which had no decision leaves the others, and
\* with them all that was reached from them, as they are.
LEMMA OneDecided ==
  ASSUME IInv, NEW a \in Alerts, decided[a] = Nothing,
         NEW d \in Decisions, decided' = [decided EXCEPT ![a] = d]
  PROVE  /\ decided'[a] = d /\ d # Nothing
         /\ \A b \in Alerts : b # a => decided'[b] = decided[b]
         /\ \A b \in Alerts : decided[b] # Nothing => b # a
         /\ \A b \in Alerts : Own(b) => Own(b)' /\ b # a
  BY NothingAssumption DEF IInv, TypeOK, Own

LEMMA CacheKept ==
  ASSUME IInv, UNCHANGED cache,
         \A b \in Alerts : decided[b] # Nothing => decided'[b] = decided[b]
  PROVE  CacheHoldsSafe'
<1>1. ASSUME NEW f \in Fps, cache[f] # Nothing PROVE cache[f].origin \in Alerts
  BY <1>1 DEF IInv, TypeOK, Entries
<1>2. QED
  BY <1>1 DEF IInv, CacheHoldsSafe

LEMMA WindowKept ==
  ASSUME IInv, UNCHANGED window,
         \A b \in Alerts : decided[b] # Nothing => decided'[b] = decided[b]
  PROVE  WindowTrue'
<1>1. ASSUME NEW f \in Fps, window[f] # Nothing PROVE window[f].origin \in Alerts
  BY <1>1 DEF IInv, TypeOK
<1>2. QED
  BY <1>1 DEF IInv, WindowTrue, Own

LEMMA JobsKept ==
  ASSUME IInv, NEW a \in Alerts, UNCHANGED job, a \notin {job[w].alert : w \in Busy},
         \A b \in Alerts : b # a => decided'[b] = decided[b],
         \A b \in Alerts : Own(b) => Own(b)'
  PROVE  JobsTrue'
<1>1. Busy' = Busy
  BY DEF Busy
<1>2. ASSUME NEW w \in Busy
      PROVE  /\ ~job[w].done => decided'[job[w].alert] = Nothing
             /\ job[w].done => Own(job[w].alert)'
  <2>1. PICK b \in Alerts : b = job[w].alert
    BY BusyJob DEF IInv
  <2>2. b # a
    BY <2>1
  <2>3. ~job[w].done => decided'[b] = Nothing
    BY <2>1, <2>2 DEF IInv, JobsTrue
  <2>4. job[w].done => Own(b)'
    BY <2>1 DEF IInv, JobsTrue
  <2>5. QED
    BY <2>1, <2>3, <2>4 DEF Own
<1>3. QED
  BY <1>1, <1>2 DEF IInv, JobsTrue

LEMMA ClonesKept ==
  ASSUME IInv, NEW a \in Alerts, decided[a] = Nothing,
         \A b \in Alerts : b # a => decided'[b] = decided[b],
         decided'[a].path = "dedup" =>
           LET d == decided'[a]  o == decided[d.origin] IN
           /\ d.origin \in Alerts /\ d.origin # a
           /\ o # Nothing /\ o.path \notin {"dedup", "cache", "critical"}
           /\ FpOf(d.origin) = FpOf(a) /\ ReuseSafe(o.enr)
           /\ d.verdict = o.verdict /\ d.escalated = o.escalated
  PROVE  ClonesTrace'
<1> SUFFICES ASSUME NEW b \in Alerts, decided'[b] # Nothing, decided'[b].path = "dedup"
             PROVE  LET d == decided'[b]  o == decided'[d.origin] IN
                    /\ o # Nothing /\ o.path \notin {"dedup", "cache", "critical"}
                    /\ FpOf(d.origin) = FpOf(b) /\ ReuseSafe(o.enr)
                    /\ d.verdict = o.verdict /\ d.escalated = o.escalated
  BY DEF ClonesTrace
<1>1. CASE b = a
  BY <1>1
<1>2. CASE b # a
  <2>1. decided'[b] = decided[b] /\ decided[b].origin \in Alerts
    BY <1>2 DEF IInv, TypeOK, Decisions
  <2>2. decided[decided[b].origin] # Nothing
    BY <2>1 DEF IInv, ClonesTrace
  <2>3. decided'[decided[b].origin] = decided[decided[b].origin]
    BY <2>1, <2>2
  <2>4. QED
    BY <2>1, <2>3 DEF IInv, ClonesTrace
<1>3. QED
  BY <1>1, <1>2

-----------------------------------------------------------------------------
(* The steps that decide.                                                  *)

\* What a decision must be like when it is saved or fanned out.
Sound(d) ==
  d.verdict \in Dismissals \cup {"benign"} /\ ~d.escalated =>
    /\ d.enr \cap {"hit", "unknown", "critical"} = {}
    /\ "odd" \in d.enr => d.path = "model"

LEMMA SuppressionKept ==
  ASSUME IInv, NEW a \in Alerts,
         \A b \in Alerts : b # a => decided'[b] = decided[b],
         Sound(decided'[a])
  PROVE  NoSuppression'
  BY DEF IInv, NoSuppression, Dismissed, Sound

LEMMA DuplicateStep ==
  ASSUME IInv, NEW a \in Alerts, NEW enr \in Enrichments, FanOutDuplicate(a, enr)
  PROVE  IInv'
<1> DEFINE rep == window[FpOf(a)]
           d == Clone(a, enr, rep, "dedup")
<1>1. /\ rep # Nothing /\ ReuseSafe(enr) /\ ("unknown" \in enr => rep.degraded)
      /\ RepFor(a, enr) = rep
  BY DEF FanOutDuplicate, RepFor
<1>2. /\ decided[a] = Nothing /\ decided' = [decided EXCEPT ![a] = d]
      /\ UNCHANGED <<job, window, cache, autoClose, revoked, restarts, edits>>
      /\ a \notin {job[w].alert : w \in Busy}
  BY <1>1 DEF FanOutDuplicate, Waiting
<1>3. /\ rep.verdict \in Verdicts /\ rep.escalated \in BOOLEAN
      /\ rep.origin \in Alerts /\ rep.degraded \in BOOLEAN
  BY <1>1, FpIn DEF IInv, TypeOK
<1>4. LET o == decided[rep.origin] IN
      /\ Own(rep.origin) /\ FpOf(rep.origin) = FpOf(a) /\ ReuseSafe(o.enr)
      /\ rep.verdict = o.verdict /\ rep.escalated = o.escalated
      /\ rep.degraded <=> "unknown" \in o.enr
  BY <1>1, FpIn DEF IInv, WindowTrue
<1>5. d \in Decisions
  BY <1>3 DEF Clone, Decisions
<1>6. /\ d.path = "dedup" /\ d.verdict = rep.verdict /\ d.escalated = rep.escalated
      /\ d.enr = enr /\ d.origin = rep.origin
  BY DEF Clone
<1> HIDE DEF d
<1>7. /\ decided'[a] = d /\ d # Nothing
      /\ \A b \in Alerts : b # a => decided'[b] = decided[b]
      /\ \A b \in Alerts : decided[b] # Nothing => b # a
      /\ \A b \in Alerts : Own(b) => Own(b)' /\ b # a
  BY <1>2, <1>5, OneDecided
<1>8. Sound(d)
  <2>1. decided[rep.origin] # Nothing
    BY <1>4 DEF Own
  <2>2. Dismissed(decided[rep.origin]) => "unknown" \notin decided[rep.origin].enr
    BY <1>3, <2>1 DEF IInv, NoSuppression
  <2>3. QED
    BY <1>1, <1>4, <1>6, <2>2 DEF Sound, ReuseSafe, Dismissed
<1>9. NoSuppression'
  BY <1>7, <1>8, SuppressionKept
<1>10. ClonesTrace'
  <2>1. /\ decided[rep.origin] # Nothing /\ rep.origin # a
        /\ decided[rep.origin].path \notin {"dedup", "cache", "critical"}
    BY <1>3, <1>4, <1>7 DEF Own, ReuseSafe
  <2>2. QED
    BY <1>2, <1>3, <1>4, <1>6, <1>7, <2>1, ClonesKept
<1>11. CacheHoldsSafe' /\ WindowTrue'
  BY <1>2, <1>7, CacheKept, WindowKept
<1>12. TypeOK'
  BY <1>2, <1>5 DEF IInv, TypeOK
<1>13. JobsTrue' /\ RevokedAreOff'
  <2>1. JobsTrue'
    BY <1>2, <1>7, JobsKept
  <2>2. QED
    BY <1>2, <2>1 DEF IInv, RevokedAreOff
<1>14. QED
  BY <1>9, <1>10, <1>11, <1>12, <1>13 DEF IInv

LEMMA CachedStep ==
  ASSUME IInv, NEW a \in Alerts, NEW enr \in Enrichments, FanOutCached(a, enr)
  PROVE  IInv'
<1> DEFINE entry == cache[FpOf(a)]
           d == Clone(a, enr, entry, "cache")
<1>1. entry # Nothing /\ CacheSafe(enr) /\ EntryFor(a, enr) = entry
  BY DEF FanOutCached, EntryFor
<1>2. /\ decided[a] = Nothing /\ decided' = [decided EXCEPT ![a] = d]
      /\ UNCHANGED <<job, window, cache, autoClose, revoked, restarts, edits>>
      /\ a \notin {job[w].alert : w \in Busy}
  BY <1>1 DEF FanOutCached, Waiting
<1>3. entry.verdict \in Cacheable /\ entry.escalated \in BOOLEAN /\ entry.origin \in Alerts
  BY <1>1, FpIn DEF IInv, TypeOK, Entries
<1>4. d \in Decisions
  BY <1>3 DEF Clone, Decisions
<1>5. d.path = "cache" /\ d.enr = enr
  BY DEF Clone
<1> HIDE DEF d
<1>6. /\ decided'[a] = d /\ d # Nothing
      /\ \A b \in Alerts : b # a => decided'[b] = decided[b]
      /\ \A b \in Alerts : decided[b] # Nothing => b # a
      /\ \A b \in Alerts : Own(b) => Own(b)' /\ b # a
  BY <1>2, <1>4, OneDecided
<1>7. Sound(d)
  BY <1>1, <1>5 DEF Sound, CacheSafe, ReuseSafe
<1>8. NoSuppression'
  BY <1>6, <1>7, SuppressionKept
<1>9. ClonesTrace'
  BY <1>2, <1>5, <1>6, ClonesKept
<1>10. CacheHoldsSafe' /\ WindowTrue'
  BY <1>2, <1>6, CacheKept, WindowKept
<1>11. TypeOK'
  BY <1>2, <1>4 DEF IInv, TypeOK
<1>12. JobsTrue' /\ RevokedAreOff'
  <2>1. JobsTrue'
    BY <1>2, <1>6, JobsKept
  <2>2. QED
    BY <1>2, <2>1 DEF IInv, RevokedAreOff
<1>13. QED
  BY <1>8, <1>9, <1>10, <1>11, <1>12 DEF IInv

LEMMA SaveStep ==
  ASSUME IInv, NEW w \in Workers, Triaging(w),
         NEW path \in {"critical", "noise", "unanswered", "model"},
         NEW verdict \in Verdicts, NEW escalated \in BOOLEAN, NEW conf \in 0..TopConf,
         Save(w, path, verdict, escalated, conf),
         path = "critical" => "critical" \in job[w].enr,
         Sound([path |-> path, verdict |-> verdict, escalated |-> escalated,
                enr |-> job[w].enr, origin |-> job[w].alert])
  PROVE  IInv'
<1>0. /\ w \in Busy /\ ~job[w].done
      /\ job[w].alert \in Alerts /\ job[w].enr \in Enrichments
  BY BusyJob DEF Triaging, IInv
<1> PICK a \in Alerts : a = job[w].alert
  BY <1>0
<1> PICK enr \in Enrichments : enr = job[w].enr
  BY <1>0
<1> DEFINE d == [path |-> path, verdict |-> verdict, escalated |-> escalated,
                 enr |-> enr, origin |-> a]
<1>1. w \in Busy /\ ~job[w].done /\ decided[a] = Nothing
  BY <1>0 DEF IInv, JobsTrue
<1>2. d \in Decisions
  BY <1>1 DEF Decisions
<1>3. /\ decided' = [decided EXCEPT ![a] = d]
      /\ job' = [job EXCEPT ![w] =
           [alert |-> a, enr |-> enr, done |-> TRUE, conf |-> conf]]
      /\ UNCHANGED <<window, cache, autoClose, revoked, restarts, edits>>
  BY DEF Save
<1>4. /\ d.path = path /\ d.origin = a /\ d.enr = enr /\ d.verdict = verdict
      /\ Sound(d)
  OBVIOUS
<1> HIDE DEF d
<1>5. /\ decided'[a] = d /\ d # Nothing
      /\ \A b \in Alerts : b # a => decided'[b] = decided[b]
      /\ \A b \in Alerts : decided[b] # Nothing => b # a
      /\ \A b \in Alerts : Own(b) => Own(b)' /\ b # a
  BY <1>1, <1>2, <1>3, OneDecided
<1>6. NoSuppression'
  BY <1>1, <1>4, <1>5, SuppressionKept
<1>7. ClonesTrace'
  BY <1>1, <1>4, <1>5, ClonesKept
<1>8. CacheHoldsSafe' /\ WindowTrue'
  BY <1>3, <1>5, CacheKept, WindowKept
<1>9. /\ job'[w] = [alert |-> a, enr |-> enr, done |-> TRUE, conf |-> conf]
      /\ \A v \in Workers \ {w} : job'[v] = job[v]
  BY <1>3 DEF IInv, TypeOK
<1>10. TypeOK'
  <2>1. job' \in [Workers -> [alert : Alerts, enr : Enrichments, done : BOOLEAN,
                              conf : 0..TopConf] \cup {Nothing}]
    BY <1>3 DEF IInv, TypeOK
  <2>2. decided' \in [Alerts -> Decisions \cup {Nothing}]
    BY <1>2, <1>3 DEF IInv, TypeOK
  <2>3. QED
    BY <1>3, <2>1, <2>2 DEF IInv, TypeOK
<1>11. JobsTrue'
  <2>1. Busy' \subseteq Busy /\ job'[w].done /\ job'[w].alert = a
    BY <1>1, <1>9 DEF Busy
  <2>2. \A v \in Busy \ {w} : job'[v] = job[v] /\ job[v].alert \in Alerts /\ job[v].alert # a
    BY <1>1, <1>9, BusyJob DEF IInv, JobsTrue, Busy
  <2>3. Own(a)'
    BY <1>1, <1>4, <1>5 DEF Own
  <2>4. QED
    BY <1>5, <2>1, <2>2, <2>3 DEF IInv, JobsTrue
<1>12. RevokedAreOff'
  BY <1>3 DEF IInv, RevokedAreOff
<1>13. QED
  BY <1>6, <1>7, <1>8, <1>10, <1>11, <1>12 DEF IInv

LEMMA EscalateStep ==
  ASSUME IInv, NEW w \in Workers, AlwaysEscalate(w)
  PROVE  IInv'
<1>1. "true_positive" \in Verdicts /\ TopConf \in 0..TopConf
  BY TriageAssumption DEF Verdicts
<1>2. Sound([path |-> "critical", verdict |-> "true_positive", escalated |-> TRUE,
             enr |-> job[w].enr, origin |-> job[w].alert])
  BY DEF Sound, Dismissals
<1>3. QED
  BY <1>1, <1>2, SaveStep DEF AlwaysEscalate

LEMMA NoiseStep ==
  ASSUME IInv, NEW w \in Workers, DismissNoise(w)
  PROVE  IInv'
<1>1. NoiseVerdict \in Verdicts /\ NoiseConf \in 0..TopConf
  BY TriageAssumption DEF Verdicts, Dismissals
<1>2. Sound([path |-> "noise", verdict |-> NoiseVerdict, escalated |-> FALSE,
             enr |-> job[w].enr, origin |-> job[w].alert])
  BY DEF Sound, DismissNoise, IsNoise
<1>3. QED
  BY <1>1, <1>2, SaveStep DEF DismissNoise

LEMMA NoAnswerStep ==
  ASSUME IInv, NEW w \in Workers, NoAnswer(w)
  PROVE  IInv'
<1>1. "needs_investigation" \in Verdicts /\ 0 \in 0..TopConf
  BY TriageAssumption DEF Verdicts
<1>2. Sound([path |-> "unanswered", verdict |-> "needs_investigation",
             escalated |-> TRUE, enr |-> job[w].enr, origin |-> job[w].alert])
  BY DEF Sound
<1>3. QED
  BY <1>1, <1>2, SaveStep DEF NoAnswer, ForModel

\* The guard lets no dismissal through past blocking or missing evidence.
LEMMA GuardHolds ==
  ASSUME NEW verdict \in Verdicts, NEW enr
  PROVE  /\ Guard(verdict, enr) \in Verdicts /\ Guard(verdict, enr) # "benign"
         /\ Guard(verdict, enr) \in Dismissals => enr \cap {"hit", "unknown"} = {}
  BY DEF Guard, Verdicts, Dismissals

LEMMA AnswerStep ==
  ASSUME IInv, NEW w \in Workers, NEW verdict \in ModelVerdicts,
         NEW conf \in 0..TopConf, NEW asks \in BOOLEAN,
         NEW bar \in AutoCloseAt..(TopConf + 1), Answer(w, verdict, conf, asks, bar)
  PROVE  IInv'
<1> DEFINE kept == Guard(verdict, job[w].enr)
           esc == \/ asks \/ conf < EscalateBelow \/ kept # verdict
                  \/ kept \in Dismissals /\ (~autoClose \/ conf < bar)
<1>1. verdict \in Verdicts
  BY TriageAssumption DEF Verdicts, Dismissals
<1>2. /\ kept \in Verdicts /\ kept # "benign"
      /\ kept \in Dismissals => job[w].enr \cap {"hit", "unknown"} = {}
  BY <1>1, GuardHolds
<1>3. esc \in BOOLEAN
  OBVIOUS
<1>4. ForModel(w) /\ Save(w, "model", kept, esc, conf)
  BY DEF Answer
<1> HIDE DEF kept, esc
<1>5. Sound([path |-> "model", verdict |-> kept, escalated |-> esc,
             enr |-> job[w].enr, origin |-> job[w].alert])
  BY <1>2, <1>4 DEF Sound, ForModel
<1>6. QED
  BY <1>2, <1>3, <1>4, <1>5, SaveStep DEF ForModel

-----------------------------------------------------------------------------
(* The other steps.                                                        *)

LEMMA StartStep ==
  ASSUME IInv, NEW w \in Workers, NEW a \in Alerts, NEW enr \in Enrichments,
         StartTriage(w, a, enr)
  PROVE  IInv'
<1>1. /\ w \notin Busy /\ decided[a] = Nothing /\ a \notin {job[v].alert : v \in Busy}
      /\ job' = [job EXCEPT ![w] = [alert |-> a, enr |-> enr, done |-> FALSE, conf |-> 0]]
      /\ UNCHANGED <<decided, window, cache, autoClose, revoked, restarts, edits>>
  BY DEF StartTriage, Waiting, Busy
<1>2. /\ job'[w] = [alert |-> a, enr |-> enr, done |-> FALSE, conf |-> 0]
      /\ \A v \in Workers \ {w} : job'[v] = job[v]
  BY <1>1 DEF IInv, TypeOK
<1>3. TypeOK'
  <2>1. job' \in [Workers -> [alert : Alerts, enr : Enrichments, done : BOOLEAN,
                              conf : 0..TopConf] \cup {Nothing}]
    BY <1>1, TriageAssumption DEF IInv, TypeOK
  <2>2. QED
    BY <1>1, <2>1 DEF IInv, TypeOK
<1>4. JobsTrue'
  <2>1. Busy' \subseteq Busy \cup {w} /\ job'[w].alert = a /\ ~job'[w].done
    BY <1>2 DEF Busy
  <2>2. \A v \in Busy : job'[v] = job[v] /\ job[v].alert # a
    BY <1>1, <1>2 DEF Busy
  <2>3. \A v \in Busy : job[v].done => Own(job[v].alert)'
    BY <1>1, <2>2 DEF IInv, JobsTrue, Own
  <2>4. QED
    BY <1>1, <2>1, <2>2, <2>3 DEF IInv, JobsTrue
<1>5. NoSuppression' /\ ClonesTrace' /\ CacheHoldsSafe' /\ WindowTrue'
  BY <1>1, NothingDecided, CacheKept, WindowKept
<1>6. RevokedAreOff'
  BY <1>1 DEF IInv, RevokedAreOff
<1>7. QED
  BY <1>3, <1>4, <1>5, <1>6 DEF IInv

\* What a worker that lets go of its alert leaves behind.
LEMMA LetGo ==
  ASSUME IInv, NEW w \in Workers, UNCHANGED decided, job' = [job EXCEPT ![w] = Nothing]
  PROVE  /\ JobsTrue'
         /\ job' \in [Workers -> [alert : Alerts, enr : Enrichments, done : BOOLEAN,
                                  conf : 0..TopConf] \cup {Nothing}]
<1>1. /\ job'[w] = Nothing /\ \A v \in Workers \ {w} : job'[v] = job[v]
      /\ job' \in [Workers -> [alert : Alerts, enr : Enrichments, done : BOOLEAN,
                               conf : 0..TopConf] \cup {Nothing}]
  BY DEF IInv, TypeOK
<1>2. Busy' \subseteq Busy \ {w} /\ \A v \in Busy' : job'[v] = job[v]
  BY <1>1 DEF Busy
<1>3. JobsTrue'
  BY <1>2 DEF IInv, JobsTrue, Own
<1>4. QED
  BY <1>1, <1>3

LEMMA AbandonStep ==
  ASSUME IInv, NEW w \in Workers, Abandon(w)
  PROVE  IInv'
<1>1. /\ job' = [job EXCEPT ![w] = Nothing]
      /\ UNCHANGED <<decided, window, cache, autoClose, revoked, restarts, edits>>
  BY DEF Abandon
<1>2. JobsTrue' /\ TypeOK'
  BY <1>1, LetGo DEF IInv, TypeOK
<1>3. NoSuppression' /\ ClonesTrace' /\ CacheHoldsSafe' /\ WindowTrue' /\ RevokedAreOff'
  <2>1. RevokedAreOff'
    BY <1>1 DEF IInv, RevokedAreOff
  <2>2. QED
    BY <1>1, <2>1, NothingDecided, CacheKept, WindowKept
<1>4. QED
  BY <1>2, <1>3 DEF IInv

LEMMA RememberStep ==
  ASSUME IInv, NEW w \in Workers, Remember(w)
  PROVE  IInv'
<1>0. w \in Busy /\ job[w].done
  BY DEF Remember
<1> PICK a \in Alerts : a = job[w].alert
  BY <1>0, BusyJob DEF IInv
<1> PICK d : d = decided[a]
  OBVIOUS
<1> PICK f \in Fps : f = FpOf(a)
  BY FpIn
<1> PICK conf : conf = job[w].conf
  OBVIOUS
<1> DEFINE rep == [verdict |-> d.verdict, escalated |-> d.escalated, origin |-> a,
                   degraded |-> "unknown" \in d.enr]
           entry == Stored(f, d)
<1>1. /\ window' = [window EXCEPT ![f] = IF ReuseSafe(d.enr) THEN rep ELSE window[f]]
      /\ cache' = [cache EXCEPT ![f] =
           IF CacheSafe(d.enr) /\ WorthCaching(d, conf) THEN entry ELSE cache[f]]
      /\ job' = [job EXCEPT ![w] = Nothing]
      /\ UNCHANGED <<decided, autoClose, revoked, restarts, edits>>
  BY DEF Remember
<1>2. Own(a) /\ d \in Decisions /\ d # Nothing
  BY <1>0 DEF IInv, JobsTrue, TypeOK, Own
<1>3. /\ rep.verdict = d.verdict /\ rep.escalated = d.escalated /\ rep.origin = a
      /\ rep.degraded = ("unknown" \in d.enr)
      /\ d.verdict \in Verdicts => rep \in [verdict : Verdicts, escalated : BOOLEAN,
                                           origin : Alerts, degraded : BOOLEAN]
  BY <1>2 DEF Decisions
<1>4. WorthCaching(d, conf) =>
        entry \in Entries /\ entry # Nothing /\ ~d.escalated /\ entry.origin = d.origin
  <2>1. SUFFICES ASSUME WorthCaching(d, conf)
                 PROVE  entry \in Entries /\ entry.origin = d.origin /\ ~d.escalated
    BY NothingAssumption
  <2>2. /\ ~d.escalated /\ d.verdict \in Cacheable /\ d.escalated \in BOOLEAN
        /\ d.origin \in Alerts
    BY <1>2, <2>1 DEF WorthCaching, Decisions
  <2>3. (cache[f] = Nothing \/ cache[f].enabled) \in BOOLEAN
    OBVIOUS
  <2>4. d.escalated = FALSE
    BY <2>2
  <2>5. QED
    BY <2>2, <2>3, <2>4 DEF Stored, Entries
<1>5. entry.enabled = (cache[f] = Nothing \/ cache[f].enabled)
  BY DEF Stored
<1> HIDE DEF rep, entry
<1>6. /\ \A g \in Fps \ {f} : window'[g] = window[g] /\ cache'[g] = cache[g]
      /\ window'[f] = IF ReuseSafe(d.enr) THEN rep ELSE window[f]
      /\ cache'[f] = IF CacheSafe(d.enr) /\ WorthCaching(d, conf)
                     THEN entry ELSE cache[f]
  BY <1>1 DEF IInv, TypeOK
<1>7. JobsTrue' /\ NoSuppression' /\ ClonesTrace'
  BY <1>1, LetGo, NothingDecided
<1>8. WindowTrue'
  <2>1. ReuseSafe(d.enr) => LET o == decided[rep.origin] IN
          /\ Own(rep.origin) /\ FpOf(rep.origin) = f /\ ReuseSafe(o.enr)
          /\ rep.verdict = o.verdict /\ rep.escalated = o.escalated
          /\ rep.degraded <=> "unknown" \in o.enr
    BY <1>2, <1>3
  <2>2. ASSUME NEW g \in Fps, window'[g] # Nothing
        PROVE  \/ window'[g] = window[g] /\ window[g].origin \in Alerts
               \/ g = f /\ window'[g] = rep /\ ReuseSafe(d.enr)
    BY <1>6, <2>2 DEF IInv, TypeOK
  <2>3. ASSUME NEW g \in Fps, window'[g] # Nothing
        PROVE  LET r == window'[g]  o == decided[r.origin] IN
               /\ Own(r.origin) /\ FpOf(r.origin) = g /\ ReuseSafe(o.enr)
               /\ r.verdict = o.verdict /\ r.escalated = o.escalated
               /\ r.degraded <=> "unknown" \in o.enr
    <3>1. CASE window'[g] = window[g]
      BY <2>3, <3>1 DEF IInv, WindowTrue
    <3>2. CASE g = f /\ window'[g] = rep /\ ReuseSafe(d.enr)
      BY <2>1, <3>2
    <3>3. QED
      BY <2>2, <2>3, <3>1, <3>2
  <2>4. QED
    BY <1>1, <2>3 DEF WindowTrue, Own
<1>9. CacheHoldsSafe'
  <2>1. CacheSafe(d.enr) /\ WorthCaching(d, conf) =>
          LET o == decided[entry.origin] IN
          o # Nothing /\ ~o.escalated /\ CacheSafe(o.enr) /\ FpOf(entry.origin) = f
    BY <1>2, <1>4 DEF Own
  <2>2. QED
    BY <1>1, <1>6, <2>1 DEF IInv, CacheHoldsSafe
<1>10. RevokedAreOff'
  <2>1. ASSUME NEW g \in revoked, g # f PROVE cache'[g] # Nothing /\ ~cache'[g].enabled
    BY <1>6, <2>1 DEF IInv, RevokedAreOff, TypeOK
  <2>2. ASSUME f \in revoked PROVE cache'[f] # Nothing /\ ~cache'[f].enabled
    BY <1>4, <1>5, <1>6, <2>2 DEF IInv, RevokedAreOff
  <2>3. QED
    BY <1>1, <2>1, <2>2 DEF RevokedAreOff
<1>11. TypeOK'
  <2>1. ReuseSafe(d.enr) => rep \in [verdict : Verdicts, escalated : BOOLEAN,
                                     origin : Alerts, degraded : BOOLEAN]
    BY <1>2, <1>3 DEF Own
  <2>2. QED
    BY <1>1, <1>4, <2>1, LetGo DEF IInv, TypeOK
<1>12. QED
  BY <1>7, <1>8, <1>9, <1>10, <1>11 DEF IInv

LEMMA WindowCloseStep ==
  ASSUME IInv, NEW f \in Fps, WindowCloses(f)
  PROVE  IInv'
<1>1. /\ window' = [window EXCEPT ![f] = Nothing]
      /\ UNCHANGED <<job, decided, cache, autoClose, revoked, restarts, edits>>
  BY DEF WindowCloses
<1>2. window'[f] = Nothing /\ \A g \in Fps \ {f} : window'[g] = window[g]
  BY <1>1 DEF IInv, TypeOK
<1>3. WindowTrue'
  BY <1>1, <1>2 DEF IInv, WindowTrue, Own
<1>4. TypeOK' /\ RevokedAreOff'
  BY <1>1 DEF IInv, TypeOK, RevokedAreOff
<1>5. JobsTrue'
  BY <1>1 DEF IInv, JobsTrue, Busy, Own
<1>6. QED
  BY <1>1, <1>3, <1>4, <1>5, NothingDecided, CacheKept DEF IInv

\* Nobody but Remember and the analysts touches an entry, and an analyst moves
\* neither its origin nor its fingerprint.
LEMMA CacheEdited ==
  ASSUME IInv, NEW f \in Fps, UNCHANGED <<job, decided, window, autoClose, restarts>>,
         edits' \in 0..MaxAdmin, revoked' \subseteq Fps,
         NEW e \in Entries \cup {Nothing}, cache' = [cache EXCEPT ![f] = e],
         e # Nothing => cache[f] # Nothing /\ e.origin = cache[f].origin,
         \A g \in revoked' : g = f => e # Nothing /\ ~e.enabled,
         revoked' \ {f} \subseteq revoked
  PROVE  IInv'
<1>1. cache'[f] = e /\ \A g \in Fps \ {f} : cache'[g] = cache[g]
  BY DEF IInv, TypeOK
<1>2. CacheHoldsSafe'
  <2>1. ASSUME NEW g \in Fps, cache'[g] # Nothing
        PROVE  cache[g] # Nothing /\ cache'[g].origin = cache[g].origin
    BY <1>1, <2>1
  <2>2. QED
    BY <2>1 DEF IInv, CacheHoldsSafe
<1>3. RevokedAreOff'
  <2>1. ASSUME NEW g \in revoked' PROVE cache'[g] # Nothing /\ ~cache'[g].enabled
    <3>1. CASE g = f
      BY <1>1, <3>1
    <3>2. CASE g # f
      <4>1. g \in revoked /\ g \in Fps
        BY <3>2
      <4>2. QED
        BY <1>1, <3>2, <4>1 DEF IInv, RevokedAreOff
    <3>3. QED
      BY <3>1, <3>2
  <2>2. QED
    BY <2>1 DEF RevokedAreOff
<1>4. TypeOK'
  BY DEF IInv, TypeOK
<1>5. JobsTrue'
  BY DEF IInv, JobsTrue, Busy, Own
<1>6. QED
  BY <1>2, <1>3, <1>4, <1>5, NothingDecided, WindowKept DEF IInv

LEMMA EntryGoesStep ==
  ASSUME IInv, NEW f \in Fps, EntryGoes(f)
  PROVE  IInv'
<1>1. edits \in 0..MaxAdmin /\ revoked \subseteq Fps
  BY DEF IInv, TypeOK
<1>2. QED
  BY <1>1, CacheEdited DEF EntryGoes

LEMMA SwitchStep ==
  ASSUME IInv, NEW f \in Fps, NEW on \in BOOLEAN, Switch(f, on)
  PROVE  IInv'
<1> DEFINE e == [cache[f] EXCEPT !.enabled = on]
<1>1. cache[f] \in Entries /\ revoked \subseteq Fps
  BY DEF Switch, IInv, TypeOK
<1>2. e \in Entries /\ e.origin = cache[f].origin /\ e.enabled = on
  BY <1>1 DEF Entries
<1>3. edits' \in 0..MaxAdmin
  BY TriageAssumption DEF Switch, IInv, TypeOK
<1>4. cache' = [cache EXCEPT ![f] = e] /\ cache[f] # Nothing
  BY DEF Switch
<1> HIDE DEF e
<1>5. /\ revoked' \subseteq Fps /\ revoked' \ {f} \subseteq revoked
      /\ \A g \in revoked' : g = f => e # Nothing /\ ~e.enabled
  BY <1>1, <1>2, NothingAssumption DEF Switch
<1>6. QED
  BY <1>2, <1>3, <1>4, <1>5, CacheEdited DEF Switch

LEMMA EditStep ==
  ASSUME IInv, NEW f \in Fps, NEW verdict \in Cacheable, EditVerdict(f, verdict)
  PROVE  IInv'
<1> DEFINE e == [cache[f] EXCEPT !.verdict = verdict]
<1>1. cache[f] \in Entries /\ revoked \subseteq Fps
  BY DEF EditVerdict, IInv, TypeOK
<1>2. e \in Entries /\ e.origin = cache[f].origin /\ e.enabled = cache[f].enabled
  BY <1>1 DEF Entries
<1>3. edits' \in 0..MaxAdmin
  BY TriageAssumption DEF EditVerdict, IInv, TypeOK
<1>4. cache' = [cache EXCEPT ![f] = e] /\ cache[f] # Nothing
  BY DEF EditVerdict
<1> HIDE DEF e
<1>5. /\ revoked' \subseteq Fps /\ revoked' \ {f} \subseteq revoked
      /\ \A g \in revoked' : g = f => e # Nothing /\ ~e.enabled
  BY <1>1, <1>2, NothingAssumption DEF EditVerdict, IInv, RevokedAreOff
<1>6. QED
  BY <1>2, <1>3, <1>4, <1>5, CacheEdited DEF EditVerdict

LEMMA RestartStep ==
  ASSUME IInv, Restart
  PROVE  IInv'
<1>1. /\ job' = [w \in Workers |-> Nothing] /\ window' = [f \in Fps |-> Nothing]
      /\ UNCHANGED <<decided, cache, revoked, edits>>
  BY DEF Restart
<1>2. TypeOK'
  BY <1>1, TriageAssumption DEF Restart, IInv, TypeOK
<1>3. JobsTrue' /\ WindowTrue' /\ RevokedAreOff'
  BY <1>1 DEF IInv, JobsTrue, Busy, WindowTrue, RevokedAreOff
<1>4. QED
  BY <1>1, <1>2, <1>3, NothingDecided, CacheKept DEF IInv

LEMMA StutterStep ==
  ASSUME IInv, UNCHANGED vars
  PROVE  IInv'
<1>1. UNCHANGED <<job, decided, window, cache, autoClose, revoked, restarts, edits>>
  BY DEF vars
<1>2. TypeOK' /\ RevokedAreOff'
  BY <1>1 DEF IInv, TypeOK, RevokedAreOff
<1>3. JobsTrue'
  BY <1>1 DEF IInv, JobsTrue, Busy, Own
<1>4. QED
  BY <1>1, <1>2, <1>3, NothingDecided, CacheKept, WindowKept DEF IInv

-----------------------------------------------------------------------------
(* The invariant and what follows from it.                                 *)

LEMMA InitIInv == Init => IInv
<1> SUFFICES ASSUME Init PROVE IInv
  OBVIOUS
<1>1. TypeOK
  BY TriageAssumption DEF Init, TypeOK
<1>2. JobsTrue /\ WindowTrue /\ RevokedAreOff
  BY DEF Init, JobsTrue, Busy, WindowTrue, RevokedAreOff
<1>3. NoSuppression /\ ClonesTrace /\ CacheHoldsSafe
  BY DEF Init, NoSuppression, ClonesTrace, CacheHoldsSafe
<1>4. QED
  BY <1>1, <1>2, <1>3 DEF IInv

LEMMA StepIInv == IInv /\ [Next]_vars => IInv'
<1> SUFFICES ASSUME IInv, [Next]_vars PROVE IInv'
  OBVIOUS
<1>1. ASSUME NEW a \in Alerts, NEW enr \in Enrichments, Begin(a, enr) PROVE IInv'
  BY <1>1, DuplicateStep, CachedStep, StartStep DEF Begin
<1>2. ASSUME NEW w \in Workers,
             \/ AlwaysEscalate(w) \/ DismissNoise(w) \/ NoAnswer(w)
             \/ ModelAnswers(w) \/ Abandon(w) \/ Remember(w)
      PROVE  IInv'
  BY <1>2, EscalateStep, NoiseStep, NoAnswerStep, AnswerStep, AbandonStep,
     RememberStep DEF ModelAnswers
<1>3. ASSUME NEW f \in Fps,
             \/ WindowCloses(f) \/ EntryGoes(f)
             \/ \E on \in BOOLEAN : Switch(f, on)
             \/ \E verdict \in Cacheable : EditVerdict(f, verdict)
      PROVE  IInv'
  BY <1>3, WindowCloseStep, EntryGoesStep, SwitchStep, EditStep
<1>4. QED
  BY <1>1, <1>2, <1>3, RestartStep, StutterStep DEF Next

LEMMA Invariance == Spec => []IInv
<1>1. QED
  BY InitIInv, StepIInv, PTL DEF Spec

\* Workers, decisions, dedup window and decision cache keep the shape the code
\* gives them: the cache holds no escalated decision (cost_controls.py, the
\* should_cache gate).
THEOREM VerdictTypes == Spec => []TypeOK
<1>1. IInv => TypeOK
  BY DEF IInv
<1>2. QED
  BY <1>1, Invariance, PTL

\* The no-suppression invariant of triage_agent.py:1647: an alert with blocking
\* evidence, without evidence, or critical by rule is never dismissed without a
\* human, whichever path decided it and whatever is in the two stores.
THEOREM NeverSuppressed == Spec => []NoSuppression
<1>1. IInv => NoSuppression
  BY DEF IInv
<1>2. QED
  BY <1>1, Invariance, PTL

\* Every fanned-out duplicate (triage_agent.py, the dedup path) repeats the
\* verdict some alert of its fingerprint got from a triage of its own.
THEOREM ClonesFaithful == Spec => []ClonesTrace
<1>1. IInv => ClonesTrace
  BY DEF IInv
<1>2. QED
  BY <1>1, Invariance, PTL

\* An entry of the durable cache stands for a decision on a clean alert, whatever
\* the analysts do to it.
THEOREM EntriesSafe == Spec => []CacheHoldsSafe
<1>1. IInv => CacheHoldsSafe
  BY DEF IInv
<1>2. QED
  BY <1>1, Invariance, PTL

\* An entry an analyst disabled (store.py:7498) decides nothing, however many
\* triages of such alerts are written through to the cache in between.
THEOREM RevokedHold == Spec => RevokedStays
<1> DEFINE P == \A a \in Alerts :
       decided[a] = Nothing /\ decided'[a] # Nothing /\ decided'[a].path = "cache"
         => FpOf(a) \notin revoked
<1>1. ASSUME IInv, [Next]_vars PROVE [P]_vars
  <2> SUFFICES ASSUME NEW a \in Alerts, decided[a] = Nothing, decided'[a] # Nothing,
                      decided'[a].path = "cache"
               PROVE  FpOf(a) \notin revoked
    OBVIOUS
  <2>1. ASSUME NEW w \in Workers, NEW path, NEW verdict, NEW esc, NEW conf,
               Triaging(w), Save(w, path, verdict, esc, conf)
        PROVE  path = "cache"
    <3>1. job[w].alert \in Alerts
      BY <1>1, <2>1, BusyJob DEF Triaging, IInv
    <3>2. job[w].alert = a
      BY <1>1, <2>1, <3>1 DEF Save, IInv, TypeOK
    <3>3. QED
      BY <1>1, <2>1, <3>2 DEF Save, IInv, TypeOK
  <2>2. ASSUME NEW w \in Workers,
               AlwaysEscalate(w) \/ DismissNoise(w) \/ NoAnswer(w) \/ ModelAnswers(w)
        PROVE  FALSE
    <3>1. PICK path \in {"critical", "noise", "unanswered", "model"} :
            \E verdict, esc, conf : Save(w, path, verdict, esc, conf)
      BY <2>2 DEF AlwaysEscalate, DismissNoise, NoAnswer, ModelAnswers, Answer
    <3>2. Triaging(w)
      BY <2>2 DEF AlwaysEscalate, DismissNoise, NoAnswer, ModelAnswers, Answer, ForModel
    <3>3. QED
      BY <2>1, <3>1, <3>2
  <2>3. ASSUME NEW b \in Alerts, NEW enr \in Enrichments, Begin(b, enr)
        PROVE  FanOutCached(b, enr)
    <3>1. ASSUME FanOutDuplicate(b, enr) PROVE FALSE
      BY <1>1, <3>1 DEF FanOutDuplicate, Clone, IInv, TypeOK
    <3>2. ASSUME NEW w \in Workers, StartTriage(w, b, enr) PROVE FALSE
      BY <3>2 DEF StartTriage
    <3>3. QED
      BY <2>3, <3>1, <3>2 DEF Begin
  <2>4. ASSUME NEW b \in Alerts, NEW enr \in Enrichments, FanOutCached(b, enr)
        PROVE  FpOf(a) \notin revoked
    <3>1. a = b
      BY <2>4 DEF FanOutCached
    <3>2. cache[FpOf(a)] # Nothing /\ cache[FpOf(a)].enabled
      BY <2>4, <3>1 DEF FanOutCached, EntryFor
    <3>3. QED
      BY <1>1, <3>2 DEF IInv, RevokedAreOff
  <2>5. UNCHANGED decided => FALSE
    OBVIOUS
  <2>6. QED
    BY <1>1, <2>2, <2>3, <2>4, <2>5 DEF Next, vars, Abandon, Remember, WindowCloses,
       EntryGoes, Switch, EditVerdict, Restart
<1>2. QED
  BY <1>1, Invariance, PTL DEF Spec, RevokedStays
=============================================================================
