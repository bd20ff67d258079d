--------------------------- MODULE SeverityPolicy ---------------------------
(* The operator's severity policy (incidents/severity.py): which entries   *)
(* of the guidance file are usable, which of them match an alert, and what *)
(* they make of its risk band.                                             *)
EXTENDS Integers, FiniteSets

CONSTANTS
  Entries,      \* what the guidance file may say
  Standing,     \* entries that are in the file as well
  Alerts,       \* alerts as normalised and triaged
  Bands,        \* risk bands to start from, as ranks
  Unset         \* a field the file does not give

VARIABLES
  file,         \* the entries of the file
  alert, band, malicious,      \* what is judged
  severity, applied            \* the result

sevVars == <<file, alert, band, malicious, severity, applied>>

Low == 0   Medium == 1   High == 2   Critical == 3      \* SEVERITY_ORDER
Unreadable == -1                        \* a level that is not a number
GroupCeilingMaxLevel == 9               \* level 10 and up: frequency rules

\* What the proofs ask of an instance.
PolicyAssumption ==
  /\ \A e \in Entries \cup Standing :
       /\ e.severity \in Low..Critical /\ e.status # "none"
       /\ e.cap # Unset => e.cap \in Int
  /\ \A a \in Alerts : a.level \in Nat \cup {Unreadable}
  /\ Bands \subseteq Low..Critical

MaxRank(S) == CHOOSE m \in S : \A n \in S : n <= m
MinRank(S) == CHOOSE m \in S : \A n \in S : m <= n
-----------------------------------------------------------------------------
(* Loading.                                                                *)

\* A floor that pages must not select a whole group of rules without a bound.
Unbounded(e) ==
  /\ e.kind = "floor" /\ e.severity >= High
  /\ e.groups # {} /\ ~e.excludes /\ e.cap = Unset

\* Broken variant of Usable: only a floor without rule ids needs the bound.
UsableUnlessIds(e) ==
  /\ e.ids # {} \/ e.groups # {}
  /\ ~(Unbounded(e) /\ e.ids = {})
  /\ e.cap # Unset => e.groups # {}
  /\ e.kind = "ceiling" /\ e.groups # {} =>
       e.cap # Unset /\ e.cap <= GroupCeilingMaxLevel
\* Broken variant of Usable: a ceiling for a group may have any cap.
UsableAnyCap(e) ==
  /\ e.ids # {} \/ e.groups # {}
  /\ ~Unbounded(e)
  /\ e.cap # Unset => e.groups # {}
\* _clean: an entry selects something, a cap has a group to bound, and a
\* ceiling for a group stays below the frequency rules.  The checks of types
\* and spellings are left out.
Usable(e) ==
  /\ e.ids # {} \/ e.groups # {}
  /\ ~Unbounded(e)
  /\ e.cap # Unset => e.groups # {}
  /\ e.kind = "ceiling" /\ e.groups # {} =>
       e.cap # Unset /\ e.cap <= GroupCeilingMaxLevel

Policy == {e \in file : Usable(e)}
-----------------------------------------------------------------------------
(* Matching.                                                               *)

Named(e) == alert.id \in e.ids
Grouped(e) == alert.groups \cap e.groups # {}

\* exclude_paths; an alert that names no file is not excluded.
Excluded(e) == e.excludes /\ alert.path = "excluded"

SignalMatches(e) ==
  e.signal = Unset \/ (alert.guidance = "loaded" /\ alert.signal = e.signal)

\* Broken variant of WithinCap: the cap also binds an entry's rule ids.
CapBindsIds(e) ==
  e.cap # Unset => alert.level \notin {Unreadable, 0} /\ alert.level <= e.cap
\* Broken variant of WithinCap: an alert without a level counts as quiet.
MissingIsQuiet(e) == e.cap # Unset /\ ~Named(e) => alert.level <= e.cap
\* max_rule_level bounds the groups only; a level of 0 is what normalize_alert
\* writes when there was none.
WithinCap(e) ==
  e.cap # Unset /\ ~Named(e) =>
    alert.level \notin {Unreadable, 0} /\ alert.level <= e.cap

\* http_status, http_status_class, with one class per entry; an alert without a
\* status satisfies neither.
StatusMatches(e) == e.status = Unset \/ alert.status = e.status

Matches(e) ==
  /\ Named(e) \/ Grouped(e)
  /\ ~Excluded(e) /\ SignalMatches(e) /\ WithinCap(e) /\ StatusMatches(e)
-----------------------------------------------------------------------------
(* apply: the lowest matching ceiling, unless the alert is confirmed       *)
(* malicious, and then the highest matching floor.                         *)

Matching(kind) == {e \in Policy : e.kind = kind /\ Matches(e)}

\* Broken variant of Ceilings: they cap a confirmed alert too.
AllCeilings == Matching("ceiling")
Ceilings == IF malicious THEN {} ELSE Matching("ceiling")
Floors == Matching("floor")

Capped == MinRank({band} \cup {e.severity : e \in Ceilings})

\* Broken variant of Reported: only the entries that changed the severity.
Moved == {e \in Ceilings : e.severity < band}
           \cup {e \in Floors : e.severity > Capped}
\* Every entry that matched, whether it moved the severity or not: the incident
\* engine keeps an alert that a floor matched, against a benign verdict.
Reported == Ceilings \cup Floors

Judge ==
  /\ severity = -1
  /\ severity' = MaxRank({Capped} \cup {e.severity : e \in Floors})
  /\ applied' = Reported
  /\ UNCHANGED <<file, alert, band, malicious>>

\* risk_band with an alert's risk, and TI hits of its enrichment.
Init ==
  /\ \E e \in Entries : file = {e} \cup Standing
  /\ alert \in Alerts /\ band \in Bands /\ malicious \in BOOLEAN
  /\ severity = -1 /\ applied = {}

Next == Judge
-----------------------------------------------------------------------------
Judged == severity # -1
Raised == Judged /\ severity > band
Lowered == Judged /\ severity < band
Quiet == alert.level \in 1..GroupCeilingMaxLevel

\* The policy pages nobody for a whole group of rules: an alert raised to high
\* or above is named by an entry, or one that bounds its group and leaves this
\* file and level in (severity.py:441).
PagesAreBounded ==
  Raised /\ severity >= High =>
    \E e \in file :
      /\ e.kind = "floor" /\ e.severity = severity
      /\ \/ alert.id \in e.ids
         \/ e.excludes /\ alert.path # "excluded"
         \/ e.cap # Unset /\ alert.level \in 1..e.cap

\* A frequency rule, or an alert of unknown level or status, is only quietened
\* by an entry that names it, and an alert confirmed malicious by none
\* (severity.py:484, 588, 691).
QuietedOnPurpose ==
  Lowered =>
    /\ ~malicious
    /\ \E e \in file :
         /\ e.kind = "ceiling" /\ e.severity <= severity
         /\ alert.id \in e.ids \/ Quiet
         /\ alert.status = "none" => e.status = Unset

\* A floor that names a rule holds for it, whatever ceilings say and the cap of
\* its groups is, and is reported even where the band was above it
\* (severity.py:571, 706).
NamedFloorHolds ==
  \A e \in file :
    /\ Judged /\ e.kind = "floor" /\ alert.id \in e.ids
    /\ (e.groups # {}) <=> (e.cap # Unset)
    /\ e.status = Unset /\ e.signal = Unset /\ ~Excluded(e)
    => severity >= e.severity /\ e \in applied
=============================================================================
