---------------------------- MODULE SlaAnnouncer ----------------------------
(***************************************************************************)
(* The announcements of missed deadlines (incidents/sla.py).  Every five   *)
(* minutes the leader runs one pass per tenant over the tenant's open      *)
(* incidents: it records each missed deadline, and announces those that    *)
(* the breach table does not know as delivered.  How often one was tried   *)
(* is kept in the memory of the process, in one ledger for all tenants.    *)
(* Analysts and the notification channel go on beside the pass.            *)
(*                                                                         *)
(* The model follows one tenant; a pass of another one only makes the      *)
(* ledger's entries older.  Clocks are abstracted to "this deadline has    *)
(* passed".  The notification service is not part of the repository: a     *)
(* send succeeds or fails.                                                 *)
(***************************************************************************)
EXTENDS Integers, FiniteSets

CONSTANTS
  Incidents,    \* incidents of the tenant, all open at first
  Others,       \* passes of other tenants between two of this tenant
  MaxAttempts,  \* NOTIFY_MAX_ATTEMPTS
  Limit,        \* NOTIFY_PER_CYCLE_LIMIT
  Stale,        \* LEDGER_STALE_PASSES
  MaxFaults,    \* bound on reads and writes that fail, and on restarts
  MaxTier       \* tiers above L1 in this instance

AnnouncerAssumption ==
  /\ {Others, Limit, Stale, MaxFaults, MaxTier} \subseteq Nat
  /\ MaxAttempts \in Nat \ {0}

\* sla.py:68: an entry is touched on every pass of its tenant, so it must outlive
\* one round of all tenants, and one more for every pass that fails.
LedgerOutlivesRounds == MaxFaults * (Others + 1) + Others <= Stale

Breaches == Incidents \X {"response", "resolution"}

VARIABLES
  open,      \* incidents in status open or investigating
  tier,      \* tier of each incident, L1 being 0
  answered,  \* incidents with a first_response_at
  late,      \* deadlines that have passed
  table,     \* sla_breaches: "none" (no row), "untold" or "told" (notified)
  tries,     \* _notify_attempts: attempts, 0 for no entry
  age,       \* _notify_attempts: passes since the entry was last touched
  at,        \* "idle", "announcing" or "others"
  pending,   \* breaches this pass still has to announce or defer
  budget,    \* announcements left in this pass
  wait,      \* passes of other tenants still to come
  slips,     \* faults so far
  blind,     \* history: this pass could not read what was delivered
  sent       \* history: announcements of a breach while it was missed and not told

slaVars == <<open, tier, answered, late, table, tries, age, at, pending, budget,
             wait, slips, blind, sent>>
passVars == <<at, pending, budget, wait, blind>>

Missed(b) ==
  /\ b \in late /\ b[1] \in open
  /\ b[2] = "response" => b[1] \notin answered

Init ==
  /\ open = Incidents /\ tier = [i \in Incidents |-> 0]
  /\ answered = {} /\ late = {}
  /\ table = [b \in Breaches |-> "none"]
  /\ tries = [b \in Breaches |-> 0] /\ age = [b \in Breaches |-> 0]
  /\ at = "idle" /\ pending = {} /\ budget = 0 /\ wait = 0
  /\ slips = 0 /\ blind = FALSE /\ sent = [b \in Breaches |-> 0]
-----------------------------------------------------------------------------
(* Time and analysts.                                                      *)

Forget == sent' = [b \in Breaches |-> IF Missed(b)' THEN sent[b] ELSE 0]

DeadlinePasses(b) ==
  /\ b[1] \in open /\ late' = late \cup {b}
  /\ UNCHANGED <<open, tier, answered, table, tries, age, passVars, slips>>
  /\ Forget

\* record_first_response, at an assignment or a change of status: only the
\* first one counts.
FirstResponse(i) ==
  /\ i \in open \ answered /\ answered' = answered \cup {i}
  /\ UNCHANGED <<open, tier, late, table, tries, age, passVars, slips>>
  /\ Forget

Resolve(i) ==
  /\ i \in open /\ open' = open \ {i}
  /\ UNCHANGED <<tier, answered, late, table, tries, age, passVars, slips>>
  /\ Forget

\* escalate_tier: new deadlines, and nobody has answered yet.
EscalateTier(i) ==
  /\ i \in open /\ tier[i] < MaxTier
  /\ tier' = [tier EXCEPT ![i] = @ + 1]
  /\ answered' = answered \ {i} /\ late' = {b \in late : b[1] # i}
  /\ UNCHANGED <<open, table, tries, age, passVars, slips>>
  /\ Forget
-----------------------------------------------------------------------------
(* A pass.                                                                 *)

Works(ok) == slips' = IF ok THEN slips ELSE slips + 1
Possible(ok) == ok \/ slips < MaxFaults

\* Broken variant of Delivered: nobody looks up what was delivered.
NothingDelivered(read) == {}

\* Broken variant of Delivered: a breach with a row was announced when it was
\* recorded.
RecordedBefore(read) == {b \in Breaches : table[b] # "none"}

\* _delivered_breach_keys: a history that cannot be read counts as empty.
Delivered(read) == IF read THEN {b \in Breaches : table[b] = "told"} ELSE {}

\* The open incidents are read, each missed deadline gets its one row, and
\* those not known as delivered are to be announced.  Without the incidents
\* there is nothing to do; an insert that fails is logged.
BeginPass(incidents, history, inserts) ==
  LET missed == {b \in Breaches : incidents /\ Missed(b)} IN
  /\ at = "idle" /\ at' = "announcing"
  /\ Works(incidents /\ history /\ inserts)
  /\ budget' = Limit /\ pending' = missed \ Delivered(history)
  /\ blind' = ~history
  /\ table' = [b \in Breaches |-> IF inserts /\ b \in missed /\ table[b] = "none"
                                  THEN "untold" ELSE table[b]]
  /\ age' = [b \in Breaches |-> IF tries[b] = 0 THEN 0 ELSE age[b] + 1]
  /\ UNCHANGED <<open, tier, answered, late, tries, wait, sent>>

\* Broken variant of Abandoned: one try more.
AbandonedLate(b) == tries[b] > MaxAttempts
Abandoned(b) == tries[b] >= MaxAttempts

\* Broken variant of LeastTried: the order in which incidents were read.
FirstRead(b) == b \in pending /\ ~Abandoned(b)

LeastTried(b) ==
  /\ b \in pending /\ ~Abandoned(b)
  /\ \A c \in pending : tries[b] <= tries[c]

\* _notify_breach: the attempt is counted before the send; what was delivered
\* is recorded if there is a row to update and the update works.
Announce(b, delivered, marked) ==
  /\ at = "announcing" /\ budget > 0 /\ LeastTried(b)
  /\ tries' = [tries EXCEPT ![b] = @ + 1] /\ age' = [age EXCEPT ![b] = 0]
  /\ Works(marked)
  /\ table' = IF delivered /\ marked /\ table[b] # "none"
              THEN [table EXCEPT ![b] = "told"] ELSE table
  /\ sent' = [sent EXCEPT ![b] = IF table'[b] = "told" \/ ~Missed(b)
                                   THEN 0 ELSE @ + 1]
  /\ pending' = pending \ {b} /\ budget' = budget - 1
  /\ UNCHANGED <<open, tier, answered, late, at, wait, blind>>

Outdated(b, aged) == aged[b] > Stale

\* _prune_ledger.
Prune(aged) ==
  /\ tries' = [b \in Breaches |-> IF Outdated(b, aged) THEN 0 ELSE tries[b]]
  /\ age' = [b \in Breaches |-> IF Outdated(b, aged) THEN 0 ELSE aged[b]]

\* Broken variant of Touched: abandoned breaches age.
TouchedWhenTried == {}

\* Deferred and abandoned breaches keep their entries fresh.
Touched == pending

EndPass ==
  /\ at = "announcing" /\ (budget = 0 \/ \A b \in pending : Abandoned(b))
  /\ Prune([b \in Breaches |-> IF b \in Touched THEN 0 ELSE age[b]])
  /\ wait' = Others /\ at' = IF Others = 0 THEN "idle" ELSE "others"
  /\ pending' = {} /\ budget' = 0 /\ blind' = FALSE
  /\ UNCHANGED <<open, tier, answered, late, table, slips, sent>>

\* The passes of other tenants share the ledger and its clock.
OtherPass ==
  /\ at = "others"
  /\ Prune([b \in Breaches |-> IF tries[b] = 0 THEN 0 ELSE age[b] + 1])
  /\ wait' = wait - 1 /\ at' = IF wait = 1 THEN "idle" ELSE "others"
  /\ UNCHANGED <<open, tier, answered, late, table, pending, budget, slips, blind,
                 sent>>

Restart ==
  /\ slips < MaxFaults /\ slips' = slips + 1
  /\ tries' = [b \in Breaches |-> 0] /\ age' = [b \in Breaches |-> 0]
  /\ sent' = [b \in Breaches |-> 0]
  /\ at' = "idle" /\ pending' = {} /\ budget' = 0 /\ wait' = 0 /\ blind' = FALSE
  /\ UNCHANGED <<open, tier, answered, late, table>>

PassStep ==
  \/ \E incidents, history, inserts \in BOOLEAN :
       /\ Possible(incidents /\ history /\ inserts)
       /\ BeginPass(incidents, history, inserts)
  \/ \E b \in Breaches, delivered, marked \in BOOLEAN :
       Possible(marked) /\ Announce(b, delivered, marked)
  \/ EndPass \/ OtherPass

DeskStep ==
  \/ \E b \in Breaches : DeadlinePasses(b)
  \/ \E i \in Incidents : FirstResponse(i) \/ Resolve(i) \/ EscalateTier(i)

Next == PassStep \/ DeskStep \/ Restart

Spec == Init /\ [][Next]_slaVars
-----------------------------------------------------------------------------
(* Properties.                                                             *)

TypeOK ==
  /\ open \subseteq Incidents /\ tier \in [Incidents -> 0..MaxTier]
  /\ answered \subseteq Incidents /\ late \subseteq Breaches
  /\ table \in [Breaches -> {"none", "untold", "told"}]
  /\ tries \in [Breaches -> 0..MaxAttempts] /\ age \in [Breaches -> 0..Stale + 1]
  /\ at \in {"idle", "announcing", "others"}
  /\ pending \subseteq Breaches /\ budget \in 0..Limit /\ wait \in 0..Others
  /\ slips \in 0..MaxFaults /\ blind \in BOOLEAN

\* sla.py:214-224: the retry ceiling holds as long as a breach stays missed,
\* although the passes of other tenants age the ledger the counts are kept in,
\* deferred and abandoned breaches are not tried, and a pass may fail.
RetriesAreCapped == \A b \in Breaches : sent[b] <= MaxAttempts

\* sla.py:161: a breach whose row says "told" is announced again only by a pass
\* that could not read the history.
ToldOnce ==
  [][\A b \in Breaches :
       tries'[b] > tries[b] /\ table[b] = "told" => blind]_slaVars

\* sla.py:368: a pass that runs out of budget has not tried any breach that was
\* tried more often than one it leaves out, so that no backlog starves.
NoBreachOutranked ==
  [][at = "announcing" =>
       \A b, c \in pending :
         b \notin pending' /\ c \in pending' => tries[b] <= tries[c]]_slaVars

\* sla.py:42: a deadline that stays missed is announced, or given up after
\* MaxAttempts failed sends; no pass fails for ever.
EventuallyToldOrAbandoned ==
  \A b \in Breaches :
    Missed(b) ~> (~Missed(b) \/ table[b] = "told" \/ tries[b] = MaxAttempts)
=============================================================================
