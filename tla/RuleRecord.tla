----------------------------- MODULE RuleRecord -----------------------------
(* What is known of a rule, and the risk score it gives an alert           *)
(* (get_rule_label_tiers and get_rule_precedent of the store,              *)
(* _compute_risk_score_bounded of the enrichment).  A reviewer labels a    *)
(* decision; the last label of each recent decision counts, and one of a   *)
(* machine counts less, so that it is enough to know how many of the       *)
(* recent decisions have each label.  A rate is a fraction <<num, den>>.   *)
EXTENDS Integers

CONSTANTS
  MaxDecisions, \* of the rule
  Prior,        \* _SCORE_PRIOR; base_tp_rate is 1/2, unknown_rule_tp_rate 3/4
  MinLabels,    \* min_human_labels
  Share,        \* machine_label_weight is 1/Share
  Cap,          \* machine_label_cap
  MaxFaults

\* What the proofs ask of an instance.
RecordAssumption ==
  {MaxDecisions, Prior, Cap} \subseteq Nat /\ {MinLabels, Share} \subseteq Nat \ {0}

VARIABLES
  count,        \* recent decisions with each human_verdict and human_override
  told,         \* what the last prompt says of the rule
  faults

recordVars == <<count, told, faults>>

NoLabel == [by |-> "nobody", tp |-> FALSE]
Label == [by : {"person", "machine"}, tp : BOOLEAN]
Unknown == <<3, 4>>
AtLeast(p, q) == p[1] * q[2] >= q[1] * p[2]

Init ==
  /\ count = [l \in Label \cup {NoLabel} |-> IF l = NoLabel THEN MaxDecisions ELSE 0]
  /\ told = "nothing" /\ faults = 0

\* apply_human_override: a later review replaces an earlier one.
Review ==
  /\ \E old \in DOMAIN count, new \in Label :
       /\ count[old] > 0 /\ old # new
       /\ count' = [count EXCEPT ![old] = @ - 1, ![new] = @ + 1]
  /\ UNCHANGED <<told, faults>>

\* A decision gets older than the window of days.
Leaves ==
  /\ \E l \in DOMAIN count : count[l] > 0 /\ count' = [count EXCEPT ![l] = @ - 1]
  /\ UNCHANGED <<told, faults>>

\* get_rule_label_tiers.
Hits(by) == count[[by |-> by, tp |-> TRUE]]
Labels(by) == Hits(by) + count[[by |-> by, tp |-> FALSE]]

\* Broken variant of Counted: volume is authority.
AllCounted(n) == n
\* Machine labels are discounted and capped, here in units of 1/Share.
Counted(n) == IF n > Cap * Share THEN Cap * Share ELSE n

Confident(human) == human >= MinLabels

\* Broken variant of Record: machine labels stay in the average.
Averaged(nh, kh, nm, km) ==
  <<2 * Share * kh + 2 * km + Prior * Share, 2 * (Share * (nh + Prior) + nm)>>
\* The rate of a usable record of people.
Record(nh, kh, nm, km) == <<2 * kh + Prior, 2 * (nh + Prior)>>

\* What people and machines say together while people have said too little.
Assisted(nh, kh, nm, km) ==
  LET e == Counted(nm) IN
  <<2 * Share * nm * kh + 2 * km * e + Prior * Share * nm,
    2 * (Share * nm * (nh + Prior) + nm * e)>>

\* smoothed_p.  A record that cannot be read counts as none: the rate is unknown.
Rate ==
  LET nh == Labels("person")   kh == Hits("person")
      nm == Labels("machine")  km == Hits("machine")
  IN IF Confident(nh) THEN Record(nh, kh, nm, km)
     ELSE IF nh * Share + Counted(nm) >= MinLabels * Share
     THEN Assisted(nh, kh, nm, km)
     ELSE Unknown

\* Broken variant of AtError: what could not be read is not there.
SaysNone == "no_history"
AtError == "unavailable"
\* get_rule_precedent, for the prompt.
Precedent ==
  /\ \/ /\ UNCHANGED faults
        /\ told' = IF \E l \in Label : count[l] > 0 THEN "ok" ELSE "no_history"
     \/ faults < MaxFaults /\ faults' = faults + 1 /\ told' = AtError
  /\ UNCHANGED count

Next == Review \/ Leaves \/ Precedent
-----------------------------------------------------------------------------
TypeOK ==
  /\ count \in [Label \cup {NoLabel} -> 0..MaxDecisions]
  /\ told \in {"nothing", "ok", "no_history", "unavailable"}

\* Labels of machines, however many, bring a rule that too few people labelled no
\* further down than Cap observations would (service.py:901).
MachinesAreBounded ==
  Labels("person") < MinLabels =>
    AtLeast(Rate, <<Prior, 2 * (Prior + Cap + MinLabels - 1)>>)

\* Once enough people have spoken, the rate leans the way most of them do,
\* whatever machines said (service.py:920).
PeopleDecide ==
  LET n == Labels("person")  k == Hits("person") IN
  n >= MinLabels => /\ 2 * k > n => ~AtLeast(<<1, 2>>, Rate)
                    /\ 2 * k < n => ~AtLeast(Rate, <<1, 2>>)

\* A prompt says that a rule has no history only if it had none (store.py:2541).
NoneMeansNone ==
  [][told' = "no_history" /\ told # "no_history" =>
       \A l \in Label : count[l] = 0]_recordVars
=============================================================================
