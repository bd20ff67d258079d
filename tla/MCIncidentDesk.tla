--------------------------- MODULE MCIncidentDesk ---------------------------
(* IncidentDesk on small instances.                                        *)
EXTENDS IncidentDesk, TLC

CONSTANTS w1, w2, p1, p2, d1, d2, d3

OneWorker == {w1}
TwoWorkers == {w1, w2}
OneDesk == {p1}
TwoDesks == {p1, p2}
TwoDecisions == {d1, d2}
ThreeDecisions == {d1, d2, d3}

\* d1 is a dismissal held for a human, d2 a true positive, d3 noise.
HeldOne == {d1}
AiVerdict(d) == IF d = d2 THEN "true_positive" ELSE "false_positive"
Rank(d) == IF d = d2 THEN 3 ELSE 1
\* All alerts have the same key.
SameKey(d) == "ip"
SameKeys(d) == {"ip"}

BothVerdicts == {"false_positive", "true_positive"}
OpenOrClosed == {"investigating", "closed"}
Symmetric == Permutations(Workers) \cup Permutations(Desks)
=============================================================================
