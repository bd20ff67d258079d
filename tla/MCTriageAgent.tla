--------------------------- MODULE MCTriageAgent ---------------------------
(* TriageAgent on small instances.                                         *)
EXTENDS TriageAgent, TLC

CONSTANTS w1, w2, a1, a2, a3

TwoWorkers == {w1, w2}
OneWorker == {w1}
ThreeAlerts == {a1, a2, a3}
TwoAlerts == {a1, a2}
\* All alike: what is kept apart per fingerprint does not interact.
OneFingerprint(a) == "same"
Kinds == {{}, {"noise"}, {"unknown", "noise"}, {"hit"},
          {"odd", "noise"}, {"critical", "unknown"}}
\* "false_positive" stands for both dismissals, which no property tells apart.
ThreeVerdicts == {"false_positive", "true_positive", "needs_investigation"}
OneVerdict == {"false_positive"}
Plain == {{}}
Symmetric == Permutations({w1, w2}) \cup Permutations({a1, a2, a3})
=============================================================================
