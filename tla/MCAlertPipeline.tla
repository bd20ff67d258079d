-------------------------- MODULE MCAlertPipeline --------------------------
(* AlertPipeline on small instances.                                       *)
EXTENDS AlertPipeline, TLC

CONSTANTS r1, r2, w1, w2

OneReplica == {r1}
TwoReplicas == {r1, r2}
OneWorker == {w1}
TwoWorkers == {w1, w2}
TwoAlerts == 1..2
ThreeAlerts == 1..3
SecondAlert == {2}
None == {}

SymReplicas == Permutations(Replicas)
SymWorkers == Permutations(Workers)
=============================================================================
