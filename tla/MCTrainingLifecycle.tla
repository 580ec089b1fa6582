---- MODULE MCTrainingLifecycle ----
EXTENDS TrainingLifecycle
CONSTANTS v1, v2, v3
MCInit == Init /\ defs = v1 /\ stored = [newest |-> v2, older |-> v3]
MCSpec == MCInit /\ [][Next]_vars
====
