------------------------- MODULE MCExecutionRecords -------------------------
(* Instances of ExecutionRecords for TLC; each .cfg gives its own bounds.   *)
EXTENDS ExecutionRecords

CONSTANTS s1, s2, m1, m2

OneScheduler   == {s1}
TwoSchedulers  == {s1, s2}
OneMaintainer  == {m1}
TwoMaintainers == {m1, m2}
=============================================================================
