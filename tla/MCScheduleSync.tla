--------------------------- MODULE MCScheduleSync ---------------------------
(* Instances of ScheduleSync for TLC.                                       *)
EXTENDS ScheduleSync, TLC

CONSTANTS i1, i2, A, B, task1, e1, e2, r1, a, b, c1, c2, bad

OneInstance  == {i1}
TwoInstances == {i1, i2}
OneModel     == {A}
TwoModels    == {A, B}
AllInOne     == [i \in Instance |-> A]
Apart        == [i \in Instance |-> IF i = i1 THEN A ELSE B]
\* Both models use the same task name.
SameTask     == [m \in Model |-> task1]
OneTitle     == {a}
TwoTitles    == {a, b}
OneCycle     == {c1}
TwoCycles    == {c1, c2}
WithBadCycle == {c1, bad}
BadCycle     == {bad}
NoCycle      == {}
Nobody       == {}
OneEditor    == {e1}
TwoEditors   == {e1, e2}
OneResyncer  == {r1}
\* Editors, and titles, are interchangeable: sound for the invariants of a run.
Interchangeable == Permutations(Editor) \cup Permutations(Title)
=============================================================================
