--------------------------- MODULE MCScheduleTimes ---------------------------
(* Instances of ScheduleTimes for TLC: a minute of one second, an hour of    *)
(* three minutes, a day of two hours.                                         *)
EXTENDS ScheduleTimes

Any     == [form |-> "any"]
Step(n) == [form |-> "step", n |-> n]
At(v)   == [form |-> "list", values |-> v]

Every(n)      == [kind |-> "every", seconds |-> n]
Crontab(m, h) == [kind |-> "crontab", minute |-> m, hour |-> h]

\* "@every 2s"; "* *", "*/2 *" (uneven: 0 and 2), "1 *", "1 */2" and "2 0,1" in
\* the first two fields of a crontab.
Cycles == {Every(2), Crontab(Any, Any), Crontab(Step(2), Any), Crontab(At({1}), Any),
           Crontab(At({1}), Step(2)), Crontab(At({2}), At({0, 1}))}
=============================================================================
