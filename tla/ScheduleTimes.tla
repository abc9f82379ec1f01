---------------------------- MODULE ScheduleTimes ----------------------------
(***************************************************************************)
(* When a scheduled task runs, what its scheduler reports as the next run  *)
(* (utils/schedule.py), whether check_celery_status lists it as upcoming,  *)
(* and how long a message may wait in the queue (utils/cron.py and         *)
(* _calc_expire in services/sync.py).  The task is an enabled or disabled  *)
(* PeriodicTask with a start_time, as sync_to_periodic_task creates it.    *)
(*                                                                         *)
(* Time is counted in ticks, Second ticks to a second.  The calendar has   *)
(* minutes, hours and days of any length; day_of_week, day_of_month and    *)
(* month_of_year are "*", which is all that the estimate looks at.         *)
(***************************************************************************)
EXTENDS Integers, FiniteSets, FiniteSetsExt

CONSTANTS
    Second,             \* ticks in a second
    Margin,             \* _CLOCK_SKEW_MARGIN, in ticks
    MaxSkew,            \* ticks between two readings of the clock in one call
    Minute, Hour, Day,  \* in seconds
    Cycle,              \* the execution_cycles in use
    SafetyMargin, MinExpire, MaxExpire,   \* settings, in seconds
    MaxClock,           \* bound: the clock stops here
    MaxQueue,           \* bound: messages in the queue
    MaxEdits            \* bound: requests that change the cycle or the status

ASSUME TickAssumption ==
    /\ {Second, Margin, MaxSkew, MaxClock, MaxQueue, MaxEdits} \subseteq Nat
    /\ MaxSkew < Margin /\ Margin < Second
ASSUME CalendarAssumption ==
    /\ {Minute, Hour, Day} \subseteq Nat \ {0}
    /\ Hour % Minute = 0 /\ Day % Hour = 0
ASSUME ExpireAssumption ==
    {SafetyMargin, MinExpire, MaxExpire} \subseteq Nat \ {0}

\* A field of a crontab with `count` values: "*", "*/n", or a list or range, which
\* Celery refuses if it names a value that the field does not have.
Field(count) ==
    [form : {"any"}]
    \cup [form : {"step"}, n : Nat \ {0}]
    \cup [form : {"list"}, values : (SUBSET (0 .. count - 1)) \ {{}}]

ASSUME CycleAssumption ==
    Cycle \subseteq [kind : {"every"}, seconds : Nat \ {0}]
                    \cup [kind : {"crontab"}, minute : Field(Hour \div Minute),
                          hour : Field(Day \div Hour)]

None == -1   \* last_run_at is NULL

VARIABLES
    clock,
    cycle, enabled, last, start,   \* the PeriodicTask: schedule, enabled,
                                   \* last_run_at, start_time
    queue,    \* its messages: sent, expires (until), and history: whether it was
              \* sent late, and after which edit
    report,   \* history: the last answer of get_next_run_time until that time
              \* comes, whether the task was overdue or had never run, and the runs
              \* since then
    edits     \* changes of its cycle or status so far

vars == <<clock, cycle, enabled, last, start, queue, report, edits>>

NoReport == [time |-> None, overdue |-> FALSE, new |-> FALSE, early |-> 0]

-----------------------------------------------------------------------------
(* Celery's schedules, as the package calls them. *)

Matches(field, v) ==
    \/ field.form = "any"
    \/ field.form = "step" /\ v % field.n = 0
    \/ field.form = "list" /\ v \in field.values

\* A crontab fires when its minute begins.
FiresAt(c, t) ==
    LET s == t \div Second
    IN  /\ t % (Minute * Second) = 0
        /\ Matches(c.minute, (s \div Minute) % (Hour \div Minute))
        /\ Matches(c.hour, (s \div Hour) % (Day \div Hour))

\* The first slot after t; every cycle fires once a day at least.
NextSlot(c, t) ==
    CHOOSE u \in t + 1 .. t + Day * Second :
      FiresAt(c, u) /\ \A w \in t + 1 .. u - 1 : ~ FiresAt(c, w)

\* When a task that last ran at t is due again.
Due(c, t) == IF c.kind = "every" THEN t + c.seconds * Second ELSE NextSlot(c, t)

\* django-celery-beat's ModelEntry: a task that never ran but has a start_time counts
\* as last run thirty years ago, so that it is due at once.
New   == last = None
IsDue == New \/ Due(cycle, last) <= clock

\* A slot has passed since the last run, or since the start of a task that never ran.
IsOverdue == Due(cycle, IF New THEN start ELSE last) <= clock

\* schedule.remaining_estimate, which reads the clock itself; _remaining_from.
RemainingFrom(c, anchor, at) == Due(c, anchor) - at

-----------------------------------------------------------------------------
(* utils/cron.py and services/sync.py. *)

EstimatePeriod(c) ==
    CASE c.kind = "every"        -> c.seconds
      [] c.kind = "crontab" /\ c.minute.form = "any"  -> Minute
      [] c.kind = "crontab" /\ c.minute.form = "step" -> c.minute.n * Minute
      [] c.kind = "crontab" /\ c.minute.form = "list" ->
           CASE c.hour.form = "any"  -> Hour
             [] c.hour.form = "step" -> c.hour.n * Hour
             [] c.hour.form = "list" -> Day

\* Mutant of CalcExpire: the margin is added to the period.
CalcExpireAdds(c) ==
    Max({MinExpire, Min({MaxExpire, EstimatePeriod(c) + SafetyMargin})})
\* Mutant of CalcExpire: no lower limit.
CalcExpireUnclamped(c) == Min({MaxExpire, EstimatePeriod(c) - SafetyMargin})
\* _calc_expire.
CalcExpire(c) ==
    Max({MinExpire, Min({MaxExpire, EstimatePeriod(c) - SafetyMargin})})

-----------------------------------------------------------------------------
(* get_next_run_time, at `now`; skew1 and skew2 are the delays until Celery  *)
(* reads the clock for the first and for the second time.                    *)

\* Mutant of LastRun: the order of the two is swapped.
StartFirst == start
LastRun == IF last # None THEN last ELSE start

FirstGuess(now, skew1) == now + RemainingFrom(cycle, LastRun, now + skew1) + Margin

\* Mutant of Anew: Celery is asked without the margin.
AnewUnpadded(now, skew2) == now + RemainingFrom(cycle, now, now + skew2)
Anew(now, skew2) == now + RemainingFrom(cycle, now, now + skew2) + Margin

\* replace(microsecond=0).
Truncated(t) == t - (t % Second)

\* Mutant of NextRunTime: an overdue run is reported as it is.
NextRunTimeStale(now, skew1, skew2) ==
    Truncated(FirstGuess(now, skew1))
NextRunTime(now, skew1, skew2) ==
    Truncated(IF FirstGuess(now, skew1) <= now THEN Anew(now, skew2)
                                               ELSE FirstGuess(now, skew1))

\* check_celery_status counts what comes after `since`, which it read before it asked,
\* and prints the first ten of what it counts: `ahead` of them are sorted before.
ListLength == 10
Upcoming(time, since) == time # None /\ time > since
Printed(time, since, ahead) == Upcoming(time, since) /\ ahead < ListLength

Report ==
    /\ enabled
    /\ \E skew1, skew2 \in 0 .. MaxSkew :
         report' = [time |-> NextRunTime(clock, skew1, skew2),
                    overdue |-> IsOverdue, new |-> New, early |-> 0]
    /\ UNCHANGED <<clock, cycle, enabled, last, start, queue, edits>>

\* Celery raises (for a date that never comes, say): there is no time, None for
\* check_celery_status.
ReportFails ==
    /\ enabled
    /\ report' = NoReport
    /\ UNCHANGED <<clock, cycle, enabled, last, start, queue, edits>>

-----------------------------------------------------------------------------
(* The actors. *)

Init ==
    /\ clock \in 0 .. Second - 1
    /\ cycle \in Cycle /\ enabled \in BOOLEAN
    /\ last = None /\ start = clock
    /\ queue = {} /\ report = NoReport /\ edits = 0

\* A save that changes the cycle or the status, and the sync after it: the
\* schedule starts again from now; a disabled task has no last_run_at.
Edit ==
    /\ edits < MaxEdits /\ edits' = edits + 1
    /\ \/ cycle' \in Cycle \ {cycle} /\ UNCHANGED enabled
       \/ enabled' = ~ enabled /\ UNCHANGED cycle
    /\ last' = IF enabled' THEN clock ELSE None
    /\ report' = NoReport
    /\ UNCHANGED <<clock, start, queue>>

\* Beat sends a message when the task is due, or later when it was down.
Beat ==
    /\ enabled /\ IsDue
    /\ Cardinality(queue) < MaxQueue
    /\ last' = clock
    /\ queue' = queue \cup {[sent |-> clock, until |-> clock + CalcExpire(cycle) * Second,
                             late |-> New \/ Due(cycle, last) < clock, edit |-> edits]}
    /\ report' = IF report # NoReport /\ clock < report.time - Margin
                 THEN [report EXCEPT !.early = @ + 1] ELSE NoReport
    /\ UNCHANGED <<clock, cycle, enabled, start, edits>>

\* A worker takes a message, and runs it unless it has expired.
Take ==
    /\ \E m \in queue : queue' = queue \ {m}
    /\ UNCHANGED <<clock, cycle, enabled, last, start, report, edits>>

Tick ==
    /\ clock < MaxClock /\ clock' = clock + 1
    /\ report' = IF clock < report.time THEN report ELSE NoReport
    /\ UNCHANGED <<cycle, enabled, last, start, queue, edits>>

Next == Report \/ ReportFails \/ Edit \/ Beat \/ Take \/ Tick

Spec == Init /\ [][Next]_vars

-----------------------------------------------------------------------------
(* Properties. *)

\* Types; in particular no message expires before it is sent.
TypeOK ==
    /\ clock \in Nat /\ cycle \in Cycle /\ enabled \in BOOLEAN
    /\ last \in 0 .. clock \cup {None} /\ start \in 0 .. clock
    /\ edits \in 0 .. MaxEdits
    /\ \A m \in queue : m.sent < m.until /\ m.edit <= edits

\* The shortest time between two slots of a crontab, in seconds.
ShortestGap(c) ==
    Min({NextSlot(c, t) - t : t \in {u \in 0 .. Day * Second - 1 : FiresAt(c, u)}})
        \div Second

\* Cycles whose period is estimated no longer than it is, and is not too short
\* for MIN_EXPIRE_SECONDS.
Spaced(c) ==
    /\ MinExpire <= EstimatePeriod(c) - SafetyMargin
    /\ c.kind = "crontab" => EstimatePeriod(c) <= ShortestGap(c)

\* However long the workers are away, a message has expired when the next one
\* of the same schedule is sent, unless Beat sent it late, or at the creation of the
\* task, and meets the next slot of the crontab soon after (example/settings.py:117: tasks must not pile up in
\* the queue).
ExpiresBeforeNext ==
    \A m, n \in queue :
      m.edit = edits /\ n.edit = edits /\ m.sent < n.sent /\ Spaced(cycle)
        => m.until < n.sent \/ (cycle.kind = "crontab" /\ m.late)

\* A call of get_next_run_time has returned a new answer.
Answered == report' # report /\ report'.time # None /\ report'.early = 0

\* For a crontab the time reported is a slot, and no slot lies between now and
\* it, in spite of the two readings of the clock (utils/schedule.py:5 to 8).
ReportIsNextSlot ==
    [][Answered /\ cycle.kind = "crontab" =>
         /\ FiresAt(cycle, report'.time)
         /\ \A t \in clock + 1 .. report'.time - 1 : ~ FiresAt(cycle, t)]_vars

\* A task does not run before the time reported, except that a run that was due
\* when it was reported is made once: of a task that was overdue (utils/schedule.py:49
\* to 52), or of one that had never run.
NoEarlyRun == report.early <= IF report.overdue \/ report.new THEN 1 ELSE 0

\* check_celery_status leaves out an enabled task whose time it can compute only when
\* ten others come first, or while the run that the time stands for is due: it was less
\* than the margin ago or comes in less than a second.  However late Beat is, a task
\* that is overdue is listed with its next run.
UnlistedIsImminent ==
    [][\A skew \in 0 .. MaxSkew, ahead \in 0 .. ListLength :
         Answered /\ ~ Printed(report'.time, clock - skew, ahead) =>
           \/ ahead = ListLength
           \/ \E t \in {LastRun, clock} : Due(cycle, t) - clock \in 1 - Margin .. Second - 1]_vars

\* "The returned value is guaranteed not to be earlier than now", the docstring
\* at utils/schedule.py:34.
NotBeforeNow == [][Answered => report'.time >= clock]_vars
=============================================================================
