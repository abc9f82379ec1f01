---------------------------- MODULE TriggerTask ----------------------------
(***************************************************************************)
(* What the management command trigger_task sends, and what its --list-all *)
(* says about it, as functions of the options, of the project's static     *)
(* beat_schedule and of the PeriodicTask table, which may hold the tasks   *)
(* of several projects.                                                    *)
(*                                                                         *)
(* A row of the table is [id, name, task, queue, args, enabled], an entry  *)
(* of beat_schedule [task, args, queue], the options of a call             *)
(* [name, task, args, default, queue]: --schedule-name, the positional     *)
(* argument, --args, --use-default and --queue.                            *)
(***************************************************************************)
EXTENDS Naturals, Sequences

CONSTANTS
    None,       \* an option not given, a column that is NULL or ''
    Unreadable  \* text that is not JSON; for --args also JSON that is no array

\* _parse_json of a row's args.  They are an array, which is all that is ever stored by
\* the package, or no JSON: what tuple() makes of other JSON put there by hand is left out.
Parsed(args) == IF args = Unreadable THEN <<>> ELSE args

\* .first() of a queryset without an order: by primary key.
FirstRow(rows) == CHOOSE x \in rows : \A y \in rows : x.id <= y.id

Known(x) == [task |-> x.task, args |-> Parsed(x.args), queue |-> x.queue]

\* _get_schedule_by_name; a name that is not there is a CommandError.
ScheduleNamed(table, name) == {Known(x) : x \in {y \in table : y.name = name}}

\* By task name: beat_schedule, else the table (_get_task_info_from_db), else
\* a warning and nothing known.
ScheduleOf(beat, table, task) ==
    LET entries == {i \in DOMAIN beat : beat[i].task = task}
        rows    == {x \in table : x.task = task}
    IN  IF entries # {} THEN beat[CHOOSE i \in entries : \A j \in entries : i <= j]
        ELSE IF rows # {} THEN Known(FirstRow(rows))
        ELSE [task |-> task, args |-> <<>>, queue |-> None]

Schedules(o, beat, table) ==
    IF o.name # None THEN ScheduleNamed(table, o.name)
    ELSE IF o.task # None THEN {ScheduleOf(beat, table, o.task)}
    ELSE {}

\* _resolve_args: --use-default, else --args, else the schedule's.
FinalArgs(o, args) ==
    IF o.default THEN {args}
    ELSE IF o.args = Unreadable THEN {}
    ELSE {IF o.args # <<>> THEN o.args ELSE args}

FinalQueueOwn(o, queue, own) ==    \* mutant: the schedule's queue is not asked
    IF o.queue # None THEN o.queue ELSE own
FinalQueue(o, queue, own) ==
    IF o.queue # None THEN o.queue ELSE IF queue # None THEN queue ELSE own

\* The messages of one call: one, or none when the command stops with an error.
Sent(o, beat, table, own) ==
    UNION {{[task |-> k.task, args |-> a, queue |-> FinalQueue(o, k.queue, own)] :
              a \in FinalArgs(o, k.args)} : k \in Schedules(o, beat, table)}

-----------------------------------------------------------------------------
(* --list and --list-all, in a project with the registered tasks `local`, a  *)
(* map `queueOf` from the tasks that name a queue of their own, and `model`, *)
(* a map from task names to the scheduler rows of the model of that name.    *)

\* _get_task_queue
TaskQueue(table, queueOf, task) ==
    LET rows == {x \in table : x.task = task}
    IN  IF task \in DOMAIN queueOf THEN queueOf[task]
        ELSE IF rows # {} THEN FirstRow(rows).queue
        ELSE None

\* _get_args_detail: the first argument is taken for the key of a scheduler.
ArgsDetail(model, task, args) ==
    IF task \in DOMAIN model /\ args # <<>> /\ args[1] \in DOMAIN model[task]
    THEN model[task][args[1]] ELSE None

Listed(x, table, local, queueOf, model) ==
    [name     |-> x.name,
     enabled  |-> x.enabled,
     queue    |-> IF x.queue # None THEN x.queue ELSE TaskQueue(table, queueOf, x.task),
     args     |-> Parsed(x.args),
     external |-> x.task \notin local,
     detail   |-> ArgsDetail(model, x.task, Parsed(x.args))]

ListAll(table, local, queueOf, model) ==
    {Listed(x, table, local, queueOf, model) : x \in table}

\* _list_beat_schedule: the entries of beat_schedule.
List(beat, table, queueOf, model) ==
    [i \in DOMAIN beat |->
       [task   |-> beat[i].task,
        queue  |-> IF beat[i].queue # None THEN beat[i].queue
                                           ELSE TaskQueue(table, queueOf, beat[i].task),
        args   |-> beat[i].args,
        detail |-> ArgsDetail(model, beat[i].task, beat[i].args)]]
=============================================================================
