# schedule_kit in TLA+

TLA+ modules about `schedule_kit`, the Django/Celery package under `src/src/schedule_kit/`:
scheduler models whose Celery Beat `PeriodicTask` is kept in step by signals, tasks whose
executions are recorded, and (optionally) a projection of those records into the table of a
main project that shares the database. Paths below are relative to that directory unless they
start with `src/`.

`tlc -config X.cfg M.tla` checks one run, `tlapm M.tla` the proofs of a
`*Proofs` module.

## 1. Inventory

| Component | Code | State it keeps | Operations | Modelled in |
|---|---|---|---|---|
| Execution wrapper | `decorators.py` | one `ExecutionRecord` object per running task | create the record, run the task, update metadata, complete, raise | `ExecutionRecords` |
| Durable completion and projection | `recording.py` | local rows: `status`, `end_time`, `main_synced_at` | `finish_record`, `write_main_record`, `retry_pending_main_records` | `ExecutionRecords` |
| Callback | `api.py` | — | `update_record` under a row lock | `ExecutionRecords` |
| Main table transport | `transports.py` | rows of `celery_skdl_executionrecord`, a per-process column cache | `publish`, `cleanup` | `ExecutionRecords` (rows), `MainTableColumns` (cache) |
| Maintenance | `tasks/maintenance.py` | the local variables of a run | timeout, retry, prune by age, prune by count | `ExecutionRecords` |
| Source isolation | `recording.py` (`own_records`, `is_foreign_record`, `scheduler_identity`), `decorators.py` (lookup, metadata) | the settings of each project, the `task_model` prefix | filters every query, refuses a project without a name | `SharedProjects` |
| Main rows of a `PeriodicTask` | `signals.py:106` | — | deletes them before the `PeriodicTask` | `SharedProjects` |
| Schedule synchronisation | `signals.py`, `services/sync.py`, `models/base.py` | scheduler rows with their `task`, `_old_execution_cycle` on the object, `PeriodicTask` rows and the rows of their schedules | save, delete, `resync_all`, `get_or_create_schedule` | `ScheduleSync` |
| Cycle syntax | `utils/cron.py` | — | parse, validate | not modelled |
| Expiry and next run | `utils/cron.py`, `_calc_expire`, `utils/schedule.py` | — | `estimate_period_seconds`, `_calc_expire`, `get_next_run_time` | `ScheduleTimes` |
| Messages | `messages.py`, `locale/` | the message columns of both tables | render, make safe, store, resolve | `ExecutionMessages` |
| Configuration | `conf.py`, `apps.py` | settings | read | constants of the modules |
| Serializers, views, filters | `serializers/`, `views/`, `filters.py` | — | validate, present | not modelled |
| `trigger_task` | `management/commands/trigger_task.py` | — | choose and enqueue a task by hand, list what could be | `TriggerTask`, used by `SharedProjects` |
| `check_celery_status` | `management/commands/check_celery_status.py` | — | read-only diagnostics | its upcoming list, in `ScheduleTimes` |
| Migrations | `migrations/` | schema | guard of the integer migration | not modelled |

How they interact. Beat enqueues a task; a worker runs the wrapper, which inserts a local record,
calls the business function and completes the record. An asynchronous task leaves the record
`pending` and an external agent calls `update_record` later: at any time, more than once, or never.
Both paths, and a periodic maintenance task that times out abandoned records, end in
`write_main_record`, which takes a row lock, inserts into the main table and sets
`main_synced_at`, all in one transaction. The count and age limits of the main table are then
applied in a second transaction. Workers, agents and maintenance share no memory: they meet in
the local table only. On the other side, a save of a scheduler commits its row and then, in the
`post_save` handler, works on the `PeriodicTask` one statement at a time, while other requests,
Beat, the admin and `resync_all` work on the same two tables.

What makes a component correct:

* records: an execution has one outcome, the first; the main project hears it once, and hears the
  one that is stored; nothing is deleted unheard; every record ends, whoever dies;
* several projects: each works on its own records, whatever the settings were and become; a run by
  hand runs what it was asked to; a deletion leaves no main row behind and loses no outcome;
* messages: a reader sees the message that decided the outcome, in a language of his, the same in both
  tables;
* retention: what goes is older than what stays; the main table stays near its limit;
* main table's columns: the main project may migrate its table while workers run; the message columns
  are written soon after they appear, and a rollback stops nobody;
* times: what waits in the queue expires before the next run is sent; the reported next run is the one
  that comes;
* synchronisation: one `PeriodicTask` per scheduler and it says what the scheduler says; nobody's
  task is removed while it is used; a restarted schedule starts from now; whatever goes wrong on
  the way is repairable by `resync_all`.

Hard behaviours: races between worker, callback and timeout; a crash between two statements;
a failed publication that only logs; stale Python objects written back whole; snapshots used by
later deletions; two uniqueness rules (title per table, name over all) that disagree, and a table of schedules
with none; settings that change while records are open; records that learn whose they are when their task
returns; tables shared by projects, and task names by models, with the same ids.

## 2. Modules

| Module | Content |
|---|---|
| `ExecutionOutcome` | what the records promise, with no tables and no actors: create, decide, deliver, forget |
| `ExecutionRecords` | workers, callbacks, maintenance runs, local and main table |
| `MCExecutionRecords` | its instances for TLC |
| `ExecutionRecordsProofs` | its theorems |
| `TriggerTask` | what `trigger_task` sends and lists, as functions of options, settings and table |
| `SharedProjects` | several projects on one database, with `TriggerTask` and the deletion of `PeriodicTask`s |
| `MCSharedProjects` | its instance for TLC |
| `SharedProjectsProofs` | its theorems |
| `MainTableColumns` | publications, the column cache of each process, migrations of the main table |
| `MainTableColumnsProofs` | its theorems |
| `ExecutionMessages` | the texts of a record, composed with the publications of `MainTableColumns` |
| `MCExecutionMessages` | the instance of both for TLC |
| `ExecutionMessagesProofs` | its theorems |
| `ScheduleSync` | editors, `resync_all`, bypassing writes and Beat on the scheduler and `PeriodicTask` tables |
| `MCScheduleSync` | its instances for TLC |
| `ScheduleSyncProofs` | its theorems for any concurrency |
| `ScheduleAlignmentProofs` | its theorems for writers that do not overlap |
| `ScheduleTimes` | one task's schedule, its messages in the queue, and the time reported as its next run |
| `MCScheduleTimes` | its instance for TLC |
| `ScheduleTimesProofs` | its theorems |
| `NumberLemmas` | least numbers, division and remainders, for the proofs |

### ExecutionRecords

One step is one committed transaction of one actor. `local` is the table
`schedule_kit_executionrecord`, `main` the rows of the main table, `mainId` its id sequence and
`sent` a history variable of every INSERT that ever committed there. A worker is a pair
`pc[r]`, `obj[r]`: `obj` is the Python object of the wrapper, whose `pk` may be `None` and whose
identity may be ahead of the stored row. A maintenance run keeps the snapshots the code keeps:
`mnow`, the cursor `mtodo`, the list of groups `mgroups` and `mkeep` (`keep_ids`).

* `Start`, `Insert`, `InsertFails` — resolve the scheduler, `record.save(force_insert=True)`; a
  failed insert continues with `pk = None`, or raises with `require_record`.
* `Raises`, `Returns`, `ReturnsInstance` — the business function; its result decides whether the
  record becomes `pending`, `success` or `fail`, and whether `Metadata` rewrites the identity.
* `Finish`, `FinishFails`, `FinishWithoutRecord` — the guarded UPDATE of `finish_record`.
* `Publish`, `PublishDeferred`, `PublishFails`, `CleanMain`, `CleanMainFails` — `write_main_record`.
* `Callback` — the whole of `update_record`: it runs in one transaction, so the nested
  completion and publication are savepoints, and `UpdateRecord` enumerates which of them failed.
* `MaintStart` … `MaintDone` — `cleanup_execution_records` statement by statement.
* `Crash`, `MaintAbort` — a process dies. `Tick` — time passes.

Data that is abstracted: `task_model` and `task_id` are one value of `Scheduler`, and
`NoScheduler` is the identity without a source prefix; a missing `created_by` is membership in
`Owned`; messages and titles are left out. A transaction that fails, for any reason, is a step that
spends a unit of `MaxFaults`.

### SharedProjects and TriggerTask

`ExecutionRecords` is one project and asks how several actors race for a record; `SharedProjects` is
several projects and asks whose record it is. A record is here a row with a source prefix, a scheduler,
a status and two marks, and every transaction of `ExecutionRecords` is one step: `Take`, `Insert`,
`Metadata`, `Finish`, `Leave`, `Callback`, `Publish`, `TimeOut`, `Prune`. Its `msg` are the messages in the
queues, sent by `Beat` or by `Trigger`, which is `trigger_task` with any of the options in `Option`; `Sent`
of `TriggerTask` says which message that is. `Discard` is a worker that gets a message it does not know, or
whose project shares its records under no name.

Schedulers belong to models, and models to projects (`ModelOf`, `AppOf`). Ids are unique in a model, and
nothing else is: several models, of one project or of several, may share a task name. `ModelFor` is the
model a worker looks in (the `scheduler_model` a task is `Declared` with, else the only model of that name),
`Mapped` the one `--list` looks in (the last of that name). In `Take` the lookup of the first argument
finds the scheduler (`Resolved`), or nothing, or fails and is taken for nothing; the record is made in each case,
without a source if no scheduler is known. `Metadata` is the UPDATE after the task has
returned a scheduler, any of its project, whatever it was called with: it gives the record that identity, with
the source as the settings have it, in whatever state others have brought it to.

Deleting a `PeriodicTask` is a transaction of three steps, because publications and new records come in
between: `DeleteStart` runs the `pre_delete` handlers, which remove the main rows that refer to it;
`SetNull` clears the references of the local table, and holds the locks of those rows until the end
(`Unlocked`: who wants to write one waits); `DeleteCommit` removes the row, alone or with its scheduler, and
makes all of it visible. `DeleteRefused` is its rollback, when either foreign key still finds a row that has come
meanwhile. `Switch` restarts a project with shared recording switched on or off, and kills what its
workers were at. `owner`, `by`, `intended` and `inserts` are history: who ran a record, who changed it last
while it carried a source, which scheduler a message was sent for, and how often a main row was written.

`TriggerTask` is a module of functions: `Sent` for the messages of a call (none when the command stops
with an error), `List` and `ListAll` for what `--list` and `--list-all` print of queue, arguments and
scheduler. Schedule expressions, keyword arguments and signatures are printed only, and left out. The `args`
of a row are a JSON array, as all rows the package writes hold, or no JSON at all; what `tuple()` makes of other
JSON that somebody put there is left out.

### MainTableColumns

The inside of `DbTransport.publish`, which `ExecutionRecords` takes as one INSERT that succeeds or
fails. `cache` is `_main_columns_cache` of each process, shared by its threads; `asked` and `with`
are the locals `now` and `with_i18n` of the thread that publishes a record. `Ask` is the look into
the cache, `Detect` and `DetectFails` the introspection, `Insert` the INSERT, `InsertRefused` its
refusal for want of a column or a table, with `_forget_main_columns`, and `InsertFails` any other
failure, the saving of the sync marker after it included. `AskFails` is the `TypeError` of a thread whose cache
is forgotten by another one between two of the three places that read it. The main project's `Migrate` may come
between any two of them, except after an introspection: on PostgreSQL that reads the table, and
holds it until the transaction ends. A publication that failed is `waiting` for the next callback
or maintenance run. What is written, and that it is written once, is the matter of
`ExecutionRecords`; here only the set of columns is.

### ExecutionMessages

`MainTableColumns` with the texts. `status` is the record's, with one `closed` for both outcomes;
`cols` its columns `message`, `message_code`, `message_params` and `message_i18n`; `mainCols` what
`DbTransport.publish` wrote of them; `told` is history, the message that decided. `Pend` and `Complete`
are `finish_record` with a message of the task, of its agent or of maintenance, `MPublish` a step of a
publication, which begins once the record is closed.

A language is the sequence of the parts of its code, so that its primary language is a prefix. A text is
what matters of it: which message, in the words of which catalog, with which values; `Catalog` gives
for each message its translations and which values each of their placeholders can format, so that a
text can fail to format in one language and not in another. `Found` is the catalog loader without
Django's fallback to `LANGUAGE_CODE`, `Safe` the replacement of parameters that are not JSON,
`Resolve` what the serializer shows. The limit of 4000 characters and the syntax of codes are left
out, and the module takes the languages and catalogs as they are at the start of the process.

### ScheduleSync

One step is one autocommitted statement, or the reads right before it. `row` holds the scheduler
tables of all models, `pt` the `PeriodicTask` table, `mem[a]` the Python object an editor or one
turn of `resync_all` works on. `Create`, `Load`, `Save`, `SaveFails`, `Destroy` are the requests;
`GetSchedule` and `InsertSchedule` the two statements of
`get_or_create_schedule`, `SyncCreate`/`SyncLink` and `SyncRead`/`SyncWrite` the two branches of
`sync_to_periodic_task`, each with the failure the database can answer; `ResyncScan`, `ResyncOrphans`, `ResyncQuery`,
`ResyncNext`, `ResyncDone` the parts of `resync_all`, which calls the same sync. `BulkWrite`,
`TaskToggle`, `TaskDelete` and `Beat` are what happens behind the signals' back.

The uniqueness of `title` per table, of `PeriodicTask.name` over all, the OneToOne column and
`SET_NULL` are modelled by what the database does (`TitleTaken`, `NameTaken`, `LinkRefused`,
`DeleteTasks`). `schedules` counts the rows of `CrontabSchedule` or `IntervalSchedule` for a cycle, of which
there may be several, as no constraint forbids it; with several `GetScheduleFails`. A crontab and an
`@every` are values of `Cycle` (the time zone stays what it is); those that cannot be split, or their expiry not
estimated, are `Unestimable`. `last_run_at` is `never`, `ran` or `reset`. Scheduler
tables of other projects, whose foreign keys `get_referenced_periodic_task_ids` also finds, and edits
of the schedule rows in the admin are not in the model.

### ScheduleTimes

`EstimatePeriod`, `CalcExpire` and `NextRunTime` are the functions of the package, on a calendar whose
minutes, hours and days have any length. `Report` is a call of `get_next_run_time`: Celery reads the
clock again inside it, up to `MaxSkew` ticks later, once or twice. `ReportFails` is a call that raises. `Upcoming` is the
filter with which `check_celery_status` counts a task, by a clock it read before the call, and `Printed` the
first ten of what it counts. Around it, `Beat` sends a message
when the task is due, or later; `Take` is a worker, `Edit` a save that changes cycle or status.

Celery's schedules are modelled from how the package uses them (`FiresAt`, `Due`). `day_of_week`,
`day_of_month` and `month_of_year`, which the estimate ignores, are `*`, and time zones are left out.
A task that never ran but has a `start_time`, as all tasks of the package have, counts for django-celery-beat
(>= 2.5, `src/pyproject.toml:15`) as last run thirty years ago (`New`): it is due at once. Messages expire when the clock is past `until`, as a worker
revokes them. Whether the same restart rule is right under races is the matter of `ScheduleSync`.

## 3. Runs

Passing runs:

| Run | Question | Bounds |
|---|---|---|
| `records_shared` | exactly-once publication, agreement, retention and main limit under failures anywhere | 2 executions of one scheduler, both count limits 1, one maintenance run at a time, 2 failures, the clock stands still |
| `records_outcome` | is the system, seen as outcomes, `ExecutionOutcome`; is every record closed and every complete outcome delivered? | 1 execution, 2 overlapping maintenance runs, 2 schedulers (one without owner), 1 failure, clock 0..1, the first insert may fail softly |
| `projects` | whose record is it, does a run find what it was sent for, how often is it written, and is everything closed, published and deleted in the end? | 3 projects, one without a source, and 5 models; 3 schedulers with the same task name and id, two of them in models of one project, one disabled; the two with a source restarted with other settings, twice in all; one `PeriodicTask` deleted; a task with two entries in `BEAT_SCHEDULE`, one without a queue; 11 ways to call `trigger_task`, one call; one message and record, limit 0 |
| `sync_steady` | do the signals alone keep the tables aligned, and does `resync_all` repair them? | one writer at a time, 2 schedulers, 2 titles, 2 cycles, 3 requests, 1 bypassing write, 1 dying sync, Beat runs each task once |
| `sync_races` | what can concurrency never break? | 2 editors, `resync_all`, 2 models with the same task name, 1 title, a cycle the sync rejects, 2 requests, 1 bypassing write |
| `sync_heals` | do repeated runs heal everything in the end? | 2 schedulers, 2 titles, 1 editor beside `resync_all`, 2 requests, 1 bypassing write |
| `main_columns` | does a process notice a migration, and a rollback, of the main table in time, and do readers see the message that decided? | 1 process with 2 threads, cache lifetime 1, clock 0..3, 3 migrations, 1 failure or restart; 4 messages for one record (coded, one translated to a placeholder of its own, one not JSON, one plain), a plain one for the other; English and Chinese, a Chinese worker, 4 readers |
| `times` | do messages expire in time, and does the report come true? | a second of 3 ticks with a margin of 2 and a skew of 1; a minute of 1 second, an hour of 3 minutes, a day of 2 hours; 6 cycles, of every branch of the estimate; 17 ticks, all but the last one of a day; 2 messages, 1 edit |

Why the bounds are enough. Records of different executions meet only in the limits and groups of
retention, so two executions and a limit of one reach every order in which one is kept and the
other goes; a third actor on one record is the callback, which every configuration has without a
bound. The age limits and the
timeout look at one row at a time, so the clock only moves in the runs with one execution. With two
failures a retry can fail too; for any number of failures the safety properties are theorems
(section 5). Two schedulers are enough for a name or
title collision and for a title that goes from one to the other, three requests for enabling a task again
after a pause, two syncs of one cycle for a schedule that is inserted twice; the ids of `PeriodicTask` are never reused, and `MaxTask` is above what the requests and
bypassing writes can create (a run that reached it would stop, and TLC report the deadlock).

Processes share nothing but the main table, so one is enough for its cache, and two threads to fill and
clear it behind each other's back; three migrations reach extension, rollback and extension again, and
the clock outlives the cache twice. The second record says one thing only: the messages of different
records do not meet, their publications do.

In `projects`, one message and one record do: messages do not meet before they are taken, and records meet only in
the count limit of retention, which `records_shared` has with two. The limit 0, which the tests use too
(`src/tests/test_recording.py:415`), lets a published record go at any time after its publication. That each
project does so by its own settings needs three of them, with and without a name, sharing or not. One call by
hand per behaviour suffices, as calls leave nothing behind but a message. The safety properties of this run are
theorems for any number of records, calls and switches. `AskedDeletionSucceeds` does not lean on the number of
records: its premise says when new rows stop.

The unshared case of `ExecutionRecords` has no run of its own: `RecordsImplementOutcome` proves
`Implements` for every value of `Shared`, and `OwnEventuallyClosed` of `projects` checks that the
records of a project that does not share are closed as well, also after the setting changed.

In `times`, 17 ticks hold a report in every phase of the day, the first run of a new task, which is at once, and a
second run after a late one;
`ExpiresBeforeNext` compares two messages, so the queue holds two.

`sync_races` uses symmetry on editors and titles; it checks invariants only.

What `sync_heals` allows to stay broken is `Unmendable`, and each part of it happens in the code: a cycle with
two schedules, after which every sync of it raises; a cycle that cannot be handled; and a
title that a bulk update or a save handed from one scheduler to another, which collides with the name of the
`PeriodicTask` not yet renamed, so that `resync_all` aborts each time it comes there first. `ResyncAligns`
speaks of a run that completes. Syncs that die half way are left to `sync_steady`.

`sync_titles` sets `CHECK_DEADLOCK FALSE`: without `resync_all` the system comes to rest when the
requests are used up. `main_columns` sets it because the model rests when everything is written and
the bounds are used up, `projects` because messages and executions are bounded and a system that has
run and pruned them all is at rest, and the two `times` runs because the
clock is bounded. The others never
stop.

Fairness. `records_outcome` assumes that time passes and that a maintenance run that can move moves: Beat enqueues the task periodically and a worker takes it.
Nothing is assumed of workers, agents or the business function; failures stop because `MaxFaults`
bounds them, which is the reading "the database is up long enough once". `sync_heals` assumes that
a request that was started is carried out and that `resync_all` is run again and again
(`src/README.md:163` offers it for recovery); nobody has to make another edit.

`main_columns` assumes that a publication which is not yet written is tried again and carried on, and a
record that nobody completes is completed, which is what `records_outcome` shows of maintenance;
nothing is assumed of the main project.

`projects` assumes maintenance in every project (`TimeOut`, `Publish`), each as one step here, and that
the transaction of a deletion ends; nothing of workers, agents, Beat or operators. The two maintenance steps
of a record wait for the row locks of deletions and are therefore enabled again and again rather than
always: strong fairness is what the database's queue of waiting transactions gives them. One deletion that fails can be followed by another one that
fails, as long as Beat goes on and each time a new record, or a publication, comes into its window: the code
has nothing against that. `AskedDeletionSucceeds` therefore has the premise that from some time on no new row refers
to the `PeriodicTask` (its schedule is disabled, say, and what ran is published), and shows that the old rows
are no obstacle then, for an operator who keeps asking.

Violation runs, each a disagreement between code and text:

| Run | Text | Code |
|---|---|---|
| `records_count_limit` | `tasks/maintenance.py:37`: the newest are kept | a record that becomes eligible between `keep_ids` and the DELETE is deleted though it is newer |
| `sync_in_use` | `services/sync.py:135`: a referenced `PeriodicTask` is never deleted | `in_use_ids` is a snapshot; a link made after it is not seen |
| `sync_titles` | `src/mds/base_model.md:13`: title is globally unique | unique per concrete model; the second scheduler is stored without a task |
| `times_past` | `utils/schedule.py:34`: the returned time is never before now | the fraction of the second is cut after the comparison with now |

## 4. Properties

Records: `PublishOnce`, `MarkerIffSent`, `SentIsOutcome`, `NothingLost`, `MainGroupBound` (the main
table exceeds its limit at most by the cleanups still to come and the failures so far; those count every
failed statement, so the bound is looser than the cleanups that failed),
`FirstOutcomeStands`, `Implements`, `EventuallyClosed`, `EventuallyDelivered`. A record whose
identity is incomplete, or that has no scheduler in a shared project, is outside the last two: the
code defers it for ever and logs so (`own_records` excludes it from the timeout as well).

Several projects: `Isolation`, `RunsIntended`, `ListTellsTheRun`, `PublishedOnce`,
`OwnEventuallyClosed`, `EventuallyPublished`, `AskedDeletionSucceeds`.

`Isolation` is about a record while it carries a source: one that was written without, for good or until its
task returns, is taken by callbacks of every project and by the maintenance of those that do not share, and
may be closed when its metadata come. `PublishedOnce` counts the INSERTs of a record, also after its main row
was removed with the `PeriodicTask`. `InScope` names the records `OwnEventuallyClosed` is about; a project that
switches shared recording on leaves the ones it wrote before without a prefix behind
(`src/mds/integration.md:400` says they belong to nobody's maintenance; by line 397 an unshared neighbour takes
them). `Identified` of `EventuallyPublished` is the whole identity that `write_main_record` asks for, the
`created_by` included.

`RunsIntended` is about runs by Beat and under the name of a `PeriodicTask` that override nothing, and allows
for a scheduler that was deleted in between and for a lookup that failed. A call by the name of a task is
nobody's in particular: it takes the first row of that name, of any project. Where models share a name,
`RunsIntended` speaks of tasks that are declared for the model of the scheduler or for none. The condition is
needed: `src/mds/integration.md:318` asks for an explicit `scheduler_model` there, and once the task has one, a run
of the other model is recorded as that of the declared model's row with the same id, if there is one
(`decorators.py:28`).

`ListTellsTheRun` is about rows and entries that name a queue, as all rows the package writes do: without
one the lists show the queue of the task's declaration and the command sends to the project's queue. And
it is about the first entry of each task in `BEAT_SCHEDULE` (`Reached`): `--list` prints the later ones
too, but the command, which is given a task's name, takes the first. The scheduler shown is the worker's
where both look in the same model (`Finds`): with a name that models share, the list looks in the last of
them and the worker in the declared one, or in none.

Messages: `OutcomeIsShown`, `InReadersLanguage`, `MainShowsTheSame`, and `ImplementsColumns`, the
refinement that makes this a composition: with the messages hidden, every behaviour is one of
`MainTableColumns`, fairness included.

Main table's columns: `LegacyIsRecent` (the text at `src/mds/settings.md:102`: five minutes at most;
measured at the moment a publication asks, since its transaction may take its time afterwards),
`RefusedOnce` (the comment at `transports.py:111`), `EventuallyWritten`. The converse of
`LegacyIsRecent` does not hold and is not promised: after a rollback a cached "yes" costs one refused
INSERT, which is rolled back and retried.

Synchronisation: `SignalsMaintain`, `RestartsFromNow`, `OneSchedulerPerTask`,
`ReferencedNeverRemoved`, `ResyncAligns`, `ResyncHeals`. `RestartsFromNow` says both that
the schedule restarts where it should and that nothing else restarts it. The first two hold while nothing
bypasses the signals and no sync dies. Afterwards they need not: `resync_all` aligns, but it finds no
`_old_execution_cycle` on the instances it loads, so a cycle changed by `queryset.update` takes
effect with the old `last_run_at`.

Times: `ExpiresBeforeNext`, `NoEarlyRun`, `ReportIsNextSlot`, `UnlistedIsImminent`, and `NotBeforeNow`,
which fails. `NoEarlyRun` allows before the reported time the one run that was due when it was reported. That
includes the first run of a new task: it is made at once, while the time reported, "the next scheduled run
time" of `src/src/schedule_kit/utils/schedule.py:31`, is the slot after its start. `UnlistedIsImminent` bounds what
`NotBeforeNow` means for the reader of
`check_celery_status`: a task whose time can be computed is missing from the printed ones while its run is due,
or because ten others come first. `ExpiresBeforeNext` leaves out what the code cannot give: cycles shorter
than `MIN_EXPIRE_SECONDS`, cycles whose estimate is above their shortest gap (`*/7`, or a list such as
`0,30`), and a slot that follows soon after a late run or the first one of a new task. That the margin is
subtracted is what the formula in `src/mds/settings.md:46` says; the table above it, line 34, says it is added.

`TypeOK` of `ScheduleSync` also relates the program counters to what an actor holds, that of
`MainTableColumns` what a transaction has introspected to the table.

More observations from building the model, which no run states as a property: `finish_record` sets `end_time` with
every completion, also a `pending` one, which `src/README.md:115` describes as empty; `pt.save()` writes
all columns of a `PeriodicTask` fetched earlier and can take back an execution that Beat counted in
between; two syncs of a new cycle can both insert its schedule, as no constraint forbids it, after which
every `resync_all` of a model with that cycle raises there, although it is offered for recovery
(`services/sync.py:132`); a new time zone changes the crontab without restarting the schedule; a main table that is missing makes
`_delete_main_records` raise, so that no `PeriodicTask` can be deleted in a project that shares its
records; a timeout names the status the record had when the loop read it, which may have changed since
(`tasks/maintenance.py:25`); `src/README.md:215` gives `trigger_task` UUIDs where the keys are integers;
and `src/mds/base_model.md:18` says of the column `task` CASCADE where the code has SET_NULL.

## 5. Proofs

`ExecutionRecordsProofs` proves, for any number of executions, schedulers and maintenance runs, any
limits and any bounds on clock and failures, from the assumptions `CountsAssumption`,
`FlagsAssumption` and `SchedulerAssumption` of `ExecutionRecords`:

| Theorem | Statement |
|---|---|
| `TypeCorrect` | `Spec => []TypeOK` |
| `NeverPublishedTwice` | `Spec => []PublishOnce` |
| `MarkerIsTrue` | `Spec => []MarkerIffSent` |
| `MainAgreesWithLocal` | `Spec => []SentIsOutcome` |
| `RetentionLosesNothing` | `Spec => []NothingLost` |
| `FirstOutcomeIsFinal` | `Spec => FirstOutcomeStands` |
| `RecordsImplementOutcome` | `Spec => Implements` |
| `MainStaysBounded` | `Spec => []MainGroupBound` |

The argument. Type correctness needs one fact that is not about types: a worker that is about to
complete its record knows the outcome (`OutcomeKnown`); `Typed` is the conjunction. None of the
four safety invariants is inductive alone: that a second INSERT is impossible rests on the marker
telling the truth, that on rows coming to life unpublished (`IdsAreFresh`), and that a published
result stays true on terminal statuses being final. `IInv` is their conjunction. Rather than taking
every conjunct through every action, each action is first shown to have one of five effects on a
record — nothing, created, closed, delivered, dropped (or closed and delivered, in a callback) — in
`WorkerEffect` and `MaintEffect`; `EffectSafe` shows once that these effects preserve `IInv`, and
`EffectRefines` that each is a step, or a stutter, of `ExecutionOutcome`.

`MainStaysBounded` counts. `RankBounds` is the OFFSET of `DbTransport.cleanup`: rows with distinct ids
have distinct ranks by (`start_time`, `id`), so at most `MainKeepCount` of them have a rank below it. The
invariant `Counted` therefore carries that the ids of the main table are distinct and behind their
sequence, and that the table and the set of runs about to clean are finite (no number of maintenance
runs is assumed). A group has `Room` for its limit, the cleanups to come and the faults; each step is
shown to have one of four effects (`MainEffect`): the rows stay and no room is lost, a row comes with
room of its own, a group is cut down to its limit, or both, in a callback.

`MainTableColumnsProofs` proves, for any number of processes and publications, any cache lifetime and
any bounds, from `NatAssumption` and `ProcessAssumption` of `MainTableColumns`:

| Theorem | Statement |
|---|---|
| `ColumnsTypeCorrect` | `Spec => []TypeOK` |
| `LegacyWritesAreRecent` | `Spec => []LegacyIsRecent` |
| `RolledBackColumnsRefuseOnce` | `Spec => RefusedOnce` |

The strengthening speaks of the cache: a cached "no" expires no later than TTL after the columns were
last missing (`NoIsRecent`), because its expiry counts from before the introspection; and a
publication that was refused finds no cached "yes" in its process as long as the table stays
(`RefusedForgets`), because a thread can only put one there by seeing the columns.

`SharedProjectsProofs` proves, for any number of projects, schedulers, records and options, from
`BoundAssumption`, `SettingsAssumption`, `BeatAssumption`, `ModelAssumption` and `SchedulerAssumption` of
`SharedProjects`:

| Theorem | Statement |
|---|---|
| `ProjectsTypeCorrect` | `Spec => []TypeOK` |
| `RecordsStayIsolated` | `Spec => []Isolation` |
| `RunsAreIntended` | `Spec => RunsIntended` |
| `RecordsArePublishedOnce` | `Spec => []PublishedOnce` |
| `ListsTellTheRun` | `Spec => []ListTellsTheRun` |

The assumptions that carry them are what the documents ask of the operators, names and queues unique to a
project, and what the database gives, a key unique in its model; nothing is assumed of task names. `IInv` adds
what the theorems rest on: a record has no main row before it exists (`New`); a prefix is that of the project
that took the message, whatever its settings are now and whenever it was written, as `Metadata` and `Take` both
take it from there (`Owned`); every INSERT has left its marker on the local row (`Marked`); and a message in a
queue says what it was sent for (`Told`). `PublishedOnce` follows from `Marked`: an INSERT needs a row
without a marker, nothing ever clears one, and so none comes after the first. `RunsAreIntended` follows from
`Told`: where the worker looks in the model of the scheduler, the key finds that one or nothing, and where it
looks in none, nothing. That `.first()` returns a row of the table at all needs a smallest key, which
`NumberLemmas` takes from the library's well-founded induction. `ListTellsTheRun` compares three lookups that
the code makes apart: the list's table of rows by task and key (`DetailIsResolved` shows that it names the row a
worker finds, if both look in one model), the choice of the row or entry that the command sends
(`AskedSends`), and the printed queue and arguments (`ListAllTells`, `ListTells`).

`ExecutionMessagesProofs` proves, for any catalog, languages and messages, from the assumptions of
`MainTableColumns`, `CatalogAssumption` and `MessageAssumption`:

| Theorem | Statement |
|---|---|
| `MessagesImplementColumns` | `MSpec => Spec` of `MainTableColumns` |
| `MessagesLegacyIsRecent` | `MSpec => []LegacyIsRecent` |
| `MessagesTypeCorrect` | `MSpec => []MTypeOK` |
| `ReadersSeeTheOutcome` | `MSpec => []OutcomeIsShown` |
| `ReadersSeeTheirLanguage` | `MSpec => []InReadersLanguage` |
| `BothTablesAgree` | `MSpec => []MainShowsTheSame` |

The first is the composition: it carries the theorems of `MainTableColumnsProofs` over. The others
follow from `MInv`: the columns are those of the message that decided (`Decided`), and a main row is a
copy of them in the columns it has (`Copied`), which holds for good because a closed record's columns
no longer change.

`ScheduleSyncProofs` proves, for any number of models, instances, editors and runs of `resync_all`, with
or without bypassing writes and dying syncs, from `BoundsAssumption` and `ModelAssumption` of
`ScheduleSync`:

| Theorem | Statement |
|---|---|
| `SyncTypeCorrect` | `Spec => []TypeOK` |
| `OneTaskPerScheduler` | `Spec => []OneSchedulerPerTask` |

The OneToOne column only protects one table: two models, or a stale object saved after its row was
linked anew, could still meet in one `PeriodicTask`. The argument is that the id of a `PeriodicTask` is a
claim that never changes hands (`Claims`): a row, an object in a request or a turn of the loop that
holds it holds it for the instance it was created for, however old the copy (`NoneShared`), because ids are not
used twice (`NoneAhead`). So a write-back, even one that brings a deleted `PeriodicTask` back,
gives it the task name of that instance (`NoneWrong`), and the foreign key keeps it while a row refers
to it (`NoneGone`). `HeldSafe` shows once that a step which only passes claims on keeps all four;
`SyncCreate` is the one step that makes a new one.

`ScheduleAlignmentProofs` says what those modules keep when writers do not overlap. Its hypotheses are
stated with each theorem, and each is needed: a run of section 3, or a row of this table, says what
happens without it.

| Theorem | Statement | Hypothesis |
|---|---|---|
| `ResyncAlignsModel` | `Spec => ResyncAligns` | `Exclusive`: while a `resync_all` is at work nobody else writes |
| `ReferencedStays` | `Spec => ReferencedNeverRemoved` | `Exclusive`; without it `sync_in_use` refutes it |
| `SignalsMaintainTasks` | `Spec => []SignalsMaintain` | `Orderly`: `Exclusive`, one editor, schedulers of one model (else `sync_titles`), cycles that can be estimated (else the handler raises, and leaves a scheduler without a task) |
| `EnabledRestartsFromNow` | `Spec => RestartsFromNow` | `Orderly` |
| `OneScheduleOfEach` | `Spec => [](\A c \in Cycle : schedules[c] # 2)` | `Orderly`; without it two syncs of a new cycle can both insert its schedule |

`Exclusive` alone leaves any number of models, of editors before and between the runs, of bypassing
writes and dying syncs. The invariant `PInv` follows one turn of the loop: what the run has read is what
is stored; after its deletion of orphans no `PeriodicTask` of its task name is free but the one it is
about to link (`Swept`); and each scheduler of its model is mirrored, still in `todo`, or in hand
(`Covered`). So whatever order the loop takes, at its end all are mirrored, or it has raised on the way.
`SInv` adds, while nothing is disturbed, that a scheduler is unmirrored only during its own save
(`Kept`), that a `PeriodicTask` is unreferenced only before its link (`Wanted`), and that
`_old_execution_cycle` is what the `PeriodicTask` says (`Fresh`), on which the restart rests, and at any time
that who is about to insert a schedule is the only one (`OneEach`): a
`resync_all`, whose objects have none, finds nothing that changed. TLC checked both invariants on the
instance of `sync_steady`, and `PInv` also with two editors, two models and a cycle the sync rejects.

`ScheduleTimesProofs` proves, for a second, minute, hour and day of any length, any cycles and expiry
settings, any lateness of Beat and any bounds, from `TickAssumption`, `CalendarAssumption`,
`ExpireAssumption` and `CycleAssumption` of `ScheduleTimes`:

| Theorem | Statement |
|---|---|
| `TimesTypeCorrect` | `Spec => []TypeOK` |
| `NoMessagesPileUp` | `Spec => []ExpiresBeforeNext` |
| `ReportedTimeIsKept` | `Spec => []NoEarlyRun` |
| `ReportedTimeIsASlot` | `Spec => ReportIsNextSlot` |
| `OnlyImminentRunsAreUnlisted` | `Spec => UnlistedIsImminent` |

What they assume of the clock is that its two readings in one call are less than the code's margin apart,
and that the margin is less than a second; of a cycle, that its lists name values their field has, as Celery requires. The slots
of a crontab are numbered by their minutes and repeat every day, so that there is a next one, found as a
least number, and two of them are at least `ShortestGap` apart; this is what compares an expiry with the
next run. The invariant adds when the messages of the present schedule were sent and until when they wait
(`Queued`), and that a reported time comes before every slot that is still due, excepted the catch-up of an
overdue run and the first run of a new task (`Reported`).

Only model-checked: the liveness properties, and with them the fairness half of `ImplementsColumns`,
which need ENABLED. `CountLimitKeepsNewest` and `NotBeforeNow` are
refuted, so there is nothing to prove.

## 6. Plan

In order of weight:

1. `ScheduleSync`: foreign keys of other projects' tables; what `SignalsMaintain` becomes with several
   models whose titles are kept apart.
2. `CountLimitKeepsNewest` for maintenance runs that meet no other writer, as `ReferencedStays` does
   for `resync_all`.
3. The guard of the integer migration.
4. Cycle syntax: validation and estimate of one grammar, to say which validated cycles the handler
   rejects.

## 7. Not modelled

Serializers, views and filters read state and change none; what they show of a message is `Resolve`. Of
`check_celery_status` only the upcoming list is modelled, without clocked tasks, which the package never
makes: the rest prints what Celery's inspect API and
the tables hold. The day and month fields and time zones of a crontab are Celery's. `conf.py` reads
settings, which are constants here. The migrations declare columns, and the integer migration refuses
to run on tables that hold UUIDs; no step of the running system meets either. Logging, titles, wording
and the layout of messages are left out. The admin, Beat, the agents and the database are
modelled only by what the package can observe of them. Locks are modelled by the atomicity they
give; a deadlock between transactions is one of the failures. The example project and the tests
were read as documentation of the intended use.
