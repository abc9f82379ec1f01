---------------------------- MODULE ScheduleSync ----------------------------
(***************************************************************************)
(* How schedule_kit keeps django-celery-beat's PeriodicTask table in step  *)
(* with the scheduler models of a project: the pre_save, post_save and     *)
(* post_delete handlers (signals.py), sync_to_periodic_task,               *)
(* delete_periodic_task and resync_all (services/sync.py).                 *)
(*                                                                         *)
(* Views and scripts run without a surrounding transaction: a save commits *)
(* the scheduler row first and the post_save handler then works on the     *)
(* PeriodicTask statement by statement, so one step of this module is one  *)
(* autocommitted statement (or the reads that directly precede it).        *)
(* Everything a handler uses meanwhile is the Python object it loaded      *)
(* earlier: `mem`.                                                         *)
(***************************************************************************)
EXTENDS Integers, FiniteSets

CONSTANTS
    Instance,     \* primary keys of scheduler rows, of all models
    Model,        \* the concrete BaseSchedulerTask models
    ModelOf,      \* the model of each instance
    TaskOf,       \* the task_name of each model
    Title, Cycle, \* values of title and of execution_cycle (with the timezone)
    Unestimable,  \* the cycles split_crontab or estimate_period_seconds raises for
    None,         \* Python's None
    Editor,       \* requests and scripts that load, save and delete instances
    Resyncer,     \* runs of resync_all
    Exclusive,    \* resync_all is run while nobody else writes
    MaxTask,      \* bound: PeriodicTask ids
    MaxRuns,      \* bound: executions Beat counts per PeriodicTask
    MaxEdits,     \* bound: loads by editors
    MaxDrift,     \* bound: writes that bypass the signals
    MaxFaults     \* bound: syncs that die half way

ASSUME BoundsAssumption == {MaxTask, MaxRuns, MaxEdits, MaxDrift, MaxFaults} \subseteq Nat
ASSUME ModelAssumption == /\ ModelOf \in [Instance -> Model]
                          /\ Unestimable \subseteq Cycle
                          /\ None \notin Title \cup Cycle \cup Instance \cup Model
ASSUME ActorAssumption == Editor \cap Resyncer = {} /\ Exclusive \in BOOLEAN

NoTask == 0
TaskId == 1 .. MaxTask
Actor  == Editor \cup Resyncer
Name   == {TaskOf[m] : m \in Model}

\* A row of a scheduler table, as stored and as loaded by a Python object.
Row == [live : BOOLEAN, title : Title \cup {None}, active : BOOLEAN,
        cycle : Cycle \cup {None}, task : TaskId \cup {NoTask}]

\* A row of django_celery_beat's PeriodicTask.  last_run_at is "never" (NULL),
\* "ran" (set by Beat) or "reset" (set to now by the sync).
Task == [live : BOOLEAN, name : Title \cup {None}, task : Name \cup {None},
         enabled : BOOLEAN, cycle : Cycle \cup {None},
         last : {"never", "ran", "reset"}, runs : 0 .. MaxRuns]

NoRow == [live |-> FALSE, title |-> None, active |-> FALSE, cycle |-> None, task |-> NoTask]
NoPT  == [live |-> FALSE, name |-> None, task |-> None, enabled |-> FALSE,
          cycle |-> None, last |-> "never", runs |-> 0]

\* What a save, or one turn of the resync loop, holds: the instance, its
\* _old_execution_cycle, and the PeriodicTask it fetched or created.
Memory == [id : Instance \cup {None}, row : Row, old : Cycle \cup {None},
           pt : Task, new : TaskId \cup {NoTask}]
Empty  == [id |-> None, row |-> NoRow, old |-> None, pt |-> NoPT, new |-> NoTask]

VARIABLES
    row,     \* the scheduler tables
    pt,      \* the PeriodicTask table
    lastPt,  \* its id sequence
    schedules, \* how many rows Beat's schedule tables hold for a cycle; 2 is several
    pc,      \* where each actor is
    mem,     \* the object each actor works on
    model,   \* the model a resync_all aligns
    inUse,   \* its in_use_ids
    todo,    \* the instances its loop has loaded and not handled yet
    edits, drift, faults

resync == <<model, inUse, todo>>
rest   == <<schedules, edits, drift, faults>>
vars   == <<row, pt, lastPt, schedules, pc, mem, model, inUse, todo, edits, drift, faults>>

TypeOK ==
    /\ row \in [Instance -> Row]
    /\ pt \in [TaskId -> Task]
    /\ lastPt \in 0 .. MaxTask
    /\ schedules \in [Cycle -> 0 .. 2]
    /\ pc \in [Actor -> {"idle", "loaded", "sync", "insert", "scheduled", "link", "write",
                         "orphans", "query", "loop", "failed"}]
    /\ mem \in [Actor -> Memory]
    /\ model \in [Resyncer -> Model \cup {None}]
    /\ inUse \in [Resyncer -> SUBSET TaskId]
    /\ todo \in [Resyncer -> SUBSET [id : Instance, row : Row]]
    /\ \A a \in Actor : /\ pc[a] = "link" => mem[a].new # NoTask
                        /\ pc[a] = "write" => mem[a].row.task # NoTask /\ mem[a].pt.live
    /\ edits \in 0 .. MaxEdits /\ drift \in 0 .. MaxDrift /\ faults \in 0 .. MaxFaults

Init ==
    /\ row = [i \in Instance |-> NoRow]
    /\ pt = [p \in TaskId |-> NoPT]
    /\ lastPt = 0
    /\ schedules = [c \in Cycle |-> 0]
    /\ pc = [a \in Actor |-> "idle"]
    /\ mem = [a \in Actor |-> Empty]
    /\ model = [r \in Resyncer |-> None]
    /\ inUse = [r \in Resyncer |-> {}]
    /\ todo = [r \in Resyncer |-> {}]
    /\ edits = 0 /\ drift = 0 /\ faults = 0

-----------------------------------------------------------------------------
(* The constraints of the database. *)

\* title is unique in each concrete model's own table.
TitleTaken(i, t) ==
    \E j \in Instance \ {i} : /\ row[j].live /\ ModelOf[j] = ModelOf[i]
                              /\ row[j].title = t

\* PeriodicTask.name is unique.
NameTaken(p, n) == \E q \in TaskId \ {p} : pt[q].live /\ pt[q].name = n

\* The foreign key and OneToOne constraints of the column `task`.
LinkRefused(i, p) ==
    /\ p # NoTask
    /\ \/ ~ pt[p].live
       \/ \E j \in Instance \ {i} : /\ row[j].live /\ ModelOf[j] = ModelOf[i]
                                    /\ row[j].task = p

Linked(m) == {row[i].task : i \in {j \in Instance : row[j].live /\ ModelOf[j] = m}}
Referenced == (UNION {Linked(m) : m \in Model}) \ {NoTask}

\* Deleting PeriodicTasks sets the `task` of the scheduler rows to NULL; `rows`
\* is the scheduler table in the same transaction.
DeleteTasks(S, rows) ==
    /\ pt' = [p \in TaskId |-> IF p \in S THEN NoPT ELSE pt[p]]
    /\ row' = [i \in Instance |-> IF rows[i].task \in S
                                  THEN [rows[i] EXCEPT !.task = NoTask] ELSE rows[i]]

-----------------------------------------------------------------------------
(* sync_to_periodic_task, on behalf of a post_save handler or of resync_all. *)

\* The call returns: the save is over, or the resync loop goes on.
Return(a) ==
    /\ pc' = [pc EXCEPT ![a] = IF a \in Editor THEN "idle" ELSE "loop"]
    /\ mem' = [mem EXCEPT ![a] = Empty]
    /\ UNCHANGED resync

\* An exception leaves the save, or the whole resync_all.
Raise(a) ==
    /\ pc' = [pc EXCEPT ![a] = IF a \in Editor THEN "idle" ELSE "failed"]
    /\ mem' = [mem EXCEPT ![a] = Empty]
    /\ IF a \in Editor THEN UNCHANGED resync
       ELSE /\ todo' = [todo EXCEPT ![a] = {}]
            /\ inUse' = [inUse EXCEPT ![a] = {}]
            /\ model' = [model EXCEPT ![a] = None]

\* The schedule cannot be split, or its expiry not computed.
SyncRejects(a) ==
    /\ pc[a] \in {"sync", "scheduled"} /\ mem[a].row.cycle \in Unestimable
    /\ Raise(a)
    /\ UNCHANGED <<row, pt, lastPt, rest>>

\* get_or_create_schedule looks for the schedule of the cycle ...
GetSchedule(a) ==
    /\ pc[a] = "sync" /\ schedules[mem[a].row.cycle] < 2
    /\ pc' = [pc EXCEPT ![a] = IF schedules[mem[a].row.cycle] = 0
                              THEN "insert" ELSE "scheduled"]
    /\ UNCHANGED <<row, pt, lastPt, mem, resync, rest>>

\* ... which is not the only one (MultipleObjectsReturned) ...
GetScheduleFails(a) ==
    /\ pc[a] = "sync" /\ schedules[mem[a].row.cycle] = 2
    /\ Raise(a)
    /\ UNCHANGED <<row, pt, lastPt, rest>>

\* ... or inserts one; neither table has a unique constraint that would refuse it.
InsertSchedule(a) ==
    /\ pc[a] = "insert"
    /\ schedules' = [schedules EXCEPT ![mem[a].row.cycle] = IF @ = 0 THEN 1 ELSE 2]
    /\ pc' = [pc EXCEPT ![a] = "scheduled"]
    /\ UNCHANGED <<row, pt, lastPt, mem, resync, edits, drift, faults>>

Estimable(a) == pc[a] = "scheduled" /\ mem[a].row.cycle \notin Unestimable

\* Mutant of SyncCreate: update_or_create by name.
SyncAdopts(a) ==
    LET m     == mem[a]
        named == {q \in TaskId : pt[q].live /\ pt[q].name = m.row.title}
        p     == IF named = {} THEN lastPt + 1 ELSE CHOOSE q \in named : TRUE
    IN  /\ Estimable(a) /\ m.row.task = NoTask /\ p <= MaxTask
        /\ pt' = [pt EXCEPT ![p] = [@ EXCEPT
             !.live = TRUE, !.name = m.row.title, !.task = TaskOf[ModelOf[m.id]],
             !.enabled = m.row.active, !.cycle = m.row.cycle]]
        /\ lastPt' = IF named = {} THEN p ELSE lastPt
        /\ mem' = [mem EXCEPT ![a].new = p]
        /\ pc' = [pc EXCEPT ![a] = "link"]
        /\ UNCHANGED <<row, resync, rest>>

SyncCreate(a) ==
    LET m == mem[a]
        p == lastPt + 1
    IN  /\ Estimable(a) /\ m.row.task = NoTask
        /\ p <= MaxTask /\ ~ NameTaken(NoTask, m.row.title)
        /\ pt' = [pt EXCEPT ![p] =
             [live |-> TRUE, name |-> m.row.title, task |-> TaskOf[ModelOf[m.id]],
              enabled |-> m.row.active, cycle |-> m.row.cycle, last |-> "never", runs |-> 0]]
        /\ lastPt' = p
        /\ mem' = [mem EXCEPT ![a].new = p]
        /\ pc' = [pc EXCEPT ![a] = "link"]
        /\ UNCHANGED <<row, resync, rest>>

SyncCreateFails(a) ==
    /\ Estimable(a) /\ mem[a].row.task = NoTask
    /\ NameTaken(NoTask, mem[a].row.title)
    /\ Raise(a)
    /\ UNCHANGED <<row, pt, lastPt, rest>>

\* UPDATE ... SET task WHERE pk, past the signals: the row may be gone by now.
SyncLink(a) ==
    LET i == mem[a].id
        p == mem[a].new
    IN  /\ pc[a] = "link"
        /\ row[i].live => ~ LinkRefused(i, p)
        /\ row' = IF row[i].live THEN [row EXCEPT ![i].task = p] ELSE row
        /\ Return(a)
        /\ UNCHANGED <<pt, lastPt, rest>>

SyncLinkFails(a) ==
    /\ pc[a] = "link"
    /\ row[mem[a].id].live /\ LinkRefused(mem[a].id, mem[a].new)
    /\ Raise(a)
    /\ UNCHANGED <<row, pt, lastPt, rest>>

\* Mutant of SyncRead: a missing PeriodicTask goes unnoticed.
SyncReadAny(a) ==
    LET p == mem[a].row.task
    IN  /\ Estimable(a) /\ p # NoTask
        /\ mem' = [mem EXCEPT ![a].pt = pt[p]]
        /\ pc' = [pc EXCEPT ![a] = "write"]
        /\ UNCHANGED <<row, pt, lastPt, resync, rest>>

\* pt = instance.task
SyncRead(a) ==
    LET p == mem[a].row.task
    IN  /\ Estimable(a) /\ p # NoTask /\ pt[p].live
        /\ mem' = [mem EXCEPT ![a].pt = pt[p]]
        /\ pc' = [pc EXCEPT ![a] = "write"]
        /\ UNCHANGED <<row, pt, lastPt, resync, rest>>

SyncReadFails(a) ==
    LET p == mem[a].row.task
    IN  /\ Estimable(a) /\ p # NoTask /\ ~ pt[p].live
        /\ Raise(a)
        /\ UNCHANGED <<row, pt, lastPt, rest>>

\* Mutant of Restarts: only a new cycle restarts the schedule.
RestartsOnCycle(m) == m.old # None /\ m.old # m.row.cycle

\* last_run_at is set to now when the task is enabled again or its cycle changed.
Restarts(m) ==
    \/ ~ m.pt.enabled /\ m.row.active
    \/ m.old # None /\ m.old # m.row.cycle

\* Mutant of Synced: an enabled flag changed by others is left alone.
SyncedKeepsEnabled(m) ==
    [m.pt EXCEPT !.name = m.row.title, !.task = TaskOf[ModelOf[m.id]], !.cycle = m.row.cycle]

\* The PeriodicTask as pt.save() writes it, all columns, from the fetched copy;
\* PeriodicTask.save clears last_run_at of a disabled task.
Synced(m) ==
    [m.pt EXCEPT
       !.name = m.row.title, !.task = TaskOf[ModelOf[m.id]],
       !.enabled = m.row.active, !.cycle = m.row.cycle,
       !.last = IF ~ m.row.active THEN "never" ELSE IF Restarts(m) THEN "reset" ELSE @]

\* UPDATE, or INSERT under the old id if the row was deleted meanwhile.
SyncWrite(a) ==
    LET p == mem[a].row.task
    IN  /\ pc[a] = "write" /\ ~ NameTaken(p, mem[a].row.title)
        /\ pt' = [pt EXCEPT ![p] = Synced(mem[a])]
        /\ Return(a)
        /\ UNCHANGED <<row, lastPt, rest>>

SyncWriteFails(a) ==
    /\ pc[a] = "write" /\ NameTaken(mem[a].row.task, mem[a].row.title)
    /\ Raise(a)
    /\ UNCHANGED <<row, pt, lastPt, rest>>

\* A statement fails, or the process dies, between two statements.
SyncDies(a) ==
    /\ pc[a] \in {"sync", "insert", "scheduled", "link", "write"}
    /\ faults < MaxFaults /\ faults' = faults + 1
    /\ Raise(a)
    /\ UNCHANGED <<row, pt, lastPt, schedules, edits, drift>>

Sync(a) ==
    \/ SyncRejects(a)
    \/ GetSchedule(a) \/ GetScheduleFails(a) \/ InsertSchedule(a)
    \/ SyncCreate(a) \/ SyncCreateFails(a) \/ SyncLink(a) \/ SyncLinkFails(a)
    \/ SyncRead(a) \/ SyncReadFails(a) \/ SyncWrite(a) \/ SyncWriteFails(a)

-----------------------------------------------------------------------------
(* Requests and scripts. *)

\* With Exclusive, writers wait for resync_all.
Resting(r) == pc[r] \in {"idle", "failed"}
MayWrite == Exclusive => \A r \in Resyncer : Resting(r)

\* Model.objects.create: the INSERT, then the post_save handler.
Create(e) ==
    /\ pc[e] = "idle" /\ MayWrite /\ edits < MaxEdits
    /\ \E i \in Instance, t \in Title, c \in Cycle, on \in BOOLEAN :
         LET r == [live |-> TRUE, title |-> t, active |-> on, cycle |-> c, task |-> NoTask]
         IN  /\ ~ row[i].live /\ ~ TitleTaken(i, t)
             /\ row' = [row EXCEPT ![i] = r]
             /\ mem' = [mem EXCEPT ![e] = [Empty EXCEPT !.id = i, !.row = r]]
    /\ pc' = [pc EXCEPT ![e] = "sync"]
    /\ edits' = edits + 1
    /\ UNCHANGED <<pt, lastPt, schedules, resync, drift, faults>>

Load(e) ==
    /\ pc[e] = "idle" /\ MayWrite /\ edits < MaxEdits
    /\ \E i \in Instance :
         /\ row[i].live
         /\ mem' = [mem EXCEPT ![e] = [Empty EXCEPT !.id = i, !.row = row[i]]]
    /\ pc' = [pc EXCEPT ![e] = "loaded"]
    /\ edits' = edits + 1
    /\ UNCHANGED <<row, pt, lastPt, schedules, resync, drift, faults>>

\* The pre_save handler reads the stored cycle; then all columns are written,
\* `task` included, and a row that was deleted meanwhile is inserted again.
Save(e) ==
    LET i == mem[e].id
    IN  /\ pc[e] = "loaded"
        /\ \E t \in Title, c \in Cycle, on \in BOOLEAN :
             LET r == [mem[e].row EXCEPT !.title = t, !.cycle = c, !.active = on]
             IN  /\ ~ TitleTaken(i, t) /\ ~ LinkRefused(i, r.task)
                 /\ row' = [row EXCEPT ![i] = r]
                 /\ mem' = [mem EXCEPT ![e] = [@ EXCEPT !.row = r, !.old = row[i].cycle]]
        /\ pc' = [pc EXCEPT ![e] = "sync"]
        /\ UNCHANGED <<pt, lastPt, resync, rest>>

\* The save is refused by a constraint, or given up.
SaveFails(e) ==
    /\ pc[e] = "loaded"
    /\ Raise(e)
    /\ UNCHANGED <<row, pt, lastPt, rest>>

\* Mutant of Destroy: nobody deletes the PeriodicTask.
DestroyKeepsTask(e) ==
    /\ pc[e] = "loaded"
    /\ DeleteTasks({}, [row EXCEPT ![mem[e].id] = NoRow])
    /\ Return(e)
    /\ UNCHANGED <<lastPt, rest>>

\* instance.delete(): the post_delete handler deletes the PeriodicTask that the
\* object knows of inside the same transaction.
Destroy(e) ==
    /\ pc[e] = "loaded"
    /\ DeleteTasks({mem[e].row.task} \cap TaskId, [row EXCEPT ![mem[e].id] = NoRow])
    /\ Return(e)
    /\ UNCHANGED <<lastPt, rest>>

Edit(e) == Create(e) \/ Load(e) \/ Save(e) \/ SaveFails(e) \/ Destroy(e)

-----------------------------------------------------------------------------
(* resync_all(model). *)

Goto(r, from, to) == pc[r] = from /\ pc' = [pc EXCEPT ![r] = to]

\* in_use_ids is computed once, as a Python set.
ResyncScan(r) ==
    /\ Resting(r) /\ pc' = [pc EXCEPT ![r] = "orphans"]
    /\ Exclusive => \A a \in Actor \ {r} : pc[a] \in {"idle", "failed"}
    /\ \E m \in Model : model' = [model EXCEPT ![r] = m]
    /\ inUse' = [inUse EXCEPT ![r] = Referenced]
    /\ UNCHANGED <<row, pt, lastPt, mem, todo, rest>>

\* Mutant of Orphans: a disabled task is never an orphan.
OrphansEnabled(r) ==
    {p \in TaskId : /\ pt[p].live /\ pt[p].enabled /\ pt[p].task = TaskOf[model[r]]
                    /\ p \notin Linked(model[r]) /\ p \notin inUse[r]}

\* linked_ids is a lazy query: it is evaluated by the deletion itself.
Orphans(r) ==
    {p \in TaskId : /\ pt[p].live /\ pt[p].task = TaskOf[model[r]]
                    /\ p \notin Linked(model[r]) /\ p \notin inUse[r]}

ResyncOrphans(r) ==
    /\ Goto(r, "orphans", "query")
    /\ DeleteTasks(Orphans(r), row)
    /\ inUse' = [inUse EXCEPT ![r] = {}]
    /\ UNCHANGED <<lastPt, mem, model, todo, rest>>

ResyncQuery(r) ==
    /\ Goto(r, "query", "loop")
    /\ todo' = [todo EXCEPT ![r] =
         {[id |-> i, row |-> row[i]] : i \in {j \in Instance : row[j].live /\ ModelOf[j] = model[r]}}]
    /\ UNCHANGED <<row, pt, lastPt, mem, model, inUse, rest>>

\* A reference to a PeriodicTask that is gone is cleared, whatever the row
\* refers to by now.
ResyncNext(r) ==
    /\ Goto(r, "loop", "sync")
    /\ \E x \in todo[r] :
         LET dangling == x.row.task # NoTask /\ ~ pt[x.row.task].live
         IN  /\ todo' = [todo EXCEPT ![r] = @ \ {x}]
             /\ row' = IF dangling /\ row[x.id].live
                       THEN [row EXCEPT ![x.id].task = NoTask] ELSE row
             /\ mem' = [mem EXCEPT ![r] = [Empty EXCEPT
                  !.id = x.id,
                  !.row = IF dangling THEN [x.row EXCEPT !.task = NoTask] ELSE x.row]]
    /\ UNCHANGED <<pt, lastPt, model, inUse, rest>>

ResyncDone(r) ==
    /\ todo[r] = {}
    /\ Goto(r, "loop", "idle")
    /\ model' = [model EXCEPT ![r] = None]
    /\ UNCHANGED <<row, pt, lastPt, mem, inUse, todo, rest>>

Resync(r) ==
    ResyncScan(r) \/ ResyncOrphans(r) \/ ResyncQuery(r) \/ ResyncNext(r) \/ ResyncDone(r)

-----------------------------------------------------------------------------
(* Writes that bypass the signals: queryset.update and bulk_create on the    *)
(* scheduler tables, edits and deletions in Beat's own tables.               *)

Drift == MayWrite /\ drift < MaxDrift /\ drift' = drift + 1

BulkWrite ==
    /\ Drift
    /\ \E i \in Instance, t \in Title, c \in Cycle, on \in BOOLEAN :
         /\ ~ TitleTaken(i, t)
         /\ row' = [row EXCEPT ![i] =
              [@ EXCEPT !.live = TRUE, !.title = t, !.cycle = c, !.active = on]]
    /\ UNCHANGED <<pt, lastPt, schedules, pc, mem, resync, edits, faults>>

TaskToggle ==
    /\ Drift
    /\ \E p \in TaskId : pt[p].live /\ pt' = [pt EXCEPT ![p].enabled = ~ @]
    /\ UNCHANGED <<row, lastPt, schedules, pc, mem, resync, edits, faults>>

TaskDelete ==
    /\ Drift
    /\ \E p \in TaskId : pt[p].live /\ DeleteTasks({p}, row)
    /\ UNCHANGED <<lastPt, schedules, pc, mem, resync, edits, faults>>

\* Beat runs an enabled task and counts it.
Beat ==
    /\ \E p \in TaskId :
         /\ pt[p].live /\ pt[p].enabled /\ pt[p].runs < MaxRuns
         /\ pt' = [pt EXCEPT ![p] = [@ EXCEPT !.runs = pt[p].runs + 1, !.last = "ran"]]
    /\ UNCHANGED <<row, lastPt, pc, mem, resync, rest>>

Next ==
    \/ \E a \in Actor : Sync(a) \/ SyncDies(a)
    \/ \E e \in Editor : Edit(e)
    \/ \E r \in Resyncer : Resync(r)
    \/ BulkWrite \/ TaskToggle \/ TaskDelete \/ Beat

Spec == Init /\ [][Next]_vars

\* A request that was started is carried out, and resync_all is run again and
\* again; nothing forces anybody to make another edit.
Fairness ==
    /\ \A e \in Editor : WF_vars(Sync(e) \/ SaveFails(e))
    /\ \A r \in Resyncer : WF_vars(Sync(r) \/ Resync(r))

FairSpec == Spec /\ Fairness

-----------------------------------------------------------------------------
(* Properties. *)

\* The PeriodicTask of a scheduler says what the scheduler says.
Mirrored(i) ==
    LET p == row[i].task
    IN  /\ p # NoTask /\ pt[p].live
        /\ pt[p].name = row[i].title /\ pt[p].task = TaskOf[ModelOf[i]]
        /\ pt[p].enabled = row[i].active /\ pt[p].cycle = row[i].cycle

Aligned(m) ==
    /\ \A i \in Instance : row[i].live /\ ModelOf[i] = m => Mirrored(i)
    /\ \A p \in TaskId : pt[p].live /\ pt[p].task = TaskOf[m] => p \in Referenced

\* Nothing has bypassed the signals and no sync has died.
Undisturbed == drift = 0 /\ faults = 0

\* Undisturbed, and with no save in progress, the signals alone have kept every
\* scheduler linked to a PeriodicTask that mirrors it, and left no PeriodicTask
\* behind (base_model.md:18, the column is maintained by the signals).
SignalsMaintain ==
    Undisturbed /\ (\A e \in Editor : pc[e] \in {"idle", "loaded"})
      => \A m \in Model : Aligned(m)

\* Undisturbed, a task that is enabled again or gets another cycle starts afresh
\* from now, so that Beat does not catch up on what it missed, and no other one does:
\* a save or a resync_all of what runs already leaves its schedule alone
\* (sync.py:66 and 67).
RestartsFromNow ==
    [][\A a \in Actor : SyncWrite(a) /\ Undisturbed =>
         LET old   == pt[mem[a].row.task]
             new   == pt'[mem[a].row.task]
             cause == new.enabled /\ (~ old.enabled \/ old.cycle # new.cycle)
         IN  /\ cause => new.last = "reset"
             /\ new.last = "reset" => cause \/ mem[a].pt.last = "reset"]_vars

\* No PeriodicTask ever drives two schedulers, and a scheduler is only ever
\* linked to a PeriodicTask of its own task name, whoever races with whom.
OneSchedulerPerTask ==
    /\ \A i, j \in Instance : row[i].task # NoTask /\ row[i].task = row[j].task => i = j
    /\ \A i \in Instance : row[i].task # NoTask =>
         pt[row[i].task].live /\ pt[row[i].task].task = TaskOf[ModelOf[i]]

\* resync_all, run in peace, aligns its model from whatever state bypassing
\* writes and half-done saves have left (sync.py:128 to 133).
ResyncAligns == [][\A r \in Resyncer : ResyncDone(r) => Aligned(model[r])]_vars

\* What no resync_all mends: a cycle that has several schedules or that cannot be
\* handled, and a title that is still the name of another scheduler's PeriodicTask.
Unmendable ==
    \E i \in Instance : row[i].live /\
      \/ schedules[row[i].cycle] = 2
      \/ row[i].cycle \in Unestimable
      \/ \E j \in Instance \ {i} : /\ row[j].live /\ row[j].task # NoTask
                                   /\ pt[row[j].task].name = row[i].title

\* When the edits stop, repeated resync_all runs heal every divergence that
\* concurrent saves, bypassing writes and dying syncs have left, but for those.
ResyncHeals ==
    <>[](\A m \in Model : Aligned(m)) \/ []<>Unmendable

\* resync_all never removes a PeriodicTask that a foreign key refers to
\* (sync.py:135-136).
ReferencedNeverRemoved ==
    [][\A r \in Resyncer : ResyncOrphans(r) => Referenced \cap Orphans(r) = {}]_vars
=============================================================================
