--------------------------- MODULE SharedProjects ---------------------------
(***************************************************************************)
(* Several projects on one database: one PeriodicTask table, one local     *)
(* table of execution records, one main table, and one queue per project.  *)
(* Each project runs this package with settings of its own.                *)
(*                                                                         *)
(* A task is sent by Beat or by trigger_task, taken by the worker of the   *)
(* project whose queue it is in, recorded, completed by the worker, by a   *)
(* callback (of any project) or by maintenance, published, and pruned;     *)
(* meanwhile PeriodicTasks and schedulers are deleted and shared recording *)
(* is switched on and off.  Here the question is whose record it is: how   *)
(* worker, callback and maintenance race for one record of one project, in *)
(* single transactions and with their failures, is in ExecutionRecords.    *)
(***************************************************************************)
EXTENDS TriggerTask, FiniteSets

CONSTANTS
    Project,
    SourceOf,       \* EXECUTION_SOURCE of each project, or None
    QueueOf,        \* QUEUE_NAME of each project, the queue of its workers
    BeatSchedule,   \* beat_schedule in the settings of each project
    Declared,       \* the recorded tasks of each project: scheduler_model, or None
    Model,          \* the scheduler models of all projects
    AppOf, TaskName, \* a model's project and its task_name, which others may have
    Rank,           \* its place in the order of subclasses
    Scheduler,      \* scheduler rows of all projects, each with a PeriodicTask
    ModelOf, Pk,    \* the model of a row and its id
    Authored,       \* rows with a created_by
    Order,          \* the id of the PeriodicTask of a row
    Disabled,       \* schedulers whose PeriodicTask is disabled
    Deletable,      \* bound: schedulers that may be deleted
    Switchable,     \* bound: projects whose settings may change
    Option,         \* bound: the options trigger_task is called with
    KeepCount,      \* TASK_RECORD_KEEP_MAX_COUNT
    N,              \* bound: messages and executions
    MaxTriggers, MaxSwitches \* bounds

ASSUME BoundAssumption ==
    {KeepCount, N, MaxTriggers, MaxSwitches} \subseteq Nat
ASSUME SettingsAssumption ==
    /\ None \notin Project \cup Scheduler
    /\ \A p, q \in Project : SourceOf[p] # None /\ SourceOf[p] = SourceOf[q] => p = q
    /\ \A p, q \in Project : QueueOf[p] = QueueOf[q] => p = q
ASSUME BeatAssumption == \A p \in Project : DOMAIN BeatSchedule[p] \subseteq Nat
ASSUME ModelAssumption ==
    /\ None \notin Model
    /\ AppOf \in [Model -> Project] /\ Rank \in [Model -> Nat]
    /\ \A m, n \in Model : Rank[m] = Rank[n] => m = n
ASSUME SchedulerAssumption ==
    /\ ModelOf \in [Scheduler -> Model] /\ Deletable \subseteq Scheduler
    /\ Order \in [Scheduler -> Nat]
    /\ \A s \in Scheduler : QueueOf[AppOf[ModelOf[s]]] # None /\ <<Pk[s]>> # Unreadable
    /\ \A s, t \in Scheduler : ModelOf[s] = ModelOf[t] /\ Pk[s] = Pk[t] => s = t

Record == 1 .. N
Home   == [s \in Scheduler |-> AppOf[ModelOf[s]]]
TaskOf == [s \in Scheduler |-> TaskName[ModelOf[s]]]
Source == {SourceOf[p] : p \in Project} \cup {None}

\* A row of the local table; an "unsaved" one is the object in a worker's memory,
\* "absent" and "deleted" stand for no row.
Row == [status : {"absent", "unsaved", "open", "closed", "deleted"},
        src    : Source,                   \* the prefix of task_model
        sched  : Scheduler \cup {None},    \* task_model without it, and task_id
        link   : BOOLEAN,                  \* periodic_task_id is set
        synced : BOOLEAN]                  \* main_synced_at is set
NoRow == [status |-> "absent", src |-> None, sched |-> None,
          link |-> FALSE, synced |-> FALSE]

VARIABLES
    shared,    \* projects with WRITE_MAIN_EXECUTION_RECORDS
    tasks,     \* schedulers whose PeriodicTask exists
    alive,     \* schedulers whose own row exists
    deleting,  \* the transaction that deletes a PeriodicTask, alone or with its scheduler
    doomed,    \* the main rows it has deleted so far
    cleared,   \* the deletions whose SET_NULL has been executed
    nulled,    \* the local rows it has changed and keeps locked
    msg,       \* the messages in the queues
    intended,  \* history: the scheduler a message was sent for
    stage,     \* what has become of each message
    row,       \* the local table
    main,      \* what the main row of a record refers to, None if nothing or no such row
    inserts,   \* history: the INSERTs of its main row that were committed
    aged,      \* rows older than the timeout and the retention
    owner,     \* history: the project whose worker took the message
    by,        \* history: the project that changed it last while it carried a source
    triggers, switches

vars == <<shared, tasks, alive, deleting, doomed, cleared, nulled, msg, intended, stage,
          row, main, inserts, aged, owner, by, triggers, switches>>
schedules == <<tasks, alive, deleting, doomed, cleared, nulled>>
sending   == <<msg, intended, triggers>>
mains     == <<main, inserts>>
records   == <<stage, row, mains, aged, owner, by>>
settings  == <<shared, switches>>

TypeOK ==
    /\ shared \subseteq Project
    /\ tasks \subseteq Scheduler /\ alive \subseteq Scheduler
    /\ deleting \in [Scheduler -> {"no", "task", "all"}]
    /\ doomed \in [Scheduler -> SUBSET Record] /\ nulled \in [Scheduler -> SUBSET Record]
    /\ cleared \subseteq Scheduler
    /\ DOMAIN msg = Record
    /\ intended \in [Record -> Scheduler \cup {None}]
    /\ stage \in [Record -> {"none", "queued", "taken", "running", "returned", "done"}]
    /\ row \in [Record -> Row]
    /\ main \in [Record -> Scheduler \cup {None}] /\ inserts \in [Record -> Nat]
    /\ aged \subseteq Record
    /\ owner \in [Record -> Project \cup {None}]
    /\ by \in [Record -> Project \cup {None}]
    /\ triggers \in 0 .. MaxTriggers
    /\ switches \in 0 .. MaxSwitches

Init ==
    /\ shared \in SUBSET {p \in Project : SourceOf[p] # None}
    /\ tasks = Scheduler /\ alive = Scheduler
    /\ deleting = [s \in Scheduler |-> "no"]
    /\ doomed = [s \in Scheduler |-> {}] /\ nulled = [s \in Scheduler |-> {}]
    /\ cleared = {}
    /\ msg = [k \in Record |-> None]
    /\ intended = [k \in Record |-> None]
    /\ stage = [k \in Record |-> "none"]
    /\ row = [k \in Record |-> NoRow]
    /\ main = [k \in Record |-> None] /\ inserts = [k \in Record |-> 0]
    /\ aged = {}
    /\ owner = [k \in Record |-> None]
    /\ by = [k \in Record |-> None]
    /\ triggers = 0 /\ switches = 0

-----------------------------------------------------------------------------
(* Whose record it is. *)

Prefixed(p, r) == SourceOf[p] # None /\ row[r].src = SourceOf[p]

OwnUnprefixed(p, r) ==    \* mutant: an unshared project forgets its own prefix
    IF p \in shared THEN Prefixed(p, r) ELSE row[r].src = None

\* own_records
Own(p, r) == Prefixed(p, r) \/ (p \notin shared /\ row[r].src = None)

ForeignNever(p, r) == FALSE    \* mutant: update_record does not ask
\* is_foreign_record
Foreign(p, r) == row[r].src # None /\ ~ Prefixed(p, r)

\* scheduler_identity: the prefix a project p puts before the label of s.
Identity(p, s) == IF s = None THEN None ELSE SourceOf[p]

Saved(r) == row[r].status \in {"open", "closed"}

Identified(r) == row[r].sched \in Authored    \* task_id, task_model, task_created_by_id
PublishableAgain(p, r) ==      \* mutant: the marker is not looked at
    /\ p \in shared /\ row[r].status = "closed" /\ Identified(r) /\ Prefixed(p, r)
PublishableLinked(p, r) ==     \* mutant: a record needs its PeriodicTask
    /\ p \in shared /\ row[r].status = "closed" /\ ~ row[r].synced
    /\ Identified(r) /\ Prefixed(p, r) /\ row[r].link
\* What write_main_record checks; a record of somebody else is deferred.
Publishable(p, r) ==
    /\ p \in shared
    /\ row[r].status = "closed" /\ ~ row[r].synced
    /\ Identified(r) /\ Prefixed(p, r)

\* The retention of maintenance: own, terminal, and published where that is done.
Eligible(p, r) ==
    Own(p, r) /\ row[r].status = "closed" /\ (p \in shared => row[r].synced)

\* By task_model and task_id; all records that no scheduler was found for are one group.
Newest(p, r) ==
    Cardinality({q \in Record : /\ q > r /\ Eligible(p, q)
                                /\ row[q].src = row[r].src
                                /\ row[q].sched = row[r].sched}) < KeepCount

-----------------------------------------------------------------------------
(* Beat, trigger_task and the queues. *)

Table == {[id |-> Order[s], name |-> s, task |-> TaskOf[s], args |-> <<Pk[s]>>,
           queue |-> QueueOf[Home[s]], enabled |-> s \notin Disabled] : s \in tasks}

Send(m, s) ==
    \E k \in Record :
      /\ stage[k] = "none" /\ \A j \in Record : j < k => stage[j] # "none"
      /\ stage' = [stage EXCEPT ![k] = "queued"]
      /\ msg' = [msg EXCEPT ![k] = m]
      /\ intended' = [intended EXCEPT ![k] = s]

Beat(s) ==
    /\ s \in tasks \ Disabled
    /\ Send([task |-> TaskOf[s], args |-> <<Pk[s]>>, queue |-> QueueOf[Home[s]]], s)
    /\ UNCHANGED <<schedules, row, mains, aged, owner, by, triggers, settings>>

\* Which scheduler a call is about: the one it names, unless it overrides something. By
\* a task's name it is about none: the first row is anybody's.
Meant(o) == IF o.args # <<>> \/ o.queue # None THEN None ELSE o.name

\* Somebody runs the command in project p.
Trigger(p, o) ==
    /\ triggers < MaxTriggers /\ triggers' = triggers + 1
    /\ \E m \in Sent(o, BeatSchedule[p], Table, QueueOf[p]) : Send(m, Meant(o))
    /\ UNCHANGED <<schedules, row, mains, aged, owner, by, settings>>

Registered(p) == DOMAIN Declared[p]
Named(p, t) == {m \in Model : AppOf[m] = p /\ TaskName[m] = t}
\* The model a worker looks in: the declared one, else the only one of that name.
ModelFor(p, t) ==
    IF Declared[p][t] # None THEN Declared[p][t]
    ELSE IF \E m \in Model : Named(p, t) = {m} THEN CHOOSE m \in Model : Named(p, t) = {m}
    ELSE None

ResolvedKey(p, m) ==    \* mutant: the first argument is taken for the row
    IF m.args = <<>> THEN None ELSE m.args[1]
\* _resolve_scheduler: the row of that model whose id is the first argument.
Resolved(p, m) ==
    LET S == {s \in alive : /\ ModelOf[s] = ModelFor(p, m.task)
                            /\ m.args # <<>> /\ Pk[s] = m.args[1]}
    IN  IF S = {} THEN None ELSE CHOOSE s \in S : TRUE

\* A message for an unknown task, a task that is not recorded, or a project that
\* shares its records under no name (scheduler_identity raises): no record.
Refuses(p, m) == m.task \notin Registered(p) \/ (p \in shared /\ SourceOf[p] = None)

Discard(p, k) ==
    /\ stage[k] = "queued" /\ msg[k].queue = QueueOf[p] /\ Refuses(p, msg[k])
    /\ stage' = [stage EXCEPT ![k] = "done"]
    /\ msg' = [msg EXCEPT ![k] = None]
    /\ UNCHANGED <<schedules, intended, triggers, row, mains, aged, owner, by, settings>>

\* The scheduler is looked up, and taken for none when that fails.
Take(p, k) ==
    /\ stage[k] = "queued" /\ msg[k].queue = QueueOf[p] /\ ~ Refuses(p, msg[k])
    /\ stage' = [stage EXCEPT ![k] = "taken"]
    /\ msg' = [msg EXCEPT ![k] = None]
    /\ \E s \in {Resolved(p, msg[k]), None} :
         row' = [row EXCEPT ![k] = [status |-> "unsaved", src |-> Identity(p, s),
                                    sched |-> s, link |-> s \in tasks, synced |-> FALSE]]
    /\ owner' = [owner EXCEPT ![k] = p]
    /\ UNCHANGED <<schedules, intended, triggers, mains, aged, by, settings>>

-----------------------------------------------------------------------------
(* The records. *)

Others == <<schedules, sending, settings, owner>>

\* No deletion in progress holds the row's lock: who wants to write it waits.
Unlocked(r) == \A s \in Scheduler : r \notin nulled[s]

Insert(k) ==
    /\ stage[k] = "taken" /\ (row[k].link => row[k].sched \in tasks)
    /\ stage' = [stage EXCEPT ![k] = "running"]
    /\ row' = [row EXCEPT ![k].status = "open"]
    /\ UNCHANGED <<Others, mains, aged, by>>

\* The PeriodicTask is gone since it was read, or the database fails, or the worker
\* dies: the task runs without a record, or not at all.
InsertFails(k) ==
    /\ stage[k] = "taken"
    /\ stage' = [stage EXCEPT ![k] = "done"]
    /\ row' = [row EXCEPT ![k] = NoRow]
    /\ UNCHANGED <<Others, mains, aged, by>>

\* The task has returned a scheduler of its project, whatever it was called with: the
\* record becomes that scheduler's, in whatever state the row is by now.  Where the
\* function returns none, or the UPDATE fails, the worker goes on from "running".
Metadata(k, s) ==
    /\ stage[k] = "running" /\ stage' = [stage EXCEPT ![k] = "returned"]
    /\ s \in alive /\ Home[s] = owner[k] /\ Unlocked(k)
    /\ row' = IF Saved(k)
              THEN [row EXCEPT ![k] = [@ EXCEPT !.src = Identity(owner[k], s),
                                                !.sched = s, !.link = s \in tasks]]
              ELSE row
    /\ UNCHANGED <<Others, mains, aged, by>>

Changed(p, S) == by' = [r \in Record |-> IF r \in S /\ row[r].src # None THEN p ELSE by[r]]

\* finish_record, by project p.
Close(p, r) ==
    /\ row[r].status = "open" /\ Unlocked(r)
    /\ row' = [row EXCEPT ![r].status = "closed"]
    /\ Changed(p, {r})

Working(k) == stage[k] \in {"running", "returned"}

Finish(k) ==
    /\ Working(k) /\ stage' = [stage EXCEPT ![k] = "done"]
    /\ Close(owner[k], k)
    /\ UNCHANGED <<Others, mains, aged>>

\* The task is left to its agent, or the worker dies, or others closed the record.
Leave(k) ==
    /\ Working(k) /\ stage' = [stage EXCEPT ![k] = "done"]
    /\ UNCHANGED <<Others, row, mains, aged, by>>

\* update_record in project p, with whatever id its agent has been given.
Callback(p, r) ==
    /\ Saved(r) /\ ~ Foreign(p, r)
    /\ Close(p, r)
    /\ UNCHANGED <<Others, stage, mains, aged>>

\* write_main_record, after any completion and in every retry.
Publish(p, r) ==
    /\ Publishable(p, r) /\ Unlocked(r)
    /\ row' = [row EXCEPT ![r].synced = TRUE]
    /\ main' = [main EXCEPT ![r] = IF row[r].link THEN row[r].sched ELSE None]
    /\ inserts' = [inserts EXCEPT ![r] = @ + 1]
    /\ Changed(p, {r})
    /\ UNCHANGED <<Others, stage, aged>>

\* cleanup_execution_records: the timeout calls update_record for each own record.
TimeOut(p, r) ==
    /\ Own(p, r) /\ r \in aged
    /\ ~ Foreign(p, r)
    /\ Close(p, r)
    /\ UNCHANGED <<Others, stage, mains, aged>>

Prune(p) ==
    LET S == {r \in Record : Eligible(p, r) /\ (r \in aged \/ ~ Newest(p, r))}
    IN  /\ S # {} /\ \A r \in S : Unlocked(r)
        /\ row' = [r \in Record |-> IF r \in S THEN [row[r] EXCEPT !.status = "deleted"]
                                               ELSE row[r]]
        /\ Changed(p, S)
        /\ UNCHANGED <<Others, stage, mains, aged>>

Age(r) ==
    /\ Saved(r) /\ r \notin aged
    /\ aged' = aged \cup {r}
    /\ UNCHANGED <<Others, stage, row, mains, by>>

-----------------------------------------------------------------------------
(* Deletion of PeriodicTasks, and settings. *)

LinkedTo(s) == {r \in Record : main[r] = s}
LocalTo(s)  == {r \in Record : Saved(r) /\ row[r].link /\ row[r].sched = s}

DoomedNone(p, s) == {}    \* mutant: the handler is not connected
\* _delete_main_records, in the settings of the project p that deletes.
Doomed(p, s) == IF p \in shared THEN LinkedTo(s) ELSE {}

\* A PeriodicTask is deleted in project p, by hand ("task", which only warns), or
\* by the post_delete handler of its scheduler ("all"): pre_delete comes first ...
DeleteStart(p, s, what) ==
    /\ s \in Deletable \cap tasks /\ deleting[s] = "no"
    /\ what = "all" => p = Home[s] /\ s \in alive
    /\ deleting' = [deleting EXCEPT ![s] = what]
    /\ doomed' = [doomed EXCEPT ![s] = Doomed(p, s)]
    /\ UNCHANGED <<tasks, alive, cleared, nulled, sending, records, settings>>

\* ... then SET_NULL in the local table, which locks the rows that it changes ...
SetNull(s) ==
    /\ deleting[s] # "no" /\ s \notin cleared
    /\ cleared' = cleared \cup {s}
    /\ nulled' = [nulled EXCEPT ![s] = LocalTo(s)]
    /\ UNCHANGED <<tasks, alive, deleting, doomed, sending, records, settings>>

DeleteEnds(s) ==
    /\ s \in cleared /\ cleared' = cleared \ {s}
    /\ deleting' = [deleting EXCEPT ![s] = "no"]
    /\ doomed' = [doomed EXCEPT ![s] = {}] /\ nulled' = [nulled EXCEPT ![s] = {}]

\* No row refers to the PeriodicTask but those the transaction has seen to.
Unreferenced(s) == LinkedTo(s) \subseteq doomed[s] /\ LocalTo(s) \subseteq nulled[s]

\* ... then the DELETE and the commit of it all ...
DeleteCommit(s) ==
    /\ DeleteEnds(s) /\ Unreferenced(s)
    /\ tasks' = tasks \ {s}
    /\ alive' = IF deleting[s] = "all" THEN alive \ {s} ELSE alive
    /\ main' = [r \in Record |-> IF r \in doomed[s] THEN None ELSE main[r]]
    /\ row' = [r \in Record |-> IF r \in nulled[s] THEN [row[r] EXCEPT !.link = FALSE]
                                                    ELSE row[r]]
    /\ UNCHANGED <<sending, stage, inserts, aged, owner, by, settings>>

\* ... or its rollback, as one of the two foreign keys refuses.
DeleteRefused(s) ==
    /\ DeleteEnds(s) /\ ~ Unreferenced(s)
    /\ UNCHANGED <<tasks, alive, sending, records, settings>>

\* Project p is restarted with shared recording switched on or off.
Switch(p) ==
    /\ p \in Switchable /\ switches < MaxSwitches /\ switches' = switches + 1
    /\ shared' = IF p \in shared THEN shared \ {p} ELSE shared \cup {p}
    /\ stage' = [k \in Record |->
                   IF owner[k] = p /\ (stage[k] = "taken" \/ Working(k))
                   THEN "done" ELSE stage[k]]
    /\ row' = [k \in Record |->
                 IF owner[k] = p /\ row[k].status = "unsaved" THEN NoRow ELSE row[k]]
    /\ UNCHANGED <<schedules, sending, mains, aged, owner, by>>

DeleteEnd(s) == SetNull(s) \/ DeleteCommit(s) \/ DeleteRefused(s)
Worker(k) ==
    \/ Insert(k) \/ InsertFails(k) \/ Finish(k) \/ Leave(k)
    \/ \E s \in Scheduler : Metadata(k, s)

Next ==
    \/ \E s \in Scheduler : Beat(s) \/ DeleteEnd(s)
    \/ \E p \in Project, o \in Option : Trigger(p, o)
    \/ \E p \in Project, r \in Record :
         \/ Discard(p, r) \/ Take(p, r)
         \/ Callback(p, r) \/ Publish(p, r) \/ TimeOut(p, r)
    \/ \E r \in Record : Worker(r) \/ Age(r)
    \/ \E p \in Project : Prune(p) \/ Switch(p)
    \/ \E p \in Project, s \in Scheduler, what \in {"task", "all"} : DeleteStart(p, s, what)

Spec == Init /\ [][Next]_vars

\* Every project runs maintenance, and whoever waits for a row lock gets it in turn; a
\* transaction that has begun ends.
Fairness ==
    /\ \A r \in Record : /\ SF_vars(\E p \in Project : TimeOut(p, r))
                       /\ SF_vars(\E p \in Project : Publish(p, r))
    /\ \A s \in Scheduler : WF_vars(DeleteEnd(s))

FairSpec == Spec /\ Fairness

-----------------------------------------------------------------------------
(* Properties. *)

\* Nobody but the project that ran it ever completes, publishes or prunes a record
\* while it carries a source; whatever the settings, and whatever they were before
\* (own_records, is_foreign_record, write_main_record).  Before its task returns, a
\* record may carry none, as its scheduler was not found, and is then anybody's.
Isolation == \A r \in Record : by[r] \in {None, owner[r]}

\* A run sent by Beat, or by hand under the name of its PeriodicTask, is taken in the
\* project of the scheduler it was sent for and recorded as that scheduler's, or (as it
\* was deleted in between, or the lookup failed) as nobody's; also where projects, and
\* models of one project, share the task's name and the ids, as long as that project
\* has declared the task for no other model.
ModelKnown(s) == ModelFor(Home[s], TaskOf[s]) \in {ModelOf[s], None}
Sees(k, s, p) == p = Home[s] /\ (ModelKnown(s) => row'[k].sched \in {s, None})
RunsIntended ==
    [][\A p \in Project, k \in Record :
         Take(p, k) /\ intended[k] # None => Sees(k, intended[k], p)]_vars

\* No outcome is written to the main table twice, also when the first row has been
\* removed with its PeriodicTask (the marker stays).
PublishedOnce == \A r \in Record : inserts[r] <= 1

\* Behind them: a record is new until its message is taken; its source is that of the
\* project that took it; a main row has been marked; a message says what it was sent for.
New ==
    \A k \in Record :
      /\ stage[k] \in {"none", "queued"} => row[k] = NoRow /\ by[k] = None
      /\ row[k].status \in {"absent", "unsaved"} => inserts[k] = 0 /\ by[k] = None
      /\ row[k].status = "unsaved" <=> stage[k] = "taken"
Owned  == \A k \in Record : row[k].src # None =>
            owner[k] \in Project /\ row[k].src = SourceOf[owner[k]]
Marked == \A k \in Record : inserts[k] # 0 => row[k].synced
Told   == \A k \in Record : stage[k] = "queued" /\ intended[k] # None =>
            LET s == intended[k]
            IN  msg[k].queue = QueueOf[Home[s]] /\ msg[k].task = TaskOf[s]
                  /\ msg[k].args = <<Pk[s]>>
IInv == TypeOK /\ New /\ Owned /\ Marked /\ Told /\ Isolation /\ PublishedOnce

\* _task_model_mapping: of the models with a task's name, the last one; with its rows.
Mapped(p, t) ==
    IF Named(p, t) = {} THEN None
    ELSE CHOOSE m \in Named(p, t) : \A n \in Named(p, t) : Rank[n] <= Rank[m]
RowsOf(p) ==
    [t \in {TaskName[m] : m \in {x \in Model : AppOf[x] = p}} |->
       [k \in {Pk[s] : s \in {x \in alive : ModelOf[x] = Mapped(p, t)}} |->
          CHOOSE s \in alive : ModelOf[s] = Mapped(p, t) /\ Pk[s] = k]]

\* What --list-all says of a PeriodicTask is what comes of running it by its name,
\* and what --list says of an entry that names a queue, the first of its task, is what
\* comes of running its task: the queue, the arguments, and in this project's queue
\* whether a worker knows the task and which scheduler it finds.  The last is said of
\* tasks for which the last model of that name is also the one a worker looks in: the
\* code does not see to that where models share a name.
Asked    == [name |-> None, task |-> None, args |-> <<>>, default |-> FALSE, queue |-> None]
SentIn(p, o) == Sent(o, BeatSchedule[p], Table, QueueOf[p])
Reached(p) ==    \* the entries that a task's name reaches; later ones are listed only
    {i \in DOMAIN BeatSchedule[p] :
       \A j \in DOMAIN BeatSchedule[p] :
         BeatSchedule[p][j].task = BeatSchedule[p][i].task => i <= j}
Finds(p, m, detail) ==
    m.task \in Registered(p) /\ Mapped(p, m.task) = ModelFor(p, m.task)
      => detail = Resolved(p, m)
ListTellsTheRun ==
    \A p \in Project :
      /\ \A x \in ListAll(Table, Registered(p), <<>>, RowsOf(p)) :
           \A m \in SentIn(p, [Asked EXCEPT !.name = x.name]) :
             /\ m.queue = x.queue /\ m.args = x.args
             /\ m.queue = QueueOf[p] =>
                  x.external = (m.task \notin Registered(p)) /\ Finds(p, m, x.detail)
      /\ LET entries == List(BeatSchedule[p], Table, <<>>, RowsOf(p))
         IN  \A i \in Reached(p) : BeatSchedule[p][i].queue # None =>
               \A m \in SentIn(p, [Asked EXCEPT !.task = entries[i].task]) :
                 /\ m.queue = entries[i].queue /\ m.args = entries[i].args
                 /\ m.queue = QueueOf[p] => Finds(p, m, entries[i].detail)

\* In its project's scope for good: the project's own prefix, or none while the
\* project does not share its records.
InScope(r) ==
    /\ owner[r] # None
    /\ IF row[r].src = None THEN owner[r] \notin shared ELSE row[r].src = SourceOf[owner[r]]
\* No record stays open and overdue in the scope of the project that ran it,
\* shared recording or not, and also after that was switched (own_records).
OwnEventuallyClosed ==
    \A r \in Record : []<> ~ (row[r].status = "open" /\ r \in aged /\ InScope(r))

\* No identified outcome stays unpublished while its project shares, also when its
\* PeriodicTask is deleted first and the reference set to NULL (write_main_record).
Deliverable(r) ==
    row[r].status = "closed" /\ Identified(r) /\ row[r].src # None /\ owner[r] \in shared
EventuallyPublished ==
    \A r \in Record : []<> ~ (Deliverable(r) /\ inserts[r] = 0)

\* A publication and a new record can each make the deletion of a PeriodicTask fail.
\* But once no new row comes to refer to it, whoever keeps asking in a project that
\* shares its records succeeds (_delete_main_records and SET_NULL see to the old ones).
NoNewReference(s) == LinkedTo(s)' \subseteq LinkedTo(s) /\ LocalTo(s)' \subseteq LocalTo(s)
AskedDeletionSucceeds ==
    \A s \in Deletable :
      /\ <>[][NoNewReference(s)]_vars
      /\ []<><<\E p \in shared, what \in {"task", "all"} : DeleteStart(p, s, what)>>_vars
      => <>(s \notin tasks)
=============================================================================
