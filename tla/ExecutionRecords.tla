-------------------------- MODULE ExecutionRecords --------------------------
(***************************************************************************)
(* The life of the ExecutionRecord rows of one project, from the           *)
(* recorded_task wrapper of a Celery worker (decorators.py), through the   *)
(* agent callback update_record (api.py), the durable completion and the   *)
(* projection into the main project's table (recording.py), to the         *)
(* retention run of cleanup_execution_records (tasks/maintenance.py) and   *)
(* the retention of the main table (DbTransport.cleanup, transports.py).   *)
(*                                                                         *)
(* One step of this module is one committed database transaction (or one   *)
(* autocommitted statement) of one actor; between two steps of an actor    *)
(* every other actor may run.  Whatever makes a transaction fail (a lost   *)
(* connection, a constraint, a missing main table) is the same to this     *)
(* code, because every failure is caught, logged and rolled back: it is    *)
(* one step that spends a unit of `faults`.                                *)
(***************************************************************************)
EXTENDS Integers, FiniteSets

CONSTANTS
    N,              \* executions that may be started: record ids are 1..N
    Scheduler,      \* scheduler rows: values of the pair (task_model, task_id)
    NoScheduler,    \* the identity of a record whose scheduler was not resolved
    Owned,          \* the schedulers whose created_by is set
    Maintainer,     \* concurrent runs of cleanup_execution_records
    Shared,         \* CELERY_SCHEDULER.WRITE_MAIN_EXECUTION_RECORDS
    RequireRecord,  \* recorded_task(require_record=...)
    Timeout,        \* PENDING_TIMEOUT_HOURS
    KeepAge,        \* CELERY_SCHEDULER.TASK_RECORD_KEEP_MAX_DAYS
    KeepCount,      \* CELERY_SCHEDULER.TASK_RECORD_KEEP_MAX_COUNT
    MainKeepAge,    \* settings.TASK_RECORD_KEEP_MAX_DAYS (the main side)
    MainKeepCount,  \* settings.TASK_RECORD_KEEP_MAX_COUNT (the main side)
    MaxClock,       \* bound: the clock stops here
    MaxFaults       \* bound: transactions and processes that may fail

ASSUME CountsAssumption ==
    {N, Timeout, KeepAge, KeepCount, MainKeepAge, MainKeepCount,
     MaxClock, MaxFaults} \subseteq Nat
ASSUME FlagsAssumption == {Shared, RequireRecord} \subseteq BOOLEAN
ASSUME SchedulerAssumption == Owned \subseteq Scheduler /\ NoScheduler \notin Scheduler

Record   == 1 .. N
Identity == Scheduler \cup {NoScheduler}

Open     == {"running", "pending"}
Terminal == {"success", "fail"}

\* A row of the local table; status "absent" stands for no row.
Row == [status   : Open \cup Terminal \cup {"absent"},
        ended    : BOOLEAN,     \* end_time is set
        ident    : Identity,    \* task_model, task_id (and task_created_by_id)
        synced   : BOOLEAN,     \* main_synced_at is set
        occurred : Nat]         \* occurred_at

NoRow == [status |-> "absent", ended |-> FALSE, ident |-> NoScheduler,
          synced |-> FALSE, occurred |-> 0]

\* A row of the main project's celery_skdl_executionrecord.
MainRow == [id : Nat, rec : Record, result : Terminal, group : Identity, start : Nat]

\* The ExecutionRecord object a worker holds in memory during one task.
Object == [pk : BOOLEAN,        \* record.pk is not None
           ident : Identity, occurred : Nat,
           outcome : {"none", "pending", "success", "fail"}]

VARIABLES
    local,   \* the table schedule_kit_executionrecord
    main,    \* the rows of the main table this project has published
    mainId,  \* the id sequence of the main table
    sent,    \* history: every row whose INSERT into the main table committed
    clock,   \* timezone.now()
    faults,  \* how many transactions and processes have failed
    pc,      \* where the worker of each execution is
    obj,     \* the `record` object of each worker
    mpc,     \* where each maintenance run is
    mnow,    \* its `now`
    mtodo,   \* the record ids its cursor still has to yield
    mgroups, \* the groups it still has to prune
    mgroup,  \* the group in hand: being pruned, or being cleaned in the main table
    mkeep    \* its keep_ids

tables == <<local, main, mainId, sent>>
worker == <<pc, obj>>
maint  == <<mpc, mnow, mtodo, mgroups, mgroup, mkeep>>
vars   == <<local, main, mainId, sent, clock, faults, pc, obj,
            mpc, mnow, mtodo, mgroups, mgroup, mkeep>>

WorkerPC == {"idle", "insert", "business", "metadata", "finish", "publish",
             "cleanup", "done"}

NoObject == [pk |-> FALSE, ident |-> NoScheduler, occurred |-> 0, outcome |-> "none"]
MaintPC  == {"idle", "timeout", "retry", "clean", "days", "groups", "count", "prune"}

TypeOK ==
    /\ local \in [Record -> Row]
    /\ main \subseteq MainRow
    /\ mainId \in Nat
    /\ sent \subseteq MainRow
    /\ clock \in 0 .. MaxClock
    /\ faults \in 0 .. MaxFaults
    /\ pc \in [Record -> WorkerPC]
    /\ obj \in [Record -> Object]
    /\ mpc \in [Maintainer -> MaintPC]
    /\ mnow \in [Maintainer -> Nat]
    /\ mtodo \in [Maintainer -> SUBSET Record]
    /\ mgroups \in [Maintainer -> SUBSET Identity]
    /\ mgroup \in [Maintainer -> Identity]
    /\ mkeep \in [Maintainer -> SUBSET Record]

Init ==
    /\ local = [r \in Record |-> NoRow]
    /\ main = {} /\ mainId = 0 /\ sent = {}
    /\ clock = 0 /\ faults = 0
    /\ pc = [r \in Record |-> "idle"]
    /\ obj = [r \in Record |-> NoObject]
    /\ mpc = [m \in Maintainer |-> "idle"]
    /\ mnow = [m \in Maintainer |-> 0]
    /\ mtodo = [m \in Maintainer |-> {}]
    /\ mgroups = [m \in Maintainer |-> {}]
    /\ mgroup = [m \in Maintainer |-> NoScheduler]
    /\ mkeep = [m \in Maintainer |-> {}]

-----------------------------------------------------------------------------
(* Reading the tables. *)

Exists(r)   == local[r].status # "absent"
IsOpen(r)   == local[r].status \in Open
IsTerminal(r) == local[r].status \in Terminal
Sent(r)     == \E x \in sent : x.rec = r

\* own_records: with shared recording only the records that carry this
\* project's prefix, and a record without a scheduler carries none.
Own(r) == Shared => local[r].ident # NoScheduler

\* Mutants of Publishable: the status, or the marker, is not checked again.
PublishableOpen(tbl, r) ==
    /\ Shared
    /\ ~ tbl[r].synced
    /\ tbl[r].ident \in Owned
PublishableAgain(tbl, r) ==
    /\ Shared
    /\ tbl[r].status \in Terminal
    /\ tbl[r].ident \in Owned

\* What write_main_record checks under the row lock, in a table state `tbl`.
Publishable(tbl, r) ==
    /\ Shared
    /\ tbl[r].status \in Terminal
    /\ ~ tbl[r].synced
    /\ tbl[r].ident \in Owned

\* Mutant of Eligible: the main_synced_at filter is missing.
EligibleUnsynced(r) == IsTerminal(r) /\ Own(r)

\* The retention of the local table never considers other records.
Eligible(r) == IsTerminal(r) /\ Own(r) /\ (Shared => local[r].synced)

\* ORDER BY occurred_at DESC, id DESC
Newer(q, r) ==
    \/ local[q].occurred > local[r].occurred
    \/ local[q].occurred = local[r].occurred /\ q > r

Newest(S, count) == {r \in S : Cardinality({q \in S : Newer(q, r)}) < count}

\* The rows of `rows` that DbTransport.cleanup leaves when it runs for group g.
MainNewer(x, y) == x.start > y.start \/ (x.start = y.start /\ x.id > y.id)
MainKeptOneMore(rows, g) ==    \* mutant: off by one in OFFSET
    LET young == {x \in rows : x.group = g /\ x.start + MainKeepAge >= clock}
    IN  {x \in rows : x.group # g}
          \cup {x \in young : Cardinality({y \in young : MainNewer(y, x)}) <= MainKeepCount}
MainKept(rows, g) ==
    LET young == {x \in rows : x.group = g /\ x.start + MainKeepAge >= clock}
    IN  {x \in rows : x.group # g}
          \cup {x \in young : Cardinality({y \in young : MainNewer(y, x)}) < MainKeepCount}

-----------------------------------------------------------------------------
(* What one transaction does to the tables. *)

Fault == faults < MaxFaults /\ faults' = faults + 1

\* DELETE of the local rows S.
Delete(S) == local' = [r \in Record |-> IF r \in S THEN NoRow ELSE local[r]]

\* Mutant of Finished: the UPDATE is not restricted to open records.
FinishedAlways(r, status) ==
    IF Exists(r) THEN [local EXCEPT ![r] = [@ EXCEPT !.status = status, !.ended = TRUE]]
                 ELSE local

\* The table after finish_record's UPDATE ... WHERE status IN (running, pending).
Finished(r, status) ==
    IF IsOpen(r) THEN [local EXCEPT ![r] = [@ EXCEPT !.status = status, !.ended = TRUE]]
                 ELSE local

NewMainRowFromMemory(tbl, r) ==    \* mutant: the worker's result, not the durable one
    [id |-> mainId + 1, rec |-> r,
     result |-> IF obj[r].outcome \in Terminal THEN obj[r].outcome ELSE tbl[r].status,
     group |-> tbl[r].ident, start |-> tbl[r].occurred]

NewMainRow(tbl, r) ==
    [id |-> mainId + 1, rec |-> r, result |-> tbl[r].status,
     group |-> tbl[r].ident, start |-> tbl[r].occurred]

\* Mutant of InsertAndMark: the marker is not saved with the INSERT.
InsertUnmarked(tbl, r) ==
    /\ local' = tbl
    /\ sent' = sent \cup {NewMainRow(tbl, r)}
    /\ mainId' = mainId + 1

\* The INSERT into the main table and the sync marker, in one transaction.
\* `main` itself is left to the caller, which may apply its retention as well.
InsertAndMark(tbl, r) ==
    /\ local' = [tbl EXCEPT ![r].synced = TRUE]
    /\ sent' = sent \cup {NewMainRow(tbl, r)}
    /\ mainId' = mainId + 1

\* write_main_record inside the transaction that already turned `local` into
\* `tbl`: deferred, or published with or without its retention, or rolled back
\* to the savepoint so that only `tbl` is left.
ProjectWithin(tbl, r) ==
    LET row == NewMainRow(tbl, r)
    IN  \/ /\ ~ Publishable(tbl, r)
           /\ local' = tbl
           /\ UNCHANGED <<main, mainId, sent, faults>>
        \/ /\ Publishable(tbl, r)
           /\ \/ /\ InsertAndMark(tbl, r)
                 /\ main' = MainKept(main \cup {row}, row.group)
                 /\ UNCHANGED faults
              \/ /\ InsertAndMark(tbl, r)
                 /\ main' = main \cup {row}
                 /\ Fault
              \/ /\ local' = tbl
                 /\ UNCHANGED <<main, mainId, sent>>
                 /\ Fault

\* update_record(r, success): its nested atomic blocks are savepoints of one
\* transaction that holds the row lock, hence one step.
UpdateRecord(r, status) == Exists(r) /\ ProjectWithin(Finished(r, status), r)

-----------------------------------------------------------------------------
(* The worker: recorded_task's wrapper. *)

\* What _resolve_scheduler may come back with: a scheduler row, or None when the
\* model is ambiguous, the row is gone or the lookup fails.
Resolved == Scheduler \cup {NoScheduler}

Goto(r, from, to) == pc[r] = from /\ pc' = [pc EXCEPT ![r] = to]

\* The wrapper is left and its object is garbage; only the id, if the agent was
\* given one, lives on.
Leave(r) ==
    /\ pc' = [pc EXCEPT ![r] = "done"]
    /\ obj' = [obj EXCEPT ![r] = [NoObject EXCEPT !.pk = obj[r].pk]]

\* The scheduler is looked up (or is not found, or the lookup fails) and the
\* ExecutionRecord object is built with the present time.
Start(r) ==
    /\ Goto(r, "idle", "insert")
    /\ \E s \in Resolved :
         obj' = [obj EXCEPT ![r] = [@ EXCEPT !.ident = s, !.occurred = clock]]
    /\ UNCHANGED <<tables, clock, faults, maint>>

Insert(r) ==
    /\ Goto(r, "insert", "business")
    /\ local' = [local EXCEPT ![r] = [status |-> "running", ended |-> FALSE,
                                      ident |-> obj[r].ident, synced |-> FALSE,
                                      occurred |-> obj[r].occurred]]
    /\ obj' = [obj EXCEPT ![r].pk = TRUE]
    /\ UNCHANGED <<main, mainId, sent, clock, faults, maint>>

\* A failed INSERT leaves record.pk None; a dispatcher that requires the record
\* stops here, every other task still runs.
InsertFails(r) ==
    /\ pc[r] = "insert"
    /\ IF RequireRecord THEN Leave(r) ELSE Goto(r, "insert", "business") /\ UNCHANGED obj
    /\ Fault
    /\ UNCHANGED <<tables, clock, maint>>

\* The task function raises, or returns something the wrapper rejects.
Raises(r) ==
    /\ Goto(r, "business", "finish")
    /\ obj' = [obj EXCEPT ![r].outcome = "fail"]
    /\ UNCHANGED <<tables, clock, faults, maint>>

\* It returns (None, success, message).
Returns(r) ==
    /\ Goto(r, "business", "finish")
    /\ \E o \in {"pending", "success", "fail"} :
         obj' = [obj EXCEPT ![r].outcome = o]
    /\ UNCHANGED <<tables, clock, faults, maint>>

\* It returns (instance, success, message).
ReturnsInstance(r) ==
    /\ Goto(r, "business", IF obj[r].pk THEN "metadata" ELSE "finish")
    /\ \E o \in {"pending", "success", "fail"}, s \in Scheduler :
         obj' = [obj EXCEPT ![r] = [@ EXCEPT !.outcome = o, !.ident = s]]
    /\ UNCHANGED <<tables, clock, faults, maint>>

\* The UPDATE of the identity columns looks neither at status nor at the marker.
Metadata(r) ==
    /\ Goto(r, "metadata", "finish")
    /\ local' = IF Exists(r) THEN [local EXCEPT ![r].ident = obj[r].ident] ELSE local
    /\ UNCHANGED <<main, mainId, sent, clock, faults, obj, maint>>

MetadataFails(r) ==
    /\ Goto(r, "metadata", "finish")
    /\ Fault
    /\ UNCHANGED <<tables, clock, obj, maint>>

\* finish_record up to its call of write_main_record.
Finish(r) ==
    /\ obj[r].pk
    /\ Goto(r, "finish", "publish")
    /\ local' = Finished(r, obj[r].outcome)
    /\ UNCHANGED <<main, mainId, sent, clock, faults, obj, maint>>

FinishWithoutRecord(r) ==
    /\ ~ obj[r].pk
    /\ pc[r] = "finish" /\ Leave(r)
    /\ UNCHANGED <<tables, clock, faults, maint>>

FinishFails(r) ==
    /\ obj[r].pk
    /\ pc[r] = "finish" /\ Leave(r)
    /\ Fault
    /\ UNCHANGED <<tables, clock, maint>>

\* write_main_record's transaction; `record = durable` rebinds the object that
\* the retention below is applied for.
Publish(r) ==
    /\ Goto(r, "publish", "cleanup")
    /\ Publishable(local, r)
    /\ InsertAndMark(local, r)
    /\ main' = main \cup {NewMainRow(local, r)}
    /\ obj' = [obj EXCEPT ![r].ident = local[r].ident]
    /\ UNCHANGED <<clock, faults, maint>>

PublishDeferred(r) ==
    /\ pc[r] = "publish" /\ Leave(r)
    /\ ~ Publishable(local, r)
    /\ UNCHANGED <<tables, clock, faults, maint>>

PublishFails(r) ==
    /\ pc[r] = "publish" /\ Leave(r)
    /\ Publishable(local, r)
    /\ Fault
    /\ UNCHANGED <<tables, clock, maint>>

CleanMain(r) ==
    /\ pc[r] = "cleanup" /\ Leave(r)
    /\ main' = MainKept(main, obj[r].ident)
    /\ UNCHANGED <<local, mainId, sent, clock, faults, maint>>

CleanMainFails(r) ==
    /\ pc[r] = "cleanup" /\ Leave(r)
    /\ Fault
    /\ UNCHANGED <<tables, clock, maint>>

\* The worker process dies between two of its transactions.
Crash(r) ==
    /\ pc[r] \notin {"idle", "done"} /\ Leave(r)
    /\ Fault
    /\ UNCHANGED <<tables, clock, maint>>

WorkerStep(r) ==
    \/ Start(r) \/ Insert(r) \/ InsertFails(r)
    \/ Raises(r) \/ Returns(r) \/ ReturnsInstance(r)
    \/ Metadata(r) \/ MetadataFails(r)
    \/ Finish(r) \/ FinishWithoutRecord(r) \/ FinishFails(r)
    \/ Publish(r) \/ PublishDeferred(r) \/ PublishFails(r)
    \/ CleanMain(r) \/ CleanMainFails(r)
    \/ Crash(r)

-----------------------------------------------------------------------------
(* The agent.  From the moment the task function has the record id, callbacks *)
(* for it arrive early, late, repeatedly or with the other result; one that   *)
(* is lost or fails as a whole changes nothing.                               *)

Callback(r) ==
    /\ obj[r].pk
    /\ \E status \in Terminal : UpdateRecord(r, status)
    /\ UNCHANGED <<clock, worker, maint>>

-----------------------------------------------------------------------------
(* Maintenance: cleanup_execution_records. *)

MGoto(m, from, to) == mpc[m] = from /\ mpc' = [mpc EXCEPT ![m] = to]

MaintStartPendingOnly(m) ==    \* mutant: only pending records time out
    /\ MGoto(m, "idle", "timeout")
    /\ mnow' = [mnow EXCEPT ![m] = clock]
    /\ mtodo' = [mtodo EXCEPT ![m] =
         {r \in Record : /\ Own(r) /\ local[r].status = "pending"
                         /\ local[r].occurred + Timeout < clock}]
    /\ UNCHANGED <<tables, clock, faults, worker, mgroups, mgroup, mkeep>>

MaintStart(m) ==
    /\ MGoto(m, "idle", "timeout")
    /\ mnow' = [mnow EXCEPT ![m] = clock]
    /\ mtodo' = [mtodo EXCEPT ![m] =
         {r \in Record : Own(r) /\ IsOpen(r) /\ local[r].occurred + Timeout < clock}]
    /\ UNCHANGED <<tables, clock, faults, worker, mgroups, mgroup, mkeep>>

\* The loop body for one overdue id: the record may have changed or gone since
\* the cursor was opened.
MaintTimeout(m) ==
    /\ mpc[m] = "timeout"
    /\ \E r \in mtodo[m] :
         /\ mtodo' = [mtodo EXCEPT ![m] = @ \ {r}]
         /\ \/ UpdateRecord(r, "fail")
            \/ ~ Exists(r) /\ UNCHANGED <<tables, faults>>
            \/ Exists(r) /\ Fault /\ UNCHANGED tables
    /\ UNCHANGED <<clock, worker, mpc, mnow, mgroups, mgroup, mkeep>>

\* Mutant of MaintRetryStart: only successes are retried.
MaintRetryStartSuccess(m) ==
    /\ mtodo[m] = {}
    /\ MGoto(m, "timeout", "retry")
    /\ mtodo' = [mtodo EXCEPT ![m] =
         {r \in Record : /\ Shared /\ Own(r) /\ local[r].status = "success"
                         /\ ~ local[r].synced}]
    /\ UNCHANGED <<tables, clock, faults, worker, mnow, mgroups, mgroup, mkeep>>

\* retry_pending_main_records opens its cursor.
MaintRetryStart(m) ==
    /\ mtodo[m] = {}
    /\ MGoto(m, "timeout", "retry")
    /\ mtodo' = [mtodo EXCEPT ![m] =
         {r \in Record : Shared /\ Own(r) /\ IsTerminal(r) /\ ~ local[r].synced}]
    /\ UNCHANGED <<tables, clock, faults, worker, mnow, mgroups, mgroup, mkeep>>

MaintRetry(m) ==
    /\ MGoto(m, "retry", "clean")
    /\ \E r \in mtodo[m] :
         /\ Publishable(local, r)
         /\ mtodo' = [mtodo EXCEPT ![m] = @ \ {r}]
         /\ InsertAndMark(local, r)
         /\ main' = main \cup {NewMainRow(local, r)}
         /\ mgroup' = [mgroup EXCEPT ![m] = local[r].ident]
    /\ UNCHANGED <<clock, faults, worker, mnow, mgroups, mkeep>>

\* Already synced by somebody else, still incomplete, gone, or a failed write.
MaintRetrySkip(m) ==
    /\ mpc[m] = "retry"
    /\ \E r \in mtodo[m] :
         /\ mtodo' = [mtodo EXCEPT ![m] = @ \ {r}]
         /\ IF Publishable(local, r) THEN Fault ELSE UNCHANGED faults
    /\ UNCHANGED <<tables, clock, worker, mpc, mnow, mgroups, mgroup, mkeep>>

MaintClean(m) ==
    /\ MGoto(m, "clean", "retry")
    /\ \/ main' = MainKept(main, mgroup[m]) /\ UNCHANGED faults
       \/ Fault /\ UNCHANGED main
    /\ mgroup' = [mgroup EXCEPT ![m] = NoScheduler]
    /\ UNCHANGED <<local, mainId, sent, clock, worker, mnow, mtodo, mgroups, mkeep>>

MaintRetryDone(m) ==
    /\ mtodo[m] = {}
    /\ MGoto(m, "retry", "days")
    /\ UNCHANGED <<tables, clock, faults, worker, mnow, mtodo, mgroups, mgroup, mkeep>>

\* DELETE of what is older than the cutoff, one statement.
MaintDays(m) ==
    /\ MGoto(m, "days", "groups")
    /\ Delete({r \in Record : Eligible(r) /\ local[r].occurred + KeepAge < mnow[m]})
    /\ UNCHANGED <<main, mainId, sent, clock, faults, worker, mnow, mtodo, mgroups, mgroup, mkeep>>

MaintGroups(m) ==
    /\ MGoto(m, "groups", "count")
    /\ mgroups' = [mgroups EXCEPT ![m] = {local[r].ident : r \in {q \in Record : Eligible(q)}}]
    /\ UNCHANGED <<tables, clock, faults, worker, mnow, mtodo, mgroup, mkeep>>

InGroup(g) == {r \in Record : Eligible(r) /\ local[r].ident = g}

\* keep_ids is read by one statement ...
MaintCount(m) ==
    /\ MGoto(m, "count", "prune")
    /\ \E g \in mgroups[m] :
         /\ mgroups' = [mgroups EXCEPT ![m] = @ \ {g}]
         /\ mgroup' = [mgroup EXCEPT ![m] = g]
         /\ mkeep' = [mkeep EXCEPT ![m] = Newest(InGroup(g), KeepCount)]
    /\ UNCHANGED <<tables, clock, faults, worker, mnow, mtodo>>

\* ... and everything else that is eligible by now is deleted by another.
MaintPrune(m) ==
    /\ MGoto(m, "prune", "count")
    /\ Delete(InGroup(mgroup[m]) \ mkeep[m])
    /\ mgroup' = [mgroup EXCEPT ![m] = NoScheduler]
    /\ mkeep' = [mkeep EXCEPT ![m] = {}]
    /\ UNCHANGED <<main, mainId, sent, clock, faults, worker, mnow, mtodo, mgroups>>

MaintDone(m) ==
    /\ mgroups[m] = {}
    /\ MGoto(m, "count", "idle")
    /\ mnow' = [mnow EXCEPT ![m] = 0]
    /\ UNCHANGED <<tables, clock, faults, worker, mtodo, mgroups, mgroup, mkeep>>

\* A query of the run fails, or its worker dies: the rest of the run is skipped.
MaintAbort(m) ==
    /\ mpc[m] # "idle"
    /\ mpc' = [mpc EXCEPT ![m] = "idle"]
    /\ mnow' = [mnow EXCEPT ![m] = 0]
    /\ mtodo' = [mtodo EXCEPT ![m] = {}]
    /\ mgroups' = [mgroups EXCEPT ![m] = {}]
    /\ mgroup' = [mgroup EXCEPT ![m] = NoScheduler]
    /\ mkeep' = [mkeep EXCEPT ![m] = {}]
    /\ Fault
    /\ UNCHANGED <<tables, clock, worker>>

MaintRun(m) ==
    \/ MaintStart(m) \/ MaintTimeout(m) \/ MaintRetryStart(m)
    \/ MaintRetry(m) \/ MaintRetrySkip(m) \/ MaintClean(m) \/ MaintRetryDone(m)
    \/ MaintDays(m) \/ MaintGroups(m)
    \/ MaintCount(m) \/ MaintPrune(m) \/ MaintDone(m)

-----------------------------------------------------------------------------
Tick ==
    /\ clock < MaxClock
    /\ clock' = clock + 1
    /\ UNCHANGED <<tables, faults, worker, maint>>

Next ==
    \/ \E r \in Record : WorkerStep(r) \/ Callback(r)
    \/ \E m \in Maintainer : MaintRun(m) \/ MaintAbort(m)
    \/ Tick

Spec == Init /\ [][Next]_vars

\* Celery Beat keeps starting the maintenance task and time passes; nothing is
\* assumed of the workers or of the agents, which may hang or never answer.
Fairness == WF_vars(Tick) /\ \A m \in Maintainer : WF_vars(MaintRun(m))

FairSpec == Spec /\ Fairness
-----------------------------------------------------------------------------
(* Properties. *)

\* At most one INSERT into the main table ever commits for a record, however
\* the worker, repeated callbacks and concurrent maintenance runs race on it
\* (recording.py: "A callback/retry cannot publish this execution twice").
PublishOnce == \A x, y \in sent : x.rec = y.rec => x = y

\* The sync marker of a row tells the truth: it is set exactly when the INSERT
\* into the main table committed, whatever failed in between.
MarkerIffSent == \A r \in Record : Exists(r) => (local[r].synced <=> Sent(r))

\* What the main project was told is what the local record says, for ever: the
\* published result is the durable terminal status and no late result of a
\* worker, an agent or the timeout changes it afterwards.
SentIsOutcome ==
    \A x \in sent : Exists(x.rec) => local[x.rec].status = x.result

\* With shared recording a record leaves the local table only after its outcome
\* reached the main table, also when retention runs against rows in flight.
NothingLost ==
    Shared => \A r \in Record : obj[r].pk /\ ~ Exists(r) => Sent(r)

\* The inductive invariant behind the properties above needs two facts more.
\* A worker that is about to complete its record has an outcome for it ...
OutcomeKnown ==
    \A r \in Record : pc[r] \in {"metadata", "finish"} => obj[r].outcome # "none"

\* ... and an id that no worker holds yet has neither a row nor a publication.
IdsAreFresh ==
    \A r \in Record :
      /\ pc[r] \in {"idle", "insert"} => ~ obj[r].pk
      /\ ~ obj[r].pk => ~ Exists(r) /\ ~ Sent(r)

IInv ==
    /\ TypeOK /\ OutcomeKnown /\ IdsAreFresh
    /\ PublishOnce /\ MarkerIffSent /\ SentIsOutcome /\ NothingLost

\* The main table never outgrows its limit by more than the publications whose
\* cleanup is still to come and the cleanups that failed or died.
InFlight(g) ==
    Cardinality({r \in Record : pc[r] = "cleanup" /\ obj[r].ident = g})
      + Cardinality({m \in Maintainer : mpc[m] = "clean" /\ mgroup[m] = g})
MainGroupBound ==
    \A g \in Scheduler :
      Cardinality({x \in main : x.group = g}) <= MainKeepCount + InFlight(g) + faults

\* The first terminal status stands: it is never replaced, by another terminal
\* status or by the dispatcher's "pending", until retention deletes the row.
FirstOutcomeStands ==
    [][\A r \in Record : IsTerminal(r) =>
         local'[r].status \in {local[r].status, "absent"}]_vars

\* Every open record of this project is closed in the end by the maintenance
\* timeout, even if its worker died and its agent never answers.  The premise
\* leaves out the records that the bound on the clock keeps from ageing.
EventuallyClosed ==
    \A r \in Record :
      (/\ IsOpen(r) /\ (Shared => local[r].ident # NoScheduler)
       /\ local[r].occurred + Timeout < MaxClock) ~> ~ IsOpen(r)

\* Every terminal outcome with a complete identity reaches the main table in
\* the end, whatever publication failed before.
EventuallyDelivered ==
    Shared => \A r \in Record :
      (IsTerminal(r) /\ local[r].ident \in Owned) ~> (Sent(r) \/ local[r].ident \notin Owned)

\* The count limit deletes the oldest records and keeps the newest: what it
\* leaves of a group is newer than what it deletes (maintenance.py:37).
CountLimitKeepsNewest ==
    [][\A m \in Maintainer, r, q \in Record :
         (MaintPrune(m) /\ {r, q} \subseteq InGroup(mgroup[m])
           /\ local'[r].status = "absent" /\ local'[q].status # "absent")
         => Newer(q, r)]_vars

-----------------------------------------------------------------------------
(* The abstract specification this module implements. *)

OutcomeOf(r) ==
    IF Exists(r) THEN (IF IsOpen(r) THEN "open" ELSE local[r].status)
    ELSE IF obj[r].pk THEN "forgotten" ELSE "none"

DeliveredOf(r) ==
    IF Sent(r) THEN (CHOOSE x \in sent : x.rec = r).result ELSE "none"

Abstract == INSTANCE ExecutionOutcome WITH
    outcome   <- [r \in Record |-> OutcomeOf(r)],
    delivered <- [r \in Record |-> DeliveredOf(r)]

\* Every behaviour of workers, agents and maintenance is, seen through the
\* local row and the committed INSERTs, one of the abstract specification.
Implements == Abstract!Spec
=============================================================================
