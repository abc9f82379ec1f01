------------------------- MODULE ScheduleSyncProofs -------------------------
(***************************************************************************)
(* Theorems about ScheduleSync, for any number of models, instances,       *)
(* editors and runs of resync_all, whoever races with whom.                *)
(***************************************************************************)
EXTENDS ScheduleSync, TLAPS

\* An actor at work has an instance.
AtWork == \A a \in Actor : pc[a] \in {"loaded", "sync", "insert", "scheduled", "link", "write"}
                             => mem[a].id \in Instance

\* PeriodicTask p belongs to instance i: some row or some object says so.
RowClaims(i, p)  == i \in Instance /\ row[i].task = p
MemClaims(i, p)  == \E a \in Actor : mem[a].id = i /\ (mem[a].row.task = p \/ mem[a].new = p)
TodoClaims(i, p) == \E r \in Resyncer : \E x \in todo[r] : x.id = i /\ x.row.task = p
Claims(i, p)     == p # NoTask /\ (RowClaims(i, p) \/ MemClaims(i, p) \/ TodoClaims(i, p))

\* Behind OneSchedulerPerTask: whoever holds the id of a PeriodicTask, however old
\* his copy, holds it for the instance it was created for; ids are not used twice;
\* a PeriodicTask runs the task of that instance, and exists while a row refers to it.
NoneShared == \A i, j \in Instance, p \in TaskId : Claims(i, p) /\ Claims(j, p) => i = j
NoneAhead  == \A i \in Instance, p \in TaskId : Claims(i, p) => p <= lastPt
NoneWrong  == \A i \in Instance, p \in TaskId :
                Claims(i, p) /\ pt[p].live => pt[p].task = TaskOf[ModelOf[i]]
NoneGone   == \A i \in Instance : row[i].task # NoTask => pt[row[i].task].live
IInv == TypeOK /\ AtWork /\ NoneShared /\ NoneAhead /\ NoneWrong /\ NoneGone

-----------------------------------------------------------------------------
(* Steps that create no PeriodicTask. *)

\* What a step leaves in rows, objects and loops was claimed before.
RowsHeld == \A i \in Instance : row'[i].task # NoTask => Claims(i, row'[i].task)
MemHeld  == \A a \in Actor :
              /\ mem'[a].row.task # NoTask => Claims(mem'[a].id, mem'[a].row.task)
              /\ mem'[a].new # NoTask => Claims(mem'[a].id, mem'[a].new)
TodoHeld == \A r \in Resyncer : \A x \in todo'[r] :
              x.row.task # NoTask => Claims(x.id, x.row.task)
\* A PeriodicTask keeps its task, or gets that of the instance that claims it.
TasksHeld == \A p \in TaskId : pt'[p].live =>
               \/ pt[p].live /\ pt'[p].task = pt[p].task
               \/ \E i \in Instance : Claims(i, p) /\ pt'[p].task = TaskOf[ModelOf[i]]
Held == RowsHeld /\ MemHeld /\ TodoHeld /\ TasksHeld /\ lastPt' = lastPt

\* A step that holds on to what was claimed keeps the invariant.
LEMMA HeldSafe ==
    ASSUME IInv, Held, TypeOK', AtWork', NoneGone'
    PROVE  IInv'
<1>1. ASSUME NEW i \in Instance, NEW p \in TaskId, Claims(i, p)' PROVE Claims(i, p)
  <2>1. CASE RowClaims(i, p)'
    BY <1>1, <2>1 DEF Held, RowsHeld, Claims, RowClaims
  <2>2. CASE MemClaims(i, p)'
    BY <1>1, <2>2 DEF Held, MemHeld, Claims, MemClaims
  <2>3. CASE TodoClaims(i, p)'
    BY <1>1, <2>3 DEF Held, TodoHeld, Claims, TodoClaims
  <2>4. QED
    BY <1>1, <2>1, <2>2, <2>3 DEF Claims
<1>2. NoneShared'
  BY <1>1 DEF IInv, NoneShared
<1>3. NoneAhead'
  BY <1>1 DEF IInv, NoneAhead, Held
<1>4. NoneWrong'
  <2> SUFFICES ASSUME NEW i \in Instance, NEW p \in TaskId, Claims(i, p)', pt'[p].live
               PROVE  pt'[p].task = TaskOf[ModelOf[i]]
    BY DEF NoneWrong
  <2>1. Claims(i, p)
    BY <1>1
  <2>2. CASE pt[p].live /\ pt'[p].task = pt[p].task
    BY <2>1, <2>2 DEF IInv, NoneWrong
  <2>3. CASE \E j \in Instance : Claims(j, p) /\ pt'[p].task = TaskOf[ModelOf[j]]
    BY <2>1, <2>3 DEF IInv, NoneShared
  <2>4. QED
    BY <2>2, <2>3 DEF Held, TasksHeld
<1>5. QED
  BY <1>2, <1>3, <1>4 DEF IInv

\* What rows, objects and loops hold now is claimed now.
LEMMA ClaimedNow ==
    /\ \A i \in Instance : row[i].task # NoTask => Claims(i, row[i].task)
    /\ \A a \in Actor : /\ mem[a].row.task # NoTask => Claims(mem[a].id, mem[a].row.task)
                        /\ mem[a].new # NoTask => Claims(mem[a].id, mem[a].new)
    /\ \A r \in Resyncer : \A x \in todo[r] : x.row.task # NoTask => Claims(x.id, x.row.task)
BY DEF Claims, RowClaims, MemClaims, TodoClaims

\* The empty object and the absent rows are well typed and claim nothing.
LEMMA Blank == Empty \in Memory /\ NoRow \in Row /\ NoPT \in Task
BY BoundsAssumption DEF Empty, Memory, NoRow, Row, NoPT, Task, NoTask

\* The parts of TypeOK.
PcType   == pc \in [Actor -> {"idle", "loaded", "sync", "insert", "scheduled", "link", "write",
                              "orphans", "query", "loop", "failed"}]
MemType  == mem \in [Actor -> Memory]
TodoType == todo \in [Resyncer -> SUBSET [id : Instance, row : Row]]
LocalsOK == \A a \in Actor : /\ pc[a] = "link" => mem[a].new # NoTask
                             /\ pc[a] = "write" => mem[a].row.task # NoTask /\ mem[a].pt.live
ResyncType == /\ model \in [Resyncer -> Model \cup {None}]
              /\ inUse \in [Resyncer -> SUBSET TaskId]
              /\ TodoType
TableType == row \in [Instance -> Row] /\ pt \in [TaskId -> Task] /\ lastPt \in 0 .. MaxTask
BudgetType == /\ schedules \in [Cycle -> 0 .. 2]
              /\ edits \in 0 .. MaxEdits /\ drift \in 0 .. MaxDrift /\ faults \in 0 .. MaxFaults
LEMMA Types ==
    TypeOK <=> /\ TableType /\ BudgetType /\ ResyncType
               /\ PcType /\ MemType /\ LocalsOK
BY DEF TypeOK, TableType, BudgetType, ResyncType, TodoType, PcType, MemType, LocalsOK

LEMMA TypesNext ==
    TableType' /\ BudgetType' /\ ResyncType' /\ PcType' /\ MemType' /\ LocalsOK' => TypeOK'
BY DEF TypeOK, TableType, BudgetType, ResyncType, TodoType, PcType, MemType, LocalsOK

\* What an actor that stops working leaves behind.
LEMMA Leaves ==
    ASSUME IInv, NEW a \in Actor, Raise(a) \/ Return(a)
    PROVE  /\ PcType' /\ MemType' /\ LocalsOK' /\ AtWork' /\ ResyncType'
           /\ MemHeld /\ TodoHeld
<1>1. mem' = [mem EXCEPT ![a] = Empty]
  BY DEF Raise, Return
<1>2. /\ pc' = [pc EXCEPT ![a] = pc'[a]] /\ pc'[a] \in {"idle", "loop", "failed"}
  BY Types DEF IInv, PcType, Raise, Return
<1>3. \A r \in Resyncer : todo'[r] \in {todo[r], {}}
  BY Types DEF IInv, ResyncType, TodoType, Raise, Return, resync
<1>4. PcType' /\ MemType'
  BY <1>1, <1>2, Types, Blank DEF IInv, PcType, MemType
<1>5. \A b \in Actor : IF b = a THEN mem'[b] = Empty /\ pc'[b] \in {"idle", "loop", "failed"}
                                ELSE mem'[b] = mem[b] /\ pc'[b] = pc[b]
  BY <1>1, <1>2, Types DEF IInv, PcType, MemType
<1>6. LocalsOK' /\ AtWork'
  BY <1>5, Types DEF IInv, LocalsOK, AtWork
<1>7. MemHeld
  BY <1>5, ClaimedNow DEF MemHeld, Empty, NoRow, NoTask
<1>8. TodoHeld
  BY <1>3, ClaimedNow DEF TodoHeld
<1>9. ResyncType'
  <2>1. CASE UNCHANGED resync
    BY <2>1, Types DEF IInv, ResyncType, TodoType, resync
  <2>2. CASE /\ a \notin Editor /\ todo' = [todo EXCEPT ![a] = {}]
             /\ inUse' = [inUse EXCEPT ![a] = {}]
             /\ model' = [model EXCEPT ![a] = None]
    BY <2>2, Types DEF IInv, ResyncType, TodoType, Actor
  <2>3. QED
    BY <2>1, <2>2 DEF Raise, Return
<1>10. QED
  BY <1>4, <1>6, <1>7, <1>8, <1>9

\* Tables that stay as they are.
LEMMA TablesStay ==
    ASSUME IInv, row' = row, pt' = pt, lastPt' = lastPt
    PROVE  RowsHeld /\ TasksHeld /\ TableType' /\ NoneGone'
BY ClaimedNow, Types DEF IInv, RowsHeld, TasksHeld, TableType, NoneGone

\* An exception, wherever it comes from, changes no table.
LEMMA RaiseSafe ==
    ASSUME IInv, NEW a \in Actor, Raise(a), row' = row, pt' = pt, lastPt' = lastPt, BudgetType'
    PROVE  IInv'
<1>1. TypeOK' /\ AtWork'
  BY Leaves, TablesStay, TypesNext
<1>2. QED
  BY <1>1, Leaves, TablesStay, HeldSafe DEF Held

-----------------------------------------------------------------------------
(* sync_to_periodic_task. *)

LEMMA SyncFailsSafe ==
    ASSUME IInv, NEW a \in Actor,
           \/ SyncRejects(a) \/ GetScheduleFails(a) \/ SyncCreateFails(a) \/ SyncLinkFails(a)
           \/ SyncReadFails(a) \/ SyncWriteFails(a) \/ SyncDies(a)
    PROVE  IInv'
<1>1. Raise(a) /\ row' = row /\ pt' = pt /\ lastPt' = lastPt
  BY DEF SyncRejects, GetScheduleFails, SyncCreateFails, SyncLinkFails, SyncReadFails,
         SyncWriteFails, SyncDies
<1>2. BudgetType'
  BY Types, BoundsAssumption DEF IInv, BudgetType, rest, SyncRejects,
     GetScheduleFails, SyncCreateFails, SyncLinkFails, SyncReadFails, SyncWriteFails, SyncDies
<1>3. QED
  BY <1>1, <1>2, RaiseSafe

LEMMA BudgetStays == ASSUME IInv, UNCHANGED rest PROVE BudgetType'
BY Types DEF IInv, BudgetType, rest

\* Looking for the schedule, and inserting it, touches neither rows nor PeriodicTasks.
LEMMA ScheduleSafe ==
    ASSUME IInv, NEW a \in Actor, GetSchedule(a) \/ InsertSchedule(a)
    PROVE  IInv'
<1>1. /\ row' = row /\ pt' = pt /\ lastPt' = lastPt /\ mem' = mem
      /\ UNCHANGED resync /\ pc[a] \in {"sync", "insert"}
      /\ pc' = [pc EXCEPT ![a] = pc'[a]] /\ pc'[a] \in {"insert", "scheduled"}
  BY Types DEF GetSchedule, InsertSchedule, IInv, PcType
<1>2. \A b \in Actor : pc'[b] = IF b = a THEN pc'[a] ELSE pc[b]
  BY <1>1, Types DEF IInv, PcType
<1>3. BudgetType'
  BY Types DEF GetSchedule, InsertSchedule, IInv, BudgetType, rest
<1>4. PcType' /\ MemType'
  BY <1>1, Types DEF IInv, PcType, MemType
<1>5. LocalsOK' /\ AtWork'
  BY <1>1, <1>2, Types DEF IInv, LocalsOK, AtWork
<1>6. MemHeld /\ ResyncType' /\ TodoHeld
  BY <1>1, ClaimedNow, Types DEF MemHeld, IInv, ResyncType, TodoType, TodoHeld, resync
<1>7. TypeOK'
  BY <1>1, <1>3, <1>4, <1>5, <1>6, TablesStay, TypesNext
<1>8. QED
  BY <1>1, <1>5, <1>6, <1>7, TablesStay, HeldSafe DEF Held

\* The new PeriodicTask has an id that nobody has seen.
LEMMA SyncCreateSafe ==
    ASSUME IInv, NEW a \in Actor, SyncCreate(a)
    PROVE  IInv'
<1> DEFINE i == mem[a].id
           p == lastPt + 1
           t == [live |-> TRUE, name |-> mem[a].row.title, task |-> TaskOf[ModelOf[i]],
                 enabled |-> mem[a].row.active, cycle |-> mem[a].row.cycle,
                 last |-> "never", runs |-> 0]
<1>1. /\ i \in Instance /\ pc[a] = "scheduled" /\ mem[a] \in Memory
      /\ row \in [Instance -> Row] /\ pt \in [TaskId -> Task] /\ lastPt \in Nat
  BY Types DEF IInv, AtWork, SyncCreate, Estimable, MemType, TableType
<1>2. p \in TaskId /\ p # NoTask /\ p \in 0 .. MaxTask
  BY <1>1, BoundsAssumption DEF SyncCreate, TaskId, NoTask
<1>3. t \in Task
  BY <1>1, ModelAssumption, BoundsAssumption DEF Task, Memory, Row, Name
<1>4. /\ pt' = [pt EXCEPT ![p] = t] /\ lastPt' = p /\ row' = row /\ todo' = todo
      /\ pc' = [pc EXCEPT ![a] = "link"]
      /\ mem' = [mem EXCEPT ![a].new = p]
  BY DEF SyncCreate, resync
<1>5. TableType'
  <2> HIDE DEF t, p, i
  <2> QED BY <1>1, <1>2, <1>3, <1>4 DEF TableType
<1>6. MemType'
  <2>1. [mem[a] EXCEPT !.new = p] \in Memory
    BY <1>1, <1>2 DEF Memory
  <2>2. mem' = [mem EXCEPT ![a] = [mem[a] EXCEPT !.new = p]]
    BY <1>4, Types DEF IInv, MemType
  <2>3. QED
    BY <2>1, <2>2, Types DEF IInv, MemType
<1>7. PcType'
  BY <1>4, Types DEF IInv, PcType
<1>8. \A b \in Actor : /\ mem'[b].id = mem[b].id /\ mem'[b].row = mem[b].row
                       /\ mem'[b].pt = mem[b].pt
                       /\ mem'[b].new = IF b = a THEN p ELSE mem[b].new
                       /\ pc'[b] = IF b = a THEN "link" ELSE pc[b]
  BY <1>1, <1>4, Types DEF IInv, MemType, PcType, Memory
<1>9. LocalsOK' /\ AtWork'
  BY <1>1, <1>2, <1>8, Types DEF IInv, LocalsOK, AtWork
<1>10. ResyncType' /\ BudgetType'
  BY Types, BudgetStays DEF IInv, ResyncType, TodoType, resync, SyncCreate
<1>11. ASSUME NEW j \in Instance, NEW q \in TaskId, Claims(j, q)'
       PROVE  Claims(j, q) \/ (j = i /\ q = p)
  BY <1>4, <1>8, <1>11 DEF Claims, RowClaims, MemClaims, TodoClaims
<1>12. \A j \in Instance, q \in TaskId : Claims(j, q) => q <= lastPt /\ q # p
  BY <1>1, BoundsAssumption DEF IInv, NoneAhead, TaskId
<1>13. NoneShared'
  BY <1>11, <1>12 DEF IInv, NoneShared
<1>14. NoneAhead'
  BY <1>1, <1>4, <1>11, <1>12, BoundsAssumption DEF NoneAhead, TaskId
<1>15. \A q \in TaskId : pt'[q] = IF q = p THEN t ELSE pt[q]
  <2> HIDE DEF t, p
  <2> QED BY <1>1, <1>4
<1>16. NoneWrong'
  BY <1>11, <1>12, <1>15 DEF IInv, NoneWrong
<1>17. NoneGone'
  <2> SUFFICES ASSUME NEW j \in Instance, row[j].task # NoTask PROVE pt'[row[j].task].live
    BY <1>4 DEF NoneGone
  <2>1. row[j].task \in TaskId /\ pt[row[j].task].live
    BY <1>1 DEF Row, IInv, NoneGone
  <2>2. QED
    BY <2>1, <1>15
<1>18. QED
  BY <1>5, <1>6, <1>7, <1>9, <1>10, <1>13, <1>14, <1>16, <1>17, TypesNext DEF IInv

\* A row is linked to the PeriodicTask that was created for it, and exists.
LEMMA SyncLinkSafe ==
    ASSUME IInv, NEW a \in Actor, SyncLink(a)
    PROVE  IInv'
<1> DEFINE i == mem[a].id
           p == mem[a].new
<1>1. /\ i \in Instance /\ p \in TaskId /\ p # NoTask /\ Claims(i, p)
      /\ row \in [Instance -> Row] /\ pt \in [TaskId -> Task]
  BY Types, ClaimedNow DEF IInv, AtWork, LocalsOK, SyncLink, MemType, Memory, TableType
<1>2. /\ Return(a) /\ pt' = pt /\ lastPt' = lastPt /\ BudgetType'
      /\ row' \in {row, [row EXCEPT ![i].task = p]}
      /\ row' # row => pt[p].live
  BY <1>1, BudgetStays DEF SyncLink, LinkRefused
<1>3. CASE row' = row
  <2>1. TypeOK' /\ AtWork'
    BY <1>2, <1>3, Leaves, TablesStay, TypesNext
  <2>2. QED
    BY <1>2, <1>3, <2>1, Leaves, TablesStay, HeldSafe DEF Held
<1>4. CASE row' = [row EXCEPT ![i].task = p] /\ pt[p].live
  <2>1. \A j \in Instance : row'[j] = IF j = i THEN [row[i] EXCEPT !.task = p] ELSE row[j]
    BY <1>1, <1>4
  <2>2. [row[i] EXCEPT !.task = p] \in Row /\ [row[i] EXCEPT !.task = p].task = p
    BY <1>1 DEF Row
  <2>3. TableType'
    BY <1>1, <1>2, <1>4, <2>1, <2>2, Types DEF IInv, TableType
  <2>4. RowsHeld
    BY <1>1, <2>1, <2>2, ClaimedNow DEF RowsHeld
  <2>5. TasksHeld
    BY <1>2 DEF TasksHeld
  <2>6. NoneGone'
    BY <1>2, <1>4, <2>1, <2>2 DEF IInv, NoneGone
  <2>7. TypeOK' /\ AtWork'
    BY <1>2, <2>3, Leaves, TypesNext
  <2>8. QED
    BY <1>2, <2>4, <2>5, <2>6, <2>7, Leaves, HeldSafe DEF Held
<1>5. QED
  BY <1>2, <1>3, <1>4

\* What an actor has in hand after a step of its own that puts m there.
LEMMA Puts ==
    ASSUME IInv, NEW a \in Actor, NEW m \in Memory, NEW to,
           mem' = [mem EXCEPT ![a] = m], pc' = [pc EXCEPT ![a] = to],
           to \in {"loaded", "sync", "write"}, m.id \in Instance,
           to = "write" => m.row.task # NoTask /\ m.pt.live,
           m.row.task # NoTask => Claims(m.id, m.row.task),
           m.new # NoTask => Claims(m.id, m.new)
    PROVE  PcType' /\ MemType' /\ LocalsOK' /\ AtWork' /\ MemHeld
<1>1. \A b \in Actor : IF b = a THEN mem'[b] = m /\ pc'[b] = to
                                ELSE mem'[b] = mem[b] /\ pc'[b] = pc[b]
  BY Types DEF IInv, MemType, PcType
<1>2. PcType' /\ MemType'
  BY Types DEF IInv, MemType, PcType
<1>3. LocalsOK' /\ AtWork'
  BY <1>1, Types DEF IInv, LocalsOK, AtWork
<1>4. MemHeld
  BY <1>1, ClaimedNow DEF MemHeld
<1>5. QED
  BY <1>2, <1>3, <1>4

\* Loops that stay as they are.
LEMMA LoopsStay ==
    ASSUME IInv, UNCHANGED resync
    PROVE  ResyncType' /\ TodoHeld
BY ClaimedNow, Types DEF IInv, ResyncType, TodoType, TodoHeld, resync

LEMMA SyncReadSafe ==
    ASSUME IInv, NEW a \in Actor, SyncRead(a)
    PROVE  IInv'
<1> DEFINE m == [mem[a] EXCEPT !.pt = pt[mem[a].row.task]]
<1>1. /\ mem[a] \in Memory /\ mem[a].id \in Instance /\ pt \in [TaskId -> Task]
      /\ mem[a].row.task \in TaskId /\ mem[a].row.task # NoTask /\ pt[mem[a].row.task].live
  BY Types DEF IInv, AtWork, SyncRead, Estimable, MemType, Memory, Row, TableType
<1>2. m \in Memory
  BY <1>1 DEF Memory
<1>3. m.id = mem[a].id /\ m.row = mem[a].row /\ m.new = mem[a].new /\ m.pt.live
  BY <1>1 DEF Memory
<1>4. mem' = [mem EXCEPT ![a] = m] /\ pc' = [pc EXCEPT ![a] = "write"]
  BY Types DEF IInv, MemType, SyncRead
<1>5. row' = row /\ pt' = pt /\ lastPt' = lastPt /\ UNCHANGED resync /\ BudgetType'
  BY BudgetStays DEF SyncRead
<1>6. PcType' /\ MemType' /\ LocalsOK' /\ AtWork' /\ MemHeld
  <2> HIDE DEF m
  <2> QED BY <1>1, <1>2, <1>3, <1>4, ClaimedNow, Puts
<1>7. TypeOK'
  BY <1>5, <1>6, TablesStay, LoopsStay, TypesNext
<1>8. QED
  BY <1>5, <1>6, <1>7, TablesStay, LoopsStay, HeldSafe DEF Held

\* A stale copy is written back whole, but it is the copy of the right task; a
\* PeriodicTask that was deleted meanwhile comes back under its id.
LEMMA SyncWriteSafe ==
    ASSUME IInv, NEW a \in Actor, SyncWrite(a)
    PROVE  IInv'
<1> DEFINE i == mem[a].id
           p == mem[a].row.task
           t == Synced(mem[a])
<1>1. /\ mem[a] \in Memory /\ i \in Instance /\ p \in TaskId /\ p # NoTask /\ Claims(i, p)
      /\ mem[a].pt.live /\ row \in [Instance -> Row] /\ pt \in [TaskId -> Task]
  BY Types, ClaimedNow DEF IInv, AtWork, LocalsOK, SyncWrite, MemType, Memory, Row, TableType
<1>2. t \in Task /\ t.live /\ t.task = TaskOf[ModelOf[i]]
  BY <1>1, ModelAssumption DEF Synced, Task, Memory, Row, Name
<1>3. /\ pt' = [pt EXCEPT ![p] = t] /\ row' = row /\ lastPt' = lastPt
      /\ Return(a) /\ BudgetType'
  BY BudgetStays DEF SyncWrite
<1>4. \A q \in TaskId : pt'[q] = IF q = p THEN t ELSE pt[q]
  <2> HIDE DEF t, p
  <2> QED BY <1>1, <1>3
<1>5. TableType'
  <2> HIDE DEF t, p
  <2> QED BY <1>1, <1>2, <1>3, Types DEF IInv, TableType
<1>6. RowsHeld
  BY <1>3, ClaimedNow DEF RowsHeld
<1>7. TasksHeld
  <2> HIDE DEF t, p, i
  <2> QED BY <1>1, <1>2, <1>4 DEF TasksHeld
<1>8. NoneGone'
  <2> SUFFICES ASSUME NEW j \in Instance, row[j].task # NoTask PROVE pt'[row[j].task].live
    BY <1>3 DEF NoneGone
  <2>1. row[j].task \in TaskId /\ pt[row[j].task].live
    BY <1>1 DEF Row, IInv, NoneGone
  <2> HIDE DEF t, p
  <2>2. QED
    BY <1>2, <1>4, <2>1
<1>9. TypeOK' /\ AtWork'
  BY <1>3, <1>5, Leaves, TypesNext
<1>10. QED
  BY <1>3, <1>6, <1>7, <1>8, <1>9, Leaves, HeldSafe DEF Held

-----------------------------------------------------------------------------
(* Requests and scripts. *)

LEMMA CreateSafe ==
    ASSUME IInv, NEW e \in Editor, Create(e)
    PROVE  IInv'
<1>1. PICK i \in Instance, t \in Title, c \in Cycle, on \in BOOLEAN :
        LET r == [live |-> TRUE, title |-> t, active |-> on, cycle |-> c, task |-> NoTask]
        IN  /\ ~ row[i].live /\ ~ TitleTaken(i, t)
            /\ row' = [row EXCEPT ![i] = r]
            /\ mem' = [mem EXCEPT ![e] = [Empty EXCEPT !.id = i, !.row = r]]
  BY Zenon DEF Create
<1> DEFINE r == [live |-> TRUE, title |-> t, active |-> on, cycle |-> c, task |-> NoTask]
           m == [Empty EXCEPT !.id = i, !.row = r]
<1>2. r \in Row /\ r.task = NoTask
  BY DEF Row
<1>3. m \in Memory /\ m.id = i /\ m.row = r /\ m.new = NoTask
  BY <1>2, Blank DEF Memory, Empty
<1>4. row' = [row EXCEPT ![i] = r] /\ mem' = [mem EXCEPT ![e] = m]
  BY <1>1
<1>5. /\ pt' = pt /\ lastPt' = lastPt /\ UNCHANGED resync
      /\ pc' = [pc EXCEPT ![e] = "sync"]
  BY DEF Create
<1>6. BudgetType'
  BY Types, BoundsAssumption DEF IInv, BudgetType, Create
<1> HIDE DEF r, m
<1>7. PcType' /\ MemType' /\ LocalsOK' /\ AtWork' /\ MemHeld
  BY <1>2, <1>3, <1>4, <1>5, Puts DEF Actor
<1>8. row \in [Instance -> Row] /\ \A j \in Instance : row'[j] = IF j = i THEN r ELSE row[j]
  BY <1>4, Types DEF IInv, TableType
<1>9. TableType'
  BY <1>2, <1>4, <1>5, Types DEF IInv, TableType
<1>10. RowsHeld /\ TasksHeld /\ NoneGone'
  BY <1>2, <1>5, <1>8, ClaimedNow DEF RowsHeld, TasksHeld, NoneGone, IInv
<1>11. TypeOK'
  BY <1>5, <1>6, <1>7, <1>9, LoopsStay, TypesNext
<1>12. QED
  BY <1>5, <1>7, <1>10, <1>11, LoopsStay, HeldSafe DEF Held

LEMMA LoadSafe ==
    ASSUME IInv, NEW e \in Editor, Load(e)
    PROVE  IInv'
<1>1. PICK i \in Instance : mem' = [mem EXCEPT ![e] = [Empty EXCEPT !.id = i, !.row = row[i]]]
  BY DEF Load
<1> DEFINE m == [Empty EXCEPT !.id = i, !.row = row[i]]
<1>2. m \in Memory /\ m.id = i /\ m.row = row[i] /\ m.new = NoTask
  BY Blank, Types DEF Memory, Empty, IInv, TableType
<1>3. /\ row' = row /\ pt' = pt /\ lastPt' = lastPt /\ UNCHANGED resync
      /\ pc' = [pc EXCEPT ![e] = "loaded"] /\ mem' = [mem EXCEPT ![e] = m]
  BY <1>1 DEF Load
<1>4. BudgetType'
  BY Types, BoundsAssumption DEF IInv, BudgetType, Load
<1> HIDE DEF m
<1>5. PcType' /\ MemType' /\ LocalsOK' /\ AtWork' /\ MemHeld
  BY <1>2, <1>3, ClaimedNow, Puts DEF Actor
<1>6. TypeOK'
  BY <1>3, <1>4, <1>5, TablesStay, LoopsStay, TypesNext
<1>7. QED
  BY <1>3, <1>5, <1>6, TablesStay, LoopsStay, HeldSafe DEF Held

\* A stale object writes back the PeriodicTask it knew, which still exists.
LEMMA SaveSafe ==
    ASSUME IInv, NEW e \in Editor, Save(e)
    PROVE  IInv'
<1> DEFINE i == mem[e].id
           p == mem[e].row.task
<1>1. /\ mem[e] \in Memory /\ i \in Instance /\ row \in [Instance -> Row] /\ e \in Actor
      /\ p # NoTask => Claims(i, p)
      /\ mem[e].new # NoTask => Claims(i, mem[e].new)
  BY Types, ClaimedNow DEF IInv, AtWork, Save, MemType, TableType, Actor
<1>2. PICK t \in Title, c \in Cycle, on \in BOOLEAN :
        LET r == [mem[e].row EXCEPT !.title = t, !.cycle = c, !.active = on]
        IN  /\ ~ TitleTaken(i, t) /\ ~ LinkRefused(i, r.task)
            /\ row' = [row EXCEPT ![i] = r]
            /\ mem' = [mem EXCEPT ![e] = [@ EXCEPT !.row = r, !.old = row[i].cycle]]
  BY Zenon DEF Save
<1> DEFINE r == [mem[e].row EXCEPT !.title = t, !.cycle = c, !.active = on]
           m == [mem[e] EXCEPT !.row = r, !.old = row[i].cycle]
<1>3. r \in Row /\ r.task = p
  BY <1>1 DEF Memory, Row
<1>4. m \in Memory /\ m.id = i /\ m.row = r /\ m.new = mem[e].new
  BY <1>1, <1>3 DEF Memory, Row
<1>5. row' = [row EXCEPT ![i] = r] /\ mem' = [mem EXCEPT ![e] = m]
  BY <1>1, <1>2, Types DEF IInv, MemType
<1>6. p # NoTask => pt[p].live
  BY <1>2, <1>3 DEF LinkRefused
<1>7. /\ pt' = pt /\ lastPt' = lastPt /\ UNCHANGED resync /\ BudgetType'
      /\ pc' = [pc EXCEPT ![e] = "sync"]
  BY BudgetStays DEF Save
<1> HIDE DEF r, m
<1>8. PcType' /\ MemType' /\ LocalsOK' /\ AtWork' /\ MemHeld
  BY <1>1, <1>3, <1>4, <1>5, <1>7, Puts
<1>9. \A j \in Instance : row'[j] = IF j = i THEN r ELSE row[j]
  BY <1>1, <1>5
<1>10. TableType'
  BY <1>3, <1>5, <1>7, Types DEF IInv, TableType
<1>11. RowsHeld /\ TasksHeld /\ NoneGone'
  BY <1>1, <1>3, <1>6, <1>7, <1>9, ClaimedNow DEF RowsHeld, TasksHeld, NoneGone, IInv
<1>12. TypeOK'
  BY <1>7, <1>8, <1>10, LoopsStay, TypesNext
<1>13. QED
  BY <1>7, <1>8, <1>11, <1>12, LoopsStay, HeldSafe DEF Held

\* A deletion of PeriodicTasks takes the references to them along.
LEMMA DeleteSafe ==
    ASSUME IInv, NEW S \in SUBSET TaskId, NEW rows \in [Instance -> Row],
           \A i \in Instance : rows[i].task \in {row[i].task, NoTask},
           DeleteTasks(S, rows), lastPt' = lastPt
    PROVE  RowsHeld /\ TasksHeld /\ TableType' /\ NoneGone'
<1>1. \A p \in TaskId : pt'[p] = IF p \in S THEN NoPT ELSE pt[p]
  BY DEF DeleteTasks
<1>2. \A i \in Instance : row'[i] = IF rows[i].task \in S
                                    THEN [rows[i] EXCEPT !.task = NoTask] ELSE rows[i]
  BY DEF DeleteTasks
<1>3. \A i \in Instance : row'[i] \in Row
  BY <1>2 DEF Row
<1>4. \A i \in Instance : /\ row'[i].task \in {row[i].task, NoTask}
                          /\ row'[i].task \notin S
                          /\ row[i].task \in TaskId \cup {NoTask}
  <2> SUFFICES ASSUME NEW i \in Instance
               PROVE  /\ row'[i].task \in {row[i].task, NoTask}
                      /\ row'[i].task \notin S
                      /\ row[i].task \in TaskId \cup {NoTask}
    OBVIOUS
  <2>1. rows[i] \in Row /\ row[i] \in Row /\ NoTask \notin S
    BY Types, BoundsAssumption DEF IInv, TableType, TaskId, NoTask
  <2>2. [rows[i] EXCEPT !.task = NoTask].task = NoTask
    BY <2>1 DEF Row
  <2>3. QED
    BY <1>2, <2>1, <2>2 DEF Row
<1>5. TableType'
  <2>1. row' \in [Instance -> Row]
    BY <1>3 DEF DeleteTasks
  <2>2. pt' \in [TaskId -> Task]
    BY Blank, Types DEF DeleteTasks, IInv, TableType
  <2>3. QED
    BY <2>1, <2>2, Types DEF IInv, TableType
<1>6. RowsHeld
  BY <1>4, ClaimedNow DEF RowsHeld
<1>7. TasksHeld
  BY <1>1 DEF TasksHeld, NoPT
<1>8. NoneGone'
  BY <1>1, <1>4 DEF NoneGone, IInv
<1>9. QED
  BY <1>5, <1>6, <1>7, <1>8

LEMMA DestroySafe ==
    ASSUME IInv, NEW e \in Editor, Destroy(e)
    PROVE  IInv'
<1> DEFINE S    == {mem[e].row.task} \cap TaskId
           rows == [row EXCEPT ![mem[e].id] = NoRow]
<1>1. /\ e \in Actor /\ S \in SUBSET TaskId /\ rows \in [Instance -> Row]
      /\ \A i \in Instance : rows[i].task \in {row[i].task, NoTask}
  BY Blank, Types DEF IInv, TableType, NoRow, Actor
<1>2. DeleteTasks(S, rows) /\ lastPt' = lastPt /\ Return(e) /\ BudgetType'
  BY BudgetStays DEF Destroy
<1> HIDE DEF S, rows
<1>3. RowsHeld /\ TasksHeld /\ TableType' /\ NoneGone'
  BY <1>1, <1>2, DeleteSafe
<1>4. TypeOK' /\ AtWork'
  BY <1>1, <1>2, <1>3, Leaves, TypesNext
<1>5. QED
  BY <1>1, <1>2, <1>3, <1>4, Leaves, HeldSafe DEF Held

LEMMA SaveFailsSafe ==
    ASSUME IInv, NEW e \in Editor, SaveFails(e)
    PROVE  IInv'
<1>1. e \in Actor /\ Raise(e) /\ row' = row /\ pt' = pt /\ lastPt' = lastPt /\ BudgetType'
  BY BudgetStays DEF SaveFails, Actor
<1>2. QED
  BY <1>1, RaiseSafe

-----------------------------------------------------------------------------
(* resync_all. *)

\* What the actors have in hand when one goes on with nothing in hand.
LEMMA Walks ==
    ASSUME IInv, NEW r \in Resyncer, NEW to, to \in {"idle", "orphans", "query", "loop"},
           pc' = [pc EXCEPT ![r] = to], mem' = mem
    PROVE  PcType' /\ MemType' /\ LocalsOK' /\ AtWork' /\ MemHeld
<1>1. \A b \in Actor : pc'[b] = IF b = r THEN to ELSE pc[b]
  BY Types DEF IInv, PcType, Actor
<1>2. PcType' /\ MemType'
  BY Types DEF IInv, PcType, MemType
<1>3. LocalsOK' /\ AtWork'
  BY <1>1, Types DEF IInv, LocalsOK, AtWork
<1>4. MemHeld
  BY ClaimedNow DEF MemHeld
<1>5. QED
  BY <1>2, <1>3, <1>4

LEMMA ResyncScanSafe ==
    ASSUME IInv, NEW r \in Resyncer, ResyncScan(r)
    PROVE  IInv'
<1>1. /\ row' = row /\ pt' = pt /\ lastPt' = lastPt /\ mem' = mem /\ todo' = todo
      /\ pc' = [pc EXCEPT ![r] = "orphans"] /\ BudgetType'
  BY BudgetStays DEF ResyncScan
<1>2. Referenced \subseteq TaskId
  <2>1. \A i \in Instance : row[i].task \in TaskId \cup {NoTask}
    BY Types DEF IInv, TableType, Row
  <2>2. \A m \in Model : Linked(m) \subseteq TaskId \cup {NoTask}
    BY <2>1 DEF Linked
  <2>3. ASSUME NEW p \in Referenced PROVE p \in TaskId
    <3>1. PICK m \in Model : p \in Linked(m)
      BY DEF Referenced
    <3>2. p # NoTask
      BY DEF Referenced
    <3>3. QED
      BY <2>2, <3>1, <3>2
  <2>4. QED
    BY <2>3
<1>3. ResyncType' /\ TodoHeld
  <2>1. inUse' \in [Resyncer -> SUBSET TaskId]
    BY <1>2, Types DEF IInv, ResyncType, ResyncScan
  <2>2. model' \in [Resyncer -> Model \cup {None}]
    BY Types DEF IInv, ResyncType, ResyncScan
  <2>3. QED
    BY <1>1, <2>1, <2>2, ClaimedNow, Types DEF IInv, ResyncType, TodoType, TodoHeld
<1>4. PcType' /\ MemType' /\ LocalsOK' /\ AtWork' /\ MemHeld
  BY <1>1, Walks
<1>5. TypeOK'
  BY <1>1, <1>3, <1>4, TablesStay, TypesNext
<1>6. QED
  BY <1>1, <1>3, <1>4, <1>5, TablesStay, HeldSafe DEF Held

LEMMA ResyncOrphansSafe ==
    ASSUME IInv, NEW r \in Resyncer, ResyncOrphans(r)
    PROVE  IInv'
<1>1. /\ lastPt' = lastPt /\ mem' = mem /\ model' = model /\ todo' = todo
      /\ inUse' = [inUse EXCEPT ![r] = {}]
      /\ pc' = [pc EXCEPT ![r] = "query"] /\ BudgetType'
      /\ DeleteTasks(Orphans(r), row)
  BY BudgetStays DEF ResyncOrphans, Goto
<1>2. Orphans(r) \in SUBSET TaskId /\ row \in [Instance -> Row]
  BY Types DEF IInv, TableType, Orphans
<1>3. RowsHeld /\ TasksHeld /\ TableType' /\ NoneGone'
  BY <1>1, <1>2, DeleteSafe
<1>4. ResyncType' /\ TodoHeld
  BY <1>1, ClaimedNow, Types DEF IInv, ResyncType, TodoType, TodoHeld
<1>5. PcType' /\ MemType' /\ LocalsOK' /\ AtWork' /\ MemHeld
  BY <1>1, Walks
<1>6. TypeOK'
  BY <1>1, <1>3, <1>4, <1>5, TypesNext
<1>7. QED
  BY <1>1, <1>3, <1>4, <1>5, <1>6, HeldSafe DEF Held

\* The loop loads what the rows refer to now.
LEMMA ResyncQuerySafe ==
    ASSUME IInv, NEW r \in Resyncer, ResyncQuery(r)
    PROVE  IInv'
<1> DEFINE T == {[id |-> i, row |-> row[i]] :
                   i \in {j \in Instance : row[j].live /\ ModelOf[j] = model[r]}}
<1>1. /\ row' = row /\ pt' = pt /\ lastPt' = lastPt /\ mem' = mem
      /\ model' = model /\ inUse' = inUse /\ todo' = [todo EXCEPT ![r] = T]
      /\ pc' = [pc EXCEPT ![r] = "loop"] /\ BudgetType'
  BY BudgetStays DEF ResyncQuery, Goto
<1>2. T \subseteq [id : Instance, row : Row]
  BY Types DEF IInv, TableType
<1>3. \A x \in T : x.row.task # NoTask => Claims(x.id, x.row.task)
  BY ClaimedNow
<1> HIDE DEF T
<1>4. ResyncType'
  BY <1>1, <1>2, Types DEF IInv, ResyncType, TodoType
<1>5. TodoHeld
  BY <1>1, <1>3, ClaimedNow, Types DEF IInv, ResyncType, TodoType, TodoHeld
<1>6. PcType' /\ MemType' /\ LocalsOK' /\ AtWork' /\ MemHeld
  BY <1>1, Walks
<1>7. TypeOK'
  BY <1>1, <1>4, <1>6, TablesStay, TypesNext
<1>8. QED
  BY <1>1, <1>5, <1>6, <1>7, TablesStay, HeldSafe DEF Held

\* The loop goes on with an instance it loaded; a dangling reference is cleared.
LEMMA ResyncNextSafe ==
    ASSUME IInv, NEW r \in Resyncer, ResyncNext(r)
    PROVE  IInv'
<1>1. PICK x \in todo[r] :
        LET dangling == x.row.task # NoTask /\ ~ pt[x.row.task].live
        IN  /\ todo' = [todo EXCEPT ![r] = @ \ {x}]
            /\ row' = IF dangling /\ row[x.id].live
                      THEN [row EXCEPT ![x.id].task = NoTask] ELSE row
            /\ mem' = [mem EXCEPT ![r] = [Empty EXCEPT
                 !.id = x.id,
                 !.row = IF dangling THEN [x.row EXCEPT !.task = NoTask] ELSE x.row]]
  BY Zenon DEF ResyncNext
<1> DEFINE dangling == x.row.task # NoTask /\ ~ pt[x.row.task].live
           w == IF dangling THEN [x.row EXCEPT !.task = NoTask] ELSE x.row
           m == [Empty EXCEPT !.id = x.id, !.row = w]
<1>2. /\ x \in [id : Instance, row : Row] /\ r \in Actor
      /\ x.row.task # NoTask => Claims(x.id, x.row.task)
      /\ row \in [Instance -> Row] /\ pt \in [TaskId -> Task]
  BY ClaimedNow, Types DEF IInv, ResyncType, TodoType, TableType, Actor
<1>3. w \in Row /\ w.task \in {x.row.task, NoTask}
  BY <1>2 DEF Row, NoTask
<1>4. m \in Memory /\ m.id = x.id /\ m.row = w /\ m.new = NoTask
  <2> HIDE DEF w
  <2> QED BY <1>2, <1>3, Blank DEF Memory, Empty
<1>5. /\ mem' = [mem EXCEPT ![r] = m] /\ todo' = [todo EXCEPT ![r] = todo[r] \ {x}]
      /\ row' \in {row, [row EXCEPT ![x.id].task = NoTask]}
  BY <1>1, Types DEF IInv, ResyncType, TodoType
<1>6. /\ pt' = pt /\ lastPt' = lastPt /\ model' = model /\ inUse' = inUse /\ BudgetType'
      /\ pc' = [pc EXCEPT ![r] = "sync"]
  BY BudgetStays DEF ResyncNext, Goto
<1> HIDE DEF m, w, dangling
<1>7. PcType' /\ MemType' /\ LocalsOK' /\ AtWork' /\ MemHeld
  BY <1>2, <1>3, <1>4, <1>5, <1>6, Puts
<1>8. ResyncType' /\ TodoHeld
  BY <1>5, <1>6, ClaimedNow, Types DEF IInv, ResyncType, TodoType, TodoHeld
<1>9. CASE row' = row
  <2>1. TypeOK'
    BY <1>6, <1>7, <1>8, <1>9, TablesStay, TypesNext
  <2>2. QED
    BY <1>6, <1>7, <1>8, <1>9, <2>1, TablesStay, HeldSafe DEF Held
<1>10. CASE row' = [row EXCEPT ![x.id].task = NoTask]
  <2>1. \A i \in Instance : row'[i] = IF i = x.id THEN [row[i] EXCEPT !.task = NoTask] ELSE row[i]
    BY <1>2, <1>10
  <2>2. [row[x.id] EXCEPT !.task = NoTask] \in Row
        /\ [row[x.id] EXCEPT !.task = NoTask].task = NoTask
    BY <1>2 DEF Row, NoTask
  <2>3. TableType'
    BY <1>2, <1>6, <1>10, <2>1, <2>2, Types DEF IInv, TableType
  <2>4. RowsHeld /\ TasksHeld /\ NoneGone'
    BY <1>2, <1>6, <2>1, <2>2, ClaimedNow DEF RowsHeld, TasksHeld, NoneGone, IInv
  <2>5. TypeOK'
    BY <1>6, <1>7, <1>8, <2>3, TypesNext
  <2>6. QED
    BY <1>6, <1>7, <1>8, <2>4, <2>5, HeldSafe DEF Held
<1>11. QED
  BY <1>5, <1>9, <1>10

LEMMA ResyncDoneSafe ==
    ASSUME IInv, NEW r \in Resyncer, ResyncDone(r)
    PROVE  IInv'
<1>1. /\ row' = row /\ pt' = pt /\ lastPt' = lastPt /\ mem' = mem /\ todo' = todo
      /\ inUse' = inUse /\ model' = [model EXCEPT ![r] = None]
      /\ pc' = [pc EXCEPT ![r] = "idle"] /\ BudgetType'
  BY BudgetStays DEF ResyncDone, Goto
<1>2. ResyncType' /\ TodoHeld
  BY <1>1, ClaimedNow, Types DEF IInv, ResyncType, TodoType, TodoHeld
<1>3. PcType' /\ MemType' /\ LocalsOK' /\ AtWork' /\ MemHeld
  BY <1>1, Walks
<1>4. TypeOK'
  BY <1>1, <1>2, <1>3, TablesStay, TypesNext
<1>5. QED
  BY <1>1, <1>2, <1>3, <1>4, TablesStay, HeldSafe DEF Held

-----------------------------------------------------------------------------
(* Writes that bypass the signals, and Beat. *)

\* What the actors and the loops have in hand when none of them moves.
LEMMA Stays ==
    ASSUME IInv, pc' = pc, mem' = mem, UNCHANGED resync
    PROVE  /\ PcType' /\ MemType' /\ LocalsOK' /\ AtWork' /\ MemHeld
           /\ ResyncType' /\ TodoHeld
<1>1. PcType' /\ MemType' /\ LocalsOK' /\ AtWork'
  BY Types DEF IInv, PcType, MemType, LocalsOK, AtWork
<1>2. MemHeld
  BY ClaimedNow DEF MemHeld
<1>3. QED
  BY <1>1, <1>2, LoopsStay

\* queryset.update and bulk_create leave the column `task` alone.
LEMMA BulkWriteSafe == ASSUME IInv, BulkWrite PROVE IInv'
<1>1. PICK i \in Instance, t \in Title, c \in Cycle, on \in BOOLEAN :
        /\ ~ TitleTaken(i, t)
        /\ row' = [row EXCEPT ![i] =
             [@ EXCEPT !.live = TRUE, !.title = t, !.cycle = c, !.active = on]]
  BY Zenon DEF BulkWrite
<1> DEFINE w == [row[i] EXCEPT !.live = TRUE, !.title = t, !.cycle = c, !.active = on]
<1>2. row \in [Instance -> Row] /\ w \in Row /\ w.task = row[i].task
  BY Types DEF IInv, TableType, Row
<1>3. /\ row' = [row EXCEPT ![i] = w] /\ pt' = pt /\ lastPt' = lastPt
      /\ pc' = pc /\ mem' = mem /\ UNCHANGED resync
  BY <1>1, <1>2 DEF BulkWrite
<1>4. BudgetType'
  BY Types, BoundsAssumption DEF IInv, BudgetType, BulkWrite, Drift
<1> HIDE DEF w
<1>5. \A j \in Instance : row'[j] = IF j = i THEN w ELSE row[j]
  BY <1>2, <1>3
<1>6. TableType'
  BY <1>2, <1>3, Types DEF IInv, TableType
<1>7. RowsHeld /\ TasksHeld /\ NoneGone'
  BY <1>2, <1>3, <1>5, ClaimedNow DEF RowsHeld, TasksHeld, NoneGone, IInv
<1>8. TypeOK'
  BY <1>3, <1>4, <1>6, Stays, TypesNext
<1>9. QED
  BY <1>3, <1>7, <1>8, Stays, HeldSafe DEF Held

\* A PeriodicTask written in place keeps its task.
LEMMA TaskEdited ==
    ASSUME IInv, NEW p \in TaskId, NEW t \in Task, t.live, t.task = pt[p].task, pt[p].live,
           pt' = [pt EXCEPT ![p] = t], row' = row, lastPt' = lastPt,
           pc' = pc, mem' = mem, UNCHANGED resync, BudgetType'
    PROVE  IInv'
<1>1. \A q \in TaskId : pt'[q] = IF q = p THEN t ELSE pt[q]
  BY Types DEF IInv, TableType
<1>2. TableType'
  BY Types DEF IInv, TableType
<1>3. RowsHeld /\ TasksHeld
  BY <1>1, ClaimedNow DEF RowsHeld, TasksHeld
<1>4. NoneGone'
  <2>1. \A i \in Instance : row[i].task \in TaskId \cup {NoTask}
    BY Types DEF IInv, TableType, Row
  <2>2. QED
    BY <1>1, <2>1 DEF IInv, NoneGone
<1>5. TypeOK'
  BY <1>2, Stays, TypesNext
<1>6. QED
  BY <1>3, <1>4, <1>5, Stays, HeldSafe DEF Held

LEMMA TaskToggleSafe == ASSUME IInv, TaskToggle PROVE IInv'
<1>1. PICK p \in TaskId : pt[p].live /\ pt' = [pt EXCEPT ![p].enabled = ~ @]
  BY DEF TaskToggle
<1> DEFINE t == [pt[p] EXCEPT !.enabled = ~ pt[p].enabled]
<1>2. pt[p] \in Task
  BY Types DEF IInv, TableType
<1>3. t \in Task /\ t.live /\ t.task = pt[p].task
  BY <1>1, <1>2 DEF Task
<1>4. pt' = [pt EXCEPT ![p] = t]
  BY <1>1, Types DEF IInv, TableType
<1>5. row' = row /\ lastPt' = lastPt /\ pc' = pc /\ mem' = mem /\ UNCHANGED resync
  BY DEF TaskToggle
<1>6. BudgetType'
  BY Types, BoundsAssumption DEF IInv, BudgetType, TaskToggle, Drift
<1> HIDE DEF t
<1>7. QED
  BY <1>1, <1>3, <1>4, <1>5, <1>6, TaskEdited

LEMMA BeatSafe == ASSUME IInv, Beat PROVE IInv'
<1>1. PICK p \in TaskId :
        /\ pt[p].live /\ pt[p].enabled /\ pt[p].runs < MaxRuns
        /\ pt' = [pt EXCEPT ![p] = [@ EXCEPT !.runs = pt[p].runs + 1, !.last = "ran"]]
  BY Zenon DEF Beat
<1> DEFINE t == [pt[p] EXCEPT !.runs = pt[p].runs + 1, !.last = "ran"]
<1>2. pt[p] \in Task
  BY Types DEF IInv, TableType
<1>3. t \in Task /\ t.live /\ t.task = pt[p].task
  <2>1. pt[p].runs + 1 \in 0 .. MaxRuns
    BY <1>1, <1>2, BoundsAssumption DEF Task
  <2>2. t \in Task
    BY <1>2, <2>1 DEF Task
  <2>3. t.live = pt[p].live /\ t.task = pt[p].task
    BY <1>2 DEF Task
  <2>4. QED
    BY <1>1, <2>2, <2>3
<1>4. pt' = [pt EXCEPT ![p] = t]
  BY <1>1, Zenon
<1>5. /\ row' = row /\ lastPt' = lastPt /\ pc' = pc /\ mem' = mem
      /\ UNCHANGED resync /\ BudgetType'
  BY BudgetStays DEF Beat
<1> HIDE DEF t
<1>6. QED
  BY <1>1, <1>3, <1>4, <1>5, TaskEdited

LEMMA TaskDeleteSafe == ASSUME IInv, TaskDelete PROVE IInv'
<1>1. PICK p \in TaskId : DeleteTasks({p}, row)
  BY DEF TaskDelete
<1>2. lastPt' = lastPt /\ pc' = pc /\ mem' = mem /\ UNCHANGED resync
  BY DEF TaskDelete
<1>3. BudgetType'
  BY Types, BoundsAssumption DEF IInv, BudgetType, TaskDelete, Drift
<1>4. row \in [Instance -> Row] /\ {p} \in SUBSET TaskId
  BY Types DEF IInv, TableType
<1>5. RowsHeld /\ TasksHeld /\ TableType' /\ NoneGone'
  BY <1>1, <1>2, <1>4, DeleteSafe
<1>6. TypeOK'
  BY <1>2, <1>3, <1>5, Stays, TypesNext
<1>7. QED
  BY <1>2, <1>5, <1>6, Stays, HeldSafe DEF Held

-----------------------------------------------------------------------------
(* The theorems. *)

LEMMA InitSafe == Init => IInv
<1> SUFFICES ASSUME Init PROVE IInv
  OBVIOUS
<1>1. TypeOK
  BY Blank, BoundsAssumption DEF Init, TypeOK
<1>2. \A i, p : ~ Claims(i, p)
  BY DEF Init, Claims, RowClaims, MemClaims, TodoClaims, Empty, NoRow
<1>3. AtWork /\ NoneGone
  BY DEF Init, AtWork, NoneGone, NoRow
<1>4. QED
  BY <1>1, <1>2, <1>3 DEF IInv, NoneShared, NoneAhead, NoneWrong

LEMMA StutterSafe == ASSUME IInv, UNCHANGED vars PROVE IInv'
<1>1. /\ row' = row /\ pt' = pt /\ lastPt' = lastPt /\ pc' = pc /\ mem' = mem
      /\ UNCHANGED resync /\ UNCHANGED rest
  BY DEF vars, resync, rest
<1>2. BudgetType'
  BY <1>1, BudgetStays
<1>3. TypeOK'
  BY <1>1, <1>2, Stays, TablesStay, TypesNext
<1>4. QED
  BY <1>1, <1>3, Stays, TablesStay, HeldSafe DEF Held

LEMMA StepSafe == IInv /\ [Next]_vars => IInv'
<1> SUFFICES ASSUME IInv, [Next]_vars PROVE IInv'
  OBVIOUS
<1>1. ASSUME NEW a \in Actor, Sync(a) \/ SyncDies(a) PROVE IInv'
  BY <1>1, SyncFailsSafe, ScheduleSafe, SyncCreateSafe, SyncLinkSafe, SyncReadSafe, SyncWriteSafe DEF Sync
<1>2. ASSUME NEW e \in Editor, Edit(e) PROVE IInv'
  BY <1>2, CreateSafe, LoadSafe, SaveSafe, SaveFailsSafe, DestroySafe DEF Edit
<1>3. ASSUME NEW r \in Resyncer, Resync(r) PROVE IInv'
  BY <1>3, ResyncScanSafe, ResyncOrphansSafe, ResyncQuerySafe, ResyncNextSafe,
     ResyncDoneSafe DEF Resync
<1>4. QED
  BY <1>1, <1>2, <1>3, BulkWriteSafe, TaskToggleSafe, TaskDeleteSafe, BeatSafe,
     StutterSafe DEF Next

LEMMA Invariance == Spec => []IInv
BY InitSafe, StepSafe, PTL DEF Spec

\* The rows, the PeriodicTasks and the objects of every save and every loop keep
\* their types; a link in progress has the PeriodicTask it created, and a
\* write-back the one it fetched (sync.py:44-124).
THEOREM SyncTypeCorrect == Spec => []TypeOK
<1>1. IInv => TypeOK
  BY DEF IInv
<1>2. QED
  BY <1>1, Invariance, PTL

\* No PeriodicTask drives two schedulers, and none drives a scheduler of another
\* task name, whatever saves, deletions, resync_all runs and bypassing writes
\* race with each other (sync.py:44-124, signals.py:91-126).
THEOREM OneTaskPerScheduler == Spec => []OneSchedulerPerTask
<1>1. IInv => OneSchedulerPerTask
  <2> SUFFICES ASSUME IInv PROVE OneSchedulerPerTask
    OBVIOUS
  <2>1. \A i \in Instance : row[i].task # NoTask => row[i].task \in TaskId
    BY Types DEF IInv, TableType, Row
  <2>2. QED
    BY <2>1, ClaimedNow DEF IInv, NoneShared, NoneWrong, NoneGone, OneSchedulerPerTask
<1>2. QED
  BY <1>1, Invariance, PTL
=============================================================================
