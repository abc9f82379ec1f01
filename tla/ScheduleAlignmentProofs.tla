----------------------- MODULE ScheduleAlignmentProofs -----------------------
(***************************************************************************)
(* Theorems about ScheduleSync when writers do not overlap: what resync_all *)
(* achieves while nobody else writes, and what the signals alone maintain.  *)
(***************************************************************************)
EXTENDS ScheduleSyncProofs

\* PeriodicTask p says what the row x of instance i says.
Says(p, i, x) ==
    /\ pt[p].live
    /\ pt[p].name = x.title /\ pt[p].task = TaskOf[ModelOf[i]]
    /\ pt[p].enabled = x.active /\ pt[p].cycle = x.cycle

Busy(a)    == pc[a] \in {"sync", "insert", "scheduled", "link", "write"}
AtRest(a)  == pc[a] \in {"idle", "failed"}
Looping(r) == pc[r] = "loop" \/ Busy(r)

\* Behind ResyncAligns.  While a resync_all is at work everybody else rests; what it
\* has read is what is stored; after the deletion of orphans no PeriodicTask of its
\* task name is free, but for the one it links next; and every instance of its model
\* is mirrored, still to come, or in hand.
Peace      == \A r \in Resyncer : ~ AtRest(r) => \A a \in Actor \ {r} : AtRest(a)
Scanned(r) == pc[r] = "orphans" => inUse[r] = Referenced
Swept(r) ==
    pc[r] = "query" \/ Looping(r) =>
      \A p \in TaskId : pt[p].live /\ pt[p].task = TaskOf[model[r]] =>
        p \in Referenced \/ (pc[r] = "link" /\ mem[r].new = p)
Loaded(r) ==
    Looping(r) => \A x \in todo[r] : /\ x.row = row[x.id] /\ x.row.live
                                     /\ Busy(r) => x.id # mem[r].id
InHand(a)  == Busy(a) => mem[a].row = row[mem[a].id] /\ mem[a].row.live
Created(a) ==
    pc[a] = "link" => mem[a].row.task = NoTask /\ Says(mem[a].new, mem[a].id, mem[a].row)
Covered(r) ==
    Looping(r) => \A i \in Instance : row[i].live /\ ModelOf[i] = model[r] =>
      Mirrored(i) \/ (\E x \in todo[r] : x.id = i) \/ (Busy(r) /\ mem[r].id = i)
Progress(r) == Scanned(r) /\ Swept(r) /\ Loaded(r) /\ InHand(r) /\ Created(r) /\ Covered(r)
PInv == Peace /\ \A r \in Resyncer : Progress(r)

-----------------------------------------------------------------------------
(* Who refers to what. *)

\* The ids that foreign keys refer to are those of the rows.
LEMMA ReferencedIs ==
    \A p : p \in Referenced <=> p # NoTask /\ \E i \in Instance : row[i].live /\ row[i].task = p
BY ModelAssumption DEF Referenced, Linked

LEMMA ReferencedNext ==
    \A p : p \in Referenced' <=> p # NoTask /\ \E i \in Instance : row'[i].live /\ row'[i].task = p
BY ModelAssumption DEF Referenced, Linked

\* Two rows never refer to one PeriodicTask.
LEMMA OwnTask ==
    ASSUME IInv, NEW i \in Instance, NEW j \in Instance, row[i].task # NoTask,
           row[i].task = row[j].task
    PROVE  i = j /\ row[i].task \in TaskId
<1>1. row[i].task \in TaskId
  BY Types DEF IInv, TableType, Row
<1>2. QED
  BY <1>1, ClaimedNow DEF IInv, NoneShared

\* A PeriodicTask that is created is new to every row.
LEMMA NewTask ==
    ASSUME IInv, NEW a \in Actor, SyncCreate(a)
    PROVE  /\ lastPt + 1 \in TaskId
           /\ \A i \in Instance : row[i].task # lastPt + 1
           /\ mem[a].id \in Instance /\ mem[a] \in Memory
           /\ \A p \in TaskId : p # lastPt + 1 => pt'[p] = pt[p]
           /\ LET t == pt'[lastPt + 1]
              IN  /\ t.live /\ t.name = mem[a].row.title /\ t.task = TaskOf[ModelOf[mem[a].id]]
                  /\ t.enabled = mem[a].row.active /\ t.cycle = mem[a].row.cycle
           /\ \A b \in Actor : /\ mem'[b].id = mem[b].id /\ mem'[b].row = mem[b].row
                               /\ mem'[b].old = mem[b].old
                               /\ mem'[b].new = IF b = a THEN lastPt + 1 ELSE mem[b].new
                               /\ pc'[b] = IF b = a THEN "link" ELSE pc[b]
           /\ pc[a] = "scheduled" /\ mem[a].row.task = NoTask
           /\ row' = row /\ UNCHANGED <<model, inUse, todo>>
<1>1. lastPt \in Nat /\ pt \in [TaskId -> Task] /\ row \in [Instance -> Row]
  BY Types DEF IInv, TableType
<1>2. lastPt + 1 \in TaskId
  BY <1>1, BoundsAssumption DEF SyncCreate, TaskId
<1>3. \A i \in Instance : row[i].task # lastPt + 1
  <2> SUFFICES ASSUME NEW i \in Instance, row[i].task = lastPt + 1 PROVE FALSE
    OBVIOUS
  <2>1. lastPt + 1 # NoTask
    BY <1>1 DEF NoTask
  <2>2. Claims(i, lastPt + 1)
    BY <2>1, ClaimedNow
  <2>3. lastPt + 1 <= lastPt
    BY <1>2, <2>2 DEF IInv, NoneAhead
  <2>4. QED
    BY <1>1, <2>3
<1>4. mem[a].id \in Instance /\ mem[a] \in Memory
  BY Types DEF IInv, AtWork, SyncCreate, Estimable, MemType
<1>5. \A b \in Actor : /\ mem'[b].id = mem[b].id /\ mem'[b].row = mem[b].row
                       /\ mem'[b].old = mem[b].old
                       /\ mem'[b].new = IF b = a THEN lastPt + 1 ELSE mem[b].new
                       /\ pc'[b] = IF b = a THEN "link" ELSE pc[b]
  BY <1>4, Types DEF IInv, MemType, PcType, Memory, SyncCreate
<1>6. pc[a] = "scheduled" /\ mem[a].row.task = NoTask /\ row' = row /\ UNCHANGED <<model, inUse, todo>>
  BY DEF SyncCreate, Estimable, resync
<1> DEFINE t == [live |-> TRUE, name |-> mem[a].row.title, task |-> TaskOf[ModelOf[mem[a].id]],
                 enabled |-> mem[a].row.active, cycle |-> mem[a].row.cycle,
                 last |-> "never", runs |-> 0]
<1>7. pt' = [pt EXCEPT ![lastPt + 1] = t]
  BY DEF SyncCreate
<1>8. /\ t.live /\ t.name = mem[a].row.title /\ t.task = TaskOf[ModelOf[mem[a].id]]
      /\ t.enabled = mem[a].row.active /\ t.cycle = mem[a].row.cycle
  BY Zenon
<1> HIDE DEF t
<1>9. pt'[lastPt + 1] = t /\ \A p \in TaskId : p # lastPt + 1 => pt'[p] = pt[p]
  BY <1>1, <1>2, <1>7
<1>10. QED
  BY <1>2, <1>3, <1>4, <1>5, <1>6, <1>8, <1>9

\* A call that returns leaves nothing in hand.
LEMMA Returned ==
    ASSUME IInv, NEW a \in Actor, Return(a)
    PROVE  /\ mem'[a] = Empty /\ pc'[a] = IF a \in Editor THEN "idle" ELSE "loop"
           /\ \A b \in Actor \ {a} : mem'[b] = mem[b] /\ pc'[b] = pc[b]
           /\ UNCHANGED <<model, inUse, todo>>
BY Types DEF IInv, PcType, MemType, Return, resync

\* An exception leaves nothing in hand.
LEMMA Raised ==
    ASSUME IInv, NEW a \in Actor, Raise(a)
    PROVE  /\ mem'[a] = Empty /\ AtRest(a)' /\ (a \in Editor => pc'[a] = "idle")
           /\ \A b \in Actor \ {a} : mem'[b] = mem[b] /\ pc'[b] = pc[b]
BY Types DEF IInv, PcType, MemType, Raise, AtRest

\* The PeriodicTask that a write-back leaves, and what it says.
LEMMA Written ==
    ASSUME IInv, NEW a \in Actor, SyncWrite(a)
    PROVE  /\ mem[a].row.task \in TaskId /\ mem[a].row.task # NoTask
           /\ mem[a].id \in Instance /\ mem[a] \in Memory
           /\ \A p \in TaskId : pt'[p] = IF p = mem[a].row.task THEN Synced(mem[a]) ELSE pt[p]
           /\ LET t == Synced(mem[a])
              IN  /\ t.live /\ t.name = mem[a].row.title /\ t.task = TaskOf[ModelOf[mem[a].id]]
                  /\ t.enabled = mem[a].row.active /\ t.cycle = mem[a].row.cycle
           /\ row' = row /\ Return(a)
<1> DEFINE p == mem[a].row.task
           t == Synced(mem[a])
<1>1. /\ mem[a] \in Memory /\ mem[a].id \in Instance /\ p \in TaskId /\ p # NoTask
      /\ pt \in [TaskId -> Task]
  BY Types DEF IInv, AtWork, LocalsOK, SyncWrite, MemType, Memory, Row, TableType
<1>2. pt' = [pt EXCEPT ![p] = t] /\ row' = row /\ Return(a)
  BY DEF SyncWrite
<1>3. /\ t.live /\ t.name = mem[a].row.title /\ t.task = TaskOf[ModelOf[mem[a].id]]
      /\ t.enabled = mem[a].row.active /\ t.cycle = mem[a].row.cycle
  BY <1>1, Types DEF IInv, LocalsOK, SyncWrite, Synced, Memory, Task
<1> HIDE DEF t
<1>4. \A q \in TaskId : pt'[q] = IF q = p THEN t ELSE pt[q]
  BY <1>1, <1>2
<1>5. QED
  BY <1>1, <1>2, <1>3, <1>4 DEF t

-----------------------------------------------------------------------------
(* resync_all, in peace. *)

\* While no resync_all is at work nothing is asked.
LEMMA NobodyAligns ==
    ASSUME \A r \in Resyncer : AtRest(r)'
    PROVE  PInv'
BY DEF PInv, Peace, Progress, Scanned, Swept, Loaded, InHand, Created, Covered, Looping,
       Busy, AtRest

\* While one is, only its own progress counts.
LEMMA OneAligns ==
    ASSUME NEW r \in Resyncer, \A a \in Actor \ {r} : AtRest(a) /\ pc'[a] = pc[a],
           Progress(r)'
    PROVE  PInv'
<1>1. \A q \in Resyncer \ {r} : AtRest(q)'
  BY DEF AtRest, Actor
<1>2. Peace'
  BY <1>1 DEF Peace, AtRest
<1>3. \A q \in Resyncer \ {r} : Progress(q)'
  BY <1>1 DEF Progress, Scanned, Swept, Loaded, InHand, Created, Covered, Looping, Busy, AtRest
<1>4. QED
  BY <1>2, <1>3 DEF PInv

\* What the rows and the columns that matter have in common with the state before.
Unseen ==
    /\ row' = row /\ pc' = pc /\ mem' = mem /\ UNCHANGED <<model, inUse, todo>>
    /\ \A p \in TaskId : /\ pt'[p].live = pt[p].live /\ pt'[p].name = pt[p].name
                         /\ pt'[p].task = pt[p].task /\ pt'[p].enabled = pt[p].enabled
                         /\ pt'[p].cycle = pt[p].cycle

LEMMA UnseenMirrors ==
    ASSUME IInv, NEW i \in Instance, row'[i] = row[i],
           row[i].task # NoTask =>
             LET p == row[i].task
             IN  /\ pt'[p].live = pt[p].live /\ pt'[p].name = pt[p].name
                 /\ pt'[p].task = pt[p].task /\ pt'[p].enabled = pt[p].enabled
                 /\ pt'[p].cycle = pt[p].cycle
    PROVE  Mirrored(i)' <=> Mirrored(i)
<1>1. CASE row[i].task = NoTask
  BY <1>1 DEF Mirrored
<1>2. CASE row[i].task # NoTask
  BY <1>2, Zenon DEF Mirrored
<1>3. QED
  BY <1>1, <1>2

LEMMA UnseenProgress ==
    ASSUME IInv, PInv, Unseen
    PROVE  PInv'
<1>1. Peace'
  BY DEF PInv, Peace, AtRest, Unseen
<1>2. \A p : p \in Referenced' <=> p \in Referenced
  BY ReferencedIs, ReferencedNext DEF Unseen
<1>3. \A i \in Instance : Mirrored(i)' <=> Mirrored(i)
  <2> SUFFICES ASSUME NEW i \in Instance PROVE Mirrored(i)' <=> Mirrored(i)
    OBVIOUS
  <2>1. row[i].task # NoTask => row[i].task \in TaskId
    BY OwnTask
  <2>2. QED
    BY <2>1, UnseenMirrors DEF Unseen
<1>4. ASSUME NEW r \in Resyncer PROVE Progress(r)'
  <2>1. Progress(r)
    BY DEF PInv
  <2>2. Scanned(r)'
    BY <1>2, <2>1 DEF Progress, Scanned, Unseen
  <2>3. Swept(r)'
    BY <1>2, <2>1 DEF Progress, Swept, Looping, Busy, Unseen
  <2>4. Loaded(r)' /\ InHand(r)'
    BY <2>1 DEF Progress, Loaded, InHand, Looping, Busy, Unseen
  <2>5. Created(r)'
    <3> SUFFICES ASSUME pc[r] = "link"
                 PROVE  mem[r].row.task = NoTask /\ Says(mem[r].new, mem[r].id, mem[r].row)'
      BY DEF Created, Unseen
    <3>1. mem[r].new \in TaskId
      BY Types DEF IInv, LocalsOK, MemType, Memory, Actor
    <3>2. mem[r].row.task = NoTask /\ Says(mem[r].new, mem[r].id, mem[r].row)
      BY <2>1 DEF Progress, Created
    <3>3. QED
      BY <3>1, <3>2 DEF Says, Unseen
  <2>6. Covered(r)'
    BY <1>3, <2>1 DEF Progress, Covered, Looping, Busy, Unseen
  <2>7. QED
    BY <2>2, <2>3, <2>4, <2>5, <2>6 DEF Progress
<1>5. QED
  BY <1>1, <1>4 DEF PInv

\* Looking for the schedule, and inserting it, changes nothing that is asked.
LEMMA ScheduleInPeace ==
    ASSUME IInv, PInv, NEW r \in Resyncer, GetSchedule(r) \/ InsertSchedule(r)
    PROVE  PInv'
<1>1. /\ r \in Actor /\ row' = row /\ pt' = pt /\ mem' = mem
      /\ UNCHANGED <<model, inUse, todo>>
      /\ pc[r] \in {"sync", "insert"} /\ pc'[r] \in {"insert", "scheduled"}
      /\ \A a \in Actor \ {r} : pc'[a] = pc[a]
  BY Types DEF GetSchedule, InsertSchedule, IInv, PcType, resync, Actor
<1>2. Progress(r) /\ \A a \in Actor \ {r} : AtRest(a) /\ pc'[a] = pc[a]
  BY <1>1 DEF PInv, Peace, AtRest
<1>3. \A q : q \in Referenced' <=> q \in Referenced
  BY <1>1, ReferencedIs, ReferencedNext
<1>4. Scanned(r)' /\ Created(r)' /\ Loaded(r)' /\ InHand(r)'
  BY <1>1, <1>2 DEF Progress, Scanned, Created, Loaded, InHand, Looping, Busy
<1>5. Swept(r)'
  BY <1>1, <1>2, <1>3 DEF Progress, Swept, Looping, Busy
<1>6. \A i \in Instance : Mirrored(i)' <=> Mirrored(i)
  BY <1>1, UnseenMirrors
<1>7. Covered(r)'
  BY <1>1, <1>2, <1>6 DEF Progress, Covered, Looping, Busy
<1>8. Progress(r)'
  BY <1>4, <1>5, <1>7 DEF Progress
<1>9. QED
  BY <1>2, <1>8, OneAligns

\* The PeriodicTask that is about to be linked is the only free one.
LEMMA CreateInPeace ==
    ASSUME IInv, PInv, NEW r \in Resyncer, SyncCreate(r)
    PROVE  PInv'
<1> DEFINE p == lastPt + 1
           i == mem[r].id
<1>1. /\ r \in Actor /\ pc[r] = "scheduled" /\ pc'[r] = "link" /\ mem'[r].new = p
      /\ mem'[r].id = i /\ mem'[r].row = mem[r].row /\ mem[r].row.task = NoTask
      /\ row' = row /\ UNCHANGED <<model, inUse, todo>> /\ p \in TaskId /\ i \in Instance
  BY NewTask DEF Actor
<1>2. \A q \in TaskId : q # p => pt'[q] = pt[q]
  BY <1>1, NewTask
<1>3. /\ pt'[p].live /\ pt'[p].name = mem[r].row.title /\ pt'[p].task = TaskOf[ModelOf[i]]
      /\ pt'[p].enabled = mem[r].row.active /\ pt'[p].cycle = mem[r].row.cycle
  BY <1>1, NewTask
<1>4. Progress(r) /\ \A a \in Actor \ {r} : AtRest(a) /\ pc'[a] = pc[a]
  BY <1>1, NewTask DEF PInv, Peace, AtRest
<1>5. \A q : q \in Referenced' <=> q \in Referenced
  BY <1>1, ReferencedIs, ReferencedNext
<1> HIDE DEF p
<1>6. Scanned(r)' /\ Loaded(r)' /\ InHand(r)'
  BY <1>1, <1>4 DEF Progress, Scanned, Loaded, InHand, Looping, Busy
<1>7. Swept(r)'
  BY <1>1, <1>2, <1>4, <1>5 DEF Progress, Swept, Looping, Busy
<1>8. Created(r)'
  BY <1>1, <1>3 DEF Created, Says
<1>9. \A j \in Instance : Mirrored(j) => Mirrored(j)'
  <2> SUFFICES ASSUME NEW j \in Instance, Mirrored(j) PROVE Mirrored(j)'
    OBVIOUS
  <2>1. row[j].task \in TaskId /\ row[j].task # p
    BY <1>1, OwnTask, NewTask DEF Mirrored, p
  <2>2. QED
    BY <1>1, <1>2, <2>1, UnseenMirrors
<1>10. Covered(r)'
  BY <1>1, <1>4, <1>9 DEF Progress, Covered, Looping, Busy
<1>11. Progress(r)'
  BY <1>6, <1>7, <1>8, <1>10 DEF Progress
<1>12. QED
  BY <1>4, <1>11, OneAligns

LEMMA LinkInPeace ==
    ASSUME IInv, PInv, NEW r \in Resyncer, SyncLink(r)
    PROVE  PInv'
<1>0. /\ r \in Actor /\ r \notin Editor /\ mem[r].id \in Instance
      /\ mem[r].new \in TaskId /\ mem[r].new # NoTask
      /\ pc[r] = "link" /\ row \in [Instance -> Row]
  BY ActorAssumption, Types DEF IInv, AtWork, LocalsOK, SyncLink, MemType, Memory, TableType, Actor
<1> PICK i, p : i = mem[r].id /\ p = mem[r].new
  OBVIOUS
<1>1. /\ r \in Actor /\ r \notin Editor /\ i \in Instance /\ p \in TaskId /\ p # NoTask
      /\ pc[r] = "link" /\ row \in [Instance -> Row]
  BY <1>0
<1>2. /\ pc'[r] = "loop" /\ pt' = pt /\ UNCHANGED <<model, inUse, todo>>
      /\ \A a \in Actor \ {r} : pc'[a] = pc[a]
  BY <1>1, Returned DEF SyncLink
<1>3. Progress(r) /\ \A a \in Actor \ {r} : AtRest(a) /\ pc'[a] = pc[a]
  BY <1>1, <1>2 DEF PInv, Peace, AtRest
<1>4. mem[r].row = row[i] /\ row[i].live /\ row[i].task = NoTask /\ Says(p, i, row[i])
  BY <1>1, <1>3 DEF Progress, InHand, Created, Busy
<1>5. \A j \in Instance : row'[j] = IF j = i THEN [row[i] EXCEPT !.task = p] ELSE row[j]
  BY <1>1, <1>4 DEF SyncLink
<1>6. /\ row'[i].task = p /\ row'[i].live /\ row'[i].title = row[i].title
      /\ row'[i].active = row[i].active /\ row'[i].cycle = row[i].cycle
  <2>1. row'[i] = [row[i] EXCEPT !.task = p] /\ row[i] \in Row
    BY <1>1, <1>5
  <2>2. QED
    BY <1>4, <2>1 DEF Row
<1>7. \A q : q \in Referenced' <=> q \in Referenced \/ q = p
  <2>1. ASSUME NEW q, q \in Referenced PROVE q \in Referenced'
    <3>1. PICK j \in Instance : q # NoTask /\ row[j].live /\ row[j].task = q
      BY <2>1, ReferencedIs
    <3>2. row'[j] = row[j]
      BY <1>4, <1>5, <3>1
    <3>3. QED
      BY <3>1, <3>2, ReferencedNext
  <2>2. p \in Referenced'
    BY <1>1, <1>6, ReferencedNext
  <2>3. ASSUME NEW q, q \in Referenced' PROVE q \in Referenced \/ q = p
    <3>1. PICK j \in Instance : q # NoTask /\ row'[j].live /\ row'[j].task = q
      BY <2>3, ReferencedNext
    <3>2. QED
      BY <1>5, <1>6, <3>1, ReferencedIs
  <2>4. QED
    BY <2>1, <2>2, <2>3
<1>8. Mirrored(i)' /\ \A j \in Instance : Mirrored(j) => Mirrored(j)'
  <2>1. Mirrored(i)'
    <3>1. /\ pt[p].live /\ pt[p].name = row[i].title /\ pt[p].task = TaskOf[ModelOf[i]]
          /\ pt[p].enabled = row[i].active /\ pt[p].cycle = row[i].cycle
      BY <1>4 DEF Says
    <3>2. row'[i].active = pt'[row'[i].task].enabled
      BY <1>2, <1>6, <3>1
    <3>3. QED
      BY <1>1, <1>2, <1>6, <3>1, <3>2 DEF Mirrored
  <2>2. ASSUME NEW j \in Instance, Mirrored(j) PROVE Mirrored(j)'
    <3>1. CASE j = i
      BY <2>1, <3>1, Zenon DEF Mirrored
    <3>2. CASE j # i
      BY <1>2, <1>5, <2>2, <3>2, UnseenMirrors
    <3>3. QED
      BY <3>1, <3>2
  <2>3. QED
    BY <2>1, <2>2
<1>9. Swept(r)'
  BY <1>1, <1>2, <1>3, <1>7 DEF Progress, Swept, Looping, Busy
<1>10. Loaded(r)'
  <2> SUFFICES ASSUME NEW x \in todo[r] PROVE x.row = row'[x.id] /\ x.row.live
    BY <1>2 DEF Loaded, Busy
  <2>1. x.row = row[x.id] /\ x.row.live /\ x.id # i /\ x.id \in Instance
    BY <1>1, <1>3, Types DEF Progress, Loaded, Looping, Busy, IInv, ResyncType, TodoType
  <2>2. QED
    BY <1>5, <2>1
<1>11. Covered(r)'
  <2> SUFFICES ASSUME NEW j \in Instance, row'[j].live, ModelOf[j] = model[r]
               PROVE  Mirrored(j)' \/ \E x \in todo[r] : x.id = j
    BY <1>2 DEF Covered
  <2>1. row[j].live
    BY <1>4, <1>5
  <2>2. Mirrored(j) \/ (\E x \in todo[r] : x.id = j) \/ i = j
    BY <1>1, <1>3, <2>1 DEF Progress, Covered, Looping, Busy
  <2>3. QED
    BY <1>8, <2>2
<1>12. Scanned(r)' /\ InHand(r)' /\ Created(r)'
  BY <1>2 DEF Scanned, InHand, Created, Busy
<1>13. Progress(r)'
  BY <1>9, <1>10, <1>11, <1>12 DEF Progress
<1>14. QED
  BY <1>3, <1>13, OneAligns

LEMMA ReadInPeace ==
    ASSUME IInv, PInv, NEW r \in Resyncer, SyncRead(r)
    PROVE  PInv'
<1>1. /\ r \in Actor /\ pc[r] = "scheduled" /\ pc'[r] = "write"
      /\ mem'[r].id = mem[r].id /\ mem'[r].row = mem[r].row
      /\ row' = row /\ pt' = pt /\ UNCHANGED <<model, inUse, todo>>
      /\ \A a \in Actor \ {r} : pc'[a] = pc[a]
  BY Types DEF SyncRead, Estimable, IInv, PcType, MemType, Memory, resync, Actor
<1>2. Progress(r) /\ \A a \in Actor \ {r} : AtRest(a) /\ pc'[a] = pc[a]
  BY <1>1 DEF PInv, Peace, AtRest
<1>3. \A q : q \in Referenced' <=> q \in Referenced
  BY <1>1, ReferencedIs, ReferencedNext
<1>4. Scanned(r)' /\ Created(r)' /\ Loaded(r)' /\ InHand(r)'
  BY <1>1, <1>2 DEF Progress, Scanned, Created, Loaded, InHand, Looping, Busy
<1>5. Swept(r)'
  BY <1>1, <1>2, <1>3 DEF Progress, Swept, Looping, Busy
<1>6. \A i \in Instance : Mirrored(i)' <=> Mirrored(i)
  BY <1>1, UnseenMirrors
<1>7. Covered(r)'
  BY <1>1, <1>2, <1>6 DEF Progress, Covered, Looping, Busy
<1>8. Progress(r)'
  BY <1>4, <1>5, <1>7 DEF Progress
<1>9. QED
  BY <1>2, <1>8, OneAligns

\* The instance in hand is mirrored by what is written, and no other one refers to it.
LEMMA WriteInPeace ==
    ASSUME IInv, PInv, NEW r \in Resyncer, SyncWrite(r)
    PROVE  PInv'
<1>0. r \in Actor /\ r \notin Editor
  BY ActorAssumption DEF Actor
<1> PICK i, p, t : i = mem[r].id /\ p = mem[r].row.task /\ t = Synced(mem[r])
  OBVIOUS
<1>1. /\ i \in Instance /\ p \in TaskId /\ p # NoTask /\ pc[r] = "write"
      /\ \A q \in TaskId : pt'[q] = IF q = p THEN t ELSE pt[q]
      /\ t.live /\ t.name = mem[r].row.title /\ t.task = TaskOf[ModelOf[i]]
      /\ t.enabled = mem[r].row.active /\ t.cycle = mem[r].row.cycle
      /\ row' = row /\ Return(r)
  BY <1>0, Written DEF SyncWrite
<1>2. /\ pc'[r] = "loop" /\ UNCHANGED <<model, inUse, todo>>
      /\ \A a \in Actor \ {r} : pc'[a] = pc[a]
  BY <1>0, <1>1, Returned
<1>3. Progress(r) /\ \A a \in Actor \ {r} : AtRest(a) /\ pc'[a] = pc[a]
  BY <1>0, <1>1, <1>2 DEF PInv, Peace, AtRest
<1>4. mem[r].row = row[i] /\ row[i].live /\ row[i].task = p
  BY <1>1, <1>3 DEF Progress, InHand, Busy
<1>5. \A q : q \in Referenced' <=> q \in Referenced
  BY <1>1, ReferencedIs, ReferencedNext
<1>6. p \in Referenced
  BY <1>1, <1>4, ReferencedIs
<1>7. Swept(r)'
  BY <1>1, <1>2, <1>3, <1>5, <1>6 DEF Progress, Swept, Looping, Busy
<1>8. Mirrored(i)'
  <2>1. pt'[p] = t /\ row'[i].task = p
    BY <1>1, <1>4
  <2>2. pt'[row'[i].task].enabled = row'[i].active
    BY <1>1, <1>4, <2>1
  <2>3. QED
    BY <1>1, <1>4, <2>1, <2>2 DEF Mirrored
<1>9. ASSUME NEW j \in Instance, Mirrored(j) PROVE Mirrored(j)'
  <2>1. CASE j = i
    BY <1>8, <2>1
  <2>2. CASE j # i
    <3>1. row[j].task \in TaskId /\ row[j].task # p
      BY <1>1, <1>4, <1>9, <2>2, OwnTask DEF Mirrored
    <3>2. QED
      BY <1>1, <1>9, <3>1, UnseenMirrors
  <2>3. QED
    BY <2>1, <2>2
<1>10. Scanned(r)' /\ Created(r)' /\ InHand(r)' /\ Loaded(r)'
  BY <1>1, <1>2, <1>3 DEF Progress, Scanned, Created, InHand, Loaded, Looping, Busy
<1>11. Covered(r)'
  <2> SUFFICES ASSUME NEW j \in Instance, row[j].live, ModelOf[j] = model[r]
               PROVE  Mirrored(j)' \/ \E x \in todo[r] : x.id = j
    BY <1>1, <1>2 DEF Covered
  <2>1. Mirrored(j) \/ (\E x \in todo[r] : x.id = j) \/ i = j
    BY <1>1, <1>3 DEF Progress, Covered, Looping, Busy
  <2>2. QED
    BY <1>8, <1>9, <2>1
<1>12. Progress(r)'
  BY <1>7, <1>10, <1>11 DEF Progress
<1>13. QED
  BY <1>3, <1>12, OneAligns

-----------------------------------------------------------------------------
LEMMA ScanInPeace ==
    ASSUME IInv, PInv, Exclusive, NEW r \in Resyncer, ResyncScan(r)
    PROVE  PInv'
<1>1. /\ r \in Actor /\ pc'[r] = "orphans" /\ row' = row
      /\ inUse'[r] = Referenced
      /\ \A a \in Actor \ {r} : AtRest(a) /\ pc'[a] = pc[a]
  BY Types DEF ResyncScan, IInv, PcType, ResyncType, AtRest, Actor
<1>2. Scanned(r)'
  BY <1>1 DEF Scanned, Referenced, Linked
<1>3. Progress(r)'
  BY <1>1, <1>2 DEF Progress, Swept, Loaded, InHand, Created, Covered, Looping, Busy
<1>4. QED
  BY <1>1, <1>3, OneAligns

\* The deletion of orphans leaves no free PeriodicTask of the task name.
LEMMA OrphansInPeace ==
    ASSUME IInv, PInv, NEW r \in Resyncer, ResyncOrphans(r)
    PROVE  PInv'
<1>1. /\ r \in Actor /\ pc[r] = "orphans" /\ pc'[r] = "query"
      /\ model' = model /\ DeleteTasks(Orphans(r), row)
      /\ \A a \in Actor \ {r} : pc'[a] = pc[a]
  BY Types DEF ResyncOrphans, Goto, IInv, PcType, Actor
<1>2. Progress(r) /\ \A a \in Actor \ {r} : AtRest(a) /\ pc'[a] = pc[a]
  BY <1>1 DEF PInv, Peace, AtRest
<1>3. inUse[r] = Referenced
  BY <1>1, <1>2 DEF Progress, Scanned
<1>4. \A i \in Instance : row[i].live => row'[i] = row[i]
  <2> SUFFICES ASSUME NEW i \in Instance, row[i].live PROVE row'[i] = row[i]
    OBVIOUS
  <2>1. row[i].task \notin Orphans(r)
    <3>1. CASE row[i].task = NoTask
      BY <3>1, BoundsAssumption DEF Orphans, TaskId, NoTask
    <3>2. CASE row[i].task # NoTask
      BY <1>3, <3>2, ReferencedIs DEF Orphans
    <3>3. QED
      BY <3>1, <3>2
  <2>2. QED
    BY <1>1, <2>1 DEF DeleteTasks
<1>5. \A q \in Referenced : q \in Referenced'
  BY <1>4, ReferencedIs, ReferencedNext
<1>6. ASSUME NEW q \in TaskId, pt'[q].live, pt'[q].task = TaskOf[model[r]] PROVE q \in Referenced
  <2>1. q \notin Orphans(r) /\ pt'[q] = pt[q]
    BY <1>1, <1>6 DEF DeleteTasks, NoPT
  <2>2. q \in Linked(model[r]) \/ q \in Referenced
    BY <1>3, <1>6, <2>1 DEF Orphans
  <2>3. q # NoTask
    BY DEF TaskId, NoTask
  <2>4. QED
    BY <2>2, <2>3, ReferencedIs DEF Linked
<1>7. Swept(r)'
  BY <1>1, <1>5, <1>6 DEF Swept, Looping, Busy
<1>8. Progress(r)'
  BY <1>1, <1>7 DEF Progress, Scanned, Loaded, InHand, Created, Covered, Looping, Busy
<1>9. QED
  BY <1>2, <1>8, OneAligns

LEMMA QueryInPeace ==
    ASSUME IInv, PInv, NEW r \in Resyncer, ResyncQuery(r)
    PROVE  PInv'
<1> DEFINE T == {[id |-> i, row |-> row[i]] :
                   i \in {j \in Instance : row[j].live /\ ModelOf[j] = model[r]}}
<1>1. /\ r \in Actor /\ pc[r] = "query" /\ pc'[r] = "loop" /\ todo'[r] = T
      /\ row' = row /\ pt' = pt /\ model' = model /\ mem' = mem
      /\ \A a \in Actor \ {r} : pc'[a] = pc[a]
  BY Types DEF ResyncQuery, Goto, IInv, PcType, ResyncType, TodoType, Actor
<1>2. Progress(r) /\ \A a \in Actor \ {r} : AtRest(a) /\ pc'[a] = pc[a]
  BY <1>1 DEF PInv, Peace, AtRest
<1>3. \A q : q \in Referenced' <=> q \in Referenced
  BY <1>1, ReferencedIs, ReferencedNext
<1>4. Swept(r)'
  BY <1>1, <1>2, <1>3 DEF Progress, Swept, Looping, Busy
<1>5. Loaded(r)'
  <2>1. \A x \in T : x.row = row[x.id] /\ x.row.live
    OBVIOUS
  <2>2. QED
    BY <1>1, <2>1 DEF Loaded, Busy
<1>6. Covered(r)'
  <2>1. ASSUME NEW i \in Instance, row[i].live, ModelOf[i] = model[r]
        PROVE  \E x \in T : x.id = i
    <3>1. [id |-> i, row |-> row[i]] \in T
      BY <2>1, Zenon
    <3> HIDE DEF T
    <3>2. PICK x \in T : x = [id |-> i, row |-> row[i]]
      BY <3>1
    <3>3. QED
      BY <3>2
  <2>2. QED
    BY <1>1, <2>1 DEF Covered
<1>7. Progress(r)'
  BY <1>1, <1>4, <1>5, <1>6 DEF Progress, Scanned, InHand, Created, Busy
<1>8. QED
  BY <1>2, <1>7, OneAligns

\* Nothing dangles, as a row refers to what exists: the object in hand is the row.
LEMMA NextInPeace ==
    ASSUME IInv, PInv, NEW r \in Resyncer, ResyncNext(r)
    PROVE  PInv'
<1>1. PICK x \in todo[r] :
        LET dangling == x.row.task # NoTask /\ ~ pt[x.row.task].live
        IN  /\ todo' = [todo EXCEPT ![r] = @ \ {x}]
            /\ row' = IF dangling /\ row[x.id].live
                      THEN [row EXCEPT ![x.id].task = NoTask] ELSE row
            /\ mem' = [mem EXCEPT ![r] = [Empty EXCEPT
                 !.id = x.id,
                 !.row = IF dangling THEN [x.row EXCEPT !.task = NoTask] ELSE x.row]]
  BY Zenon DEF ResyncNext
<1>2. /\ r \in Actor /\ pc[r] = "loop" /\ pc'[r] = "sync" /\ pt' = pt
      /\ model' = model
      /\ \A a \in Actor \ {r} : pc'[a] = pc[a]
      /\ todo[r] \subseteq [id : Instance, row : Row] /\ todo'[r] = todo[r] \ {x}
  BY <1>1, Types DEF ResyncNext, Goto, IInv, PcType, ResyncType, TodoType, Actor
<1>3. Progress(r) /\ \A a \in Actor \ {r} : AtRest(a) /\ pc'[a] = pc[a]
  BY <1>2 DEF PInv, Peace, AtRest
<1>4. \A y \in todo[r] : y.row = row[y.id] /\ y.row.live
  BY <1>2, <1>3 DEF Progress, Loaded, Looping
<1>5. x.id \in Instance /\ x.row = row[x.id] /\ ~ (x.row.task # NoTask /\ ~ pt[x.row.task].live)
  BY <1>2, <1>4 DEF IInv, NoneGone
<1>6. row' = row /\ mem' = [mem EXCEPT ![r] = [Empty EXCEPT !.id = x.id, !.row = x.row]]
  BY <1>1, <1>5
<1>7. mem'[r].id = x.id /\ mem'[r].row = x.row
  BY <1>2, <1>6, Types DEF IInv, MemType, Empty
<1>8. \A q : q \in Referenced' <=> q \in Referenced
  BY <1>6, ReferencedIs, ReferencedNext
<1>9. Swept(r)'
  BY <1>2, <1>3, <1>8 DEF Progress, Swept, Looping, Busy
<1>10. \A y \in todo'[r] : y.id # x.id
  <2> SUFFICES ASSUME NEW y \in todo'[r], y.id = x.id PROVE FALSE
    OBVIOUS
  <2>1. y \in todo[r] /\ y # x /\ y.row = x.row
    BY <1>2, <1>4
  <2>2. y \in [id : Instance, row : Row] /\ x \in [id : Instance, row : Row]
    BY <1>2, <2>1
  <2>3. QED
    BY <2>1, <2>2
<1>11. Loaded(r)' /\ InHand(r)'
  BY <1>2, <1>4, <1>6, <1>7, <1>10 DEF Loaded, InHand
<1>12. \A i \in Instance : Mirrored(i)' <=> Mirrored(i)
  BY <1>2, <1>6, UnseenMirrors
<1>13. Covered(r)'
  <2> SUFFICES ASSUME NEW i \in Instance, row[i].live, ModelOf[i] = model[r]
               PROVE  Mirrored(i)' \/ (\E y \in todo'[r] : y.id = i) \/ x.id = i
    BY <1>2, <1>6, <1>7 DEF Covered, Busy
  <2>1. Mirrored(i) \/ \E y \in todo[r] : y.id = i
    BY <1>2, <1>3 DEF Progress, Covered, Looping, Busy
  <2>2. QED
    BY <1>2, <1>12, <2>1
<1>14. Progress(r)'
  BY <1>2, <1>9, <1>11, <1>13 DEF Progress, Scanned, Created
<1>15. QED
  BY <1>3, <1>14, OneAligns

-----------------------------------------------------------------------------
LEMMA PeaceStarts == Init => PInv
<1> SUFFICES ASSUME Init PROVE PInv
  OBVIOUS
<1>1. \A r \in Resyncer : pc[r] = "idle"
  BY DEF Init, Actor
<1>2. QED
  BY <1>1 DEF PInv, Peace, Progress, Scanned, Swept, Loaded, InHand, Created, Covered,
              Looping, Busy, AtRest

\* An editor at work, and whoever bypasses the signals, waits for every resync_all.
LEMMA WritersWait ==
    ASSUME PInv, Exclusive,
           \/ \E e \in Editor : Edit(e) \/ Sync(e) \/ SyncDies(e)
           \/ BulkWrite \/ TaskToggle \/ TaskDelete
    PROVE  \A r \in Resyncer : AtRest(r) /\ r \notin Editor
<1>1. \A r \in Resyncer : r \notin Editor
  BY ActorAssumption
<1>2. CASE MayWrite
  BY <1>1, <1>2 DEF MayWrite, Resting, AtRest
<1>3. CASE ~ MayWrite
  <2>1. PICK e \in Editor : Edit(e) \/ Sync(e) \/ SyncDies(e)
    BY <1>3 DEF BulkWrite, TaskToggle, TaskDelete, Drift
  <2>2. ~ AtRest(e) /\ e \in Actor
    BY <1>3, <2>1 DEF Edit, Create, Load, Save, SaveFails, Destroy, Sync, SyncDies, SyncRejects,
       GetSchedule, GetScheduleFails, InsertSchedule, SyncCreate, SyncCreateFails, SyncLink,
       SyncLinkFails, SyncRead, SyncReadFails, SyncWrite, SyncWriteFails, Estimable, AtRest, Actor
  <2>3. QED
    BY <1>1, <2>2 DEF PInv, Peace
<1>4. QED
  BY <1>2, <1>3

LEMMA WritersInPeace ==
    ASSUME IInv, PInv, Exclusive,
           \/ \E e \in Editor : Edit(e) \/ Sync(e) \/ SyncDies(e)
           \/ BulkWrite \/ TaskToggle \/ TaskDelete
    PROVE  PInv'
<1>1. \A r \in Resyncer : AtRest(r) /\ r \notin Editor
  BY WritersWait
<1>2. pc' = pc \/ \E e \in Editor : pc' = [pc EXCEPT ![e] = pc'[e]]
  <2>1. CASE BulkWrite \/ TaskToggle \/ TaskDelete
    BY <2>1 DEF BulkWrite, TaskToggle, TaskDelete
  <2>2. ASSUME NEW e \in Editor, Edit(e) \/ Sync(e) \/ SyncDies(e)
        PROVE  pc' = [pc EXCEPT ![e] = pc'[e]]
    <3>1. \E to : pc' = [pc EXCEPT ![e] = to]
      BY <2>2 DEF Edit, Create, Load, Save, SaveFails, Destroy, Sync, SyncDies, SyncRejects,
         GetSchedule, GetScheduleFails, InsertSchedule, SyncCreate, SyncCreateFails, SyncLink,
         SyncLinkFails, SyncRead, SyncReadFails, SyncWrite, SyncWriteFails, Return, Raise
    <3>2. QED
      BY <3>1, Types DEF IInv, PcType, Actor
  <2>3. QED
    BY <2>1, <2>2
<1>3. \A r \in Resyncer : pc'[r] = pc[r]
  BY <1>1, <1>2, Types DEF IInv, PcType, Actor
<1>4. QED
  BY <1>1, <1>3, NobodyAligns DEF AtRest

\* A resync_all that stops, with or without an exception, asks for nothing any more.
LEMMA StopsInPeace ==
    ASSUME IInv, PInv, NEW r \in Resyncer,
           \/ SyncRejects(r) \/ GetScheduleFails(r) \/ SyncCreateFails(r) \/ SyncLinkFails(r)
           \/ SyncReadFails(r) \/ SyncWriteFails(r) \/ SyncDies(r) \/ ResyncDone(r)
    PROVE  PInv'
<1>1. r \in Actor /\ ~ AtRest(r)
  BY DEF SyncRejects, GetScheduleFails, SyncCreateFails, SyncLinkFails, SyncReadFails,
         SyncWriteFails, SyncDies, ResyncDone, Goto, Estimable, AtRest, Actor
<1>2. AtRest(r)' /\ \A a \in Actor \ {r} : pc'[a] = pc[a]
  <2>1. CASE ResyncDone(r)
    BY <1>1, <2>1, Types DEF ResyncDone, Goto, IInv, PcType, AtRest
  <2>2. CASE Raise(r)
    BY <1>1, <2>2, Raised
  <2>3. QED
    BY <2>1, <2>2 DEF SyncRejects, GetScheduleFails, SyncCreateFails, SyncLinkFails, SyncReadFails,
                      SyncWriteFails, SyncDies
<1>3. \A q \in Resyncer : AtRest(q)'
  BY <1>1, <1>2 DEF PInv, Peace, AtRest, Actor
<1>4. QED
  BY <1>3, NobodyAligns

\* Beat changes columns that nobody compares.
LEMMA BeatUnseen == ASSUME IInv, Beat PROVE Unseen
<1>1. PICK p \in TaskId :
        pt' = [pt EXCEPT ![p] = [@ EXCEPT !.runs = pt[p].runs + 1, !.last = "ran"]]
  BY Zenon DEF Beat
<1> DEFINE t == [pt[p] EXCEPT !.runs = pt[p].runs + 1, !.last = "ran"]
<1>2. pt[p] \in Task /\ pt \in [TaskId -> Task]
  BY Types DEF IInv, TableType
<1>3. /\ t.live = pt[p].live /\ t.name = pt[p].name /\ t.task = pt[p].task
      /\ t.enabled = pt[p].enabled /\ t.cycle = pt[p].cycle
  BY <1>2 DEF Task
<1>4. pt' = [pt EXCEPT ![p] = t]
  BY <1>1, Zenon
<1> HIDE DEF t
<1>5. \A q \in TaskId : pt'[q] = IF q = p THEN t ELSE pt[q]
  BY <1>2, <1>4
<1>6. row' = row /\ pc' = pc /\ mem' = mem /\ UNCHANGED <<model, inUse, todo>>
  BY DEF Beat, resync
<1>7. QED
  BY <1>3, <1>5, <1>6 DEF Unseen

LEMMA PeaceStep == ASSUME IInv, PInv, Exclusive, [Next]_vars PROVE PInv'
<1>1. ASSUME NEW r \in Resyncer, Sync(r) \/ SyncDies(r) \/ Resync(r) PROVE PInv'
  BY <1>1, ScheduleInPeace, CreateInPeace, LinkInPeace, ReadInPeace, WriteInPeace, StopsInPeace, ScanInPeace,
     OrphansInPeace, QueryInPeace, NextInPeace DEF Sync, Resync
<1>2. CASE Beat
  BY <1>2, BeatUnseen, UnseenProgress
<1>3. CASE UNCHANGED vars
  BY <1>3, UnseenProgress DEF Unseen, vars
<1>4. CASE \/ \E e \in Editor : Edit(e) \/ Sync(e) \/ SyncDies(e)
           \/ BulkWrite \/ TaskToggle \/ TaskDelete
  BY <1>4, WritersInPeace
<1>5. QED
  BY <1>1, <1>2, <1>3, <1>4 DEF Next, Actor

LEMMA PeaceInvariance == ASSUME Exclusive PROVE Spec => [](IInv /\ PInv)
<1>1. Init => IInv /\ PInv
  BY InitSafe, PeaceStarts
<1>2. IInv /\ PInv /\ [Next]_vars => (IInv /\ PInv)'
  BY PeaceStep, StepSafe
<1>3. QED
  BY <1>1, <1>2, PTL DEF Spec

\* A resync_all that nobody disturbs and that comes to its end has aligned its model:
\* each scheduler has a PeriodicTask that mirrors it and none is left over, whatever
\* bypassing writes, title conflicts and half-done saves were before (sync.py:128-159).
THEOREM ResyncAlignsModel == ASSUME Exclusive PROVE Spec => ResyncAligns
<1>1. ASSUME IInv, PInv, NEW r \in Resyncer, ResyncDone(r) PROVE Aligned(model[r])
  <2>1. pc[r] = "loop" /\ todo[r] = {} /\ Progress(r)
    BY <1>1 DEF ResyncDone, Goto, PInv
  <2>2. \A i \in Instance : row[i].live /\ ModelOf[i] = model[r] => Mirrored(i)
    BY <2>1 DEF Progress, Covered, Looping, Busy
  <2>3. \A p \in TaskId : pt[p].live /\ pt[p].task = TaskOf[model[r]] => p \in Referenced
    BY <2>1 DEF Progress, Swept, Looping
  <2>4. QED
    BY <2>2, <2>3 DEF Aligned
<1>2. IInv /\ PInv /\ [Next]_vars
        => [\A r \in Resyncer : ResyncDone(r) => Aligned(model[r])]_vars
  BY <1>1
<1>3. QED
  BY PeaceInvariance, <1>2, PTL DEF ResyncAligns, Spec

\* Run in peace, it removes no PeriodicTask that a foreign key refers to: only a
\* link made after its snapshot can be lost (sync.py:135-143).
THEOREM ReferencedStays == ASSUME Exclusive PROVE Spec => ReferencedNeverRemoved
<1>1. ASSUME PInv, NEW r \in Resyncer, ResyncOrphans(r) PROVE Referenced \cap Orphans(r) = {}
  BY <1>1 DEF PInv, Progress, Scanned, ResyncOrphans, Goto, Orphans
<1>2. IInv /\ PInv /\ [Next]_vars
        => [\A r \in Resyncer : ResyncOrphans(r) => Referenced \cap Orphans(r) = {}]_vars
  BY <1>1
<1>3. QED
  BY PeaceInvariance, <1>2, PTL DEF ReferencedNeverRemoved, Spec

-----------------------------------------------------------------------------
(* What the signals maintain when, besides, one request follows the other:   *)
(* one editor, instances of one model, so that the names of PeriodicTasks    *)
(* cannot clash, and cycles whose period can be estimated.                   *)
Orderly == /\ Exclusive /\ Unestimable = {}
           /\ \A e, f \in Editor : e = f
           /\ \A i, j \in Instance : ModelOf[i] = ModelOf[j]

\* Behind SignalsMaintain and RestartsFromNow, while nothing is disturbed: titles are
\* unique and cycles set; a row is mirrored but while its save is in progress; a
\* PeriodicTask is referred to, but while it waits to be linked; an object in hand is
\* the row, and what it remembers of the old schedule is what the PeriodicTask says.
Titled == \A i \in Instance : row[i].live =>
            /\ row[i].cycle # None
            /\ \A j \in Instance \ {i} : row[j].live => row[i].title # row[j].title
Kept   == \A i \in Instance : row[i].live =>
            Mirrored(i) \/ \E e \in Editor : Busy(e) /\ mem[e].id = i
Wanted == \A p \in TaskId : pt[p].live =>
            p \in Referenced \/ \E e \in Editor : pc[e] = "link" /\ mem[e].new = p
Current(e) == pc[e] = "loaded" \/ Busy(e) => mem[e].row = row[mem[e].id] /\ mem[e].row.live
Fresh(e)   == pc[e] \in {"sync", "insert", "scheduled", "write"} /\ mem[e].row.task # NoTask =>
                mem[e].old # None /\ pt[mem[e].row.task].cycle = mem[e].old
Fetched(a) == pc[a] = "write" => mem[a].pt.enabled = pt[mem[a].row.task].enabled
Steady == /\ Titled /\ Kept /\ Wanted
          /\ \A e \in Editor : Current(e) /\ Fresh(e) /\ Created(e)
          /\ \A a \in Actor : Fetched(a)
SInv == Undisturbed => Steady

\* A resync_all remembers no old schedule.
Forgetful == \A r \in Resyncer : mem[r].old = None

\* While one writer follows the other a cycle never gets a second schedule.
OneEach == /\ \A c \in Cycle : schedules[c] # 2
           /\ \A a \in Actor : pc[a] = "insert" => schedules[mem[a].row.cycle] = 0

-----------------------------------------------------------------------------
(* One schedule of each cycle. *)

\* Steps that insert no schedule and send nobody to insert one.
NoSchedule ==
    /\ schedules' = schedules
    /\ \A a \in Actor : pc'[a] = "insert" => pc[a] = "insert" /\ mem'[a] = mem[a]

LEMMA EditsNoSchedule ==
    ASSUME IInv, NEW e \in Editor, Edit(e)
    PROVE  NoSchedule
<1>1. schedules' = schedules
  BY DEF Edit, Create, Load, Save, SaveFails, Destroy, rest
<1>2. \E to \in {"sync", "loaded", "idle"} : pc' = [pc EXCEPT ![e] = to]
  BY DEF Edit, Create, Load, Save, SaveFails, Destroy, Raise, Return
<1>3. \A a \in Actor \ {e} : mem'[a] = mem[a]
  BY Types DEF Edit, Create, Load, Save, SaveFails, Destroy, Raise, Return, IInv, MemType
<1>4. QED
  BY <1>1, <1>2, <1>3, Types DEF NoSchedule, IInv, PcType, Actor

LEMMA ResyncsNoSchedule ==
    ASSUME IInv, NEW r \in Resyncer, Resync(r)
    PROVE  NoSchedule
<1>1. schedules' = schedules
  BY DEF Resync, ResyncScan, ResyncOrphans, ResyncQuery, ResyncNext, ResyncDone, rest
<1>2. \E to \in {"orphans", "query", "loop", "sync", "idle"} : pc' = [pc EXCEPT ![r] = to]
  BY DEF Resync, ResyncScan, ResyncOrphans, ResyncQuery, ResyncNext, ResyncDone, Goto
<1>3. \A a \in Actor \ {r} : mem'[a] = mem[a]
  BY Types DEF Resync, ResyncScan, ResyncOrphans, ResyncQuery, ResyncNext, ResyncDone,
     IInv, MemType
<1>4. QED
  BY <1>1, <1>2, <1>3, Types DEF NoSchedule, IInv, PcType, Actor

LEMMA SyncsNoSchedule ==
    ASSUME IInv, NEW a \in Actor, Sync(a) \/ SyncDies(a), ~ GetSchedule(a), ~ InsertSchedule(a)
    PROVE  NoSchedule
<1>1. schedules' = schedules
  BY DEF Sync, SyncDies, SyncRejects, GetScheduleFails, SyncCreate, SyncCreateFails, SyncLink,
     SyncLinkFails, SyncRead, SyncReadFails, SyncWrite, SyncWriteFails, rest
<1>2. \E to \in {"idle", "failed", "loop", "link", "write"} : pc' = [pc EXCEPT ![a] = to]
  BY DEF Sync, SyncDies, SyncRejects, GetScheduleFails, SyncCreate, SyncCreateFails, SyncLink,
     SyncLinkFails, SyncRead, SyncReadFails, SyncWrite, SyncWriteFails, Return, Raise
<1>3. \A b \in Actor \ {a} : mem'[b] = mem[b]
  BY Types DEF Sync, SyncDies, SyncRejects, GetScheduleFails, SyncCreate, SyncCreateFails,
     SyncLink, SyncLinkFails, SyncRead, SyncReadFails, SyncWrite, SyncWriteFails, Return, Raise,
     IInv, MemType
<1>4. QED
  BY <1>1, <1>2, <1>3, Types DEF NoSchedule, IInv, PcType

\* Whoever syncs does so alone.
LEMMA SyncsAlone ==
    ASSUME IInv, PInv, Orderly, NEW a \in Actor, Sync(a)
    PROVE  \A b \in Actor \ {a} : AtRest(b)
<1>1. CASE a \in Editor
  BY <1>1, WritersWait DEF Orderly, Actor
<1>2. CASE a \in Resyncer
  <2>1. ~ AtRest(a)
    BY DEF Sync, SyncRejects, GetSchedule, GetScheduleFails, InsertSchedule, SyncCreate,
       SyncCreateFails, SyncLink, SyncLinkFails, SyncRead, SyncReadFails, SyncWrite,
       SyncWriteFails, Estimable, AtRest
  <2>2. QED
    BY <1>2, <2>1 DEF PInv, Peace
<1>3. QED
  BY <1>1, <1>2 DEF Actor

LEMMA OneEachStep ==
    ASSUME IInv, PInv, OneEach, Orderly, [Next]_vars
    PROVE  OneEach'
<1>1. CASE NoSchedule
  BY <1>1 DEF NoSchedule, OneEach
<1>2. ASSUME NEW a \in Actor, GetSchedule(a) PROVE OneEach'
  <2>1. /\ schedules' = schedules /\ mem' = mem
        /\ pc' = [pc EXCEPT ![a] = IF schedules[mem[a].row.cycle] = 0
                                  THEN "insert" ELSE "scheduled"]
    BY <1>2 DEF GetSchedule, rest
  <2>2. QED
    BY <2>1, Types DEF OneEach, IInv, PcType
<1>3. ASSUME NEW a \in Actor, InsertSchedule(a) PROVE OneEach'
  <2>1. \A b \in Actor \ {a} : AtRest(b)
    BY <1>3, SyncsAlone DEF Sync
  <2>2. \A b \in Actor : pc'[b] # "insert"
    BY <1>3, <2>1, Types DEF InsertSchedule, IInv, PcType, AtRest
  <2>3. schedules[mem[a].row.cycle] = 0
    BY <1>3 DEF InsertSchedule, OneEach
  <2>4. schedules' = [schedules EXCEPT ![mem[a].row.cycle] = 1]
    BY <1>3, <2>3 DEF InsertSchedule
  <2>5. \A c \in Cycle : schedules'[c] # 2
    BY <2>4, Types DEF OneEach, IInv, BudgetType
  <2>6. QED
    BY <2>2, <2>5 DEF OneEach
<1>4. CASE BulkWrite \/ TaskToggle \/ TaskDelete \/ Beat \/ UNCHANGED vars
  BY <1>1, <1>4 DEF NoSchedule, BulkWrite, TaskToggle, TaskDelete, Beat, vars, rest
<1>5. QED
  BY <1>1, <1>2, <1>3, <1>4, EditsNoSchedule, ResyncsNoSchedule, SyncsNoSchedule DEF Next

\* A resync_all remembers no old schedule.
LEMMA ForgetfulStep ==
    ASSUME IInv, Forgetful, [Next]_vars
    PROVE  Forgetful'
<1> USE DEF Forgetful
<1>1. ASSUME NEW r \in Resyncer, mem'[r] = mem[r] \/ mem'[r].old \in {mem[r].old, None}
      PROVE  mem'[r].old = None
  BY <1>1
<1>2. ASSUME NEW a \in Actor, Sync(a) \/ SyncDies(a), NEW r \in Resyncer
      PROVE  mem'[r].old \in {mem[r].old, None}
  <2>1. CASE SyncCreate(a) \/ SyncRead(a)
    BY <2>1, Types DEF SyncCreate, SyncRead, IInv, MemType, Memory, Actor
  <2>2. CASE Raise(a) \/ Return(a)
    BY <2>2, Types DEF Raise, Return, IInv, MemType, Empty, Actor
  <2>3. CASE GetSchedule(a) \/ InsertSchedule(a)
    BY <2>3 DEF GetSchedule, InsertSchedule
  <2>4. QED
    BY <1>2, <2>1, <2>2, <2>3 DEF Sync, SyncDies, SyncRejects, GetScheduleFails, SyncCreateFails,
       SyncLink, SyncLinkFails, SyncReadFails, SyncWrite, SyncWriteFails
<1>3. ASSUME NEW e \in Editor, Edit(e), NEW r \in Resyncer PROVE mem'[r] = mem[r]
  BY <1>3, ActorAssumption, Types DEF Edit, Create, Load, Save, SaveFails, Destroy, Raise, Return,
     IInv, MemType, Actor
<1>4. ASSUME NEW q \in Resyncer, Resync(q), NEW r \in Resyncer
      PROVE  mem'[r].old \in {mem[r].old, None}
  <2>1. CASE ResyncNext(q)
    <3>1. PICK id, x : mem' = [mem EXCEPT ![q] = [Empty EXCEPT !.id = id, !.row = x]]
      BY <2>1 DEF ResyncNext
    <3>2. QED
      BY <3>1, Types DEF IInv, MemType, Empty, Actor
  <2>2. QED
    BY <1>4, <2>1 DEF Resync, ResyncScan, ResyncOrphans, ResyncQuery, ResyncDone
<1>5. CASE BulkWrite \/ TaskToggle \/ TaskDelete \/ Beat \/ UNCHANGED vars
  BY <1>5 DEF BulkWrite, TaskToggle, TaskDelete, Beat, vars
<1>6. QED
  BY <1>1, <1>2, <1>3, <1>4, <1>5 DEF Next

-----------------------------------------------------------------------------
(* What is impossible in a steady state. *)

\* A resync_all at work finds every instance of every model mirrored.
LEMMA MirroredInPeace ==
    ASSUME PInv, Steady, NEW r \in Resyncer, ~ AtRest(r)
    PROVE  /\ \A e \in Editor : AtRest(e)
           /\ \A i \in Instance : row[i].live => Mirrored(i)
           /\ \A p \in TaskId : pt[p].live => p \in Referenced
<1>1. \A e \in Editor : AtRest(e)
  BY ActorAssumption DEF PInv, Peace, Actor
<1>2. QED
  BY <1>1 DEF Steady, Kept, Wanted, Busy, AtRest

\* It creates no PeriodicTask and links none.
LEMMA NothingToCreate ==
    ASSUME IInv, PInv, Steady, NEW r \in Resyncer, SyncCreate(r) \/ SyncLink(r)
    PROVE  FALSE
<1>1. r \in Actor /\ Busy(r) /\ ~ AtRest(r) /\ Progress(r) /\ mem[r].id \in Instance
  BY DEF SyncCreate, SyncLink, Estimable, Busy, AtRest, PInv, IInv, AtWork, Actor
<1>2. mem[r].row.task = NoTask
  BY <1>1 DEF SyncCreate, SyncLink, Progress, Created
<1>3. mem[r].row = row[mem[r].id] /\ row[mem[r].id].live
  BY <1>1 DEF Progress, InHand
<1>4. Mirrored(mem[r].id)
  BY <1>1, <1>3, MirroredInPeace
<1>5. QED
  BY <1>2, <1>3, <1>4 DEF Mirrored

\* No other PeriodicTask has the title of the row that an editor is saving.
LEMMA TitleFree ==
    ASSUME IInv, Steady, NEW e \in Editor, \A f \in Editor : f = e, Busy(e), pc[e] # "link",
           NEW p, p = mem[e].row.task
    PROVE  ~ NameTaken(p, mem[e].row.title)
<1>1. mem[e].id \in Instance /\ mem[e].row = row[mem[e].id] /\ row[mem[e].id].live
  BY DEF IInv, AtWork, Busy, Steady, Current, Actor
<1>2. SUFFICES ASSUME NEW q \in TaskId \ {p}, pt[q].live, pt[q].name = mem[e].row.title
               PROVE  FALSE
  BY DEF NameTaken
<1>3. q \in Referenced
  BY <1>2 DEF Steady, Wanted
<1>4. PICK j \in Instance : row[j].live /\ row[j].task = q
  BY <1>3, ReferencedIs
<1>5. j # mem[e].id
  BY <1>1, <1>2, <1>4
<1>6. Mirrored(j)
  BY <1>4, <1>5 DEF Steady, Kept
<1>7. row[j].title = row[mem[e].id].title
  BY <1>1, <1>2, <1>4, <1>6 DEF Mirrored
<1>8. QED
  BY <1>1, <1>4, <1>5, <1>7 DEF Steady, Titled

\* The handlers of an editor raise no exception.
LEMMA NoException ==
    ASSUME IInv, OneEach, Steady, Orderly, NEW e \in Editor,
           SyncRejects(e) \/ GetScheduleFails(e) \/ SyncCreateFails(e) \/ SyncLinkFails(e) \/ SyncReadFails(e)
             \/ SyncWriteFails(e)
    PROVE  FALSE
<1>1. /\ Busy(e) /\ e \in Actor /\ mem[e].id \in Instance
      /\ mem[e].row = row[mem[e].id] /\ row[mem[e].id].live
  BY DEF IInv, AtWork, Busy, Steady, Current, Actor, SyncRejects, GetScheduleFails,
         SyncCreateFails, SyncLinkFails, SyncReadFails, SyncWriteFails, Estimable
<1>2. \A f \in Editor : f = e
  BY DEF Orderly
<1>3. CASE SyncRejects(e)
  BY <1>3 DEF SyncRejects, Orderly
<1>4. CASE SyncCreateFails(e)
  BY <1>1, <1>2, <1>4, TitleFree DEF SyncCreateFails, Estimable
<1>5. CASE SyncLinkFails(e)
  <2>1. pt[mem[e].new].live /\ mem[e].new \in TaskId /\ mem[e].new # NoTask
    BY <1>1, <1>5, Types DEF Steady, Created, Says, SyncLinkFails, IInv, LocalsOK, MemType, Memory
  <2>2. PICK j \in Instance \ {mem[e].id} : row[j].task = mem[e].new
    BY <1>5, <2>1 DEF SyncLinkFails, LinkRefused
  <2>3. Claims(j, mem[e].new) /\ Claims(mem[e].id, mem[e].new)
    BY <1>1, <2>1, <2>2, ClaimedNow
  <2>4. QED
    BY <1>1, <2>1, <2>2, <2>3 DEF IInv, NoneShared
<1>6. CASE SyncReadFails(e)
  BY <1>1, <1>6 DEF SyncReadFails, IInv, NoneGone
<1>7. CASE SyncWriteFails(e)
  BY <1>1, <1>2, <1>7, TitleFree DEF SyncWriteFails
<1>8. CASE GetScheduleFails(e)
  <2>1. mem[e].row.cycle \in Cycle
    BY <1>1, Types DEF Steady, Titled, IInv, TableType, Row
  <2>2. QED
    BY <1>8, <2>1 DEF GetScheduleFails, OneEach
<1>9. QED
  BY <1>3, <1>4, <1>5, <1>6, <1>7, <1>8

-----------------------------------------------------------------------------
(* The steps of resync_all, and of Beat. *)

\* Rows, compared columns and editors that stay as they are.
LEMMA SteadyStays ==
    ASSUME IInv, Steady, row' = row,
           \A p \in TaskId : /\ pt'[p].live = pt[p].live /\ pt'[p].name = pt[p].name
                             /\ pt'[p].task = pt[p].task /\ pt'[p].enabled = pt[p].enabled
                             /\ pt'[p].cycle = pt[p].cycle,
           \A e \in Editor : pc'[e] = pc[e] /\ mem'[e] = mem[e],
           \A a \in Actor : pc'[a] = "write" =>
             (pc[a] = "write" /\ mem'[a] = mem[a]) \/ Fetched(a)'
    PROVE  Steady'
<1>1. \A p : p \in Referenced' <=> p \in Referenced
  BY ReferencedIs, ReferencedNext
<1>2. \A i \in Instance : Mirrored(i) => Mirrored(i)'
  BY OwnTask, UnseenMirrors
<1>3. Titled' /\ Wanted'
  BY <1>1 DEF Steady, Titled, Wanted
<1>4. Kept'
  BY <1>2 DEF Steady, Kept, Busy
<1>5. ASSUME NEW a \in Actor PROVE mem[a].row.task \in TaskId \cup {NoTask} /\ mem[a].new \in TaskId \cup {NoTask}
  BY Types DEF IInv, MemType, Memory, Row
<1>6. ASSUME NEW e \in Editor PROVE Current(e)' /\ Fresh(e)' /\ Created(e)'
  <2>1. Current(e)'
    BY DEF Steady, Current, Busy
  <2>2. Fresh(e)'
    BY <1>5 DEF Steady, Fresh, Actor
  <2>3. Created(e)'
    <3> SUFFICES ASSUME pc[e] = "link"
                 PROVE  mem[e].row.task = NoTask /\ Says(mem[e].new, mem[e].id, mem[e].row)'
      BY DEF Created
    <3>1. mem[e].new \in TaskId
      BY <1>5, Types DEF IInv, LocalsOK, Actor
    <3>2. mem[e].row.task = NoTask /\ Says(mem[e].new, mem[e].id, mem[e].row)
      BY DEF Steady, Created
    <3>3. QED
      BY <3>1, <3>2 DEF Says
  <2>4. QED
    BY <2>1, <2>2, <2>3
<1>7. ASSUME NEW a \in Actor PROVE Fetched(a)'
  <2>1. CASE pc[a] = "write" /\ mem'[a] = mem[a]
    <3>1. mem[a].row.task \in TaskId
      BY <1>5, <2>1, Types DEF IInv, LocalsOK
    <3>2. QED
      BY <2>1, <3>1 DEF Steady, Fetched
  <2>2. QED
    BY <2>1 DEF Fetched
<1>8. QED
  BY <1>3, <1>4, <1>6, <1>7 DEF Steady

\* No orphan is found, and nothing is deleted.
LEMMA NoOrphans ==
    ASSUME IInv, PInv, Steady, NEW r \in Resyncer, ResyncOrphans(r)
    PROVE  row' = row /\ pt' = pt
<1>1. pc[r] = "orphans" /\ ~ AtRest(r) /\ Progress(r) /\ DeleteTasks(Orphans(r), row)
  BY DEF ResyncOrphans, Goto, AtRest, PInv
<1>2. inUse[r] = Referenced
  BY <1>1 DEF Progress, Scanned
<1>3. Orphans(r) = {}
  BY <1>1, <1>2, MirroredInPeace DEF Orphans
<1>4. row \in [Instance -> Row] /\ pt \in [TaskId -> Task]
  BY Types DEF IInv, TableType
<1>5. row' = [i \in Instance |-> row[i]] /\ pt' = [p \in TaskId |-> pt[p]]
  BY <1>1, <1>3 DEF DeleteTasks
<1>6. QED
  BY <1>4, <1>5

\* The loop clears no reference.
LEMMA NoneDangling ==
    ASSUME IInv, PInv, NEW r \in Resyncer, ResyncNext(r)
    PROVE  row' = row /\ pt' = pt /\ pc'[r] = "sync"
<1>1. PICK x \in todo[r] :
        row' = IF (x.row.task # NoTask /\ ~ pt[x.row.task].live) /\ row[x.id].live
               THEN [row EXCEPT ![x.id].task = NoTask] ELSE row
  BY DEF ResyncNext
<1>2. /\ pc[r] = "loop" /\ pt' = pt /\ pc'[r] = "sync"
      /\ todo[r] \subseteq [id : Instance, row : Row]
  BY Types DEF ResyncNext, Goto, IInv, PcType, ResyncType, TodoType, Actor
<1>3. x.id \in Instance /\ x.row = row[x.id]
  BY <1>2 DEF PInv, Progress, Loaded, Looping
<1>4. QED
  BY <1>1, <1>2, <1>3 DEF IInv, NoneGone

\* A resync_all that writes back a row writes what the PeriodicTask says already.
LEMMA RewritesSteadily ==
    ASSUME IInv, PInv, Steady, NEW r \in Resyncer, SyncWrite(r)
    PROVE  \A p \in TaskId : /\ pt'[p].live = pt[p].live /\ pt'[p].name = pt[p].name
                             /\ pt'[p].task = pt[p].task /\ pt'[p].enabled = pt[p].enabled
                             /\ pt'[p].cycle = pt[p].cycle
<1>1. r \in Actor /\ Busy(r) /\ ~ AtRest(r) /\ Progress(r)
  BY DEF SyncWrite, Busy, AtRest, PInv, Actor
<1> PICK i, p, t : i = mem[r].id /\ p = mem[r].row.task /\ t = Synced(mem[r])
  OBVIOUS
<1>2. /\ i \in Instance /\ p \in TaskId
      /\ \A q \in TaskId : pt'[q] = IF q = p THEN t ELSE pt[q]
      /\ t.live /\ t.name = mem[r].row.title /\ t.task = TaskOf[ModelOf[i]]
      /\ t.enabled = mem[r].row.active /\ t.cycle = mem[r].row.cycle
  BY <1>1, Written
<1>3. mem[r].row = row[i] /\ row[i].live /\ row[i].task = p
  BY <1>1, <1>2 DEF Progress, InHand
<1>4. /\ pt[p].live /\ pt[p].name = row[i].title /\ pt[p].task = TaskOf[ModelOf[i]]
      /\ pt[p].enabled = row[i].active /\ pt[p].cycle = row[i].cycle
  BY <1>1, <1>2, <1>3, MirroredInPeace DEF Mirrored
<1>5. pt[p] \in Task
  BY <1>2, Types DEF IInv, TableType
<1>6. /\ t.live = pt[p].live /\ t.name = pt[p].name /\ t.task = pt[p].task
      /\ t.enabled = pt[p].enabled /\ t.cycle = pt[p].cycle
  <2>1. t.live = pt[p].live
    BY <1>2, <1>4, Written, <1>1, <1>5 DEF Task, Synced
  <2>2. QED
    BY <1>2, <1>3, <1>4, <2>1
<1>7. QED
  BY <1>2, <1>6

LEMMA ResyncerSteady ==
    ASSUME IInv, PInv, Steady, NEW r \in Resyncer, Sync(r) \/ Resync(r)
    PROVE  Steady'
<1>1. r \in Actor /\ r \notin Editor
  BY ActorAssumption DEF Actor
<1>2. \A a \in Actor \ {r} : pc'[a] = pc[a] /\ mem'[a] = mem[a]
  <2>1. CASE Resync(r)
    BY <1>1, <2>1, Types DEF Resync, ResyncScan, ResyncOrphans, ResyncQuery, ResyncNext,
       ResyncDone, Goto, IInv, PcType, MemType
  <2>2. CASE SyncCreate(r) \/ SyncLink(r)
    BY <2>2, NothingToCreate
  <2>3. CASE SyncRead(r)
    BY <1>1, <2>3, Types DEF SyncRead, IInv, PcType, MemType
  <2>4. CASE SyncWrite(r)
    BY <1>1, <2>4, Returned DEF SyncWrite
  <2>5. CASE Raise(r)
    BY <1>1, <2>5, Raised
  <2>6. CASE GetSchedule(r) \/ InsertSchedule(r)
    BY <1>1, <2>6, Types DEF GetSchedule, InsertSchedule, IInv, PcType
  <2>7. QED
    BY <2>1, <2>2, <2>3, <2>4, <2>5, <2>6 DEF Sync, SyncRejects, GetScheduleFails,
       SyncCreateFails, SyncLinkFails, SyncReadFails, SyncWriteFails
<1>3. row' = row
  <2>1. CASE SyncCreate(r) \/ SyncLink(r)
    BY <2>1, NothingToCreate
  <2>2. CASE ResyncOrphans(r) \/ ResyncNext(r)
    BY <2>2, NoOrphans, NoneDangling
  <2>3. QED
    BY <2>1, <2>2 DEF Sync, SyncRejects, GetSchedule, GetScheduleFails, InsertSchedule,
       SyncCreateFails, SyncLinkFails, SyncRead, SyncReadFails,
       SyncWrite, SyncWriteFails, Resync, ResyncScan, ResyncQuery, ResyncDone
<1>4. SyncWrite(r) \/ pt' = pt
  <2>1. CASE SyncCreate(r) \/ SyncLink(r)
    BY <2>1, NothingToCreate
  <2>2. CASE ResyncOrphans(r) \/ ResyncNext(r)
    BY <2>2, NoOrphans, NoneDangling
  <2>3. QED
    BY <2>1, <2>2 DEF Sync, SyncRejects, GetSchedule, GetScheduleFails, InsertSchedule,
       SyncCreateFails, SyncLinkFails, SyncRead, SyncReadFails,
       SyncWriteFails, Resync, ResyncScan, ResyncQuery, ResyncDone
<1>5. \A p \in TaskId : /\ pt'[p].live = pt[p].live /\ pt'[p].name = pt[p].name
                        /\ pt'[p].task = pt[p].task /\ pt'[p].enabled = pt[p].enabled
                        /\ pt'[p].cycle = pt[p].cycle
  BY <1>4, RewritesSteadily
<1>6. pc'[r] = "write" => Fetched(r)'
  <2>1. CASE SyncRead(r)
    <3>1. mem[r] \in Memory /\ pc'[r] = "write" /\ pt' = pt
      BY <1>1, <2>1, Types DEF SyncRead, IInv, MemType, PcType
    <3>2. mem'[r].pt = pt[mem[r].row.task] /\ mem'[r].row = mem[r].row
      BY <1>1, <2>1, <3>1, Types DEF SyncRead, IInv, MemType, Memory
    <3>3. QED
      BY <3>1, <3>2 DEF Fetched
  <2>2. CASE SyncCreate(r) \/ SyncLink(r)
    BY <2>2, NothingToCreate
  <2>3. CASE SyncWrite(r)
    BY <1>1, <2>3, Returned DEF SyncWrite
  <2>4. CASE Raise(r)
    BY <1>1, <2>4, Raised DEF AtRest
  <2>5. CASE Resync(r)
    BY <1>1, <2>5, Types DEF Resync, ResyncScan, ResyncOrphans, ResyncQuery, ResyncNext,
       ResyncDone, Goto, IInv, PcType
  <2>6. CASE GetSchedule(r) \/ InsertSchedule(r)
    BY <1>1, <2>6, Types DEF GetSchedule, InsertSchedule, IInv, PcType
  <2>7. QED
    BY <2>1, <2>2, <2>3, <2>4, <2>5, <2>6 DEF Sync, SyncRejects, GetScheduleFails,
       SyncCreateFails, SyncLinkFails, SyncReadFails, SyncWriteFails
<1>7. QED
  BY <1>1, <1>2, <1>3, <1>5, <1>6, SteadyStays DEF Actor

-----------------------------------------------------------------------------
(* The steps of the editor. *)

\* What has to be shown when the only editor moves and everybody else rests.
LEMMA EditorMoves ==
    ASSUME NEW e \in Editor, \A f \in Editor : f = e,
           \A a \in Actor \ {e} : AtRest(a) /\ pc'[a] = pc[a],
           Titled',
           \A i \in Instance : row'[i].live => Mirrored(i)' \/ (Busy(e)' /\ mem'[e].id = i),
           \A p \in TaskId : pt'[p].live =>
             p \in Referenced' \/ (pc'[e] = "link" /\ mem'[e].new = p),
           Current(e)', Fresh(e)', Created(e)', Fetched(e)'
    PROVE  Steady'
<1>1. Kept' /\ Wanted'
  BY DEF Kept, Wanted
<1>2. \A a \in Actor : Fetched(a)'
  BY DEF Fetched, AtRest
<1>3. QED
  BY <1>1, <1>2 DEF Steady

\* What is known before it moves.
LEMMA EditorBefore ==
    ASSUME PInv, Orderly, Steady, NEW e \in Editor, Edit(e) \/ Sync(e)
    PROVE  /\ e \in Actor /\ \A f \in Editor : f = e
           /\ \A a \in Actor \ {e} : AtRest(a)
           /\ \A i \in Instance : row[i].live => Mirrored(i) \/ (Busy(e) /\ mem[e].id = i)
           /\ \A p \in TaskId : pt[p].live =>
                p \in Referenced \/ (pc[e] = "link" /\ mem[e].new = p)
<1>1. e \in Actor /\ \A f \in Editor : f = e
  BY DEF Orderly, Actor
<1>2. \A r \in Resyncer : AtRest(r)
  BY WritersWait DEF Orderly
<1>3. QED
  BY <1>1, <1>2 DEF Actor, Steady, Kept, Wanted

LEMMA CreateSteady ==
    ASSUME IInv, PInv, Orderly, Steady, NEW e \in Editor, Create(e)
    PROVE  Steady'
<1>1. /\ e \in Actor /\ \A f \in Editor : f = e
      /\ \A a \in Actor \ {e} : AtRest(a)
      /\ \A i \in Instance : row[i].live => Mirrored(i) \/ (Busy(e) /\ mem[e].id = i)
      /\ \A p \in TaskId : pt[p].live =>
           p \in Referenced \/ (pc[e] = "link" /\ mem[e].new = p)
  BY EditorBefore DEF Edit
<1>2. PICK i \in Instance, t \in Title, c \in Cycle, on \in BOOLEAN :
        LET r == [live |-> TRUE, title |-> t, active |-> on, cycle |-> c, task |-> NoTask]
        IN  /\ ~ row[i].live /\ ~ TitleTaken(i, t)
            /\ row' = [row EXCEPT ![i] = r]
            /\ mem' = [mem EXCEPT ![e] = [Empty EXCEPT !.id = i, !.row = r]]
  BY Zenon DEF Create
<1> DEFINE r == [live |-> TRUE, title |-> t, active |-> on, cycle |-> c, task |-> NoTask]
<1>3. /\ r.live /\ r.title = t /\ r.cycle = c /\ r.cycle # None /\ r.task = NoTask
  BY ModelAssumption
<1>4. /\ ~ row[i].live /\ ~ TitleTaken(i, t) /\ row' = [row EXCEPT ![i] = r]
      /\ mem' = [mem EXCEPT ![e] = [Empty EXCEPT !.id = i, !.row = r]]
  BY <1>2
<1> HIDE DEF r
<1>5. \A j \in Instance : row'[j] = IF j = i THEN r ELSE row[j]
  BY <1>4, Types DEF IInv, TableType
<1>6. mem'[e].id = i /\ mem'[e].row = r
  BY <1>1, <1>4, Types DEF IInv, MemType, Empty
<1>7. /\ pc[e] = "idle" /\ pc'[e] = "sync" /\ pt' = pt
      /\ \A a \in Actor \ {e} : pc'[a] = pc[a]
  BY <1>1, Types DEF Create, IInv, PcType
<1>8. Titled'
  BY <1>3, <1>4, <1>5 DEF Steady, Titled, TitleTaken, Orderly
<1>9. ASSUME NEW j \in Instance, row'[j].live, j # i PROVE Mirrored(j)'
  BY <1>1, <1>5, <1>7, <1>9, UnseenMirrors DEF Busy
<1>10. ASSUME NEW p \in TaskId, pt'[p].live PROVE p \in Referenced'
  <2>1. PICK j \in Instance : p # NoTask /\ row[j].live /\ row[j].task = p
    BY <1>1, <1>7, <1>10, ReferencedIs
  <2>2. row'[j] = row[j]
    BY <1>4, <1>5, <2>1
  <2>3. QED
    BY <2>1, <2>2, ReferencedNext
<1>11. Current(e)' /\ Fresh(e)' /\ Created(e)' /\ Fetched(e)' /\ Busy(e)'
  BY <1>3, <1>5, <1>6, <1>7 DEF Current, Fresh, Created, Fetched, Busy
<1>12. QED
  BY <1>1, <1>6, <1>7, <1>8, <1>9, <1>10, <1>11, EditorMoves

\* Steps of the editor that leave rows and PeriodicTasks alone.
LEMMA OnlyLooksSteady ==
    ASSUME IInv, PInv, Orderly, Steady, NEW e \in Editor, Edit(e) \/ Sync(e),
           row' = row, pt' = pt, pc[e] # "link",
           \A a \in Actor \ {e} : pc'[a] = pc[a],
           Busy(e) => Busy(e)' /\ mem'[e].id = mem[e].id,
           Current(e)', Fresh(e)', Created(e)', Fetched(e)'
    PROVE  Steady'
<1>1. /\ e \in Actor /\ \A f \in Editor : f = e
      /\ \A a \in Actor \ {e} : AtRest(a)
      /\ \A i \in Instance : row[i].live => Mirrored(i) \/ (Busy(e) /\ mem[e].id = i)
      /\ \A p \in TaskId : pt[p].live =>
           p \in Referenced \/ (pc[e] = "link" /\ mem[e].new = p)
  BY EditorBefore
<1>2. \A p : p \in Referenced' <=> p \in Referenced
  BY ReferencedIs, ReferencedNext
<1>3. \A i \in Instance : Mirrored(i) => Mirrored(i)'
  BY UnseenMirrors
<1>4. Titled'
  BY DEF Steady, Titled
<1>5. QED
  BY <1>1, <1>2, <1>3, <1>4, EditorMoves

LEMMA LoadSteady ==
    ASSUME IInv, PInv, Orderly, Steady, NEW e \in Editor, Load(e) \/ SaveFails(e)
    PROVE  Steady'
<1>1. e \in Actor /\ row' = row /\ pt' = pt /\ ~ Busy(e) /\ pc[e] # "link"
  BY DEF Load, SaveFails, Busy, Actor
<1>2. CASE Load(e)
  <2>1. PICK i \in Instance : row[i].live /\ mem' = [mem EXCEPT ![e] = [Empty EXCEPT !.id = i, !.row = row[i]]]
    BY <1>2 DEF Load
  <2>2. mem'[e].id = i /\ mem'[e].row = row[i]
    BY <1>1, <2>1, Types DEF IInv, MemType, Empty
  <2>3. pc'[e] = "loaded" /\ \A a \in Actor \ {e} : pc'[a] = pc[a]
    BY <1>1, <1>2, Types DEF Load, IInv, PcType
  <2>4. Current(e)' /\ Fresh(e)' /\ Created(e)' /\ Fetched(e)'
    BY <1>1, <2>1, <2>2, <2>3 DEF Current, Fresh, Created, Fetched, Busy
  <2>5. QED
    BY <1>1, <1>2, <2>3, <2>4, OnlyLooksSteady DEF Edit
<1>3. CASE SaveFails(e)
  <2>1. pc'[e] = "idle" /\ \A a \in Actor \ {e} : pc'[a] = pc[a]
    BY <1>1, <1>3, Raised DEF SaveFails
  <2>2. Current(e)' /\ Fresh(e)' /\ Created(e)' /\ Fetched(e)'
    BY <2>1 DEF Current, Fresh, Created, Fetched, Busy
  <2>3. QED
    BY <1>1, <1>3, <2>1, <2>2, OnlyLooksSteady DEF Edit
<1>4. QED
  BY <1>2, <1>3

LEMMA ReadSteady ==
    ASSUME IInv, PInv, Orderly, Steady, NEW e \in Editor, SyncRead(e)
    PROVE  Steady'
<1>1. e \in Actor /\ pc[e] = "scheduled" /\ row' = row /\ pt' = pt
  BY DEF SyncRead, Estimable, Actor
<1>2. /\ pc'[e] = "write" /\ \A a \in Actor \ {e} : pc'[a] = pc[a]
      /\ mem'[e].id = mem[e].id /\ mem'[e].row = mem[e].row /\ mem'[e].old = mem[e].old
      /\ mem'[e].pt = pt[mem[e].row.task]
  BY <1>1, Types DEF SyncRead, IInv, PcType, MemType, Memory
<1>3. Current(e) /\ Fresh(e)
  BY DEF Steady
<1>4. Current(e)' /\ Fresh(e)' /\ Created(e)' /\ Fetched(e)' /\ Busy(e)'
  BY <1>1, <1>2, <1>3 DEF Current, Fresh, Created, Fetched, Busy
<1>5. QED
  BY <1>1, <1>2, <1>4, OnlyLooksSteady DEF Sync

\* The object remembers the cycle that the PeriodicTask still has.
LEMMA SaveSteady ==
    ASSUME IInv, PInv, Orderly, Steady, NEW e \in Editor, Save(e)
    PROVE  Steady'
<1>1. /\ e \in Actor /\ \A f \in Editor : f = e
      /\ \A a \in Actor \ {e} : AtRest(a)
      /\ \A j \in Instance : row[j].live => Mirrored(j) \/ (Busy(e) /\ mem[e].id = j)
      /\ \A p \in TaskId : pt[p].live =>
           p \in Referenced \/ (pc[e] = "link" /\ mem[e].new = p)
  BY EditorBefore DEF Edit
<1> PICK i : i = mem[e].id
  OBVIOUS
<1>2. /\ pc[e] = "loaded" /\ i \in Instance /\ mem[e].row = row[i] /\ row[i].live
      /\ mem[e] \in Memory /\ row[i] \in Row
  BY <1>1, Types DEF Save, IInv, AtWork, MemType, TableType, Steady, Current
<1>3. PICK t \in Title, c \in Cycle, on \in BOOLEAN :
        LET r == [mem[e].row EXCEPT !.title = t, !.cycle = c, !.active = on]
        IN  /\ ~ TitleTaken(mem[e].id, t) /\ ~ LinkRefused(mem[e].id, r.task)
            /\ row' = [row EXCEPT ![mem[e].id] = r]
            /\ mem' = [mem EXCEPT ![e] = [@ EXCEPT !.row = r, !.old = row[mem[e].id].cycle]]
  BY Zenon DEF Save
<1> DEFINE r == [mem[e].row EXCEPT !.title = t, !.cycle = c, !.active = on]
           m == [mem[e] EXCEPT !.row = r, !.old = row[i].cycle]
<1>4. /\ r.live /\ r.title = t /\ r.cycle = c /\ r.cycle # None /\ r.task = row[i].task
  BY <1>2, ModelAssumption DEF Row
<1>5. m.id = i /\ m.row = r /\ m.old = row[i].cycle
  <2> HIDE DEF r
  <2> QED BY <1>2 DEF Memory
<1>6. ~ TitleTaken(i, t) /\ row' = [row EXCEPT ![i] = r] /\ mem' = [mem EXCEPT ![e] = m]
  BY <1>1, <1>3, Types DEF IInv, MemType
<1> HIDE DEF r, m
<1>7. \A j \in Instance : row'[j] = IF j = i THEN r ELSE row[j]
  BY <1>6, Types DEF IInv, TableType
<1>8. mem'[e].id = i /\ mem'[e].row = r /\ mem'[e].old = row[i].cycle
  BY <1>1, <1>5, <1>6, Types DEF IInv, MemType
<1>9. pc'[e] = "sync" /\ pt' = pt /\ \A a \in Actor \ {e} : pc'[a] = pc[a]
  BY <1>1, Types DEF Save, IInv, PcType
<1>10. Titled'
  BY <1>2, <1>4, <1>6, <1>7 DEF Steady, Titled, TitleTaken, Orderly
<1>11. ASSUME NEW j \in Instance, row'[j].live, j # i PROVE Mirrored(j)'
  BY <1>1, <1>2, <1>7, <1>9, <1>11, UnseenMirrors DEF Busy
<1>12. ASSUME NEW p \in TaskId, pt'[p].live PROVE p \in Referenced'
  <2>1. PICK j \in Instance : p # NoTask /\ row[j].live /\ row[j].task = p
    BY <1>1, <1>2, <1>9, <1>12, ReferencedIs
  <2>2. row'[j].live /\ row'[j].task = p
    BY <1>4, <1>7, <2>1
  <2>3. QED
    BY <2>1, <2>2, ReferencedNext
<1>13. Fresh(e)'
  <2> SUFFICES ASSUME row[i].task # NoTask
               PROVE  row[i].cycle # None /\ pt[row[i].task].cycle = row[i].cycle
    BY <1>4, <1>8, <1>9 DEF Fresh
  <2>1. Mirrored(i)
    BY <1>1, <1>2 DEF Busy
  <2>2. QED
    BY <1>2, <2>1 DEF Mirrored, Steady, Titled
<1>14. Current(e)' /\ Created(e)' /\ Fetched(e)' /\ Busy(e)'
  BY <1>2, <1>4, <1>7, <1>8, <1>9 DEF Current, Created, Fetched, Busy
<1>15. QED
  BY <1>1, <1>8, <1>9, <1>10, <1>11, <1>12, <1>13, <1>14, EditorMoves

\* The PeriodicTask of the deleted row goes with it, and no other row loses its own.
LEMMA DestroySteady ==
    ASSUME IInv, PInv, Orderly, Steady, NEW e \in Editor, Destroy(e)
    PROVE  Steady'
<1>1. /\ e \in Actor /\ \A f \in Editor : f = e
      /\ \A a \in Actor \ {e} : AtRest(a)
      /\ \A j \in Instance : row[j].live => Mirrored(j) \/ (Busy(e) /\ mem[e].id = j)
      /\ \A p \in TaskId : pt[p].live =>
           p \in Referenced \/ (pc[e] = "link" /\ mem[e].new = p)
  BY EditorBefore DEF Edit
<1> PICK i, S : i = mem[e].id /\ S = {mem[e].row.task} \cap TaskId
  OBVIOUS
<1>2. /\ pc[e] = "loaded" /\ i \in Instance /\ mem[e].row = row[i] /\ row[i].live
      /\ row \in [Instance -> Row] /\ NoTask \notin S
      /\ DeleteTasks(S, [row EXCEPT ![i] = NoRow])
  BY <1>1, Types, BoundsAssumption DEF Destroy, IInv, AtWork, TableType, Steady, Current, TaskId, NoTask
<1>3. /\ pc'[e] = "idle" /\ \A a \in Actor \ {e} : pc'[a] = pc[a]
  BY <1>1, Returned DEF Destroy
<1>4. \A p \in TaskId : pt'[p] = IF p \in S THEN NoPT ELSE pt[p]
  BY <1>2 DEF DeleteTasks
<1>5. row'[i] = NoRow
  BY <1>2 DEF DeleteTasks, NoRow
<1>6. ASSUME NEW j \in Instance, j # i PROVE row'[j] = row[j] /\ row[j].task \notin S
  <2>1. row[j].task \notin S
    BY <1>2, <1>6, OwnTask
  <2>2. QED
    BY <1>2, <1>6, <2>1 DEF DeleteTasks
<1>7. Titled'
  BY <1>5, <1>6 DEF Steady, Titled, NoRow
<1>8. ASSUME NEW j \in Instance, row'[j].live PROVE Mirrored(j)'
  <2>1. j # i /\ row'[j] = row[j] /\ row[j].task \notin S
    BY <1>5, <1>6, <1>8 DEF NoRow
  <2>2. Mirrored(j)
    BY <1>1, <1>2, <1>8, <2>1 DEF Busy
  <2>3. row[j].task \in TaskId /\ pt'[row[j].task] = pt[row[j].task]
    BY <1>4, <2>1, <2>2, OwnTask DEF Mirrored
  <2>4. QED
    BY <2>1, <2>2, <2>3, UnseenMirrors
<1>9. ASSUME NEW p \in TaskId, pt'[p].live PROVE p \in Referenced'
  <2>1. p \notin S /\ pt[p].live
    BY <1>4, <1>9 DEF NoPT
  <2>2. PICK j \in Instance : p # NoTask /\ row[j].live /\ row[j].task = p
    BY <1>1, <1>2, <2>1, ReferencedIs
  <2>3. j # i
    BY <1>2, <2>1, <2>2
  <2>4. QED
    BY <1>6, <2>2, <2>3, ReferencedNext
<1>10. Current(e)' /\ Fresh(e)' /\ Created(e)' /\ Fetched(e)'
  BY <1>3 DEF Current, Fresh, Created, Fetched, Busy
<1>11. QED
  BY <1>1, <1>3, <1>7, <1>8, <1>9, <1>10, EditorMoves

LEMMA SyncCreateSteady ==
    ASSUME IInv, PInv, Orderly, Steady, NEW e \in Editor, SyncCreate(e)
    PROVE  Steady'
<1>1. /\ e \in Actor /\ \A f \in Editor : f = e
      /\ \A a \in Actor \ {e} : AtRest(a)
      /\ \A j \in Instance : row[j].live => Mirrored(j) \/ (Busy(e) /\ mem[e].id = j)
      /\ \A p \in TaskId : pt[p].live =>
           p \in Referenced \/ (pc[e] = "link" /\ mem[e].new = p)
  BY EditorBefore DEF Sync
<1> PICK i, p : i = mem[e].id /\ p = lastPt + 1
  OBVIOUS
<1>2. /\ pc[e] = "scheduled" /\ pc'[e] = "link" /\ mem'[e].new = p /\ mem'[e].id = i
      /\ mem'[e].row = mem[e].row /\ mem[e].row.task = NoTask /\ row' = row
      /\ p \in TaskId /\ \A a \in Actor \ {e} : pc'[a] = pc[a]
      /\ \A q \in TaskId : q # p => pt'[q] = pt[q]
      /\ \A j \in Instance : row[j].task # p
  BY <1>1, NewTask
<1>3. /\ pt'[p].live /\ pt'[p].name = mem[e].row.title /\ pt'[p].task = TaskOf[ModelOf[i]]
      /\ pt'[p].enabled = mem[e].row.active /\ pt'[p].cycle = mem[e].row.cycle
  BY <1>1, NewTask
<1>4. Titled'
  BY <1>2 DEF Steady, Titled
<1>5. ASSUME NEW j \in Instance, row'[j].live, j # i PROVE Mirrored(j)'
  <2>1. Mirrored(j)
    BY <1>1, <1>2, <1>5
  <2>2. row[j].task \in TaskId /\ row[j].task # p
    BY <1>2, <2>1, OwnTask DEF Mirrored
  <2>3. QED
    BY <1>2, <2>1, <2>2, UnseenMirrors
<1>6. ASSUME NEW q \in TaskId, pt'[q].live PROVE q \in Referenced' \/ q = p
  <2>1. q \in Referenced => q \in Referenced'
    BY <1>2, ReferencedIs, ReferencedNext
  <2>2. QED
    BY <1>1, <1>2, <1>6, <2>1
<1>7. Created(e)'
  BY <1>2, <1>3 DEF Created, Says
<1>8. Current(e)' /\ Fresh(e)' /\ Fetched(e)' /\ Busy(e)'
  BY <1>2 DEF Steady, Current, Fresh, Fetched, Busy
<1>9. QED
  BY <1>1, <1>2, <1>4, <1>5, <1>6, <1>7, <1>8, EditorMoves

LEMMA SyncLinkSteady ==
    ASSUME IInv, PInv, Orderly, Steady, NEW e \in Editor, SyncLink(e)
    PROVE  Steady'
<1>1. /\ e \in Actor /\ \A f \in Editor : f = e
      /\ \A a \in Actor \ {e} : AtRest(a)
      /\ \A j \in Instance : row[j].live => Mirrored(j) \/ (Busy(e) /\ mem[e].id = j)
      /\ \A p \in TaskId : pt[p].live =>
           p \in Referenced \/ (pc[e] = "link" /\ mem[e].new = p)
  BY EditorBefore DEF Sync
<1>0. /\ pc[e] = "link" /\ mem[e].id \in Instance /\ mem[e].new \in TaskId
      /\ mem[e].new # NoTask /\ row \in [Instance -> Row]
  BY <1>1, Types DEF SyncLink, IInv, AtWork, LocalsOK, MemType, Memory, TableType
<1> PICK i, p : i = mem[e].id /\ p = mem[e].new
  OBVIOUS
<1>2. /\ pc[e] = "link" /\ i \in Instance /\ p \in TaskId /\ p # NoTask
      /\ row \in [Instance -> Row]
  BY <1>0
<1>3. /\ mem[e].row = row[i] /\ row[i].live /\ row[i].task = NoTask
      /\ pt[p].live /\ pt[p].name = row[i].title /\ pt[p].task = TaskOf[ModelOf[i]]
      /\ pt[p].enabled = row[i].active /\ pt[p].cycle = row[i].cycle
  BY <1>2 DEF Steady, Current, Created, Says, Busy
<1>4. pc'[e] = "idle" /\ pt' = pt /\ \A a \in Actor \ {e} : pc'[a] = pc[a]
  BY <1>1, Returned DEF SyncLink
<1>5. \A j \in Instance : row'[j] = IF j = i THEN [row[i] EXCEPT !.task = p] ELSE row[j]
  BY <1>2, <1>3 DEF SyncLink
<1>6. /\ row'[i].task = p /\ row'[i].live /\ row'[i].title = row[i].title
      /\ row'[i].active = row[i].active /\ row'[i].cycle = row[i].cycle
  <2>1. row'[i] = [row[i] EXCEPT !.task = p] /\ row[i] \in Row
    BY <1>2, <1>5
  <2>2. QED
    BY <1>3, <2>1 DEF Row
<1>7. Titled'
  BY <1>3, <1>5, <1>6 DEF Steady, Titled
<1>8. Mirrored(i)'
  <2>1. row'[i].active = pt'[row'[i].task].enabled
    BY <1>3, <1>4, <1>6
  <2>2. QED
    BY <1>2, <1>3, <1>4, <1>6, <2>1 DEF Mirrored
<1>9. ASSUME NEW j \in Instance, row'[j].live PROVE Mirrored(j)'
  <2>1. CASE j = i
    BY <1>8, <2>1
  <2>2. CASE j # i
    BY <1>1, <1>4, <1>5, <1>9, <2>2, UnseenMirrors
  <2>3. QED
    BY <2>1, <2>2
<1>10. ASSUME NEW q \in TaskId, pt'[q].live PROVE q \in Referenced'
  <2>1. CASE q = p
    BY <1>2, <1>6, <2>1, ReferencedNext
  <2>2. CASE q # p
    <3>1. PICK j \in Instance : q # NoTask /\ row[j].live /\ row[j].task = q
      BY <1>1, <1>4, <1>10, <2>2, ReferencedIs
    <3>2. row'[j] = row[j]
      BY <1>3, <1>5, <3>1
    <3>3. QED
      BY <3>1, <3>2, ReferencedNext
  <2>3. QED
    BY <2>1, <2>2
<1>11. Current(e)' /\ Fresh(e)' /\ Created(e)' /\ Fetched(e)'
  BY <1>4 DEF Current, Fresh, Created, Fetched, Busy
<1>12. QED
  BY <1>1, <1>4, <1>7, <1>9, <1>10, <1>11, EditorMoves

LEMMA SyncWriteSteady ==
    ASSUME IInv, PInv, Orderly, Steady, NEW e \in Editor, SyncWrite(e)
    PROVE  Steady'
<1>1. /\ e \in Actor /\ \A f \in Editor : f = e
      /\ \A a \in Actor \ {e} : AtRest(a)
      /\ \A j \in Instance : row[j].live => Mirrored(j) \/ (Busy(e) /\ mem[e].id = j)
      /\ \A p \in TaskId : pt[p].live =>
           p \in Referenced \/ (pc[e] = "link" /\ mem[e].new = p)
  BY EditorBefore DEF Sync
<1> PICK i, p, t : i = mem[e].id /\ p = mem[e].row.task /\ t = Synced(mem[e])
  OBVIOUS
<1>2. /\ i \in Instance /\ p \in TaskId /\ p # NoTask /\ pc[e] = "write"
      /\ \A q \in TaskId : pt'[q] = IF q = p THEN t ELSE pt[q]
      /\ t.live /\ t.name = mem[e].row.title /\ t.task = TaskOf[ModelOf[i]]
      /\ t.enabled = mem[e].row.active /\ t.cycle = mem[e].row.cycle
      /\ row' = row /\ Return(e)
  BY <1>1, Written DEF SyncWrite
<1>3. mem[e].row = row[i] /\ row[i].live /\ row[i].task = p
  BY <1>2 DEF Steady, Current, Busy
<1>4. pc'[e] = "idle" /\ \A a \in Actor \ {e} : pc'[a] = pc[a]
  BY <1>1, <1>2, Returned
<1>5. Titled'
  BY <1>2 DEF Steady, Titled
<1>6. Mirrored(i)'
  <2>1. pt'[p] = t /\ row'[i].task = p
    BY <1>2, <1>3
  <2>2. pt'[row'[i].task].enabled = row'[i].active
    BY <1>2, <1>3, <2>1
  <2>3. QED
    BY <1>2, <1>3, <2>1, <2>2 DEF Mirrored
<1>7. ASSUME NEW j \in Instance, row'[j].live PROVE Mirrored(j)'
  <2>1. CASE j = i
    BY <1>6, <2>1
  <2>2. CASE j # i
    <3>1. Mirrored(j)
      BY <1>1, <1>2, <1>7, <2>2
    <3>2. row[j].task \in TaskId /\ row[j].task # p
      BY <1>2, <1>3, <2>2, <3>1, OwnTask DEF Mirrored
    <3>3. QED
      BY <1>2, <3>1, <3>2, UnseenMirrors
  <2>3. QED
    BY <2>1, <2>2
<1>8. ASSUME NEW q \in TaskId, pt'[q].live PROVE q \in Referenced'
  <2>1. CASE q = p
    BY <1>2, <1>3, <2>1, ReferencedNext
  <2>2. CASE q # p
    BY <1>1, <1>2, <1>8, <2>2, ReferencedIs, ReferencedNext
  <2>3. QED
    BY <2>1, <2>2
<1>9. Current(e)' /\ Fresh(e)' /\ Created(e)' /\ Fetched(e)'
  BY <1>4 DEF Current, Fresh, Created, Fetched, Busy
<1>10. QED
  BY <1>1, <1>4, <1>5, <1>7, <1>8, <1>9, EditorMoves

LEMMA ScheduleSteady ==
    ASSUME IInv, PInv, Orderly, Steady, NEW e \in Editor, GetSchedule(e) \/ InsertSchedule(e)
    PROVE  Steady'
<1>1. e \in Actor /\ pc[e] \in {"sync", "insert"} /\ row' = row /\ pt' = pt /\ mem' = mem
  BY DEF GetSchedule, InsertSchedule, Actor
<1>2. pc'[e] \in {"insert", "scheduled"} /\ \A a \in Actor \ {e} : pc'[a] = pc[a]
  BY <1>1, Types DEF GetSchedule, InsertSchedule, IInv, PcType
<1>3. Current(e) /\ Fresh(e)
  BY DEF Steady
<1>4. Current(e)' /\ Fresh(e)' /\ Created(e)' /\ Fetched(e)' /\ Busy(e)'
  BY <1>1, <1>2, <1>3 DEF Current, Fresh, Created, Fetched, Busy
<1>5. QED
  BY <1>1, <1>2, <1>4, OnlyLooksSteady DEF Sync

LEMMA EditorSteady ==
    ASSUME IInv, PInv, OneEach, Orderly, Steady, NEW e \in Editor, Edit(e) \/ Sync(e)
    PROVE  Steady'
BY CreateSteady, LoadSteady, SaveSteady, DestroySteady, ScheduleSteady, SyncCreateSteady, SyncLinkSteady,
   ReadSteady, SyncWriteSteady, NoException DEF Edit, Sync

-----------------------------------------------------------------------------
LEMMA SteadyStarts == Init => SInv
<1> SUFFICES ASSUME Init PROVE Steady
  BY DEF SInv
<1>1. /\ \A i \in Instance : ~ row[i].live
      /\ \A p \in TaskId : ~ pt[p].live
      /\ \A a \in Actor : pc[a] = "idle"
  BY DEF Init, NoRow, NoPT
<1>2. QED
  BY <1>1 DEF Steady, Titled, Kept, Wanted, Current, Fresh, Created, Fetched, Busy, Actor

LEMMA SteadyStep == ASSUME IInv, PInv, OneEach, SInv, Orderly, [Next]_vars PROVE SInv'
<1> SUFFICES ASSUME Undisturbed' PROVE Steady'
  BY DEF SInv
<1>1. drift \in Nat /\ faults \in Nat
  BY Types, BoundsAssumption DEF IInv, BudgetType
<1>2. /\ ~ (BulkWrite \/ TaskToggle \/ TaskDelete)
      /\ \A a \in Actor : ~ SyncDies(a)
  <2>1. drift' = 0 /\ faults' = 0
    BY DEF Undisturbed
  <2>2. ~ Drift
    BY <1>1, <2>1, SMT DEF Drift
  <2>3. ~ BulkWrite /\ ~ TaskToggle /\ ~ TaskDelete
    BY <2>2, Zenon DEF BulkWrite, TaskToggle, TaskDelete
  <2>4. ASSUME NEW a \in Actor, SyncDies(a) PROVE FALSE
    <3>1. faults' = faults + 1
      BY <2>4, Zenon DEF SyncDies
    <3>2. QED
      BY <1>1, <2>1, <3>1, SMT
  <2>5. QED
    BY <2>3, <2>4
<1>3. CASE \E e \in Editor : Edit(e) \/ Sync(e)
  <2>1. Undisturbed
    BY <1>3 DEF Undisturbed, rest, Edit, Create, Load, Save, SaveFails, Destroy, Sync,
       SyncRejects, GetSchedule, GetScheduleFails, InsertSchedule, SyncCreate, SyncCreateFails, SyncLink, SyncLinkFails, SyncRead,
       SyncReadFails, SyncWrite, SyncWriteFails
  <2>2. QED
    BY <1>3, <2>1, EditorSteady DEF SInv
<1>4. CASE \E r \in Resyncer : Sync(r) \/ Resync(r)
  <2>1. Undisturbed
    BY <1>4 DEF Undisturbed, rest, Sync, SyncRejects, GetSchedule, GetScheduleFails, InsertSchedule, SyncCreate, SyncCreateFails, SyncLink,
       SyncLinkFails, SyncRead, SyncReadFails, SyncWrite, SyncWriteFails, Resync, ResyncScan,
       ResyncOrphans, ResyncQuery, ResyncNext, ResyncDone
  <2>2. QED
    BY <1>4, <2>1, ResyncerSteady DEF SInv
<1>5. CASE Beat \/ UNCHANGED vars
  <2>1. Undisturbed
    BY <1>5 DEF Undisturbed, Beat, rest, vars
  <2>2. Unseen
    BY <1>5, BeatUnseen DEF Unseen, vars
  <2>3. QED
    BY <2>1, <2>2, SteadyStays DEF SInv, Unseen
<1>6. QED
  BY <1>2, <1>3, <1>4, <1>5 DEF Next, Actor

LEMMA SteadyInvariance ==
    ASSUME Orderly PROVE Spec => [](IInv /\ PInv /\ OneEach /\ Forgetful /\ SInv)
<1>1. Exclusive
  BY DEF Orderly
<1>2. Init => SInv /\ OneEach /\ Forgetful
  BY SteadyStarts DEF Init, OneEach, Forgetful, Empty, Actor
<1>3. IInv /\ PInv /\ OneEach /\ Forgetful /\ SInv /\ [Next]_vars
        => (OneEach /\ Forgetful /\ SInv)'
  BY SteadyStep, OneEachStep, ForgetfulStep
<1>4. Spec => [](IInv /\ PInv)
  BY <1>1, PeaceInvariance
<1>5. QED
  BY <1>2, <1>3, <1>4, PTL DEF Spec

\* Where requests follow each other no cycle ever gets a second schedule, so that no
\* get_or_create_schedule fails for having found several (cron.py:76-87).
THEOREM OneScheduleOfEach == ASSUME Orderly PROVE Spec => [](\A c \in Cycle : schedules[c] # 2)
<1>1. OneEach => \A c \in Cycle : schedules[c] # 2
  BY DEF OneEach
<1>2. QED
  BY SteadyInvariance, <1>1, PTL

\* Where requests follow each other and nothing bypasses them, the signals alone keep
\* every scheduler linked to a PeriodicTask that mirrors it, and leave none behind; a
\* resync_all in between finds nothing to change (signals.py:44-126, sync.py:44-113).
THEOREM SignalsMaintainTasks == ASSUME Orderly PROVE Spec => []SignalsMaintain
<1>1. ASSUME SInv PROVE SignalsMaintain
  <2> SUFFICES ASSUME Undisturbed, \A e \in Editor : pc[e] \in {"idle", "loaded"}
               PROVE  \A m \in Model : Aligned(m)
    BY DEF SignalsMaintain
  <2>1. \A i \in Instance : row[i].live => Mirrored(i)
    BY <1>1 DEF SInv, Steady, Kept, Busy
  <2>2. \A p \in TaskId : pt[p].live => p \in Referenced
    BY <1>1 DEF SInv, Steady, Wanted
  <2>3. QED
    BY <2>1, <2>2 DEF Aligned
<1>2. SInv => SignalsMaintain
  BY <1>1
<1>3. QED
  BY SteadyInvariance, <1>2, PTL

\* A save that enables a task again, or changes its cycle, restarts it from now, and
\* no other write does: what the handler remembers of the old schedule is what the
\* PeriodicTask says, and a resync_all remembers nothing (sync.py:46-69).
THEOREM EnabledRestartsFromNow == ASSUME Orderly PROVE Spec => RestartsFromNow
<1> DEFINE Fromnow(a) ==
      LET old   == pt[mem[a].row.task]
          new   == pt'[mem[a].row.task]
          cause == new.enabled /\ (~ old.enabled \/ old.cycle # new.cycle)
      IN  /\ cause => new.last = "reset"
          /\ new.last = "reset" => cause \/ mem[a].pt.last = "reset"
<1>1. ASSUME IInv, PInv, Forgetful, SInv, NEW a \in Actor, SyncWrite(a), Undisturbed
      PROVE  Fromnow(a)
  <2> DEFINE p == mem[a].row.task
             t == Synced(mem[a])
  <2>1. /\ p \in TaskId /\ p # NoTask /\ pt'[p] = t /\ mem[a] \in Memory
        /\ t.enabled = mem[a].row.active /\ t.cycle = mem[a].row.cycle
    BY <1>1, Written
  <2>2. Steady /\ pc[a] = "write" /\ mem[a].pt.enabled = pt[p].enabled
    BY <1>1 DEF SInv, SyncWrite, Steady, Fetched
  <2>3. t.last = IF ~ mem[a].row.active THEN "never"
                 ELSE IF Restarts(mem[a]) THEN "reset" ELSE mem[a].pt.last
    BY <2>1 DEF Synced, Memory, Task
  <2>4. Restarts(mem[a]) <=>
          (~ pt[p].enabled /\ mem[a].row.active) \/ pt[p].cycle # mem[a].row.cycle
    <3>1. CASE a \in Editor
      <4>1. mem[a].old # None /\ pt[p].cycle = mem[a].old
        BY <2>1, <2>2, <3>1 DEF Steady, Fresh
      <4>2. QED
        BY <2>2, <4>1, Zenon DEF Restarts
    <3>2. CASE a \in Resyncer
      <4>1. ~ AtRest(a) /\ mem[a].id \in Instance
        BY <1>1, <2>2 DEF AtRest, IInv, AtWork
      <4>2. mem[a].row = row[mem[a].id] /\ row[mem[a].id].live
        BY <1>1, <2>2, <3>2 DEF PInv, Progress, InHand, Busy
      <4>3. pt[p].enabled = mem[a].row.active /\ pt[p].cycle = mem[a].row.cycle
        BY <1>1, <2>2, <3>2, <4>1, <4>2, MirroredInPeace DEF Mirrored
      <4>4. mem[a].old = None
        BY <1>1, <3>2 DEF Forgetful
      <4>5. QED
        BY <2>2, <4>3, <4>4, Zenon DEF Restarts
    <3>3. QED
      BY <3>1, <3>2 DEF Actor
  <2> HIDE DEF t, p
  <2>5. /\ pt'[p].enabled /\ (~ pt[p].enabled \/ pt[p].cycle # pt'[p].cycle) => t.last = "reset"
        /\ t.last = "reset" => \/ pt'[p].enabled /\ (~ pt[p].enabled \/ pt[p].cycle # pt'[p].cycle)
                              \/ mem[a].pt.last = "reset"
    BY <2>1, <2>3, <2>4
  <2>6. QED
    BY <2>1, <2>5 DEF p
<1>2. IInv /\ PInv /\ Forgetful /\ SInv /\ [Next]_vars
        => [\A a \in Actor : SyncWrite(a) /\ Undisturbed => Fromnow(a)]_vars
  BY <1>1
<1>3. QED
  BY SteadyInvariance, <1>2, PTL DEF RestartsFromNow, Spec
=============================================================================
