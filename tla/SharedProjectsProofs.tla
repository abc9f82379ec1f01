------------------------ MODULE SharedProjectsProofs ------------------------
(* Theorems about SharedProjects, for any projects, schedulers and settings, *)
(* any number of records and any calls of trigger_task.                      *)
EXTENDS SharedProjects, NumberLemmas

\* .first() is one of the rows.
LEMMA FirstRowIsOne ==
    ASSUME NEW rows, rows # {}, \A x \in rows : x.id \in Nat
    PROVE  FirstRow(rows) \in rows
<1> DEFINE ids == {x.id : x \in rows}
<1>1. PICK i \in ids : \A j \in ids : i <= j
  BY LeastNumber
<1>2. \E x \in rows : \A y \in rows : x.id <= y.id
  BY <1>1
<1>3. QED
  BY <1>2 DEF FirstRow

\* A scheduler belongs to the project of its model.
LEMMA Homes ==
    /\ Home \in [Scheduler -> Project]
    /\ \A s \in Scheduler : Home[s] = AppOf[ModelOf[s]] /\ TaskOf[s] = TaskName[ModelOf[s]]
BY ModelAssumption, SchedulerAssumption DEF Home, TaskOf

\* A row of the PeriodicTask table, by its name.
LEMMA TableRow ==
    ASSUME TypeOK, NEW x \in Table
    PROVE  /\ x.name \in Scheduler /\ x.id \in Nat
           /\ x.task = TaskOf[x.name] /\ x.args = <<Pk[x.name]>>
           /\ x.queue = QueueOf[Home[x.name]]
BY SchedulerAssumption DEF Table, TypeOK

\* What a call of trigger_task sends is meant for no scheduler in particular, or for
\* the one whose task, arguments and queue it carries.
LEMMA SentIsMeant ==
    ASSUME TypeOK, NEW p \in Project, NEW o,
           NEW m \in Sent(o, BeatSchedule[p], Table, QueueOf[p]), Meant(o) # None
    PROVE  /\ Meant(o) \in Scheduler
           /\ m.task = TaskOf[Meant(o)] /\ m.args = <<Pk[Meant(o)]>>
           /\ m.queue = QueueOf[Home[Meant(o)]]
<1>1. o.args = <<>> /\ o.queue = None /\ Meant(o) = o.name
  BY DEF Meant
<1>2. PICK k \in Schedules(o, BeatSchedule[p], Table) : \E a \in FinalArgs(o, k.args) :
        m = [task |-> k.task, args |-> a, queue |-> FinalQueue(o, k.queue, QueueOf[p])]
  BY DEF Sent
<1>3. PICK a \in FinalArgs(o, k.args) :
         m = [task |-> k.task, args |-> a, queue |-> FinalQueue(o, k.queue, QueueOf[p])]
  BY <1>2
<1>4. PICK x \in Table : k = Known(x) /\ Meant(o) = x.name
  BY <1>1, <1>2 DEF Schedules, ScheduleNamed
<1>5. /\ x.name \in Scheduler /\ x.task = TaskOf[x.name] /\ x.args = <<Pk[x.name]>>
      /\ x.queue = QueueOf[Home[x.name]]
  BY TableRow
<1>6. k.task = x.task /\ k.queue = x.queue /\ k.args = x.args
  BY <1>4, <1>5, SchedulerAssumption DEF Known, Parsed
<1>7. a = k.args
  BY <1>1, <1>3 DEF FinalArgs
<1>8. FinalQueue(o, k.queue, QueueOf[p]) = x.queue
  BY <1>1, <1>5, <1>6, SchedulerAssumption, Homes DEF FinalQueue
<1>9. QED
  BY <1>3, <1>4, <1>5, <1>6, <1>7, <1>8

\* A worker finds the scheduler a message was sent for, or none, unless its project has
\* declared the task for another model.
LEMMA ResolvedIsOne ==
    ASSUME TypeOK, NEW p \in Project, NEW m
    PROVE  /\ Resolved(p, m) \in Scheduler \cup {None}
           /\ \A s \in Scheduler :
                m.task = TaskOf[s] /\ m.args = <<Pk[s]>> /\ p = Home[s] /\ ModelKnown(s) =>
                  Resolved(p, m) \in {s, None}
<1> DEFINE S == {s \in alive : /\ ModelOf[s] = ModelFor(p, m.task)
                               /\ m.args # <<>> /\ Pk[s] = m.args[1]}
<1>1. CASE S = {}
  BY <1>1 DEF Resolved
<1>2. CASE S # {}
  <2>1. Resolved(p, m) \in S
    BY <1>2 DEF Resolved
  <2>2. S \subseteq Scheduler
    BY DEF TypeOK
  <2>3. ASSUME NEW s \in Scheduler, m.task = TaskOf[s], m.args = <<Pk[s]>>, p = Home[s],
               ModelKnown(s)
        PROVE  Resolved(p, m) = s
    <3>1. PICK t \in S : t = Resolved(p, m)
      BY <2>1
    <3>2. t \in Scheduler /\ ModelOf[t] = ModelFor(p, m.task) /\ Pk[t] = Pk[s]
      BY <2>2, <2>3
    <3>3. ModelFor(p, m.task) \in {ModelOf[s], None}
      BY <2>3 DEF ModelKnown
    <3>4. ModelOf[t] = ModelOf[s]
      BY <3>2, <3>3, SchedulerAssumption, ModelAssumption
    <3>5. QED
      BY <3>1, <3>2, <3>4, SchedulerAssumption
  <2>4. QED
    BY <2>1, <2>2, <2>3
<1>3. QED
  BY <1>1, <1>2

-----------------------------------------------------------------------------
LEMMA RowEdits ==
    ASSUME NEW x \in Row
    PROVE  /\ \A st \in {"open", "closed", "deleted"} : [x EXCEPT !.status = st] \in Row
           /\ [x EXCEPT !.synced = TRUE] \in Row
           /\ [x EXCEPT !.link = FALSE] \in Row
           /\ \A src \in Source, s \in Scheduler, l \in BOOLEAN :
                [x EXCEPT !.src = src, !.sched = s, !.link = l] \in Row
           /\ NoRow \in Row
BY DEF Row, NoRow, Source

LEMMA ProjectsStart == Init => IInv
<1> SUFFICES ASSUME Init PROVE IInv
  OBVIOUS
<1>1. TypeOK
  <2>1. PICK x : x \in Row /\ x = NoRow
    BY RowEdits DEF Row, NoRow, Source
  <2>2. row \in [Record -> Row]
    BY <2>1 DEF Init
  <2>3. 0 \in 0 .. MaxTriggers /\ 0 \in 0 .. MaxSwitches
    BY BoundAssumption
  <2>4. QED
    BY <2>2, <2>3 DEF Init, TypeOK
<1>2. New /\ Owned /\ Marked /\ Told /\ Isolation /\ PublishedOnce
  BY DEF Init, New, Owned, Marked, Told, Isolation, PublishedOnce, NoRow
<1>3. QED
  BY <1>1, <1>2 DEF IInv

\* A message is sent: its record is new, and stays so.
LEMMA SendStep ==
    ASSUME IInv, NEW m, NEW s \in Scheduler \cup {None}, Send(m, s),
           s # None => m.queue = QueueOf[Home[s]] /\ m.task = TaskOf[s] /\ m.args = <<Pk[s]>>,
           triggers' \in 0 .. MaxTriggers,
           UNCHANGED <<schedules, row, mains, aged, owner, by, settings>>
    PROVE  IInv'
<1> USE DEF IInv
<1>1. PICK k \in Record : /\ stage[k] = "none"
                          /\ stage' = [stage EXCEPT ![k] = "queued"]
                          /\ msg' = [msg EXCEPT ![k] = m]
                          /\ intended' = [intended EXCEPT ![k] = s]
  BY DEF Send
<1>2. UNCHANGED <<shared, tasks, alive, deleting, doomed, cleared, nulled, row, main, inserts,
                 aged, owner, by, switches>>
  BY DEF schedules, settings, mains
<1>3. TypeOK'
  BY <1>1, <1>2 DEF TypeOK
<1>4. New'
  BY <1>1, <1>2 DEF New, TypeOK
<1>5. Owned' /\ Marked' /\ Isolation' /\ PublishedOnce'
  BY <1>2 DEF Owned, Marked, Isolation, PublishedOnce
<1>6. Told'
  BY <1>1, <1>2 DEF Told, TypeOK
<1>7. QED
  BY <1>3, <1>4, <1>5, <1>6

\* A message is taken by the project it was sent to.
LEMMA TakeStep ==
    ASSUME IInv, NEW p \in Project, NEW k \in Record, Take(p, k)
    PROVE  IInv'
<1> USE DEF IInv
<1>1. PICK s \in {Resolved(p, msg[k]), None} :
        row' = [row EXCEPT ![k] = [status |-> "unsaved", src |-> Identity(p, s), sched |-> s,
                                   link |-> s \in tasks, synced |-> FALSE]]
  BY DEF Take
<1> DEFINE x == [status |-> "unsaved", src |-> Identity(p, s), sched |-> s,
                 link |-> s \in tasks, synced |-> FALSE]
<1>2. /\ stage[k] = "queued"
      /\ stage' = [stage EXCEPT ![k] = "taken"]
      /\ msg' = [msg EXCEPT ![k] = None]
      /\ row' = [row EXCEPT ![k] = x]
      /\ owner' = [owner EXCEPT ![k] = p]
      /\ UNCHANGED <<shared, tasks, alive, deleting, doomed, cleared, nulled, intended, triggers,
                     main, inserts, aged, by, switches>>
  BY <1>1 DEF Take, schedules, settings, mains
<1>3. s \in Scheduler \cup {None}
  BY ResolvedIsOne
<1>4. Identity(p, s) \in {None, SourceOf[p]} /\ Identity(p, s) \in Source
  BY DEF Identity, Source
<1>5. x \in Row
  BY <1>3, <1>4 DEF Row
<1>6. x.status = "unsaved" /\ x.src \in {None, SourceOf[p]} /\ x.synced = FALSE
  BY <1>4
<1> HIDE DEF x
<1>7. /\ row'[k] = x /\ stage'[k] = "taken" /\ owner'[k] = p
      /\ \A j \in Record \ {k} : row'[j] = row[j] /\ stage'[j] = stage[j]
                                 /\ owner'[j] = owner[j] /\ msg'[j] = msg[j]
  BY <1>2 DEF TypeOK
<1>8. TypeOK'
  <2>1. row' \in [Record -> Row]
    BY <1>2, <1>5 DEF TypeOK
  <2>2. /\ stage' \in [Record -> {"none", "queued", "taken", "running", "returned", "done"}]
        /\ owner' \in [Record -> Project \cup {None}]
        /\ DOMAIN msg' = Record
    BY <1>2 DEF TypeOK
  <2>3. QED
    BY <1>2, <2>1, <2>2 DEF TypeOK
<1>9. inserts[k] = 0 /\ by[k] = None
  BY <1>2 DEF New, NoRow
<1>10. New'
  <2>1. ASSUME NEW j \in Record
        PROVE  /\ stage'[j] \in {"none", "queued"} => row'[j] = NoRow /\ by'[j] = None
               /\ row'[j].status \in {"absent", "unsaved"} => inserts'[j] = 0 /\ by'[j] = None
               /\ row'[j].status = "unsaved" <=> stage'[j] = "taken"
    <3>1. CASE j = k
      BY <1>2, <1>6, <1>7, <1>9, <3>1
    <3>2. CASE j # k
      BY <1>2, <1>7, <3>2 DEF New
    <3>3. QED
      BY <3>1, <3>2
  <2>2. QED
    BY <2>1 DEF New
<1>11. Owned'
  BY <1>6, <1>7 DEF Owned
<1>12. Marked' /\ PublishedOnce'
  BY <1>2, <1>7, <1>9 DEF Marked, PublishedOnce
<1>13. Told'
  BY <1>2, <1>7 DEF Told
<1>14. Isolation'
  BY <1>2, <1>7, <1>9 DEF Isolation
<1>15. QED
  BY <1>8, <1>10, <1>11, <1>12, <1>13, <1>14

\* What becomes of a record: its row is dropped before it is inserted, or it keeps the
\* source it has or gets its owner's, and is changed only by a project that may.
Vanishes(j) ==
    /\ row[j].status = "unsaved" /\ row'[j] = NoRow /\ stage'[j] = "done"
    /\ inserts'[j] = inserts[j] /\ by'[j] = by[j]
Moves(j) ==
    /\ \/ row'[j].src = row[j].src
       \/ owner[j] \in Project /\ row'[j].src = SourceOf[owner[j]]
    /\ row[j].synced => row'[j].synced
    /\ row'[j].status \in {"absent", "unsaved"} =>
         row[j].status \in {"absent", "unsaved"} /\ inserts'[j] = inserts[j] /\ by'[j] = by[j]
    /\ row'[j].status = "unsaved" <=> stage'[j] = "taken"
    /\ stage'[j] \in {"none", "queued"} =>
         stage'[j] = stage[j] /\ row'[j] = row[j] /\ by'[j] = by[j]
    /\ inserts'[j] = inserts[j] \/ (inserts[j] = 0 /\ inserts'[j] = 1 /\ row'[j].synced)
    /\ by'[j] \in {by[j], owner[j]}

LEMMA RecordStep ==
    ASSUME IInv, TypeOK', UNCHANGED <<intended, owner>>,
           \A j \in Record : stage'[j] = "queued" => msg'[j] = msg[j],
           \A j \in Record : Vanishes(j) \/ Moves(j)
    PROVE  IInv'
<1> USE DEF IInv
<1>1. New'
  <2>1. ASSUME NEW j \in Record, Vanishes(j)
        PROVE  /\ stage'[j] = "done" /\ row'[j].status = "absent"
               /\ inserts'[j] = 0 /\ by'[j] = None
    BY <2>1 DEF Vanishes, New, NoRow
  <2>2. ASSUME NEW j \in Record, stage'[j] \in {"none", "queued"}
        PROVE  row'[j] = NoRow /\ by'[j] = None
    <3>1. Moves(j)
      BY <2>1, <2>2
    <3>2. row[j] = NoRow /\ by[j] = None
      BY <2>2, <3>1 DEF New, Moves
    <3>3. QED
      BY <2>2, <3>1, <3>2 DEF Moves
  <2>3. ASSUME NEW j \in Record, row'[j].status \in {"absent", "unsaved"}
        PROVE  inserts'[j] = 0 /\ by'[j] = None
    <3>1. CASE Moves(j)
      BY <2>3, <3>1 DEF Moves, New
    <3>2. QED
      BY <2>1, <3>1
  <2>4. ASSUME NEW j \in Record
        PROVE  row'[j].status = "unsaved" <=> stage'[j] = "taken"
    BY <2>1 DEF Moves
  <2>5. QED
    BY <2>2, <2>3, <2>4 DEF New
<1>2. ASSUME NEW j \in Record, Vanishes(j)
      PROVE  row'[j].src = None /\ inserts'[j] = 0 /\ by'[j] = None
  BY <1>2 DEF Vanishes, New, NoRow
<1>3. Owned'
  BY <1>2 DEF Owned, Moves
<1>4. Marked'
  BY <1>2 DEF Marked, Moves
<1>5. PublishedOnce'
  <2>1. ASSUME NEW j \in Record, Moves(j) PROVE inserts'[j] <= 1
    BY <2>1 DEF Moves, PublishedOnce, TypeOK
  <2>2. QED
    BY <1>2, <2>1 DEF PublishedOnce
<1>6. Told'
  <2>1. ASSUME NEW j \in Record, stage'[j] = "queued"
        PROVE  stage[j] = "queued" /\ msg'[j] = msg[j]
    BY <2>1 DEF Moves, Vanishes
  <2>2. QED
    BY <2>1 DEF Told
<1>7. Isolation'
  BY <1>2 DEF Isolation, Moves
<1>8. QED
  BY <1>1, <1>3, <1>4, <1>5, <1>6, <1>7

LEMMA Stays ==
    ASSUME IInv, NEW j \in Record, row'[j] = row[j], stage'[j] = stage[j],
           inserts'[j] = inserts[j], by'[j] = by[j]
    PROVE  Moves(j)
BY DEF IInv, New, Moves

\* A step of one record, of its worker, a callback or maintenance.
LEMMA OneStep ==
    ASSUME IInv, NEW k \in Record, NEW x \in Row, NEW b \in Project \cup {None},
           NEW st \in {"none", "queued", "taken", "running", "returned", "done"},
           NEW m \in Scheduler \cup {None}, NEW n \in Nat,
           row' = [row EXCEPT ![k] = x], stage' = [stage EXCEPT ![k] = st],
           by' = [by EXCEPT ![k] = b], main' = [main EXCEPT ![k] = m],
           inserts' = [inserts EXCEPT ![k] = n], UNCHANGED <<Others, aged>>,
           Vanishes(k) \/ Moves(k)
    PROVE  IInv'
<1> USE DEF IInv
<1>1. UNCHANGED <<shared, tasks, alive, deleting, doomed, cleared, nulled, msg, intended,
                  triggers, aged, owner, switches>>
  BY DEF Others, schedules, sending, settings
<1>2. row' \in [Record -> Row] /\ by' \in [Record -> Project \cup {None}]
  BY DEF TypeOK
<1>3. stage' \in [Record -> {"none", "queued", "taken", "running", "returned", "done"}]
  BY DEF TypeOK
<1>4. main' \in [Record -> Scheduler \cup {None}] /\ inserts' \in [Record -> Nat]
  BY DEF TypeOK
<1>5. TypeOK'
  BY <1>1, <1>2, <1>3, <1>4 DEF TypeOK
<1>6. ASSUME NEW j \in Record \ {k} PROVE Moves(j)
  <2>1. row'[j] = row[j] /\ by'[j] = by[j] /\ stage'[j] = stage[j] /\ inserts'[j] = inserts[j]
    BY DEF TypeOK
  <2>2. QED
    BY <2>1, Stays
<1>7. QED
  BY <1>1, <1>5, <1>6, RecordStep

\* What a step of one record leaves alone is written as one that rewrites it.
LEMMA Same ==
    ASSUME TypeOK, NEW k \in Record
    PROVE  /\ stage = [stage EXCEPT ![k] = stage[k]] /\ by = [by EXCEPT ![k] = by[k]]
           /\ main = [main EXCEPT ![k] = main[k]] /\ inserts = [inserts EXCEPT ![k] = inserts[k]]
           /\ row = [row EXCEPT ![k] = row[k]]
           /\ stage[k] \in {"none", "queued", "taken", "running", "returned", "done"}
           /\ by[k] \in Project \cup {None} /\ main[k] \in Scheduler \cup {None}
           /\ inserts[k] \in Nat /\ row[k] \in Row
BY DEF TypeOK

\* A step that leaves the main table alone.
LEMMA LocalStep ==
    ASSUME IInv, NEW k \in Record, NEW x \in Row, NEW b \in Project \cup {None},
           NEW st \in {"none", "queued", "taken", "running", "returned", "done"},
           row' = [row EXCEPT ![k] = x], stage' = [stage EXCEPT ![k] = st],
           by' = [by EXCEPT ![k] = b], UNCHANGED <<Others, main, inserts, aged>>,
           Vanishes(k) \/ Moves(k)
    PROVE  IInv'
<1>1. main' = [main EXCEPT ![k] = main[k]] /\ inserts' = [inserts EXCEPT ![k] = inserts[k]]
  BY Same DEF IInv
<1>2. main[k] \in Scheduler \cup {None} /\ inserts[k] \in Nat
  BY Same DEF IInv
<1>3. UNCHANGED <<Others, aged>>
  OBVIOUS
<1>4. QED
  BY <1>1, <1>2, <1>3, OneStep

LEMMA WorkerStep ==
    ASSUME IInv, NEW k \in Record, NEW x \in Row,
           NEW st \in {"none", "queued", "taken", "running", "returned", "done"},
           row' = [row EXCEPT ![k] = x], stage' = [stage EXCEPT ![k] = st],
           UNCHANGED <<Others, main, inserts, aged, by>>, Vanishes(k) \/ Moves(k)
    PROVE  IInv'
<1>1. by' = [by EXCEPT ![k] = by[k]] /\ by[k] \in Project \cup {None}
  BY Same DEF IInv
<1>2. UNCHANGED <<Others, main, inserts, aged>>
  OBVIOUS
<1>3. QED
  BY <1>1, <1>2, LocalStep

\* Own and Foreign protect the records that carry a source.
LEMMA OwnsIt ==
    ASSUME IInv, NEW p \in Project, NEW r \in Record,
           Own(p, r) \/ ~ Foreign(p, r)
    PROVE  row[r].src = None \/ p = owner[r]
<1>1. row[r].src = None \/ Prefixed(p, r)
  BY DEF Own, Foreign
<1>2. QED
  BY <1>1, SettingsAssumption DEF Prefixed, IInv, Owned

LEMMA DiscardStep ==
    ASSUME IInv, NEW p \in Project, NEW k \in Record, Discard(p, k)
    PROVE  IInv'
<1>1. /\ stage[k] = "queued"
      /\ stage' = [stage EXCEPT ![k] = "done"] /\ msg' = [msg EXCEPT ![k] = None]
      /\ UNCHANGED <<shared, tasks, alive, deleting, doomed, cleared, nulled, intended, triggers,
                     row, main, inserts, aged, owner, by, switches>>
  BY DEF Discard, schedules, settings, mains
<1>2. TypeOK'
  BY <1>1 DEF IInv, TypeOK
<1>3. ASSUME NEW j \in Record
      PROVE  Moves(j) /\ (stage'[j] = "queued" => msg'[j] = msg[j])
  BY <1>1 DEF Moves, IInv, New, NoRow, TypeOK
<1>4. QED
  BY <1>1, <1>2, <1>3, RecordStep

\* The worker's row is inserted, or it is not.
LEMMA InsertStep ==
    ASSUME IInv, NEW k \in Record, Insert(k) \/ InsertFails(k)
    PROVE  IInv'
<1> USE DEF IInv
<1>1. /\ stage[k] = "taken" /\ row[k].status = "unsaved" /\ row[k] \in Row
      /\ UNCHANGED <<Others, main, inserts, aged, by>>
  BY DEF Insert, InsertFails, mains, New, TypeOK
<1>2. CASE Insert(k)
  <2> DEFINE x == [row[k] EXCEPT !.status = "open"]
  <2>1. /\ stage' = [stage EXCEPT ![k] = "running"] /\ row' = [row EXCEPT ![k] = x]
    BY <1>2 DEF Insert
  <2>2. x \in Row
    BY <1>1, RowEdits
  <2>3. x.src = row[k].src /\ x.status = "open" /\ x.synced = row[k].synced
    BY <1>1 DEF Row
  <2> HIDE DEF x
  <2>4. row'[k] = x /\ stage'[k] = "running"
    BY <2>1 DEF TypeOK
  <2>5. Moves(k)
    BY <1>1, <2>3, <2>4 DEF Moves
  <2>6. QED
    BY <1>1, <2>1, <2>2, <2>5, WorkerStep
<1>3. CASE InsertFails(k)
  <2>1. /\ stage' = [stage EXCEPT ![k] = "done"] /\ row' = [row EXCEPT ![k] = NoRow]
    BY <1>3 DEF InsertFails
  <2>2. NoRow \in Row
    BY <1>1, RowEdits
  <2>3. Vanishes(k)
    BY <1>1, <2>1 DEF Vanishes, TypeOK
  <2>4. QED
    BY <1>1, <2>1, <2>2, <2>3, WorkerStep
<1>4. QED
  BY <1>2, <1>3

\* A record gets the identity of the scheduler that its task has returned, of the same
\* project.
LEMMA MetadataStep ==
    ASSUME IInv, NEW k \in Record, NEW s \in Scheduler, Metadata(k, s)
    PROVE  IInv'
<1> USE DEF IInv
<1>1. /\ stage[k] = "running" /\ row[k] \in Row
      /\ stage' = [stage EXCEPT ![k] = "returned"]
      /\ UNCHANGED <<Others, main, inserts, aged, by>>
  BY DEF Metadata, mains, TypeOK
<1>2. stage'[k] = "returned" /\ row[k].status # "unsaved"
  BY <1>1 DEF New, TypeOK
<1>3. CASE Saved(k)
  <2> DEFINE x == [row[k] EXCEPT !.src = Identity(owner[k], s), !.sched = s,
                                 !.link = s \in tasks]
  <2>1. row' = [row EXCEPT ![k] = x]
    BY <1>3 DEF Metadata
  <2>2. owner[k] \in Project /\ Identity(owner[k], s) = SourceOf[owner[k]]
    BY Homes, SettingsAssumption DEF Metadata, Identity
  <2>3. Identity(owner[k], s) \in Source /\ (s \in tasks) \in BOOLEAN
    BY <2>2 DEF Source
  <2>4. x \in Row
    BY <1>1, <2>3, RowEdits
  <2>5. /\ x.src = SourceOf[owner[k]] /\ x.status = row[k].status
        /\ x.synced = row[k].synced
    BY <1>1, <2>2 DEF Row
  <2> HIDE DEF x
  <2>6. row'[k] = x
    BY <2>1 DEF TypeOK
  <2>7. inserts'[k] = inserts[k] /\ by'[k] = by[k]
    BY <1>1
  <2>8. row[k].status \in {"open", "closed"}
    BY <1>3 DEF Saved
  <2>9. Moves(k)
    BY <1>2, <2>2, <2>5, <2>6, <2>7, <2>8 DEF Moves
  <2>10. QED
    BY <1>1, <2>1, <2>4, <2>9, WorkerStep
<1>4. CASE ~ Saved(k)
  <2>1. row' = row
    BY <1>4 DEF Metadata
  <2>2. Moves(k)
    BY <1>1, <1>2, <2>1 DEF Moves
  <2>3. row' = [row EXCEPT ![k] = row[k]]
    BY <2>1, Same
  <2>4. QED
    BY <1>1, <2>2, <2>3, WorkerStep
<1>5. QED
  BY <1>3, <1>4

\* Who changes a record that carries a source is its owner.
LEMMA ChangedBy ==
    ASSUME IInv, NEW p \in Project \cup {None}, NEW k \in Record, Changed(p, {k}),
           row[k].src = None \/ p = owner[k]
    PROVE  \E b \in Project \cup {None} :
             by' = [by EXCEPT ![k] = b] /\ b \in {by[k], owner[k]}
<1> DEFINE b == IF row[k].src # None THEN p ELSE by[k]
<1>1. b \in Project \cup {None} /\ b \in {by[k], owner[k]}
  BY DEF IInv, TypeOK
<1>2. by' = [by EXCEPT ![k] = b]
  BY DEF Changed, IInv, TypeOK
<1>3. QED
  BY <1>1, <1>2

\* A record is completed by a project that may.
LEMMA CloseStep ==
    ASSUME IInv, NEW p \in Project \cup {None}, NEW k \in Record, Close(p, k),
           row[k].src = None \/ p = owner[k],
           stage' = stage \/ (Working(k) /\ stage' = [stage EXCEPT ![k] = "done"]),
           UNCHANGED <<Others, mains, aged>>
    PROVE  IInv'
<1> USE DEF IInv
<1> DEFINE x == [row[k] EXCEPT !.status = "closed"]
<1>1. /\ row[k].status = "open" /\ row[k] \in Row /\ row' = [row EXCEPT ![k] = x]
      /\ Changed(p, {k}) /\ UNCHANGED <<Others, main, inserts, aged>>
  BY DEF Close, mains, TypeOK
<1>2. x \in Row
  BY <1>1, RowEdits
<1>3. x.src = row[k].src /\ x.status = "closed" /\ x.synced = row[k].synced
  BY <1>1 DEF Row
<1> HIDE DEF x
<1>4. PICK b \in Project \cup {None} : by' = [by EXCEPT ![k] = b] /\ b \in {by[k], owner[k]}
  BY <1>1, ChangedBy
<1>5. row'[k] = x /\ by'[k] = b
  BY <1>1, <1>4 DEF TypeOK
<1>6. PICK st \in {"none", "queued", "taken", "running", "returned", "done"} :
        stage' = [stage EXCEPT ![k] = st] /\ st \in {stage[k], "done"}
  BY Same
<1>7. stage'[k] \notin {"none", "queued", "taken"}
  <2>1. stage[k] \notin {"none", "queued", "taken"}
    BY <1>1 DEF New, NoRow
  <2>2. stage'[k] = st
    BY <1>6 DEF TypeOK
  <2>3. QED
    BY <1>6, <2>1, <2>2
<1>8. Moves(k)
  BY <1>1, <1>3, <1>4, <1>5, <1>7 DEF Moves
<1>9. QED
  BY <1>1, <1>2, <1>4, <1>6, <1>8, LocalStep

\* A terminal record of the project's own is published.
LEMMA PublishStep ==
    ASSUME IInv, NEW p \in Project, NEW k \in Record, Publish(p, k)
    PROVE  IInv'
<1> USE DEF IInv
<1> DEFINE x == [row[k] EXCEPT !.synced = TRUE]
           m == IF row[k].link THEN row[k].sched ELSE None
<1>1. /\ row[k].status = "closed" /\ ~ row[k].synced /\ row[k] \in Row /\ Prefixed(p, k)
      /\ row' = [row EXCEPT ![k] = x] /\ Changed(p, {k})
      /\ main' = [main EXCEPT ![k] = m]
      /\ inserts' = [inserts EXCEPT ![k] = inserts[k] + 1]
      /\ UNCHANGED <<Others, stage, aged>>
  BY DEF Publish, Publishable, TypeOK
<1>2. x \in Row /\ m \in Scheduler \cup {None}
  BY <1>1, RowEdits DEF Row
<1>3. x.src = row[k].src /\ x.status = "closed" /\ x.synced
  BY <1>1 DEF Row
<1> HIDE DEF x, m
<1>4. inserts[k] = 0
  BY <1>1 DEF Marked
<1>5. row[k].src = None \/ p = owner[k]
  BY <1>1, OwnsIt DEF Own
<1>6. PICK b \in Project \cup {None} : by' = [by EXCEPT ![k] = b] /\ b \in {by[k], owner[k]}
  BY <1>1, <1>5, ChangedBy
<1>7. row'[k] = x /\ by'[k] = b /\ inserts'[k] = 1 /\ inserts[k] + 1 \in Nat
  BY <1>1, <1>4, <1>6 DEF TypeOK
<1>8. stage'[k] = stage[k] /\ stage[k] \notin {"none", "queued", "taken"}
  BY <1>1 DEF New, NoRow
<1>9. Moves(k)
  BY <1>3, <1>4, <1>6, <1>7, <1>8 DEF Moves
<1>10. QED
  BY <1>1, <1>2, <1>6, <1>7, <1>9, Same, OneStep

LEMMA PruneStep ==
    ASSUME IInv, NEW p \in Project, Prune(p)
    PROVE  IInv'
<1> USE DEF IInv
<1> DEFINE S == {r \in Record : Eligible(p, r) /\ (r \in aged \/ ~ Newest(p, r))}
           f == [j \in Record |-> [row[j] EXCEPT !.status = "deleted"]]
<1>1. /\ row' = [r \in Record |-> IF r \in S THEN f[r] ELSE row[r]]
      /\ by' = [r \in Record |-> IF r \in S /\ row[r].src # None THEN p ELSE by[r]]
      /\ UNCHANGED <<shared, tasks, alive, deleting, doomed, cleared, nulled, msg, intended,
                     triggers, stage, main, inserts, aged, owner, switches>>
  BY DEF Prune, Changed, Others, schedules, sending, settings, mains
<1>2. ASSUME NEW j \in S PROVE row[j].status = "closed" /\ (row[j].src = None \/ p = owner[j])
  BY OwnsIt DEF Eligible
<1>3. f \in [Record -> Row]
  BY RowEdits DEF TypeOK
<1>4. ASSUME NEW j \in S
      PROVE  f[j].src = row[j].src /\ f[j].synced = row[j].synced /\ f[j].status = "deleted"
  BY DEF TypeOK, Row
<1> HIDE DEF S, f
<1>5. row' \in [Record -> Row]
  BY <1>1, <1>3 DEF TypeOK
<1>6. by' \in [Record -> Project \cup {None}]
  BY <1>1 DEF TypeOK
<1>7. TypeOK'
  BY <1>1, <1>5, <1>6 DEF TypeOK
<1>8. ASSUME NEW j \in Record PROVE Moves(j)
  <2>1. CASE j \in S
    <3>1. row'[j] = f[j] /\ by'[j] \in {by[j], owner[j]}
      BY <1>1, <1>2, <2>1
    <3>2. stage'[j] = stage[j] /\ stage[j] \notin {"none", "queued", "taken"}
      BY <1>1, <1>2, <2>1 DEF New, NoRow
    <3>3. QED
      BY <1>1, <1>4, <2>1, <3>1, <3>2 DEF Moves
  <2>2. CASE j \notin S
    BY <1>1, <2>2, Stays
  <2>3. QED
    BY <2>1, <2>2
<1>9. QED
  BY <1>1, <1>7, <1>8, RecordStep

\* The references to a PeriodicTask go with it; nothing else changes.
LEMMA CommitStep ==
    ASSUME IInv, NEW s \in Scheduler, DeleteCommit(s)
    PROVE  IInv'
<1> USE DEF IInv
<1> DEFINE f == [j \in Record |-> [row[j] EXCEPT !.link = FALSE]]
<1>1. /\ row' = [r \in Record |-> IF r \in nulled[s] THEN f[r] ELSE row[r]]
      /\ main' = [r \in Record |-> IF r \in doomed[s] THEN None ELSE main[r]]
      /\ tasks' \subseteq tasks /\ alive' \subseteq alive /\ cleared' \subseteq cleared
      /\ UNCHANGED <<shared, msg, intended, triggers, stage, inserts, aged, owner, by, switches>>
  BY DEF DeleteCommit, DeleteEnds, sending, settings
<1>2. /\ deleting' \in [Scheduler -> {"no", "task", "all"}]
      /\ doomed' \in [Scheduler -> SUBSET Record] /\ nulled' \in [Scheduler -> SUBSET Record]
  BY DEF DeleteCommit, DeleteEnds, TypeOK
<1>3. f \in [Record -> Row]
  BY RowEdits DEF TypeOK
<1>4. ASSUME NEW j \in Record
      PROVE  f[j].src = row[j].src /\ f[j].synced = row[j].synced /\ f[j].status = row[j].status
  <2>1. row[j] \in Row /\ f[j] = [row[j] EXCEPT !.link = FALSE]
    BY DEF TypeOK
  <2>2. QED
    BY <2>1 DEF Row
<1>5. ASSUME NEW j \in Record, row[j] = NoRow PROVE f[j] = NoRow
  <2>1. f[j] = [NoRow EXCEPT !.link = FALSE]
    BY <1>5
  <2>2. QED
    BY <2>1 DEF NoRow
<1> HIDE DEF f
<1>6. row' \in [Record -> Row] /\ main' \in [Record -> Scheduler \cup {None}]
  BY <1>1, <1>3 DEF TypeOK
<1>7. TypeOK'
  BY <1>1, <1>2, <1>6 DEF TypeOK
<1>8. ASSUME NEW j \in Record PROVE Moves(j)
  <2>1. row'[j] \in {f[j], row[j]}
    BY <1>1
  <2>2. /\ row'[j].src = row[j].src /\ row'[j].synced = row[j].synced
        /\ row'[j].status = row[j].status /\ (row[j] = NoRow => row'[j] = NoRow)
    BY <1>4, <1>5, <2>1
  <2>3. QED
    BY <1>1, <2>2 DEF Moves, New
<1>9. QED
  BY <1>1, <1>7, <1>8, RecordStep

\* Steps that change no row.
LEMMA QuietStep ==
    ASSUME IInv, TypeOK',
           UNCHANGED <<msg, intended, owner, row, inserts, by>>,
           \/ stage' = stage
           \/ \E k \in Record : Working(k) /\ stage' = [stage EXCEPT ![k] = "done"]
    PROVE  IInv'
<1>1. ASSUME NEW j \in Record PROVE Moves(j)
  <2>1. stage'[j] = stage[j] \/ (stage[j] \in {"running", "returned"} /\ stage'[j] = "done")
    BY DEF IInv, TypeOK, Working
  <2>2. QED
    BY <2>1 DEF IInv, New, Moves
<1>2. ASSUME NEW j \in Record PROVE stage'[j] = "queued" => msg'[j] = msg[j]
  OBVIOUS
<1>3. QED
  BY <1>1, <1>2, RecordStep

LEMMA LeaveStep ==
    ASSUME IInv, NEW k \in Record, Leave(k)
    PROVE  IInv'
<1>1. /\ Working(k) /\ stage' = [stage EXCEPT ![k] = "done"]
      /\ UNCHANGED <<shared, tasks, alive, deleting, doomed, cleared, nulled, msg, intended,
                     triggers, row, main, inserts, aged, owner, by, switches>>
  BY DEF Leave, Others, schedules, sending, settings, mains
<1>2. TypeOK'
  BY <1>1 DEF IInv, TypeOK
<1>3. QED
  BY <1>1, <1>2, QuietStep

LEMMA AgeStep ==
    ASSUME IInv, NEW r \in Record, Age(r)
    PROVE  IInv'
<1>1. /\ aged' = aged \cup {r}
      /\ UNCHANGED <<shared, tasks, alive, deleting, doomed, cleared, nulled, msg, intended,
                     triggers, stage, row, main, inserts, owner, by, switches>>
  BY DEF Age, Others, schedules, sending, settings, mains
<1>2. TypeOK'
  BY <1>1 DEF IInv, TypeOK
<1>3. QED
  BY <1>1, <1>2, QuietStep

\* A deletion begins, sets references to NULL, or is rolled back.
LEMMA DeleteStep ==
    ASSUME IInv, NEW s \in Scheduler,
           \/ \E p \in Project, what \in {"task", "all"} : DeleteStart(p, s, what)
           \/ SetNull(s) \/ DeleteRefused(s)
    PROVE  IInv'
<1>1. UNCHANGED <<shared, tasks, alive, msg, intended, triggers, stage, row, main, inserts,
                  aged, owner, by, switches>>
  BY DEF DeleteStart, SetNull, DeleteRefused, sending, records, settings, mains
<1>2. /\ deleting' \in [Scheduler -> {"no", "task", "all"}] /\ cleared' \subseteq Scheduler
      /\ doomed' \in [Scheduler -> SUBSET Record] /\ nulled' \in [Scheduler -> SUBSET Record]
  <2>1. ASSUME NEW p \in Project, NEW what \in {"task", "all"}, DeleteStart(p, s, what)
        PROVE  /\ deleting' \in [Scheduler -> {"no", "task", "all"}] /\ cleared' \subseteq Scheduler
               /\ doomed' \in [Scheduler -> SUBSET Record]
               /\ nulled' \in [Scheduler -> SUBSET Record]
    <3>1. Doomed(p, s) \in SUBSET Record
      BY DEF Doomed, LinkedTo
    <3>2. QED
      BY <2>1, <3>1 DEF DeleteStart, IInv, TypeOK
  <2>2. CASE SetNull(s)
    <3>1. LocalTo(s) \in SUBSET Record
      BY DEF LocalTo
    <3>2. QED
      BY <2>2, <3>1 DEF SetNull, IInv, TypeOK
  <2>3. CASE DeleteRefused(s)
    BY <2>3 DEF DeleteRefused, DeleteEnds, IInv, TypeOK
  <2>4. QED
    BY <2>1, <2>2, <2>3
<1>3. TypeOK'
  BY <1>1, <1>2 DEF IInv, TypeOK
<1>4. QED
  BY <1>1, <1>3, QuietStep

LEMMA SwitchStep ==
    ASSUME IInv, NEW p \in Project, Switch(p)
    PROVE  IInv'
<1> USE DEF IInv
<1>1. /\ switches < MaxSwitches /\ switches' = switches + 1
      /\ shared' \subseteq shared \cup {p}
      /\ stage' = [k \in Record |-> IF owner[k] = p /\ (stage[k] = "taken" \/ Working(k))
                                    THEN "done" ELSE stage[k]]
      /\ row' = [k \in Record |-> IF owner[k] = p /\ row[k].status = "unsaved"
                                  THEN NoRow ELSE row[k]]
      /\ UNCHANGED <<tasks, alive, deleting, doomed, cleared, nulled, msg, intended, triggers,
                     main, inserts, aged, owner, by>>
  BY DEF Switch, schedules, sending, mains
<1>2. row' \in [Record -> Row]
  <2>1. ASSUME NEW k \in Record PROVE row[k] \in Row /\ NoRow \in Row
    BY RowEdits DEF TypeOK
  <2>2. QED
    BY <1>1, <2>1
<1>3. stage' \in [Record -> {"none", "queued", "taken", "running", "returned", "done"}]
  BY <1>1 DEF TypeOK
<1>4. shared' \subseteq Project /\ switches' \in 0 .. MaxSwitches
  BY <1>1, BoundAssumption DEF TypeOK
<1>5. TypeOK'
  BY <1>1, <1>2, <1>3, <1>4 DEF TypeOK
<1>6. ASSUME NEW j \in Record PROVE Vanishes(j) \/ Moves(j)
  <2>1. row[j].status = "unsaved" <=> stage[j] = "taken"
    BY DEF New
  <2>2. CASE owner[j] = p /\ row[j].status = "unsaved"
    BY <1>1, <2>1, <2>2 DEF Vanishes
  <2>3. CASE ~ (owner[j] = p /\ row[j].status = "unsaved")
    <3>1. row'[j] = row[j]
      BY <1>1, <2>3
    <3>2. \/ stage'[j] = stage[j]
          \/ stage[j] \in {"running", "returned"} /\ stage'[j] = "done"
      BY <1>1, <2>1, <2>3 DEF Working
    <3>3. QED
      BY <1>1, <2>1, <3>1, <3>2 DEF Moves, New
  <2>4. QED
    BY <2>2, <2>3
<1>7. ASSUME NEW j \in Record PROVE stage'[j] = "queued" => msg'[j] = msg[j]
  BY <1>1
<1>8. QED
  BY <1>1, <1>5, <1>6, <1>7, RecordStep

LEMMA ProjectsStep == IInv /\ [Next]_vars => IInv'
<1> SUFFICES ASSUME IInv, [Next]_vars PROVE IInv'
  OBVIOUS
<1>1. ASSUME NEW s \in Scheduler, Beat(s) PROVE IInv'
  <2> DEFINE m == [task |-> TaskOf[s], args |-> <<Pk[s]>>, queue |-> QueueOf[Home[s]]]
  <2>1. Send(m, s) /\ triggers' = triggers
        /\ UNCHANGED <<schedules, row, mains, aged, owner, by, settings>>
    BY <1>1 DEF Beat
  <2>2. m.queue = QueueOf[Home[s]] /\ m.task = TaskOf[s] /\ m.args = <<Pk[s]>>
    OBVIOUS
  <2> HIDE DEF m
  <2>3. triggers' \in 0 .. MaxTriggers
    BY <2>1 DEF IInv, TypeOK
  <2>4. QED
    BY <2>1, <2>2, <2>3, SendStep
<1>2. ASSUME NEW p \in Project, NEW o \in Option, Trigger(p, o) PROVE IInv'
  <2>1. PICK m \in Sent(o, BeatSchedule[p], Table, QueueOf[p]) : Send(m, Meant(o))
    BY <1>2 DEF Trigger
  <2>2. triggers' \in 0 .. MaxTriggers
    BY <1>2, BoundAssumption DEF Trigger, IInv, TypeOK
  <2>3. Meant(o) # None =>
          /\ Meant(o) \in Scheduler
          /\ m.task = TaskOf[Meant(o)] /\ m.args = <<Pk[Meant(o)]>>
          /\ m.queue = QueueOf[Home[Meant(o)]]
    BY SentIsMeant DEF IInv
  <2>4. UNCHANGED <<schedules, row, mains, aged, owner, by, settings>>
    BY <1>2 DEF Trigger
  <2>5. Meant(o) \in Scheduler \cup {None}
    BY <2>3
  <2>6. QED
    BY <2>1, <2>2, <2>3, <2>4, <2>5, SendStep
<1>3. ASSUME NEW p \in Project, NEW r \in Record, Callback(p, r) \/ TimeOut(p, r) PROVE IInv'
  <2>1. Close(p, r) /\ ~ Foreign(p, r) /\ UNCHANGED <<Others, stage, mains, aged>>
    BY <1>3 DEF Callback, TimeOut
  <2>2. QED
    BY <2>1, OwnsIt, CloseStep
<1>4. ASSUME NEW k \in Record, Finish(k) PROVE IInv'
  <2>1. /\ Close(owner[k], k) /\ Working(k)
        /\ stage' = [stage EXCEPT ![k] = "done"] /\ UNCHANGED <<Others, mains, aged>>
    BY <1>4 DEF Finish
  <2>2. owner[k] \in Project \cup {None}
    BY DEF IInv, TypeOK
  <2>3. QED
    BY <2>1, <2>2, CloseStep
<1>5. CASE UNCHANGED vars
  <2>1. TypeOK'
    BY <1>5 DEF vars, IInv, TypeOK
  <2>2. QED
    BY <1>5, <2>1, QuietStep DEF vars
<1>6. QED
  BY <1>1, <1>2, <1>3, <1>4, <1>5, DiscardStep, TakeStep, InsertStep, MetadataStep, PublishStep,
     PruneStep, CommitStep, LeaveStep, AgeStep, DeleteStep, SwitchStep
     DEF Next, Worker, DeleteEnd

LEMMA ProjectsInductive == Spec => []IInv
BY ProjectsStart, ProjectsStep, PTL DEF Spec

-----------------------------------------------------------------------------
\* Every reachable state is well typed.
THEOREM ProjectsTypeCorrect == Spec => []TypeOK
<1>1. IInv => TypeOK
  BY DEF IInv
<1>2. QED
  BY ProjectsInductive, <1>1, PTL

\* However many projects share the tables and whatever they switch on and off, nobody
\* but the project that ran it completes, publishes or prunes a record while it carries a
\* source, also when its task's return gives it one, or another scheduler, late.
THEOREM RecordsStayIsolated == Spec => []Isolation
<1>1. IInv => Isolation
  BY DEF IInv
<1>2. QED
  BY ProjectsInductive, <1>1, PTL

\* Beat and trigger_task run the scheduler they mean, in its own project.
THEOREM RunsAreIntended == Spec => RunsIntended
<1> DEFINE Right == \A p \in Project, k \in Record :
             Take(p, k) /\ intended[k] # None => Sees(k, intended[k], p)
<1>1. ASSUME IInv, NEW p \in Project, NEW k \in Record, Take(p, k), intended[k] # None
      PROVE  Sees(k, intended[k], p)
  <2>1. PICK i : i = intended[k]
    OBVIOUS
  <2>2. i \in Scheduler
    BY <1>1, <2>1 DEF IInv, TypeOK
  <2>3. msg[k].queue = QueueOf[Home[i]] /\ msg[k].task = TaskOf[i] /\ msg[k].args = <<Pk[i]>>
    BY <1>1, <2>1 DEF IInv, Told, Take
  <2>4. p = Home[i]
    BY <1>1, <2>2, <2>3, SettingsAssumption, Homes DEF Take
  <2>5. PICK s \in {Resolved(p, msg[k]), None} :
          row' = [row EXCEPT ![k] = [status |-> "unsaved", src |-> Identity(p, s), sched |-> s,
                                     link |-> s \in tasks, synced |-> FALSE]]
    BY <1>1 DEF Take
  <2>6. row'[k].sched = s
    BY <1>1, <2>5 DEF IInv, TypeOK
  <2>7. ModelKnown(i) => Resolved(p, msg[k]) \in {i, None}
    BY <1>1, <2>2, <2>3, <2>4, ResolvedIsOne DEF IInv
  <2>8. QED
    BY <2>1, <2>4, <2>5, <2>6, <2>7 DEF Sees
<1>2. IInv /\ [Next]_vars => [Right]_vars
  BY <1>1
<1>3. QED
  BY ProjectsInductive, <1>2, PTL DEF RunsIntended, Spec

\* No outcome is written to the main table twice, whatever is deleted in between.
THEOREM RecordsArePublishedOnce == Spec => []PublishedOnce
<1>1. IInv => PublishedOnce
  BY DEF IInv
<1>2. QED
  BY ProjectsInductive, <1>1, PTL

-----------------------------------------------------------------------------
\* Where the lists look a scheduler up in the model that the worker filters, they find
\* the same.
LEMMA DetailIsResolved ==
    ASSUME TypeOK, NEW p \in Project, NEW m, NEW detail,
           detail = ArgsDetail(RowsOf(p), m.task, m.args)
    PROVE  Finds(p, m, detail)
<1> SUFFICES ASSUME Mapped(p, m.task) = ModelFor(p, m.task)
             PROVE  detail = Resolved(p, m)
  BY DEF Finds
<1> DEFINE M     == Mapped(p, m.task)
           names == {TaskName[x] : x \in {y \in Model : AppOf[y] = p}}
           F(s)  == ModelOf[s] = M /\ m.args # <<>> /\ Pk[s] = m.args[1]
           S     == {s \in alive : F(s)}
           keys  == {Pk[s] : s \in {x \in alive : ModelOf[x] = M}}
           Is(s) == ModelOf[s] = M /\ Pk[s] = m.args[1]
           found == m.task \in names /\ m.args # <<>> /\ m.args[1] \in keys
<1>1. Resolved(p, m) = IF S = {} THEN None ELSE CHOOSE s \in S : TRUE
  BY DEF Resolved
<1>2. alive \subseteq Scheduler
  BY DEF TypeOK
<1>3. M # None => m.task \in names
  BY DEF Mapped, Named
<1>4. found <=> S # {}
  <2>1. ASSUME NEW s \in S PROVE found
    <3>1. M # None
      BY <1>2, <2>1, ModelAssumption, SchedulerAssumption
    <3>2. QED
      BY <1>3, <2>1, <3>1
  <2>2. ASSUME found PROVE \E s \in alive : F(s)
    BY <2>2
  <2>3. QED
    BY <2>1, <2>2
<1>5. DOMAIN RowsOf(p) = names
  BY DEF RowsOf
<1>6. ASSUME m.task \in names
      PROVE  /\ DOMAIN RowsOf(p)[m.task] = keys
             /\ m.args[1] \in keys =>
                  RowsOf(p)[m.task][m.args[1]] = CHOOSE s \in alive : Is(s)
  BY <1>6 DEF RowsOf
<1>7. ArgsDetail(RowsOf(p), m.task, m.args)
        = IF found THEN CHOOSE s \in alive : Is(s) ELSE None
  BY <1>5, <1>6 DEF ArgsDetail
<1>8. ASSUME S # {} PROVE (CHOOSE s \in S : TRUE) = CHOOSE s \in alive : Is(s)
  <2>1. PICK a : a = CHOOSE s \in S : TRUE
    OBVIOUS
  <2>2. PICK b : b = CHOOSE s \in alive : Is(s)
    OBVIOUS
  <2>3. a \in S
    BY <1>8, <2>1
  <2>4. b \in alive /\ Is(b)
    BY <2>2, <2>3
  <2>5. a = b
    BY <1>2, <2>3, <2>4, SchedulerAssumption
  <2>6. QED
    BY <2>1, <2>2, <2>5
<1>9. QED
  BY <1>1, <1>4, <1>7, <1>8

\* What a call without overriding options sends, for the schedules it has found.
LEMMA AskedSends ==
    ASSUME NEW p, NEW o, o.args = <<>>, o.default = FALSE, o.queue = None,
           NEW m \in SentIn(p, o)
    PROVE  \E k \in Schedules(o, BeatSchedule[p], Table) :
             /\ m.task = k.task /\ m.args = k.args
             /\ k.queue # None => m.queue = k.queue
<1>1. PICK k \in Schedules(o, BeatSchedule[p], Table) : \E a \in FinalArgs(o, k.args) :
        m = [task |-> k.task, args |-> a, queue |-> FinalQueue(o, k.queue, QueueOf[p])]
  BY DEF SentIn, Sent
<1>2. PICK a \in FinalArgs(o, k.args) :
         m = [task |-> k.task, args |-> a, queue |-> FinalQueue(o, k.queue, QueueOf[p])]
  BY <1>1
<1>3. a = k.args
  BY <1>2 DEF FinalArgs
<1>4. k.queue # None => FinalQueue(o, k.queue, QueueOf[p]) = k.queue
  BY DEF FinalQueue
<1>5. QED
  BY <1>2, <1>3, <1>4

\* --list-all, of a PeriodicTask that is run by its name.
LEMMA ListAllTells ==
    ASSUME TypeOK, NEW p \in Project,
           NEW x \in ListAll(Table, Registered(p), <<>>, RowsOf(p)),
           NEW m \in SentIn(p, [Asked EXCEPT !.name = x.name])
    PROVE  /\ m.queue = x.queue /\ m.args = x.args
           /\ x.external = (m.task \notin Registered(p)) /\ Finds(p, m, x.detail)
<1>1. PICK y \in Table : x = Listed(y, Table, Registered(p), <<>>, RowsOf(p))
  BY DEF ListAll
<1>2. /\ y.name \in Scheduler /\ y.task = TaskOf[y.name] /\ y.args = <<Pk[y.name]>>
      /\ y.queue = QueueOf[Home[y.name]]
  BY TableRow
<1>3. y.queue # None /\ Parsed(y.args) = y.args /\ y.name # None
  BY <1>2, SchedulerAssumption, SettingsAssumption, Homes DEF Parsed
<1>4. /\ x.name = y.name /\ x.queue = y.queue /\ x.args = y.args
      /\ x.external = (y.task \notin Registered(p))
      /\ x.detail = ArgsDetail(RowsOf(p), y.task, y.args)
  BY <1>1, <1>3, Zenon DEF Listed
<1> DEFINE o == [Asked EXCEPT !.name = x.name]
<1>5. o.args = <<>> /\ o.default = FALSE /\ o.queue = None /\ o.name = y.name
  BY <1>4 DEF Asked
<1> HIDE DEF o
<1>6. PICK k \in Schedules(o, BeatSchedule[p], Table) :
        /\ m.task = k.task /\ m.args = k.args
        /\ k.queue # None => m.queue = k.queue
  BY <1>5, AskedSends DEF o
<1>7. PICK z \in Table : z.name = y.name /\ k = Known(z)
  BY <1>3, <1>5, <1>6 DEF Schedules, ScheduleNamed
<1>8. z.task = y.task /\ z.args = y.args /\ z.queue = y.queue
  <2>1. /\ z.task = TaskOf[z.name] /\ z.args = <<Pk[z.name]>>
        /\ z.queue = QueueOf[Home[z.name]]
    BY TableRow
  <2>2. QED
    BY <1>2, <1>7, <2>1
<1>9. k.task = y.task /\ k.args = y.args /\ k.queue = y.queue
  BY <1>3, <1>7, <1>8 DEF Known
<1>10. QED
  BY <1>3, <1>4, <1>6, <1>9, DetailIsResolved

\* --list, of the first entry of a task that is run by the task's name.
LEMMA ListTells ==
    ASSUME TypeOK, NEW p \in Project, NEW i \in Reached(p), BeatSchedule[p][i].queue # None,
           NEW m \in SentIn(p, [Asked EXCEPT !.task = BeatSchedule[p][i].task])
    PROVE  LET e == List(BeatSchedule[p], Table, <<>>, RowsOf(p))[i]
           IN  m.queue = e.queue /\ m.args = e.args /\ Finds(p, m, e.detail)
<1> DEFINE beat == BeatSchedule[p]
           b    == beat[i]
           o    == [Asked EXCEPT !.task = b.task]
           e    == List(beat, Table, <<>>, RowsOf(p))[i]
<1>1. /\ i \in DOMAIN beat
      /\ \A j \in DOMAIN beat : beat[j].task = b.task => i <= j
  BY DEF Reached
<1>2. e.queue = b.queue /\ e.args = b.args /\ e.detail = ArgsDetail(RowsOf(p), b.task, b.args)
  BY <1>1 DEF List
<1>3. o.args = <<>> /\ o.default = FALSE /\ o.queue = None /\ o.name = None /\ o.task = b.task
  BY DEF Asked
<1> HIDE DEF o, e
<1>4. PICK k \in Schedules(o, beat, Table) :
        /\ m.task = k.task /\ m.args = k.args
        /\ k.queue # None => m.queue = k.queue
  BY <1>3, AskedSends DEF o
<1>5. k = ScheduleOf(beat, Table, b.task)
  BY <1>3, <1>4 DEF Schedules
<1>6. k = b
  <2> DEFINE entries == {j \in DOMAIN beat : beat[j].task = b.task}
             first   == CHOOSE j \in entries : \A n \in entries : j <= n
  <2>1. i \in entries /\ \A n \in entries : i <= n
    BY <1>1
  <2>2. first \in entries /\ \A n \in entries : first <= n
    BY <2>1
  <2>3. first = i
    BY <2>1, <2>2, BeatAssumption
  <2>4. ScheduleOf(beat, Table, b.task) = beat[first]
    BY <2>1 DEF ScheduleOf
  <2>5. QED
    BY <1>5, <2>3, <2>4
<1>7. QED
  BY <1>2, <1>4, <1>6, DetailIsResolved DEF e

\* What the lists of trigger_task show of a schedule is what comes of running it.
THEOREM ListsTellTheRun == Spec => []ListTellsTheRun
<1>1. ASSUME TypeOK, NEW p \in Project, NEW i \in Reached(p)
      PROVE  List(BeatSchedule[p], Table, <<>>, RowsOf(p))[i].task = BeatSchedule[p][i].task
  BY DEF List, Reached
<1>2. ASSUME TypeOK, NEW p \in Project
      PROVE  LET entries == List(BeatSchedule[p], Table, <<>>, RowsOf(p))
             IN  \A i \in Reached(p) : BeatSchedule[p][i].queue # None =>
                   \A m \in SentIn(p, [Asked EXCEPT !.task = entries[i].task]) :
                     /\ m.queue = entries[i].queue /\ m.args = entries[i].args
                     /\ m.queue = QueueOf[p] => Finds(p, m, entries[i].detail)
  <2> DEFINE entries == List(BeatSchedule[p], Table, <<>>, RowsOf(p))
  <2> SUFFICES ASSUME NEW i \in Reached(p), BeatSchedule[p][i].queue # None,
                      NEW m \in SentIn(p, [Asked EXCEPT !.task = entries[i].task])
               PROVE  m.queue = entries[i].queue /\ m.args = entries[i].args
                        /\ Finds(p, m, entries[i].detail)
    BY Zenon
  <2>1. m \in SentIn(p, [Asked EXCEPT !.task = BeatSchedule[p][i].task])
    BY <1>1, <1>2
  <2>2. QED
    BY <1>2, <2>1, ListTells, Zenon
<1>3. ASSUME TypeOK PROVE ListTellsTheRun
  BY <1>2, <1>3, ListAllTells, Zenon DEF ListTellsTheRun
<1>4. TypeOK => ListTellsTheRun
  BY <1>3
<1>5. QED
  BY ProjectsTypeCorrect, <1>4, PTL
=============================================================================
