----------------------- MODULE ExecutionRecordsProofs -----------------------
(* Theorems about ExecutionRecords for every value of its constants.        *)
EXTENDS ExecutionRecords, FiniteSetTheorems, TLAPS

-----------------------------------------------------------------------------
(* What the transactions of the code may do to the tables.                  *)

\* MainKept only ever removes rows.
LEMMA MainKeptShrinks ==
    ASSUME NEW rows, NEW g
    PROVE  MainKept(rows, g) \subseteq rows
BY DEF MainKept

\* finish_record's UPDATE keeps the table well typed.
LEMMA FinishedType ==
    ASSUME TypeOK, NEW r \in Record,
           NEW status \in {"pending", "success", "fail"}
    PROVE  Finished(r, status) \in [Record -> Row]
<1>1. local[r] \in Row
  BY DEF TypeOK
<1>2. [local[r] EXCEPT !.status = status, !.ended = TRUE] \in Row
  BY <1>1 DEF Row, Open, Terminal
<1>3. QED
  BY <1>2 DEF Finished, TypeOK

\* The row a transaction inserts into the main table is a well-typed row.
LEMMA NewMainRowType ==
    ASSUME TypeOK, NEW r \in Record, NEW tbl \in [Record -> Row],
           Publishable(tbl, r)
    PROVE  NewMainRow(tbl, r) \in MainRow
BY DEF TypeOK, Publishable, NewMainRow, MainRow, Row

\* The type part of every projection into the main table.
LEMMA InsertAndMarkType ==
    ASSUME TypeOK, NEW r \in Record, NEW tbl \in [Record -> Row],
           Publishable(tbl, r), InsertAndMark(tbl, r)
    PROVE  /\ local' \in [Record -> Row]
           /\ sent' \subseteq MainRow
           /\ mainId' \in Nat
<1>1. NewMainRow(tbl, r) \in MainRow
  BY NewMainRowType
<1>2. local' \in [Record -> Row]
  BY DEF InsertAndMark, Row
<1>3. sent' \subseteq MainRow
  BY <1>1 DEF InsertAndMark, TypeOK
<1>4. mainId' \in Nat
  BY DEF InsertAndMark, TypeOK
<1>5. QED
  BY <1>2, <1>3, <1>4

\* A fault stays within its bound.
LEMMA FaultType ==
    ASSUME TypeOK, Fault
    PROVE  faults' \in 0 .. MaxFaults
BY CountsAssumption DEF TypeOK, Fault

TablesTypeOK ==
    /\ local \in [Record -> Row]
    /\ main \subseteq MainRow
    /\ mainId \in Nat
    /\ sent \subseteq MainRow
    /\ faults \in 0 .. MaxFaults

\* update_record keeps every table well typed, whichever way it ends.
LEMMA UpdateRecordType ==
    ASSUME TypeOK, NEW r \in Record, NEW status \in Terminal,
           UpdateRecord(r, status)
    PROVE  TablesTypeOK'
<1> DEFINE tbl == Finished(r, status)
<1> DEFINE row == NewMainRow(tbl, r)
<1>1. tbl \in [Record -> Row]
  BY FinishedType DEF Terminal
<1>2. CASE local' = tbl /\ UNCHANGED <<main, mainId, sent, faults>>
  BY <1>1, <1>2 DEF TablesTypeOK, TypeOK
<1>3. CASE /\ Publishable(tbl, r)
           /\ InsertAndMark(tbl, r)
           /\ main' \subseteq main \cup {row}
           /\ UNCHANGED faults \/ Fault
  <2>1. row \in MainRow
    BY <1>1, <1>3, NewMainRowType
  <2>2. main' \subseteq MainRow
    BY <1>3, <2>1 DEF TypeOK
  <2>3. faults' \in 0 .. MaxFaults
    BY <1>3, FaultType DEF TypeOK
  <2>4. QED
    BY <1>1, <1>3, <2>2, <2>3, InsertAndMarkType DEF TablesTypeOK
<1>4. CASE local' = tbl /\ UNCHANGED <<main, mainId, sent>> /\ Fault
  BY <1>1, <1>4, FaultType DEF TablesTypeOK, TypeOK
<1>5. QED
  BY <1>2, <1>3, <1>4, MainKeptShrinks DEF UpdateRecord, ProjectWithin

-----------------------------------------------------------------------------
(* Type correctness. *)

\* A worker's memory stays well typed when it leaves the wrapper.
LEMMA LeaveType ==
    ASSUME TypeOK, NEW r \in Record, Leave(r)
    PROVE  /\ pc' \in [Record -> WorkerPC]
           /\ obj' \in [Record -> Object]
BY SchedulerAssumption DEF TypeOK, Leave, NoObject, WorkerPC, Object, Identity

\* Every step of a worker keeps the state well typed.
LEMMA WorkerType ==
    ASSUME TypeOK, OutcomeKnown, NEW r \in Record, WorkerStep(r)
    PROVE  TypeOK'
<1> USE DEF tables, maint, Goto
<1>1. CASE Start(r)
  <2>1. PICK s \in Resolved :
          obj' = [obj EXCEPT ![r] = [@ EXCEPT !.ident = s, !.occurred = clock]]
    BY <1>1 DEF Start
  <2>2. [obj[r] EXCEPT !.ident = s, !.occurred = clock] \in Object
    <3>1. obj[r] \in Object /\ clock \in Nat
      BY CountsAssumption DEF TypeOK
    <3>2. QED
      BY <3>1 DEF Object, Resolved, Identity
  <2>3. obj' \in [Record -> Object]
    BY <2>1, <2>2 DEF TypeOK
  <2>4. QED
    BY <1>1, <2>3 DEF Start, TypeOK, WorkerPC
<1>2. CASE Insert(r)
  BY <1>2 DEF Insert, TypeOK, WorkerPC, Object, Row, Open
<1>3. CASE InsertFails(r)
  BY <1>3, LeaveType, FaultType DEF InsertFails, TypeOK, WorkerPC
<1>4. CASE Raises(r)
  BY <1>4 DEF Raises, TypeOK, WorkerPC, Object
<1>5. CASE Returns(r)
  BY <1>5 DEF Returns, TypeOK, WorkerPC, Object
<1>6. CASE ReturnsInstance(r)
  <2>1. PICK o \in {"pending", "success", "fail"}, s \in Scheduler :
          obj' = [obj EXCEPT ![r] = [@ EXCEPT !.outcome = o, !.ident = s]]
    BY <1>6 DEF ReturnsInstance
  <2>2. [obj[r] EXCEPT !.outcome = o, !.ident = s] \in Object
    <3>1. obj[r] \in Object
      BY DEF TypeOK
    <3>2. QED
      BY <3>1 DEF Object, Identity
  <2>3. obj' \in [Record -> Object]
    BY <2>1, <2>2 DEF TypeOK
  <2>4. QED
    BY <1>6, <2>3 DEF ReturnsInstance, TypeOK, WorkerPC
<1>7. CASE Metadata(r)
  <2>1. obj[r].ident \in Identity
    BY DEF TypeOK, Object
  <2>2. local' \in [Record -> Row]
    BY <1>7, <2>1 DEF Metadata, TypeOK, Row
  <2>3. QED
    BY <1>7, <2>2 DEF Metadata, TypeOK, WorkerPC
<1>8. CASE MetadataFails(r)
  BY <1>8, FaultType DEF MetadataFails, TypeOK, WorkerPC
<1>9. CASE Finish(r)
  <2>1. local' \in [Record -> Row]
    <3>1. obj[r].outcome \in {"pending", "success", "fail"}
      BY <1>9 DEF Finish, Goto, TypeOK, Object, OutcomeKnown
    <3>2. QED
      BY <1>9, <3>1, FinishedType DEF Finish
  <2>2. QED
    BY <1>9, <2>1 DEF Finish, TypeOK, WorkerPC
<1>10. CASE FinishWithoutRecord(r)
  BY <1>10, LeaveType DEF FinishWithoutRecord, TypeOK
<1>11. CASE FinishFails(r)
  BY <1>11, LeaveType, FaultType DEF FinishFails, TypeOK
<1>12. CASE Publish(r)
  <2>1. /\ local' \in [Record -> Row]
        /\ sent' \subseteq MainRow
        /\ mainId' \in Nat
    BY <1>12, InsertAndMarkType DEF Publish, TypeOK
  <2>2. main' \subseteq MainRow
    BY <1>12, NewMainRowType DEF Publish, TypeOK
  <2>3. obj' \in [Record -> Object]
    BY <1>12 DEF Publish, TypeOK, Object, Row
  <2>4. QED
    BY <1>12, <2>1, <2>2, <2>3 DEF Publish, TypeOK, WorkerPC
<1>13. CASE PublishDeferred(r)
  BY <1>13, LeaveType DEF PublishDeferred, TypeOK
<1>14. CASE PublishFails(r)
  BY <1>14, LeaveType, FaultType DEF PublishFails, TypeOK
<1>15. CASE CleanMain(r)
  BY <1>15, LeaveType, MainKeptShrinks DEF CleanMain, TypeOK
<1>16. CASE CleanMainFails(r)
  BY <1>16, LeaveType, FaultType DEF CleanMainFails, TypeOK
<1>17. CASE Crash(r)
  BY <1>17, LeaveType, FaultType DEF Crash, TypeOK
<1>18. QED
  BY <1>1, <1>2, <1>3, <1>4, <1>5, <1>6, <1>7, <1>8, <1>9, <1>10, <1>11,
     <1>12, <1>13, <1>14, <1>15, <1>16, <1>17 DEF WorkerStep

\* So does every step of a maintenance run.
LEMMA MaintType ==
    ASSUME TypeOK, NEW m \in Maintainer, MaintRun(m) \/ MaintAbort(m)
    PROVE  TypeOK'
<1> USE DEF tables, worker, MGoto
<1>1. CASE MaintStart(m)
  BY <1>1 DEF MaintStart, TypeOK, MaintPC
<1>2. CASE MaintTimeout(m)
  <2>1. PICK r \in mtodo[m] :
          /\ mtodo' = [mtodo EXCEPT ![m] = @ \ {r}]
          /\ \/ UpdateRecord(r, "fail")
             \/ ~ Exists(r) /\ UNCHANGED <<tables, faults>>
             \/ Exists(r) /\ Fault /\ UNCHANGED tables
    BY <1>2 DEF MaintTimeout
  <2>2. r \in Record
    BY DEF TypeOK
  <2>3. TablesTypeOK'
    BY <2>1, <2>2, UpdateRecordType, FaultType DEF TablesTypeOK, TypeOK, Terminal
  <2>4. QED
    BY <1>2, <2>1, <2>3 DEF MaintTimeout, TablesTypeOK, TypeOK
<1>3. CASE MaintRetryStart(m)
  BY <1>3 DEF MaintRetryStart, TypeOK, MaintPC
<1>4. CASE MaintRetry(m)
  <2>1. PICK r \in mtodo[m] :
          /\ Publishable(local, r)
          /\ mtodo' = [mtodo EXCEPT ![m] = @ \ {r}]
          /\ InsertAndMark(local, r)
          /\ main' = main \cup {NewMainRow(local, r)}
          /\ mgroup' = [mgroup EXCEPT ![m] = local[r].ident]
    BY <1>4 DEF MaintRetry
  <2>2. r \in Record /\ local \in [Record -> Row]
    BY DEF TypeOK
  <2>3. /\ local' \in [Record -> Row]
        /\ sent' \subseteq MainRow
        /\ mainId' \in Nat
    BY <2>1, <2>2, InsertAndMarkType
  <2>4. main' \subseteq MainRow
    BY <2>1, <2>2, NewMainRowType DEF TypeOK
  <2>5. mgroup' \in [Maintainer -> Identity]
    BY <2>1, <2>2 DEF TypeOK, Row
  <2>6. QED
    BY <1>4, <2>1, <2>3, <2>4, <2>5 DEF MaintRetry, TypeOK, MaintPC
<1>5. CASE MaintRetrySkip(m)
  BY <1>5, FaultType DEF MaintRetrySkip, TypeOK
<1>6. CASE MaintClean(m)
  BY <1>6, FaultType, MainKeptShrinks DEF MaintClean, TypeOK, MaintPC, Identity
<1>7. CASE MaintRetryDone(m)
  BY <1>7 DEF MaintRetryDone, TypeOK, MaintPC
<1>8. CASE MaintDays(m)
  BY <1>8 DEF MaintDays, Delete, NoRow, TypeOK, Row, MaintPC, Identity
<1>9. CASE MaintGroups(m)
  BY <1>9 DEF MaintGroups, TypeOK, Row, MaintPC
<1>10. CASE MaintCount(m)
  BY <1>10 DEF MaintCount, Newest, InGroup, TypeOK, MaintPC
<1>11. CASE MaintPrune(m)
  BY <1>11 DEF MaintPrune, Delete, NoRow, TypeOK, Row, MaintPC, Identity
<1>12. CASE MaintDone(m)
  BY <1>12 DEF MaintDone, TypeOK, MaintPC
<1>13. CASE MaintAbort(m)
  BY <1>13, FaultType DEF MaintAbort, TypeOK, MaintPC, Identity
<1>14. QED
  BY <1>1, <1>2, <1>3, <1>4, <1>5, <1>6, <1>7, <1>8, <1>9, <1>10, <1>11,
     <1>12, <1>13 DEF MaintRun

\* Only its own worker moves pc[r] and obj[r].
LEMMA OutcomeKnownStep ==
    ASSUME TypeOK, OutcomeKnown, [Next]_vars
    PROVE  OutcomeKnown'
<1> USE DEF OutcomeKnown, worker
<1>1. ASSUME NEW r \in Record, WorkerStep(r) PROVE OutcomeKnown'
  <2> USE <1>1 DEF TypeOK, Goto, Object
  <2>1. CASE Start(r)
    BY <2>1 DEF Start
  <2>2. CASE Insert(r)
    BY <2>2 DEF Insert
  <2>3. CASE InsertFails(r)
    BY <2>3 DEF InsertFails, Leave
  <2>4. CASE Raises(r)
    BY <2>4 DEF Raises
  <2>5. CASE Returns(r)
    BY <2>5 DEF Returns
  <2>6. CASE ReturnsInstance(r)
    <3>1. PICK o \in {"pending", "success", "fail"}, s \in Scheduler :
            obj' = [obj EXCEPT ![r] = [@ EXCEPT !.outcome = o, !.ident = s]]
      BY <2>6 DEF ReturnsInstance
    <3>2. obj'[r].outcome = o
      BY <3>1
    <3>3. \A q \in Record : q # r => obj'[q] = obj[q] /\ pc'[q] = pc[q]
      BY <2>6, <3>1 DEF ReturnsInstance
    <3>4. QED
      BY <3>2, <3>3
  <2>7. CASE Metadata(r) \/ MetadataFails(r)
    BY <2>7 DEF Metadata, MetadataFails
  <2>8. CASE Finish(r)
    BY <2>8 DEF Finish
  <2>9. CASE Publish(r)
    BY <2>9 DEF Publish
  <2>10. CASE \/ FinishWithoutRecord(r) \/ FinishFails(r) \/ PublishDeferred(r)
              \/ PublishFails(r) \/ CleanMain(r) \/ CleanMainFails(r) \/ Crash(r)
    BY <2>10 DEF FinishWithoutRecord, FinishFails, PublishDeferred, PublishFails,
                 CleanMain, CleanMainFails, Crash, Leave
  <2>11. QED
    BY <2>1, <2>2, <2>3, <2>4, <2>5, <2>6, <2>7, <2>8, <2>9, <2>10 DEF WorkerStep
<1>2. ASSUME NEW r \in Record, Callback(r) PROVE OutcomeKnown'
  BY <1>2 DEF Callback
<1>3. ASSUME NEW m \in Maintainer, MaintRun(m) \/ MaintAbort(m) PROVE OutcomeKnown'
  BY <1>3 DEF MaintRun, MaintStart, MaintTimeout, MaintRetryStart, MaintRetry,
              MaintRetrySkip, MaintClean, MaintRetryDone, MaintDays, MaintGroups,
              MaintCount, MaintPrune, MaintDone, MaintAbort
<1>4. CASE Tick
  BY <1>4 DEF Tick
<1>5. CASE UNCHANGED vars
  BY <1>5 DEF vars
<1>6. QED
  BY <1>1, <1>2, <1>3, <1>4, <1>5 DEF Next

Typed == TypeOK /\ OutcomeKnown

\* The initial state is well typed.
LEMMA TypedInit == Init => Typed
BY CountsAssumption, SchedulerAssumption
DEF Init, Typed, TypeOK, OutcomeKnown, NoRow, NoObject, Row, Object, Open,
    Terminal, WorkerPC, MaintPC, Identity

\* Every step keeps the state well typed.
LEMMA TypedStep == Typed /\ [Next]_vars => Typed'
<1> SUFFICES ASSUME TypeOK, OutcomeKnown, [Next]_vars PROVE TypeOK'
  BY OutcomeKnownStep DEF Typed
<1>1. ASSUME NEW r \in Record, WorkerStep(r) PROVE TypeOK'
  BY <1>1, WorkerType
<1>2. ASSUME NEW r \in Record, Callback(r) PROVE TypeOK'
  <2>1. TablesTypeOK'
    BY <1>2, UpdateRecordType DEF Callback
  <2>2. QED
    BY <1>2, <2>1 DEF Callback, TablesTypeOK, TypeOK, worker, maint
<1>3. ASSUME NEW m \in Maintainer, MaintRun(m) \/ MaintAbort(m) PROVE TypeOK'
  BY <1>3, MaintType
<1>4. CASE Tick
  BY <1>4, CountsAssumption DEF Tick, TypeOK, tables, worker, maint
<1>5. CASE UNCHANGED vars
  BY <1>5 DEF vars, TypeOK
<1>6. QED
  BY <1>1, <1>2, <1>3, <1>4, <1>5 DEF Next

\* Every reachable state is well typed: in particular nothing but a terminal
\* outcome is ever inserted into the main table.
THEOREM TypeCorrect == Spec => []TypeOK
<1>1. Typed => TypeOK
  BY DEF Typed
<1>2. QED
  BY <1>1, TypedInit, TypedStep, PTL DEF Spec

-----------------------------------------------------------------------------
(* Every step has one of five effects on what the safety properties look at: *)
(* the status and the marker of the rows, and the committed INSERTs.         *)

Same(q) ==
    /\ local'[q].status = local[q].status
    /\ local'[q].synced = local[q].synced

OthersSame(r) == \A q \in Record \ {r} : Same(q)

IdsKept ==
    \A r \in Record :
      /\ obj'[r].pk = obj[r].pk
      /\ pc'[r] \in {"idle", "insert"} => pc[r] \in {"idle", "insert"}

Quiet == (\A q \in Record : Same(q)) /\ sent' = sent /\ IdsKept

Created(r) ==
    /\ pc[r] = "insert" /\ pc'[r] = "business" /\ obj'[r].pk
    /\ local'[r].status = "running" /\ ~ local'[r].synced
    /\ \A q \in Record \ {r} :
         Same(q) /\ pc'[q] = pc[q] /\ obj'[q] = obj[q]
    /\ sent' = sent

Closed(r) ==
    /\ IsOpen(r)
    /\ local'[r].status \in {"pending", "success", "fail"}
    /\ local'[r].synced = local[r].synced
    /\ OthersSame(r) /\ sent' = sent /\ IdsKept

Delivered(r) ==
    /\ Shared
    /\ IsOpen(r) \/ (IsTerminal(r) /\ local'[r].status = local[r].status)
    /\ ~ local[r].synced
    /\ local'[r].status \in Terminal /\ local'[r].synced
    /\ OthersSame(r) /\ IdsKept
    /\ \E x \in MainRow : /\ x.rec = r /\ x.result = local'[r].status
                          /\ sent' = sent \cup {x}

Dropped(S) ==
    /\ \A q \in S : Eligible(q) /\ local'[q].status = "absent"
    /\ \A q \in Record \ S : Same(q)
    /\ sent' = sent /\ IdsKept

Effect ==
    \/ Quiet
    \/ \E r \in Record : Created(r) \/ Closed(r) \/ Delivered(r)
    \/ \E S \in SUBSET Record : Dropped(S)

\* finish_record's UPDATE by itself closes an open record or does nothing.
LEMMA FinishedEffect ==
    ASSUME TypeOK, NEW r \in Record, NEW status \in {"pending", "success", "fail"},
           local' = Finished(r, status), sent' = sent, IdsKept
    PROVE  Quiet \/ Closed(r)
<1>1. CASE IsOpen(r)
  <2>1. local'[r] = [local[r] EXCEPT !.status = status, !.ended = TRUE]
    BY <1>1 DEF Finished, TypeOK
  <2>2. \A q \in Record \ {r} : local'[q] = local[q]
    BY <1>1 DEF Finished, TypeOK
  <2>3. local[r] \in Row
    BY DEF TypeOK
  <2>4. local'[r].status = status /\ local'[r].synced = local[r].synced
    BY <2>1, <2>3 DEF Row
  <2>5. QED
    BY <1>1, <2>2, <2>4 DEF Closed, OthersSame, Same
<1>2. CASE ~ IsOpen(r)
  BY <1>2 DEF Finished, Quiet, Same
<1>3. QED
  BY <1>1, <1>2

\* The INSERT with its marker delivers the record, whether the status it
\* publishes was stored before or by the same transaction.
LEMMA ProjectedEffect ==
    ASSUME TypeOK, NEW r \in Record, NEW tbl,
           \/ tbl = local
           \/ \E status \in Terminal : tbl = Finished(r, status),
           Publishable(tbl, r), InsertAndMark(tbl, r), IdsKept
    PROVE  Delivered(r)
<1>1. tbl \in [Record -> Row]
  BY FinishedType DEF TypeOK, Terminal
<1>2. /\ tbl[r].synced = local[r].synced
      /\ IsOpen(r) \/ (IsTerminal(r) /\ tbl[r].status = local[r].status)
      /\ \A q \in Record \ {r} : tbl[q] = local[q]
  <2>1. CASE tbl = local
    BY <2>1 DEF Publishable, IsTerminal
  <2>2. CASE \E status \in Terminal : tbl = Finished(r, status)
    <3>1. PICK status \in Terminal : tbl = Finished(r, status)
      BY <2>2
    <3>2. CASE IsOpen(r)
      <4>1. tbl[r] = [local[r] EXCEPT !.status = status, !.ended = TRUE]
        BY <3>1, <3>2 DEF Finished, TypeOK
      <4>2. \A q \in Record \ {r} : tbl[q] = local[q]
        BY <3>1, <3>2 DEF Finished, TypeOK
      <4>3. local[r] \in Row
        BY DEF TypeOK
      <4>4. tbl[r].synced = local[r].synced
        BY <4>1, <4>3 DEF Row
      <4>5. QED
        BY <3>2, <4>2, <4>4
    <3>3. CASE ~ IsOpen(r)
      BY <3>1, <3>3 DEF Finished, Publishable, IsTerminal
    <3>4. QED
      BY <3>2, <3>3
  <2>3. QED
    BY <2>1, <2>2
<1>3. /\ local'[r].status = tbl[r].status /\ local'[r].synced
      /\ \A q \in Record \ {r} : local'[q] = tbl[q]
  BY <1>1 DEF InsertAndMark, Row
<1>4. NewMainRow(tbl, r) \in MainRow
  BY <1>1, NewMainRowType
<1>5. /\ NewMainRow(tbl, r).rec = r
      /\ NewMainRow(tbl, r).result = local'[r].status
      /\ sent' = sent \cup {NewMainRow(tbl, r)}
  BY <1>3 DEF NewMainRow, InsertAndMark
<1>6. QED
  BY <1>2, <1>3, <1>4, <1>5 DEF Delivered, Publishable, OthersSame, Same

\* update_record closes, delivers, does both in one step, or does nothing.
LEMMA UpdateRecordEffect ==
    ASSUME TypeOK, NEW r \in Record, NEW status \in Terminal,
           UpdateRecord(r, status), IdsKept
    PROVE  Quiet \/ Closed(r) \/ Delivered(r)
<1> DEFINE tbl == Finished(r, status)
<1>1. CASE local' = tbl /\ sent' = sent
  BY <1>1, FinishedEffect DEF Terminal
<1>2. CASE Publishable(tbl, r) /\ InsertAndMark(tbl, r)
  BY <1>2, ProjectedEffect
<1>3. QED
  BY <1>1, <1>2 DEF UpdateRecord, ProjectWithin

\* Retention deletes eligible rows and nothing else.
LEMMA DeleteEffect ==
    ASSUME TypeOK, NEW S \in SUBSET Record, \A q \in S : Eligible(q),
           Delete(S), sent' = sent, IdsKept
    PROVE  Dropped(S)
BY DEF Dropped, Delete, NoRow, Same, TypeOK

\* Leaving the wrapper forgets everything but the id.
LEMMA LeaveKeepsIds ==
    ASSUME TypeOK, NEW r \in Record, Leave(r)
    PROVE  IdsKept
<1>1. obj'[r].pk = obj[r].pk
  BY DEF Leave, NoObject, TypeOK
<1>2. \A q \in Record \ {r} : obj'[q] = obj[q] /\ pc'[q] = pc[q]
  BY DEF Leave, TypeOK
<1>3. pc'[r] = "done"
  BY DEF Leave, TypeOK
<1>4. QED
  BY <1>1, <1>2, <1>3 DEF IdsKept

\* A worker's step.
LEMMA WorkerEffect ==
    ASSUME TypeOK, OutcomeKnown, NEW r \in Record, WorkerStep(r)
    PROVE  Effect
<1> USE DEF tables, maint, Goto
<1>1. CASE Insert(r)
  <2>1. local'[r].status = "running" /\ ~ local'[r].synced
    BY <1>1 DEF Insert, TypeOK
  <2>2. pc[r] = "insert" /\ pc'[r] = "business" /\ obj'[r].pk
    BY <1>1 DEF Insert, TypeOK, Object
  <2>3. \A q \in Record \ {r} :
          local'[q] = local[q] /\ pc'[q] = pc[q] /\ obj'[q] = obj[q]
    BY <1>1 DEF Insert, TypeOK
  <2>4. Created(r)
    BY <1>1, <2>1, <2>2, <2>3 DEF Created, Same, Insert
  <2>5. QED
    BY <2>4 DEF Effect
<1>2. CASE ~ Insert(r)
  <2>1. IdsKept
    <3> USE <1>2 DEF IdsKept, TypeOK, Object
    <3>1. CASE Start(r)
      <4>1. PICK s \in Resolved :
              obj' = [obj EXCEPT ![r] = [@ EXCEPT !.ident = s, !.occurred = clock]]
        BY <3>1 DEF Start
      <4>2. obj'[r].pk = obj[r].pk
        BY <4>1
      <4>3. \A q \in Record \ {r} : obj'[q] = obj[q] /\ pc'[q] = pc[q]
        BY <3>1, <4>1 DEF Start
      <4>4. QED
        BY <3>1, <4>2, <4>3 DEF Start
    <3>2. CASE ReturnsInstance(r)
      <4>1. PICK o \in {"pending", "success", "fail"}, s \in Scheduler :
              obj' = [obj EXCEPT ![r] = [@ EXCEPT !.outcome = o, !.ident = s]]
        BY <3>2 DEF ReturnsInstance
      <4>2. obj'[r].pk = obj[r].pk
        BY <4>1
      <4>3. \A q \in Record \ {r} : obj'[q] = obj[q] /\ pc'[q] = pc[q]
        BY <3>2, <4>1 DEF ReturnsInstance
      <4>4. pc'[r] \notin {"idle", "insert"}
        BY <3>2 DEF ReturnsInstance
      <4>5. QED
        BY <4>2, <4>3, <4>4
    <3>3. CASE Raises(r) \/ Returns(r)
      BY <3>3 DEF Raises, Returns
    <3>4. CASE Metadata(r) \/ MetadataFails(r) \/ Finish(r)
      BY <3>4 DEF Metadata, MetadataFails, Finish
    <3>5. CASE Publish(r)
      BY <3>5 DEF Publish
    <3>6. CASE InsertFails(r)
      <4>1. CASE Leave(r)
        BY <4>1, LeaveKeepsIds
      <4>2. CASE ~ Leave(r)
        BY <3>6, <4>2 DEF InsertFails
      <4>3. QED
        BY <4>1, <4>2
    <3>7. CASE \/ FinishWithoutRecord(r) \/ FinishFails(r) \/ PublishDeferred(r)
               \/ PublishFails(r) \/ CleanMain(r) \/ CleanMainFails(r) \/ Crash(r)
      BY <3>7, LeaveKeepsIds
      DEF FinishWithoutRecord, FinishFails, PublishDeferred, PublishFails,
          CleanMain, CleanMainFails, Crash
    <3>8. QED
      BY <1>2, <3>1, <3>2, <3>3, <3>4, <3>5, <3>6, <3>7 DEF WorkerStep
  <2>2. CASE Metadata(r)
    <3>1. \A q \in Record : Same(q)
      BY <2>2 DEF Metadata, Same, TypeOK, Row
    <3>2. QED
      BY <2>1, <2>2, <3>1 DEF Effect, Quiet, Metadata
  <2>3. CASE Finish(r)
    <3>1. obj[r].outcome \in {"pending", "success", "fail"}
      BY <2>3 DEF Finish, TypeOK, Object, OutcomeKnown
    <3>2. QED
      BY <2>1, <2>3, <3>1, FinishedEffect DEF Effect, Finish
  <2>4. CASE Publish(r)
    BY <2>1, <2>4, ProjectedEffect DEF Effect, Publish
  <2>5. CASE ~ (Metadata(r) \/ Finish(r) \/ Publish(r))
    <3>1. local' = local /\ sent' = sent
      BY <1>2, <2>5
      DEF WorkerStep, Start, InsertFails, Raises, Returns, ReturnsInstance,
          MetadataFails, FinishWithoutRecord, FinishFails, PublishDeferred,
          PublishFails, CleanMain, CleanMainFails, Crash
    <3>2. QED
      BY <2>1, <3>1 DEF Effect, Quiet, Same
  <2>6. QED
    BY <2>2, <2>3, <2>4, <2>5
<1>3. QED
  BY <1>1, <1>2

\* A maintenance step.
LEMMA MaintEffect ==
    ASSUME TypeOK, NEW m \in Maintainer, MaintRun(m) \/ MaintAbort(m)
    PROVE  Effect
<1> USE DEF tables, worker, MGoto
<1>1. IdsKept
  BY DEF IdsKept, MaintRun, MaintStart, MaintTimeout, MaintRetryStart, MaintRetry,
         MaintRetrySkip, MaintClean, MaintRetryDone, MaintDays, MaintGroups,
         MaintCount, MaintPrune, MaintDone, MaintAbort
<1>2. CASE MaintTimeout(m)
  <2>1. PICK r \in mtodo[m] :
          \/ UpdateRecord(r, "fail")
          \/ UNCHANGED tables
    BY <1>2 DEF MaintTimeout
  <2>2. r \in Record
    BY DEF TypeOK
  <2>3. CASE UpdateRecord(r, "fail")
    BY <1>1, <2>2, <2>3, UpdateRecordEffect DEF Effect, Terminal
  <2>4. CASE UNCHANGED tables
    BY <1>1, <2>4 DEF Effect, Quiet, Same
  <2>5. QED
    BY <2>1, <2>3, <2>4
<1>3. CASE MaintRetry(m)
  <2>1. PICK r \in mtodo[m] : Publishable(local, r) /\ InsertAndMark(local, r)
    BY <1>3 DEF MaintRetry
  <2>2. r \in Record
    BY DEF TypeOK
  <2>3. QED
    BY <1>1, <2>1, <2>2, ProjectedEffect DEF Effect
<1>4. CASE MaintDays(m)
  <2> DEFINE S == {r \in Record : Eligible(r) /\ local[r].occurred + KeepAge < mnow[m]}
  <2>1. Dropped(S)
    BY <1>1, <1>4, DeleteEffect DEF MaintDays
  <2>2. QED
    BY <2>1 DEF Effect
<1>5. CASE MaintPrune(m)
  <2> DEFINE S == InGroup(mgroup[m]) \ mkeep[m]
  <2>1. S \in SUBSET Record /\ \A q \in S : Eligible(q)
    BY DEF InGroup
  <2>2. Dropped(S)
    BY <1>1, <1>5, <2>1, DeleteEffect DEF MaintPrune
  <2>3. QED
    BY <2>1, <2>2 DEF Effect
<1>6. CASE ~ (MaintTimeout(m) \/ MaintRetry(m) \/ MaintDays(m) \/ MaintPrune(m))
  <2>1. local' = local /\ sent' = sent
    BY <1>6 DEF MaintRun, MaintStart, MaintRetryStart, MaintRetrySkip, MaintClean,
                MaintRetryDone, MaintGroups, MaintCount, MaintDone, MaintAbort
  <2>2. QED
    BY <1>1, <2>1 DEF Effect, Quiet, Same
<1>7. QED
  BY <1>2, <1>3, <1>4, <1>5, <1>6

\* Every step.
LEMMA StepEffect ==
    ASSUME TypeOK, OutcomeKnown, [Next]_vars
    PROVE  Effect
<1>1. ASSUME NEW r \in Record, Callback(r) PROVE Effect
  <2>1. IdsKept
    BY <1>1 DEF Callback, IdsKept, worker
  <2>2. QED
    BY <1>1, <2>1, UpdateRecordEffect DEF Callback, Effect
<1>2. CASE Tick
  BY <1>2 DEF Tick, Effect, Quiet, Same, IdsKept, tables, worker
<1>3. CASE UNCHANGED vars
  BY <1>3 DEF vars, Effect, Quiet, Same, IdsKept
<1>4. QED
  BY <1>1, <1>2, <1>3, WorkerEffect, MaintEffect DEF Next

-----------------------------------------------------------------------------
(* The safety properties. *)

Safety == IdsAreFresh /\ PublishOnce /\ MarkerIffSent /\ SentIsOutcome /\ NothingLost

\* The five effects preserve the conjunction of the safety properties.
LEMMA EffectSafe ==
    ASSUME TypeOK, Safety, Effect
    PROVE  Safety'
<1> USE DEF Safety, IdsAreFresh, PublishOnce, MarkerIffSent, SentIsOutcome,
            NothingLost, Exists, Sent
<1>1. CASE Quiet
  <2> USE <1>1 DEF Quiet, Same, IdsKept, TypeOK, MainRow
  <2>1. IdsAreFresh' /\ PublishOnce'
    OBVIOUS
  <2>2. MarkerIffSent'
    OBVIOUS
  <2>3. SentIsOutcome'
    OBVIOUS
  <2>4. NothingLost'
    OBVIOUS
  <2>5. QED
    BY <2>1, <2>2, <2>3, <2>4
<1>2. ASSUME NEW r \in Record, Created(r) PROVE Safety'
  <2> USE <1>2 DEF Created, Same, TypeOK, MainRow
  <2>1. ~ obj[r].pk /\ ~ Exists(r) /\ ~ Sent(r)
    OBVIOUS
  <2>2. IdsAreFresh'
    BY <2>1
  <2>3. PublishOnce' /\ MarkerIffSent' /\ SentIsOutcome'
    BY <2>1
  <2>4. NothingLost'
    BY <2>1
  <2>5. QED
    BY <2>2, <2>3, <2>4
<1>3. ASSUME NEW r \in Record, Closed(r) PROVE Safety'
  <2> USE <1>3 DEF Closed, OthersSame, Same, IdsKept, IsOpen, Open, TypeOK, MainRow
  <2>1. Exists(r) /\ ~ Sent(r)
    BY DEF Terminal
  <2>2. IdsAreFresh' /\ PublishOnce'
    BY <2>1
  <2>3. MarkerIffSent' /\ SentIsOutcome'
    BY <2>1
  <2>4. NothingLost'
    BY <2>1
  <2>5. QED
    BY <2>2, <2>3, <2>4
<1>4. ASSUME NEW r \in Record, Delivered(r) PROVE Safety'
  <2> USE <1>4 DEF Delivered, OthersSame, Same, IdsKept, IsOpen, IsTerminal, Open,
                   Terminal, TypeOK, MainRow
  <2>1. Exists(r) /\ ~ Sent(r) /\ Exists(r)'
    OBVIOUS
  <2>2. PICK x \in MainRow : /\ x.rec = r /\ x.result = local'[r].status
                             /\ sent' = sent \cup {x}
    OBVIOUS
  <2>3. \A q \in Record \ {r} : Sent(q)' <=> Sent(q)
    BY <2>2
  <2>4. Sent(r)'
    BY <2>2
  <2>5. IdsAreFresh'
    BY <2>1, <2>3
  <2>6. PublishOnce'
    BY <2>1, <2>2
  <2>7. MarkerIffSent'
    BY <2>3, <2>4
  <2>8. SentIsOutcome'
    BY <2>1, <2>2
  <2>9. NothingLost'
    BY <2>1, <2>3
  <2>10. QED
    BY <2>5, <2>6, <2>7, <2>8, <2>9
<1>5. ASSUME NEW S \in SUBSET Record, Dropped(S) PROVE Safety'
  <2> USE <1>5 DEF Dropped, Same, IdsKept, TypeOK, MainRow
  <2>1. \A q \in S : Exists(q) /\ (Shared => Sent(q))
    BY DEF Eligible, IsTerminal, Terminal
  <2>2. IdsAreFresh' /\ PublishOnce'
    BY <2>1
  <2>3. MarkerIffSent' /\ SentIsOutcome'
    BY <2>1
  <2>4. NothingLost'
    BY <2>1
  <2>5. QED
    BY <2>2, <2>3, <2>4
<1>6. QED
  BY <1>1, <1>2, <1>3, <1>4, <1>5 DEF Effect

\* IInv is inductive.
LEMMA Inductive == Spec => []IInv
<1>1. Init => IdsAreFresh /\ PublishOnce /\ MarkerIffSent /\ SentIsOutcome /\ NothingLost
  BY DEF Init, NoRow, NoObject, IdsAreFresh, PublishOnce, MarkerIffSent,
         SentIsOutcome, NothingLost, Exists, Sent
<1>2. Init => Typed /\ Safety
  BY <1>1, TypedInit DEF Safety
<1>3. Typed /\ Safety /\ [Next]_vars => (Typed /\ Safety)'
  BY TypedStep, StepEffect, EffectSafe DEF Typed
<1>4. Typed /\ Safety => IInv
  BY DEF Typed, Safety, IInv
<1>5. QED
  BY <1>2, <1>3, <1>4, PTL DEF Spec

\* No execution is ever inserted twice into the main table, for any number of
\* executions, callbacks and concurrent maintenance runs.
THEOREM NeverPublishedTwice == Spec => []PublishOnce
<1>1. IInv => PublishOnce
  BY DEF IInv
<1>2. QED
  BY <1>1, Inductive, PTL

\* The sync marker and the main INSERT are one fact: neither is ever durable
\* without the other, so that retrying is always right and never repeats.
THEOREM MarkerIsTrue == Spec => []MarkerIffSent
<1>1. IInv => MarkerIffSent
  BY DEF IInv
<1>2. QED
  BY <1>1, Inductive, PTL

\* The main project was told what the durable local record says, as long as
\* that record exists.
THEOREM MainAgreesWithLocal == Spec => []SentIsOutcome
<1>1. IInv => SentIsOutcome
  BY DEF IInv
<1>2. QED
  BY <1>1, Inductive, PTL

\* With shared recording, retention never deletes an outcome that did not
\* reach the main project.
THEOREM RetentionLosesNothing == Spec => []NothingLost
<1>1. IInv => NothingLost
  BY DEF IInv
<1>2. QED
  BY <1>1, Inductive, PTL

\* The first terminal status of a record is never replaced.
THEOREM FirstOutcomeIsFinal == Spec => FirstOutcomeStands
<1> DEFINE Keeps == \A r \in Record : IsTerminal(r) =>
                      local'[r].status \in {local[r].status, "absent"}
<1>1. IInv /\ [Next]_vars => [Keeps]_vars
  <2> SUFFICES ASSUME IInv, [Next]_vars, NEW r \in Record, IsTerminal(r)
               PROVE  local'[r].status \in {local[r].status, "absent"}
    OBVIOUS
  <2>1. Effect
    BY StepEffect DEF IInv
  <2>2. CASE Quiet
    BY <2>2 DEF Quiet, Same
  <2>3. ASSUME NEW q \in Record, Created(q)
        PROVE  local'[r].status \in {local[r].status, "absent"}
    <3>1. ~ Exists(q)
      BY <2>3 DEF Created, IInv, IdsAreFresh
    <3>2. r # q
      BY <3>1 DEF Exists, IsTerminal, Terminal
    <3>3. QED
      BY <2>3, <3>2 DEF Created, Same
  <2>4. ASSUME NEW q \in Record, Closed(q)
        PROVE  local'[r].status \in {local[r].status, "absent"}
    <3>1. r # q
      BY <2>4 DEF Closed, IsOpen, IsTerminal, Open, Terminal
    <3>2. QED
      BY <2>4, <3>1 DEF Closed, OthersSame, Same
  <2>5. ASSUME NEW q \in Record, Delivered(q)
        PROVE  local'[r].status \in {local[r].status, "absent"}
    BY <2>5 DEF Delivered, OthersSame, Same, IsOpen, IsTerminal, Open, Terminal
  <2>6. ASSUME NEW S \in SUBSET Record, Dropped(S)
        PROVE  local'[r].status \in {local[r].status, "absent"}
    BY <2>6 DEF Dropped, Same
  <2>7. QED
    BY <2>1, <2>2, <2>3, <2>4, <2>5, <2>6 DEF Effect
<1>2. QED
  BY <1>1, Inductive, PTL DEF Spec, FirstOutcomeStands

-----------------------------------------------------------------------------
(* The refinement: every step is a step of ExecutionOutcome or a stutter.    *)

outcomes   == [r \in Record |-> OutcomeOf(r)]
deliveries == [r \in Record |-> DeliveredOf(r)]

\* What was delivered for a record is the result in its only main row.
LEMMA DeliveredIsResult ==
    ASSUME TypeOK, PublishOnce, NEW x \in sent
    PROVE  DeliveredOf(x.rec) = x.result
<1>1. Sent(x.rec)
  BY DEF Sent
<1>2. \A y \in sent : y.rec = x.rec => y = x
  BY DEF PublishOnce
<1>3. (CHOOSE y \in sent : y.rec = x.rec) = x
  BY <1>2
<1>4. QED
  BY <1>1, <1>3 DEF DeliveredOf

\* A row with an unchanged status, under an unchanged id, has an unchanged outcome.
LEMMA SameOutcome ==
    ASSUME NEW r \in Record, Same(r), obj'[r].pk = obj[r].pk
    PROVE  OutcomeOf(r)' = OutcomeOf(r)
BY DEF OutcomeOf, Exists, IsOpen, Same

\* As long as no INSERT commits nothing is delivered.
LEMMA SameDelivered ==
    ASSUME sent' = sent
    PROVE  deliveries' = deliveries
<1>1. \A r \in Record : DeliveredOf(r)' = DeliveredOf(r)
  BY DEF DeliveredOf, Sent
<1>2. QED
  BY <1>1 DEF deliveries

\* The abstract step that each effect is.
LEMMA EffectRefines ==
    ASSUME IInv, IInv', Effect
    PROVE  [Abstract!Next]_(Abstract!vars)
<1> USE DEF outcomes, deliveries
<1>1. CASE Quiet
  <2>1. \A r \in Record : OutcomeOf(r)' = OutcomeOf(r)
    BY <1>1, SameOutcome DEF Quiet, IdsKept
  <2>2. outcomes' = outcomes /\ deliveries' = deliveries
    BY <1>1, <2>1, SameDelivered DEF Quiet
  <2>3. QED
    BY <2>2 DEF Abstract!vars
<1>2. ASSUME NEW r \in Record, Created(r) PROVE Abstract!Next
  <2>1. ~ obj[r].pk /\ ~ Exists(r)
    BY <1>2 DEF Created, IInv, IdsAreFresh
  <2>2. OutcomeOf(r) = "none" /\ OutcomeOf(r)' = "open"
    BY <1>2, <2>1 DEF Created, OutcomeOf, Exists, IsOpen, Open
  <2>3. \A q \in Record \ {r} : OutcomeOf(q)' = OutcomeOf(q)
    BY <1>2, SameOutcome DEF Created
  <2>4. outcomes' = [outcomes EXCEPT ![r] = "open"] /\ deliveries' = deliveries
    BY <1>2, <2>2, <2>3, SameDelivered DEF Created
  <2>5. Abstract!Create(r)
    BY <2>2, <2>4 DEF Abstract!Create
  <2>6. QED
    BY <2>5 DEF Abstract!Next
<1>3. ASSUME NEW r \in Record, Closed(r) PROVE [Abstract!Next]_(Abstract!vars)
  <2>1. OutcomeOf(r) = "open"
    BY <1>3 DEF Closed, OutcomeOf, Exists, IsOpen, Open
  <2>2. \A q \in Record \ {r} : OutcomeOf(q)' = OutcomeOf(q)
    BY <1>3, SameOutcome DEF Closed, OthersSame, IdsKept
  <2>3. deliveries' = deliveries
    BY <1>3, SameDelivered DEF Closed
  <2>4. CASE local'[r].status = "pending"
    <3>1. OutcomeOf(r)' = "open"
      BY <2>4 DEF OutcomeOf, Exists, IsOpen, Open
    <3>2. outcomes' = outcomes
      BY <2>1, <2>2, <3>1
    <3>3. QED
      BY <2>3, <3>2 DEF Abstract!vars
  <2>5. CASE local'[r].status \in Terminal
    <3>1. OutcomeOf(r)' = local'[r].status
      BY <2>5 DEF OutcomeOf, Exists, IsOpen, Open, Terminal
    <3>2. outcomes' = [outcomes EXCEPT ![r] = local'[r].status]
      BY <2>2, <3>1
    <3>3. Abstract!Decide(r, local'[r].status)
      BY <2>1, <2>3, <3>2 DEF Abstract!Decide
    <3>4. QED
      BY <2>5, <3>3 DEF Abstract!Next, Abstract!Outcome, Terminal
  <2>6. QED
    BY <1>3, <2>4, <2>5 DEF Closed, Terminal
<1>4. ASSUME NEW r \in Record, Delivered(r) PROVE Abstract!Next
  <2>1. PICK x \in MainRow : /\ x.rec = r /\ x.result = local'[r].status
                             /\ sent' = sent \cup {x}
    BY <1>4 DEF Delivered
  <2>2. /\ Shared /\ local'[r].status \in Terminal
        /\ IsOpen(r) \/ (IsTerminal(r) /\ local'[r].status = local[r].status)
        /\ Exists(r) /\ ~ Sent(r)
    BY <1>4 DEF Delivered, IInv, MarkerIffSent, Exists, IsOpen, IsTerminal,
                Open, Terminal
  <2>3. DeliveredOf(r) = "none" /\ DeliveredOf(r)' = local'[r].status
    <3>1. DeliveredOf(r) = "none"
      BY <2>2 DEF DeliveredOf
    <3>2. (\A y \in sent : y.rec = x.rec => y = x)'
      BY <2>1 DEF IInv, PublishOnce
    <3>3. Sent(r)' /\ (CHOOSE y \in sent' : y.rec = r) = x
      BY <2>1, <3>2 DEF Sent
    <3>4. QED
      BY <2>1, <3>1, <3>3 DEF DeliveredOf
  <2>4. \A q \in Record \ {r} : DeliveredOf(q)' = DeliveredOf(q)
    <3> SUFFICES ASSUME NEW q \in Record \ {r}
                 PROVE  DeliveredOf(q)' = DeliveredOf(q)
      OBVIOUS
    <3>1. Sent(q)' <=> Sent(q)
      BY <2>1 DEF Sent
    <3>2. ASSUME NEW y \in sent, y.rec = q
          PROVE  DeliveredOf(q)' = DeliveredOf(q)
      <4>1. DeliveredOf(q) = y.result
        BY <3>2, DeliveredIsResult DEF IInv
      <4>2. (CHOOSE z \in sent' : z.rec = q) = y
        BY <2>1, <3>2 DEF IInv, PublishOnce
      <4>3. Sent(q)'
        BY <3>1, <3>2 DEF Sent
      <4>4. QED
        BY <4>1, <4>2, <4>3 DEF DeliveredOf
    <3>3. CASE ~ Sent(q)
      BY <3>1, <3>3 DEF DeliveredOf
    <3>4. QED
      BY <3>2, <3>3 DEF Sent
  <2>5. deliveries' = [deliveries EXCEPT ![r] = local'[r].status]
    BY <2>3, <2>4
  <2>6. \A q \in Record \ {r} : OutcomeOf(q)' = OutcomeOf(q)
    BY <1>4, SameOutcome DEF Delivered, OthersSame, IdsKept
  <2>7. OutcomeOf(r)' = local'[r].status
    BY <2>2 DEF OutcomeOf, Exists, IsOpen, Open, Terminal
  <2>8. CASE IsOpen(r)
    <3>1. OutcomeOf(r) = "open"
      BY <2>2, <2>8 DEF OutcomeOf
    <3>2. outcomes' = [outcomes EXCEPT ![r] = local'[r].status]
      BY <2>6, <2>7
    <3>3. Abstract!DecideAndDeliver(r, local'[r].status)
      BY <2>2, <2>3, <2>5, <3>1, <3>2 DEF Abstract!DecideAndDeliver
    <3>4. QED
      BY <2>2, <3>3 DEF Abstract!Next, Abstract!Outcome, Terminal
  <2>9. CASE ~ IsOpen(r) /\ IsTerminal(r) /\ local'[r].status = local[r].status
    <3>1. OutcomeOf(r) = local'[r].status
      BY <2>2, <2>9 DEF OutcomeOf
    <3>2. outcomes' = outcomes
      BY <2>6, <2>7, <3>1
    <3>3. Abstract!Deliver(r)
      BY <2>2, <2>3, <2>5, <3>1, <3>2 DEF Abstract!Deliver, Abstract!Outcome, Terminal
    <3>4. QED
      BY <3>3 DEF Abstract!Next
  <2>10. QED
    BY <2>2, <2>8, <2>9
<1>5. ASSUME NEW S \in SUBSET Record, Dropped(S) PROVE Abstract!Next
  <2>1. \A q \in S : /\ OutcomeOf(q) \in Terminal
                     /\ OutcomeOf(q)' = "forgotten"
                     /\ Shared => Sent(q)
    <3> SUFFICES ASSUME NEW q \in S
                 PROVE  /\ OutcomeOf(q) \in Terminal
                        /\ OutcomeOf(q)' = "forgotten"
                        /\ Shared => Sent(q)
      OBVIOUS
    <3>1. Exists(q) /\ ~ IsOpen(q) /\ local[q].status \in Terminal
      BY <1>5 DEF Dropped, Eligible, IsTerminal, Exists, IsOpen, Open, Terminal
    <3>2. Shared => Sent(q)
      BY <1>5, <3>1 DEF Dropped, Eligible, IInv, MarkerIffSent
    <3>3. obj[q].pk /\ obj'[q].pk
      BY <1>5, <3>1 DEF Dropped, IdsKept, IInv, IdsAreFresh
    <3>4. OutcomeOf(q)' = "forgotten"
      BY <1>5, <3>3 DEF Dropped, OutcomeOf, Exists
    <3>5. OutcomeOf(q) \in Terminal
      BY <3>1 DEF OutcomeOf
    <3>6. QED
      BY <3>2, <3>4, <3>5
  <2>2. \A q \in S : Shared => DeliveredOf(q) # "none"
    <3> SUFFICES ASSUME NEW q \in S, Shared PROVE DeliveredOf(q) # "none"
      OBVIOUS
    <3>1. PICK x \in sent : x.rec = q
      BY <2>1 DEF Sent
    <3>2. x.result \in Terminal
      BY DEF IInv, TypeOK, MainRow
    <3>3. QED
      BY <3>1, <3>2, DeliveredIsResult DEF IInv, Terminal
  <2>3. \A q \in Record \ S : OutcomeOf(q)' = OutcomeOf(q)
    BY <1>5, SameOutcome DEF Dropped, IdsKept
  <2>4. outcomes' = [q \in Record |-> IF q \in S THEN "forgotten" ELSE outcomes[q]]
    BY <2>1, <2>3
  <2>5. deliveries' = deliveries
    BY <1>5, SameDelivered DEF Dropped
  <2>6. Abstract!Forget(S)
    BY <2>1, <2>2, <2>4, <2>5 DEF Abstract!Forget, Abstract!Outcome, Terminal
  <2>7. QED
    BY <2>6 DEF Abstract!Next
<1>6. QED
  BY <1>1, <1>2, <1>3, <1>4, <1>5 DEF Effect

\* Workers, agents and maintenance together implement the abstract promise:
\* decided once, delivered once and unchanged, forgotten only when delivered.
THEOREM RecordsImplementOutcome == Spec => Implements
<1>1. Init => Abstract!Init
  BY DEF Init, NoRow, NoObject, Abstract!Init, OutcomeOf, DeliveredOf, Exists, Sent
<1>2. IInv /\ IInv' /\ [Next]_vars => [Abstract!Next]_(Abstract!vars)
  BY StepEffect, EffectRefines DEF IInv
<1>3. QED
  BY <1>1, <1>2, Inductive, PTL DEF Spec, Implements, Abstract!Spec

-----------------------------------------------------------------------------
(* The bound of the main table.                                              *)

\* A finite set that differs from another in at most one element.
LEMMA OneApart ==
    ASSUME NEW S, NEW T, NEW x, IsFiniteSet(S), T \ {x} = S \ {x}
    PROVE  /\ IsFiniteSet(T)
           /\ Cardinality(S) \in Nat /\ Cardinality(T) \in Nat
           /\ Cardinality(T) + 1 >= Cardinality(S)
           /\ x \notin S \/ x \in T => Cardinality(T) >= Cardinality(S)
           /\ x \notin S /\ x \in T => Cardinality(T) >= Cardinality(S) + 1
<1> DEFINE U == S \ {x}
<1>1. IsFiniteSet(U)
      /\ Cardinality(U) = IF x \in S THEN Cardinality(S) - 1 ELSE Cardinality(S)
  BY FS_RemoveElement
<1>2. Cardinality(S) \in Nat /\ Cardinality(U) \in Nat
  BY <1>1, FS_CardinalityType
<1>3. CASE x \in T
  <2>1. T = U \cup {x}
    BY <1>3
  <2>2. IsFiniteSet(T) /\ Cardinality(T) = Cardinality(U) + 1
    BY <1>1, <2>1, FS_AddElement
  <2> HIDE DEF U
  <2>3. QED
    BY <1>1, <1>2, <1>3, <2>2
<1>4. CASE x \notin T
  <2>1. T = U
    BY <1>4
  <2> HIDE DEF U
  <2>2. QED
    BY <1>1, <1>2, <1>4, <2>1
<1>5. QED
  BY <1>3, <1>4

UniqueIds(rows) == \A x, y \in rows : x.id = y.id => x = y

\* OFFSET MAIN_KEEP_COUNT over ORDER BY start_time DESC, id DESC: as the ids are
\* distinct, each row has a rank of its own and at most MainKeepCount rows stay.
LEMMA RankBounds ==
    ASSUME NEW young \in SUBSET MainRow, IsFiniteSet(young), UniqueIds(young)
    PROVE  Cardinality({x \in young :
             Cardinality({y \in young : MainNewer(y, x)}) < MainKeepCount}) <= MainKeepCount
<1> DEFINE above(x) == {y \in young : MainNewer(y, x)}
<1> DEFINE kept == {x \in young : Cardinality(above(x)) < MainKeepCount}
<1> DEFINE rank == [x \in kept |-> Cardinality(above(x))]
<1>1. ASSUME NEW x \in young
      PROVE  IsFiniteSet(above(x)) /\ Cardinality(above(x)) \in Nat
  <2>1. IsFiniteSet(above(x))
    BY FS_Subset
  <2>2. QED
    BY <2>1, FS_CardinalityType
<1>2. ASSUME NEW x \in young, NEW y \in young, MainNewer(x, y)
      PROVE  Cardinality(above(x)) # Cardinality(above(y))
  <2>1. \A z \in young : z.start \in Nat /\ z.id \in Nat
    BY DEF MainRow
  <2>2. above(x) \subseteq above(y)
    BY <1>2, <2>1 DEF MainNewer
  <2>3. x \in above(y) /\ x \notin above(x)
    BY <1>2, <2>1 DEF MainNewer
  <2>4. IsFiniteSet(above(y))
    BY <1>1
  <2> HIDE DEF above
  <2>5. QED
    BY <2>2, <2>3, <2>4, FS_Subset
<1>3. ASSUME NEW x \in young, NEW y \in young, x # y
      PROVE  MainNewer(x, y) \/ MainNewer(y, x)
  <2>1. x.id # y.id
    BY <1>3 DEF UniqueIds
  <2>2. x.id \in Nat /\ y.id \in Nat /\ x.start \in Nat /\ y.start \in Nat
    BY DEF MainRow
  <2>3. QED
    BY <2>1, <2>2 DEF MainNewer
<1>4. rank \in Injection(kept, 0 .. MainKeepCount - 1)
  <2>1. rank \in [kept -> 0 .. MainKeepCount - 1]
    <3>1. ASSUME NEW x \in kept PROVE Cardinality(above(x)) \in 0 .. MainKeepCount - 1
      <4>1. Cardinality(above(x)) \in Nat /\ Cardinality(above(x)) < MainKeepCount
        BY <1>1
      <4> HIDE DEF above
      <4>2. QED
        BY <4>1, CountsAssumption
    <3> HIDE DEF above, kept
    <3>2. QED
      BY <3>1
  <2>2. \A x, y \in kept : rank[x] = rank[y] => x = y
    <3>1. ASSUME NEW x \in kept, NEW y \in kept, x # y PROVE rank[x] # rank[y]
      <4>1. x \in young /\ y \in young
        OBVIOUS
      <4>2. Cardinality(above(x)) # Cardinality(above(y))
        BY <1>2, <1>3, <3>1, <4>1
      <4>3. rank[x] = Cardinality(above(x)) /\ rank[y] = Cardinality(above(y))
        OBVIOUS
      <4> HIDE DEF above, rank
      <4>4. QED
        BY <4>2, <4>3
    <3>2. QED
      BY <3>1
  <2> HIDE DEF rank, kept
  <2>3. QED
    BY <2>1, <2>2 DEF Injection, IsInjective
<1>5. /\ IsFiniteSet(0 .. MainKeepCount - 1)
      /\ Cardinality(0 .. MainKeepCount - 1) = MainKeepCount
  <2>1. MainKeepCount \in Nat /\ 0 \in Int /\ MainKeepCount - 1 \in Int
    BY CountsAssumption
  <2>2. /\ IsFiniteSet(0 .. MainKeepCount - 1)
        /\ Cardinality(0 .. MainKeepCount - 1)
             = IF 0 > MainKeepCount - 1 THEN 0 ELSE (MainKeepCount - 1) - 0 + 1
    BY <2>1, FS_Interval
  <2>3. QED
    BY <2>1, <2>2
<1> HIDE DEF rank
<1>6. Cardinality(kept) <= Cardinality(0 .. MainKeepCount - 1)
  BY <1>4, <1>5, FS_Injection
<1>7. QED
  BY <1>5, <1>6

Part(rows, g) == {x \in rows : x.group = g}

\* DbTransport.cleanup for one group: that group is cut down to its limit, and
\* the rows of the other groups stay.
LEMMA MainKeptBounds ==
    ASSUME NEW rows \in SUBSET MainRow, IsFiniteSet(rows), UniqueIds(rows), NEW h
    PROVE  /\ Cardinality(Part(MainKept(rows, h), h)) <= MainKeepCount
           /\ \A g : g # h => Part(MainKept(rows, h), g) = Part(rows, g)
<1> DEFINE young == {x \in rows : x.group = h /\ x.start + MainKeepAge >= clock}
<1> DEFINE kept == {x \in young :
             Cardinality({y \in young : MainNewer(y, x)}) < MainKeepCount}
<1>1. MainKept(rows, h) = {x \in rows : x.group # h} \cup kept
  BY DEF MainKept
<1>2. young \subseteq rows /\ kept \subseteq young /\ \A x \in young : x.group = h
  OBVIOUS
<1>3. IsFiniteSet(young)
  BY <1>2, FS_Subset
<1>4. Cardinality(kept) <= MainKeepCount
  BY <1>3, RankBounds DEF UniqueIds
<1> HIDE DEF kept, young
<1>5. Part(MainKept(rows, h), h) = kept
  BY <1>1, <1>2 DEF Part
<1>6. \A g : g # h => Part(MainKept(rows, h), g) = Part(rows, g)
  BY <1>1, <1>2 DEF Part
<1>7. QED
  BY <1>4, <1>5, <1>6

\* Who is between the commit of an INSERT into the main table and its cleanup.
Workers(g) == {r \in Record : pc[r] = "cleanup" /\ obj[r].ident = g}
Runs(g)    == {m \in Maintainer : mpc[m] = "clean" /\ mgroup[m] = g}
Room(g)    == Cardinality(Workers(g)) + Cardinality(Runs(g)) + faults

RunsFinite == \A g \in Scheduler : IsFiniteSet(Runs(g))

\* The bound is inductive together with these facts about the table: it is
\* finite, its ids are distinct, and the id sequence is ahead of them.
Counted ==
    /\ IsFiniteSet(main) /\ UniqueIds(main) /\ \A x \in main : x.id <= mainId
    /\ RunsFinite
    /\ \A g \in Scheduler : Cardinality(Part(main, g)) <= MainKeepCount + Room(g)

\* The room of a group is counted over finite sets.
LEMMA RoomType ==
    ASSUME TypeOK, RunsFinite, NEW g \in Scheduler
    PROVE  /\ IsFiniteSet(Workers(g)) /\ IsFiniteSet(Runs(g))
           /\ Cardinality(Workers(g)) \in Nat /\ Cardinality(Runs(g)) \in Nat
           /\ faults \in Nat
<1>1. IsFiniteSet(Record)
  BY FS_Interval, CountsAssumption DEF Record
<1>2. Workers(g) \in SUBSET Record
  BY DEF Workers
<1>3. IsFiniteSet(Workers(g))
  BY <1>1, <1>2, FS_Subset
<1>4. IsFiniteSet(Runs(g))
  BY DEF RunsFinite
<1>5. faults \in Nat
  BY CountsAssumption DEF TypeOK
<1>6. QED
  BY <1>3, <1>4, <1>5, FS_CardinalityType

\* A step of one worker: what it takes from the room of a group and adds to it.
LEMMA WorkerRoom ==
    ASSUME TypeOK, RunsFinite, NEW r \in Record, NEW g \in Scheduler,
           \A q \in Record \ {r} : pc'[q] = pc[q] /\ obj'[q] = obj[q],
           mpc' = mpc, mgroup' = mgroup,
           faults' = faults \/ faults' = faults + 1
    PROVE  /\ Runs(g)' = Runs(g)
           /\ pc[r] # "cleanup" \/ obj[r].ident # g => Room(g)' >= Room(g)
           /\ faults' = faults + 1 => Room(g)' >= Room(g)
           /\ (/\ pc[r] # "cleanup"
               /\ pc'[r] = "cleanup" /\ obj'[r].ident = g) => Room(g)' >= Room(g) + 1
<1> DEFINE S == Workers(g)
<1> DEFINE T == Workers(g)'
<1>1. /\ T \ {r} = S \ {r}
      /\ r \in S <=> pc[r] = "cleanup" /\ obj[r].ident = g
      /\ r \in T <=> pc'[r] = "cleanup" /\ obj'[r].ident = g
  BY DEF Workers
<1>2. Runs(g)' = Runs(g)
  BY DEF Runs
<1>3. /\ IsFiniteSet(S)
      /\ Cardinality(Runs(g)) \in Nat /\ faults \in Nat
  BY RoomType
<1>4. Room(g)' = Cardinality(T) + Cardinality(Runs(g)) + faults'
  BY <1>2 DEF Room
<1>5. Room(g) = Cardinality(S) + Cardinality(Runs(g)) + faults
  BY DEF Room
<1> HIDE DEF S, T
<1>6. /\ Cardinality(S) \in Nat /\ Cardinality(T) \in Nat
      /\ Cardinality(T) + 1 >= Cardinality(S)
      /\ r \notin S \/ r \in T => Cardinality(T) >= Cardinality(S)
      /\ r \notin S /\ r \in T => Cardinality(T) >= Cardinality(S) + 1
  BY <1>1, <1>3, OneApart
<1>7. r \notin S => Room(g)' >= Room(g)
  BY <1>3, <1>4, <1>5, <1>6
<1>8. faults' = faults + 1 => Room(g)' >= Room(g)
  BY <1>3, <1>4, <1>5, <1>6
<1>9. r \notin S /\ r \in T => Room(g)' >= Room(g) + 1
  BY <1>3, <1>4, <1>5, <1>6
<1>10. QED
  BY <1>1, <1>2, <1>7, <1>8, <1>9

\* The same for a step of one maintenance run.
LEMMA RunRoom ==
    ASSUME TypeOK, RunsFinite, NEW m \in Maintainer, NEW g \in Scheduler,
           \A n \in Maintainer \ {m} : mpc'[n] = mpc[n] /\ mgroup'[n] = mgroup[n],
           pc' = pc, obj' = obj,
           faults' = faults \/ faults' = faults + 1
    PROVE  /\ IsFiniteSet(Runs(g)')
           /\ mpc[m] # "clean" \/ mgroup[m] # g => Room(g)' >= Room(g)
           /\ faults' = faults + 1 => Room(g)' >= Room(g)
           /\ (/\ mpc[m] # "clean"
               /\ mpc'[m] = "clean" /\ mgroup'[m] = g) => Room(g)' >= Room(g) + 1
<1> DEFINE S == Runs(g)
<1> DEFINE T == Runs(g)'
<1>1. /\ T \ {m} = S \ {m}
      /\ m \in S <=> mpc[m] = "clean" /\ mgroup[m] = g
      /\ m \in T <=> mpc'[m] = "clean" /\ mgroup'[m] = g
  BY DEF Runs
<1>2. Workers(g)' = Workers(g)
  BY DEF Workers
<1>3. /\ IsFiniteSet(S)
      /\ Cardinality(Workers(g)) \in Nat /\ faults \in Nat
  BY RoomType
<1>4. Room(g)' = Cardinality(Workers(g)) + Cardinality(T) + faults'
  BY <1>2 DEF Room
<1>5. Room(g) = Cardinality(Workers(g)) + Cardinality(S) + faults
  BY DEF Room
<1> HIDE DEF S, T
<1>6. /\ IsFiniteSet(T) /\ Cardinality(S) \in Nat /\ Cardinality(T) \in Nat
      /\ Cardinality(T) + 1 >= Cardinality(S)
      /\ m \notin S \/ m \in T => Cardinality(T) >= Cardinality(S)
      /\ m \notin S /\ m \in T => Cardinality(T) >= Cardinality(S) + 1
  BY <1>1, <1>3, OneApart
<1>7. m \notin S => Room(g)' >= Room(g)
  BY <1>3, <1>4, <1>5, <1>6
<1>8. faults' = faults + 1 => Room(g)' >= Room(g)
  BY <1>3, <1>4, <1>5, <1>6
<1>9. m \notin S /\ m \in T => Room(g)' >= Room(g) + 1
  BY <1>3, <1>4, <1>5, <1>6
<1>10. QED
  BY <1>1, <1>6, <1>7, <1>8, <1>9 DEF T

\* Nobody's place in the queue for a cleanup changes.
LEMMA SameRoom ==
    ASSUME TypeOK, RunsFinite, NEW g \in Scheduler,
           UNCHANGED <<pc, obj, mpc, mgroup>>
    PROVE  /\ Runs(g)' = Runs(g)
           /\ faults' = faults \/ faults' = faults + 1 => Room(g)' >= Room(g)
           /\ faults' = faults + 1 => Room(g)' >= Room(g) + 1
<1>1. Workers(g)' = Workers(g) /\ Runs(g)' = Runs(g)
  BY DEF Workers, Runs
<1>2. /\ Cardinality(Workers(g)) \in Nat /\ Cardinality(Runs(g)) \in Nat
      /\ faults \in Nat
  BY RoomType
<1>3. Room(g)' = Cardinality(Workers(g)) + Cardinality(Runs(g)) + faults'
  BY <1>1 DEF Room
<1>4. QED
  BY <1>1, <1>2, <1>3 DEF Room

-----------------------------------------------------------------------------
(* Every step has one of four effects on the main table and on the room that *)
(* its groups have: nothing happens to the rows, a row is added and leaves a *)
(* cleanup to come or a fault behind, one group is cleaned, or both at once. *)

MainSame ==
    main' = main /\ mainId' = mainId /\ \A g \in Scheduler : Room(g)' >= Room(g)

MainGrown(row) ==
    /\ row.id = mainId + 1 /\ mainId' = mainId + 1 /\ main' = main \cup {row}
    /\ \A g \in Scheduler : /\ Room(g)' >= Room(g)
                            /\ g = row.group => Room(g)' >= Room(g) + 1

MainCleaned(h) ==
    /\ main' = MainKept(main, h) /\ mainId' = mainId
    /\ \A g \in Scheduler \ {h} : Room(g)' >= Room(g)

MainReplaced(row) ==
    /\ row.id = mainId + 1 /\ mainId' = mainId + 1
    /\ main' = MainKept(main \cup {row}, row.group)
    /\ \A g \in Scheduler \ {row.group} : Room(g)' >= Room(g)

MainEffect ==
    /\ RunsFinite'
    /\ \/ MainSame
       \/ \E row \in MainRow : MainGrown(row) \/ MainReplaced(row)
       \/ \E h \in Identity : MainCleaned(h)

\* update_record publishes and cleans in one transaction, or loses the cleanup
\* to a fault, or leaves the main table as it is.
LEMMA UpdateRecordMain ==
    ASSUME TypeOK, RunsFinite, NEW r \in Record, NEW status \in Terminal,
           UpdateRecord(r, status), UNCHANGED <<pc, obj, mpc, mgroup>>
    PROVE  MainEffect
<1> DEFINE tbl == Finished(r, status)
<1> DEFINE row == NewMainRow(tbl, r)
<1>1. tbl \in [Record -> Row]
  BY FinishedType DEF Terminal
<1>2. RunsFinite'
  <2>1. \A g \in Scheduler : Runs(g)' = Runs(g)
    BY SameRoom
  <2>2. QED
    BY <2>1 DEF RunsFinite
<1>3. CASE UNCHANGED <<main, mainId, sent>> /\ (UNCHANGED faults \/ Fault)
  <2>1. faults' = faults \/ faults' = faults + 1
    BY <1>3 DEF Fault
  <2>2. \A g \in Scheduler : Room(g)' >= Room(g)
    BY <2>1, SameRoom
  <2>3. QED
    BY <1>2, <1>3, <2>2 DEF MainEffect, MainSame
<1>4. CASE /\ Publishable(tbl, r) /\ InsertAndMark(tbl, r)
           /\ main' = MainKept(main \cup {row}, row.group) /\ UNCHANGED faults
  <2>1. row \in MainRow /\ row.id = mainId + 1
    <3>1. row \in MainRow
      BY <1>1, <1>4, NewMainRowType
    <3>2. QED
      BY <3>1 DEF NewMainRow
  <2>2. mainId' = mainId + 1
    BY <1>4 DEF InsertAndMark
  <2>3. \A g \in Scheduler : Room(g)' >= Room(g)
    BY <1>4, SameRoom
  <2> HIDE DEF row
  <2>4. MainReplaced(row)
    BY <1>4, <2>1, <2>2, <2>3 DEF MainReplaced
  <2>5. QED
    BY <1>2, <2>1, <2>4 DEF MainEffect
<1>5. CASE /\ Publishable(tbl, r) /\ InsertAndMark(tbl, r)
           /\ main' = main \cup {row} /\ Fault
  <2>1. row \in MainRow /\ row.id = mainId + 1
    <3>1. row \in MainRow
      BY <1>1, <1>5, NewMainRowType
    <3>2. QED
      BY <3>1 DEF NewMainRow
  <2>2. mainId' = mainId + 1
    BY <1>5 DEF InsertAndMark
  <2>3. \A g \in Scheduler : Room(g)' >= Room(g) /\ Room(g)' >= Room(g) + 1
    BY <1>5, SameRoom DEF Fault
  <2> HIDE DEF row
  <2>4. MainGrown(row)
    BY <1>5, <2>1, <2>2, <2>3 DEF MainGrown
  <2>5. QED
    BY <1>2, <2>1, <2>4 DEF MainEffect
<1>6. \/ local' = tbl /\ UNCHANGED <<main, mainId, sent, faults>>
      \/ /\ Publishable(tbl, r) /\ InsertAndMark(tbl, r)
         /\ main' = MainKept(main \cup {row}, row.group) /\ UNCHANGED faults
      \/ /\ Publishable(tbl, r) /\ InsertAndMark(tbl, r)
         /\ main' = main \cup {row} /\ Fault
      \/ local' = tbl /\ UNCHANGED <<main, mainId, sent>> /\ Fault
  BY Zenon DEF UpdateRecord, ProjectWithin
<1> HIDE DEF row, tbl
<1>7. QED
  BY <1>3, <1>4, <1>5, <1>6

\* What a worker leaves: nobody else's place changes.
LEMMA WorkerAlone ==
    ASSUME TypeOK, NEW r \in Record, WorkerStep(r)
    PROVE  /\ \A q \in Record \ {r} : pc'[q] = pc[q] /\ obj'[q] = obj[q]
           /\ mpc' = mpc /\ mgroup' = mgroup
           /\ faults' = faults \/ faults' = faults + 1
<1> USE DEF TypeOK, Goto, Leave, Fault, maint, tables
<1>1. CASE Start(r) \/ Insert(r) \/ InsertFails(r)
  BY <1>1 DEF Start, Insert, InsertFails
<1>2. CASE Raises(r) \/ Returns(r) \/ ReturnsInstance(r)
  BY <1>2 DEF Raises, Returns, ReturnsInstance
<1>3. CASE Metadata(r) \/ MetadataFails(r)
  BY <1>3 DEF Metadata, MetadataFails
<1>4. CASE Finish(r) \/ FinishWithoutRecord(r) \/ FinishFails(r)
  BY <1>4 DEF Finish, FinishWithoutRecord, FinishFails
<1>5. CASE Publish(r) \/ PublishDeferred(r) \/ PublishFails(r)
  BY <1>5 DEF Publish, PublishDeferred, PublishFails
<1>6. CASE CleanMain(r) \/ CleanMainFails(r) \/ Crash(r)
  BY <1>6 DEF CleanMain, CleanMainFails, Crash
<1>7. QED
  BY <1>1, <1>2, <1>3, <1>4, <1>5, <1>6 DEF WorkerStep

\* A worker's step.
LEMMA WorkerMain ==
    ASSUME TypeOK, RunsFinite, NEW r \in Record, WorkerStep(r)
    PROVE  MainEffect
<1>1. RunsFinite'
  <2>1. \A g \in Scheduler : Runs(g)' = Runs(g)
    BY WorkerAlone, WorkerRoom
  <2>2. QED
    BY <2>1 DEF RunsFinite
<1>2. CASE Publish(r)
  <2> DEFINE row == NewMainRow(local, r)
  <2>1. row \in MainRow
    BY <1>2, NewMainRowType DEF Publish, TypeOK
  <2>2. row.id = mainId + 1 /\ row.group = local[r].ident
    BY DEF NewMainRow
  <2>3. mainId' = mainId + 1 /\ main' = main \cup {row}
    BY <1>2 DEF Publish, InsertAndMark
  <2>4. pc[r] # "cleanup" /\ pc'[r] = "cleanup" /\ obj'[r].ident = local[r].ident
    BY <1>2 DEF Publish, Goto, TypeOK, Object
  <2> HIDE DEF row
  <2>5. MainGrown(row)
    BY <2>2, <2>3, <2>4, WorkerAlone, WorkerRoom DEF MainGrown
  <2>6. QED
    BY <1>1, <2>1, <2>5 DEF MainEffect
<1>3. CASE CleanMain(r)
  <2>1. main' = MainKept(main, obj[r].ident) /\ mainId' = mainId
    BY <1>3 DEF CleanMain
  <2>2. obj[r].ident \in Identity
    BY DEF TypeOK, Object
  <2>3. \A g \in Scheduler \ {obj[r].ident} : Room(g)' >= Room(g)
    BY WorkerAlone, WorkerRoom
  <2>4. QED
    BY <1>1, <2>1, <2>2, <2>3 DEF MainEffect, MainCleaned
<1>4. CASE CleanMainFails(r) \/ Crash(r)
  <2>1. main' = main /\ mainId' = mainId /\ faults' = faults + 1
    BY <1>4 DEF CleanMainFails, Crash, Fault, tables
  <2>2. QED
    BY <1>1, <2>1, WorkerAlone, WorkerRoom DEF MainEffect, MainSame
<1>5. CASE ~ (Publish(r) \/ CleanMain(r) \/ CleanMainFails(r) \/ Crash(r))
  <2>1. main' = main /\ mainId' = mainId /\ pc[r] # "cleanup"
    BY <1>5 DEF WorkerStep, Start, Insert, InsertFails, Raises, Returns, ReturnsInstance,
                Metadata, MetadataFails, Finish, FinishWithoutRecord, FinishFails,
                PublishDeferred, PublishFails, Goto, tables
  <2>2. QED
    BY <1>1, <2>1, WorkerAlone, WorkerRoom DEF MainEffect, MainSame
<1>6. QED
  BY <1>2, <1>3, <1>4, <1>5

\* A maintenance step.
LEMMA MaintMain ==
    ASSUME TypeOK, RunsFinite, NEW m \in Maintainer, MaintRun(m) \/ MaintAbort(m)
    PROVE  MainEffect
<1> USE DEF MGoto, tables, worker
<1>1. CASE MaintTimeout(m)
  <2>1. UNCHANGED <<pc, obj, mpc, mgroup>>
    BY <1>1 DEF MaintTimeout
  <2>2. PICK r \in mtodo[m] :
          \/ UpdateRecord(r, "fail")
          \/ UNCHANGED tables /\ (UNCHANGED faults \/ Fault)
    BY <1>1 DEF MaintTimeout
  <2>3. r \in Record
    BY DEF TypeOK
  <2>4. CASE UpdateRecord(r, "fail")
    BY <2>1, <2>3, <2>4, UpdateRecordMain DEF Terminal
  <2>5. CASE UNCHANGED tables /\ (UNCHANGED faults \/ Fault)
    <3>1. \A g \in Scheduler : Runs(g)' = Runs(g) /\ Room(g)' >= Room(g)
      BY <2>1, <2>5, SameRoom DEF Fault
    <3>2. QED
      BY <2>5, <3>1 DEF MainEffect, MainSame, RunsFinite
  <2>6. QED
    BY <2>2, <2>4, <2>5
<1>2. CASE ~ MaintTimeout(m)
  <2>1. /\ \A n \in Maintainer \ {m} : mpc'[n] = mpc[n] /\ mgroup'[n] = mgroup[n]
        /\ pc' = pc /\ obj' = obj
        /\ faults' = faults \/ faults' = faults + 1
    BY <1>2 DEF TypeOK, Fault, MaintRun, MaintStart, MaintRetryStart, MaintRetry,
                MaintRetrySkip, MaintClean, MaintRetryDone, MaintDays, MaintGroups,
                MaintCount, MaintPrune, MaintDone, MaintAbort
  <2>2. RunsFinite'
    <3>1. \A g \in Scheduler : IsFiniteSet(Runs(g)')
      BY <2>1, RunRoom
    <3>2. QED
      BY <3>1 DEF RunsFinite
  <2>3. CASE MaintRetry(m)
    <3>1. PICK r \in mtodo[m] :
            /\ Publishable(local, r) /\ InsertAndMark(local, r)
            /\ main' = main \cup {NewMainRow(local, r)}
            /\ mgroup' = [mgroup EXCEPT ![m] = local[r].ident]
      BY <2>3 DEF MaintRetry
    <3>2. r \in Record
      BY DEF TypeOK
    <3> DEFINE row == NewMainRow(local, r)
    <3>3. row \in MainRow
      BY <3>1, <3>2, NewMainRowType DEF TypeOK
    <3>4. row.id = mainId + 1 /\ row.group = local[r].ident
      BY DEF NewMainRow
    <3>5. mainId' = mainId + 1 /\ main' = main \cup {row}
      BY <3>1 DEF InsertAndMark
    <3>6. mpc[m] # "clean" /\ mpc'[m] = "clean" /\ mgroup'[m] = local[r].ident
      BY <2>3, <3>1 DEF MaintRetry, TypeOK
    <3> HIDE DEF row
    <3>7. MainGrown(row)
      BY <2>1, <3>4, <3>5, <3>6, RunRoom DEF MainGrown
    <3>8. QED
      BY <2>2, <3>3, <3>7 DEF MainEffect
  <2>4. CASE MaintClean(m)
    <3>1. CASE main' = MainKept(main, mgroup[m])
      <4>1. mainId' = mainId /\ mgroup[m] \in Identity
        BY <2>4 DEF MaintClean, TypeOK
      <4>2. \A g \in Scheduler \ {mgroup[m]} : Room(g)' >= Room(g)
        BY <2>1, RunRoom
      <4>3. QED
        BY <2>2, <3>1, <4>1, <4>2 DEF MainEffect, MainCleaned
    <3>2. CASE Fault /\ UNCHANGED main
      BY <2>1, <2>2, <2>4, <3>2, RunRoom DEF MainEffect, MainSame, MaintClean, Fault
    <3>3. QED
      BY <2>4, <3>1, <3>2 DEF MaintClean
  <2>5. CASE MaintAbort(m)
    BY <2>1, <2>2, <2>5, RunRoom DEF MainEffect, MainSame, MaintAbort, Fault
  <2>6. CASE ~ (MaintRetry(m) \/ MaintClean(m) \/ MaintAbort(m))
    <3>1. main' = main /\ mainId' = mainId /\ mpc[m] # "clean"
      BY <1>2, <2>6 DEF MaintRun, MaintStart, MaintRetryStart, MaintRetrySkip,
         MaintRetryDone, MaintDays, MaintGroups, MaintCount, MaintPrune, MaintDone
    <3>2. QED
      BY <2>1, <2>2, <3>1, RunRoom DEF MainEffect, MainSame
  <2>7. QED
    BY <2>3, <2>4, <2>5, <2>6
<1>3. QED
  BY <1>1, <1>2

\* Every step.
LEMMA StepMain ==
    ASSUME TypeOK, RunsFinite, [Next]_vars
    PROVE  MainEffect
<1>1. ASSUME NEW r \in Record, Callback(r) PROVE MainEffect
  <2>1. UNCHANGED <<pc, obj, mpc, mgroup>>
    BY <1>1 DEF Callback, worker, maint
  <2>2. QED
    BY <1>1, <2>1, UpdateRecordMain DEF Callback
<1>2. CASE Tick \/ UNCHANGED vars
  <2>1. /\ UNCHANGED <<pc, obj, mpc, mgroup>>
        /\ main' = main /\ mainId' = mainId /\ faults' = faults
    BY <1>2 DEF Tick, vars, tables, worker, maint
  <2>2. \A g \in Scheduler : Runs(g)' = Runs(g) /\ Room(g)' >= Room(g)
    BY <2>1, SameRoom
  <2>3. QED
    BY <2>1, <2>2 DEF MainEffect, MainSame, RunsFinite
<1>3. QED
  BY <1>1, <1>2, WorkerMain, MaintMain DEF Next

\* ... so it is a number before and after a step.
RoomIsNat == \A g \in Scheduler : Room(g) \in Nat

LEMMA RoomTypeNext == TypeOK' /\ RunsFinite' => RoomIsNat'
<1>1. TypeOK /\ RunsFinite => RoomIsNat
  BY RoomType DEF Room, RoomIsNat
<1>2. QED
  BY <1>1, PTL

\* The four effects preserve the bound and what it rests on.
LEMMA EffectCounted ==
    ASSUME TypeOK, TypeOK', Counted, MainEffect
    PROVE  Counted'
<1>1. RunsFinite /\ RunsFinite'
  BY DEF Counted, MainEffect
<1>2. mainId \in Nat /\ main \subseteq MainRow /\ \A x \in main : x.id \in Nat
  BY DEF TypeOK, MainRow
<1>3. ASSUME NEW g \in Scheduler
      PROVE  /\ Room(g) \in Nat /\ Room(g)' \in Nat
             /\ Cardinality(Part(main, g)) \in Nat /\ IsFiniteSet(Part(main, g))
             /\ Cardinality(Part(main, g)) <= MainKeepCount + Room(g)
             /\ MainKeepCount \in Nat
  <2>1. Room(g) \in Nat
    BY <1>1, RoomType DEF Room
  <2>2. Room(g)' \in Nat
    BY <1>1, RoomTypeNext DEF RoomIsNat
  <2>3. IsFiniteSet(Part(main, g))
    BY FS_Subset DEF Counted, Part
  <2>4. QED
    BY <2>1, <2>2, <2>3, FS_CardinalityType, CountsAssumption DEF Counted
<1>4. CASE MainSame
  <2>1. ASSUME NEW g \in Scheduler
        PROVE  Cardinality(Part(main', g)) <= MainKeepCount + Room(g)'
    BY <1>3, <1>4 DEF MainSame
  <2>2. QED
    BY <1>1, <1>4, <2>1 DEF MainSame, Counted, UniqueIds, Part
<1>5. ASSUME NEW row \in MainRow, row.id = mainId + 1
      PROVE  /\ IsFiniteSet(main \cup {row}) /\ UniqueIds(main \cup {row})
             /\ \A x \in main \cup {row} : x.id <= mainId + 1
             /\ main \cup {row} \in SUBSET MainRow
             /\ \A g : Part(main \cup {row}, g) =
                         IF g = row.group THEN Part(main, g) \cup {row} ELSE Part(main, g)
  <2>1. IsFiniteSet(main \cup {row})
    BY FS_AddElement DEF Counted
  <2>2. \A x \in main : x.id <= mainId
    BY DEF Counted
  <2>3. UniqueIds(main \cup {row})
    BY <1>2, <1>5, <2>2 DEF Counted, UniqueIds
  <2>4. \A x \in main \cup {row} : x.id <= mainId + 1
    BY <1>2, <1>5, <2>2
  <2>5. QED
    BY <1>2, <2>1, <2>3, <2>4 DEF Part
<1>6. ASSUME NEW row \in MainRow, MainGrown(row) PROVE Counted'
  <2>1. row.id = mainId + 1 /\ mainId' = mainId + 1 /\ main' = main \cup {row}
    BY <1>6 DEF MainGrown
  <2>2. ASSUME NEW g \in Scheduler
        PROVE  Cardinality(Part(main', g)) <= MainKeepCount + Room(g)'
    <3>1. CASE g = row.group
      <4>1. Part(main', g) = Part(main, g) \cup {row}
        BY <1>5, <2>1, <3>1
      <4>2. Cardinality(Part(main', g)) <= Cardinality(Part(main, g)) + 1
        <5>1. Cardinality(Part(main, g) \cup {row}) =
                IF row \in Part(main, g) THEN Cardinality(Part(main, g))
                ELSE Cardinality(Part(main, g)) + 1
          BY <1>3, FS_AddElement
        <5>2. QED
          BY <1>3, <4>1, <5>1
      <4>3. Cardinality(Part(main', g)) \in Nat
        BY <1>3, <4>1, FS_AddElement, FS_CardinalityType
      <4>4. Room(g)' >= Room(g) + 1
        BY <1>6, <3>1 DEF MainGrown
      <4>5. QED
        BY <1>3, <4>2, <4>3, <4>4
    <3>2. CASE g # row.group
      <4>1. Part(main', g) = Part(main, g)
        BY <1>5, <2>1, <3>2
      <4>2. Room(g)' >= Room(g)
        BY <1>6 DEF MainGrown
      <4>3. QED
        BY <1>3, <4>1, <4>2
    <3>3. QED
      BY <3>1, <3>2
  <2>3. IsFiniteSet(main') /\ UniqueIds(main') /\ \A x \in main' : x.id <= mainId'
    BY <1>5, <2>1
  <2>4. QED
    BY <1>1, <2>2, <2>3 DEF Counted, UniqueIds, Part
<1>7. ASSUME NEW rows \in SUBSET MainRow, NEW h,
             IsFiniteSet(rows), UniqueIds(rows), \A x \in rows : x.id <= mainId',
             main' = MainKept(rows, h),
             \A g \in Scheduler \ {h} : Part(rows, g) = Part(main, g) /\ Room(g)' >= Room(g)
      PROVE  Counted'
  <2>1. main' \in SUBSET rows
    BY <1>7, MainKeptShrinks
  <2>2. IsFiniteSet(main')
    BY <1>7, <2>1, FS_Subset
  <2>3. UniqueIds(main') /\ \A x \in main' : x.id <= mainId'
    BY <1>7, <2>1 DEF UniqueIds
  <2>4. ASSUME NEW g \in Scheduler
        PROVE  Cardinality(Part(main', g)) <= MainKeepCount + Room(g)'
    <3>1. CASE g = h
      <4>1. Cardinality(Part(main', g)) <= MainKeepCount
        BY <1>7, <3>1, MainKeptBounds
      <4>2. IsFiniteSet(Part(main', g))
        BY <2>2, FS_Subset DEF Part
      <4>3. QED
        BY <1>3, <4>1, <4>2, FS_CardinalityType
    <3>2. CASE g # h
      <4>1. Part(main', g) = Part(main, g)
        BY <1>7, <3>2, MainKeptBounds
      <4>2. Room(g)' >= Room(g)
        BY <1>7, <3>2
      <4>3. QED
        BY <1>3, <4>1, <4>2
    <3>3. QED
      BY <3>1, <3>2
  <2>5. QED
    BY <1>1, <2>2, <2>3, <2>4 DEF Counted, UniqueIds, Part
<1>8. ASSUME NEW row \in MainRow, MainReplaced(row) PROVE Counted'
  <2>1. /\ row.id = mainId + 1 /\ mainId' = mainId + 1
        /\ main' = MainKept(main \cup {row}, row.group)
        /\ \A g \in Scheduler \ {row.group} : Room(g)' >= Room(g)
    BY <1>8 DEF MainReplaced
  <2>2. QED
    BY <1>5, <1>7, <2>1
<1>9. ASSUME NEW h \in Identity, MainCleaned(h) PROVE Counted'
  <2>1. /\ main' = MainKept(main, h) /\ mainId' = mainId
        /\ \A g \in Scheduler \ {h} : Room(g)' >= Room(g)
    BY <1>9 DEF MainCleaned
  <2>2. IsFiniteSet(main) /\ UniqueIds(main) /\ \A x \in main : x.id <= mainId
    BY DEF Counted
  <2>3. QED
    BY <1>2, <1>7, <2>1, <2>2
<1>10. QED
  BY <1>4, <1>6, <1>8, <1>9 DEF MainEffect

\* No group of the main table outgrows its limit by more than the publications
\* whose cleanup is still to come and the cleanups that failed or died: worker,
\* callback and maintenance clean up after every row they publish.
THEOREM MainStaysBounded == Spec => []MainGroupBound
<1>1. Init => Counted
  <2> SUFFICES ASSUME Init PROVE Counted
    OBVIOUS
  <2>1. \A g \in Scheduler : Runs(g) = {} /\ Part(main, g) = {}
    BY DEF Init, Runs, Part
  <2>2. RunsFinite /\ IsFiniteSet(main)
    BY <2>1, FS_EmptySet DEF RunsFinite, Init
  <2>3. TypeOK
    BY TypedInit DEF Typed
  <2>4. ASSUME NEW g \in Scheduler
        PROVE  Cardinality(Part(main, g)) <= MainKeepCount + Room(g)
    <3>1. Cardinality(Part(main, g)) = 0
      BY <2>1, FS_EmptySet
    <3>2. Room(g) \in Nat /\ MainKeepCount \in Nat
      BY <2>2, <2>3, RoomType, CountsAssumption DEF Room
    <3>3. QED
      BY <3>1, <3>2
  <2>5. QED
    BY <2>2, <2>4 DEF Counted, UniqueIds, Init
<1>2. TypeOK /\ TypeOK' /\ Counted /\ [Next]_vars => Counted'
  BY StepMain, EffectCounted DEF Counted
<1>3. TypeOK /\ Counted => MainGroupBound
  <2> SUFFICES ASSUME TypeOK, Counted, NEW g \in Scheduler
               PROVE  Cardinality({x \in main : x.group = g})
                        <= MainKeepCount + InFlight(g) + faults
    BY DEF MainGroupBound
  <2>1. Cardinality(Part(main, g)) <= MainKeepCount + Room(g)
    BY DEF Counted
  <2>2. Room(g) = InFlight(g) + faults
    BY DEF Room, InFlight, Workers, Runs
  <2>3. InFlight(g) \in Nat /\ faults \in Nat /\ MainKeepCount \in Nat
    BY RoomType, CountsAssumption DEF InFlight, Workers, Runs, Counted
  <2>4. QED
    BY <2>1, <2>2, <2>3 DEF Part
<1>4. QED
  BY TypeCorrect, <1>1, <1>2, <1>3, PTL DEF Spec
=============================================================================
