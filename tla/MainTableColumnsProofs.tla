----------------------- MODULE MainTableColumnsProofs -----------------------
(* Theorems about MainTableColumns, for any number of processes and threads *)
(* and any order of migrations.                                             *)
EXTENDS MainTableColumns, TLAPS

\* Forget keeps a cache a cache.
LEMMA ForgetType ==
    ASSUME TypeOK, NEW a \in Publication, Forget(a)
    PROVE  cache' \in [Process -> Cache]
BY ProcessAssumption DEF TypeOK, Forget, Cache, NoCache

\* The start is well typed, and nothing has been asked, cached or refused.
LEMMA Start == Init => IInv
<1>1. ASSUME Init PROVE IInv
  <2>1. TypeOK
    BY <1>1, NatAssumption DEF Init, TypeOK, Schema, Cache, NoCache
  <2>2. NoIsRecent
    BY <1>1 DEF Init, NoIsRecent, NoCache
  <2>3. LegacyIsRecent
    BY <1>1 DEF Init, LegacyIsRecent, Inserting
  <2>4. RefusedForgets
    BY <1>1 DEF Init, RefusedForgets
  <2>5. QED
    BY <2>1, <2>2, <2>3, <2>4 DEF IInv
<1>2. QED
  BY <1>1

\* Every step keeps the types, and the lock of an introspection holds the table.
LEMMA TypeStep == TypeOK /\ [Next]_vars => TypeOK'
<1> SUFFICES ASSUME TypeOK, [Next]_vars PROVE TypeOK'
  OBVIOUS
<1> USE NatAssumption, ProcessAssumption
<1>1. ASSUME NEW a \in Publication, Ask(a) PROVE TypeOK'
  <2>1. CacheOf(a) \in Cache
    BY DEF TypeOK, CacheOf
  <2>2. CacheOf(a).has \in BOOLEAN
    BY <2>1 DEF Cache
  <2>3. with' \in [Publication -> BOOLEAN]
    BY <1>1, <2>2 DEF TypeOK, Ask
  <2>4. pc' \in [Publication -> {"waiting", "detect", "cached", "detected", "legacy", "i18n"}]
    BY <1>1 DEF TypeOK, Ask
  <2>5. asked' \in [Publication -> Nat]
    BY <1>1 DEF TypeOK, Ask
  <2>6. ASSUME NEW b \in Publication, pc'[b] = "detected"
        PROVE  b # a /\ pc[b] = "detected" /\ with'[b] = with[b]
    BY <1>1, <2>6 DEF TypeOK, Ask
  <2>7. QED
    BY <1>1, <2>3, <2>4, <2>5, <2>6 DEF TypeOK, Ask
<1>2. ASSUME NEW a \in Publication, Detect(a) PROVE TypeOK'
  <2> DEFINE new == [set |-> TRUE, until |-> asked[a] + TTL, has |-> (schema = "i18n")]
  <2>1. new \in Cache
    BY DEF TypeOK, Cache
  <2>2. cache' = [cache EXCEPT ![ProcessOf[a]] = new]
    BY <1>2 DEF Detect
  <2>3. cache' \in [Process -> Cache]
    <3> HIDE DEF new
    <3> QED BY <2>1, <2>2 DEF TypeOK
  <2>4. with' \in [Publication -> BOOLEAN]
    BY <1>2 DEF TypeOK, Detect
  <2>5. pc' \in [Publication -> {"waiting", "detect", "cached", "detected", "legacy", "i18n"}]
    BY <1>2 DEF TypeOK, Detect
  <2>6. ASSUME NEW b \in Publication, pc'[b] = "detected"
        PROVE  schema' # "missing" /\ (with'[b] <=> schema' = "i18n")
    <3>1. CASE b = a
      BY <1>2, <3>1 DEF TypeOK, Detect
    <3>2. CASE b # a
      BY <1>2, <2>6, <3>2 DEF TypeOK, Detect
    <3>3. QED
      BY <3>1, <3>2
  <2>7. QED
    BY <1>2, <2>3, <2>4, <2>5, <2>6 DEF TypeOK, Detect
<1>3. ASSUME NEW a \in Publication, DetectFails(a) PROVE TypeOK'
  BY <1>3 DEF TypeOK, DetectFails, Fault
<1>4. ASSUME NEW a \in Publication, Insert(a) PROVE TypeOK'
  BY <1>4 DEF TypeOK, Insert
<1>5. ASSUME NEW a \in Publication, InsertRefused(a) PROVE TypeOK'
  BY <1>5, ForgetType DEF TypeOK, InsertRefused
<1>6. ASSUME NEW a \in Publication, InsertFails(a) PROVE TypeOK'
  <2>1. cache' \in [Process -> Cache]
    BY <1>6, ForgetType DEF InsertFails, TypeOK
  <2>2. QED
    BY <1>6, <2>1 DEF TypeOK, InsertFails, Fault
<1>7. ASSUME NEW p \in Process, Restart(p) PROVE TypeOK'
  BY <1>7 DEF TypeOK, Restart, Fault, Cache, NoCache
<1>8. ASSUME Migrate PROVE TypeOK'
  BY <1>8 DEF TypeOK, Migrate
<1>9. ASSUME Tick PROVE TypeOK'
  BY <1>9 DEF TypeOK, Tick
<1>10. ASSUME NEW a \in Publication, AskFails(a) PROVE TypeOK'
  BY <1>10 DEF TypeOK, AskFails, Fault
<1>11. CASE UNCHANGED vars
  BY <1>11 DEF TypeOK, vars
<1>12. QED
  BY <1>1, <1>2, <1>3, <1>4, <1>5, <1>6, <1>7, <1>8, <1>9, <1>10, <1>11 DEF Next, Publish

\* A cached "no", and an INSERT without the message columns, stay recent.
LEMMA RecentStep ==
    TypeOK /\ NoIsRecent /\ LegacyIsRecent /\ [Next]_vars => (NoIsRecent /\ LegacyIsRecent)'
<1> SUFFICES ASSUME TypeOK, NoIsRecent, LegacyIsRecent, [Next]_vars
             PROVE  (NoIsRecent /\ LegacyIsRecent)'
  OBVIOUS
<1> USE NatAssumption, ProcessAssumption DEF NoIsRecent, LegacyIsRecent, Inserting
<1>1. ASSUME NEW a \in Publication, Ask(a) PROVE (NoIsRecent /\ LegacyIsRecent)'
  BY <1>1 DEF TypeOK, Ask, Fresh, CacheOf, Cache
<1>2. ASSUME NEW a \in Publication, Detect(a) PROVE (NoIsRecent /\ LegacyIsRecent)'
  <2>1. asked[a] \in Nat /\ asked[a] <= clock /\ clock \in Nat /\ absentAt \in Nat /\ TTL \in Nat
    BY DEF TypeOK
  <2>2. asked' = asked /\ absentAt' = absentAt /\ clock' = clock /\ schema' = schema
    BY <1>2 DEF Detect
  <2>3. schema # "i18n" => asked[a] + TTL <= absentAt + TTL
    BY <2>1
  <2>4. ASSUME NEW p \in Process, cache'[p].set /\ ~ cache'[p].has
        PROVE  cache'[p].until <= absentAt + TTL
    <3>1. CASE p = ProcessOf[a]
      <4>1. cache'[p] = [set |-> TRUE, until |-> asked[a] + TTL, has |-> (schema = "i18n")]
        BY <1>2, <3>1 DEF Detect, TypeOK
      <4>2. cache'[p].until = asked[a] + TTL /\ cache'[p].has = (schema = "i18n")
        BY <4>1
      <4>3. schema # "i18n"
        BY <2>4, <4>2, Zenon
      <4>4. QED
        BY <2>3, <4>2, <4>3
    <3>2. CASE p # ProcessOf[a]
      <4>1. cache'[p] = cache[p]
        BY <1>2, <3>2 DEF Detect, TypeOK
      <4>2. QED
        BY <2>4, <4>1
    <3>3. QED
      BY <3>1, <3>2
  <2>5. ASSUME NEW b \in Publication,
               pc'[b] = "legacy" \/ (pc'[b] \in {"cached", "detected"} /\ ~ with'[b])
        PROVE  asked[b] <= absentAt + TTL
    <3>1. CASE b = a
      <4>1. pc'[a] = "detected" /\ (with'[a] <=> schema = "i18n")
        BY <1>2 DEF Detect, TypeOK
      <4>2. absentAt = clock
        BY <2>5, <3>1, <4>1
      <4>3. QED
        BY <2>1, <3>1, <4>2
    <3>2. CASE b # a
      <4>1. pc'[b] = pc[b] /\ with'[b] = with[b]
        BY <1>2, <3>2 DEF Detect, TypeOK
      <4>2. QED
        BY <2>5, <4>1
    <3>3. QED
      BY <3>1, <3>2
  <2>6. QED
    BY <2>2, <2>4, <2>5
<1>3. ASSUME NEW a \in Publication, DetectFails(a) PROVE (NoIsRecent /\ LegacyIsRecent)'
  BY <1>3 DEF TypeOK, DetectFails
<1>4. ASSUME NEW a \in Publication, Insert(a) PROVE (NoIsRecent /\ LegacyIsRecent)'
  BY <1>4 DEF TypeOK, Insert
<1>5. ASSUME NEW a \in Publication, InsertRefused(a) PROVE (NoIsRecent /\ LegacyIsRecent)'
  BY <1>5 DEF TypeOK, InsertRefused, Forget, NoCache
<1>6. ASSUME NEW a \in Publication, InsertFails(a) PROVE (NoIsRecent /\ LegacyIsRecent)'
  BY <1>6 DEF TypeOK, InsertFails, Forget, NoCache
<1>7. ASSUME NEW p \in Process, Restart(p) PROVE (NoIsRecent /\ LegacyIsRecent)'
  BY <1>7 DEF TypeOK, Restart, NoCache, Written
<1>8. ASSUME Migrate PROVE (NoIsRecent /\ LegacyIsRecent)'
  BY <1>8 DEF TypeOK, Migrate, Cache
<1>9. ASSUME Tick PROVE (NoIsRecent /\ LegacyIsRecent)'
  BY <1>9 DEF TypeOK, Tick, Cache
<1>10. ASSUME NEW a \in Publication, AskFails(a) PROVE (NoIsRecent /\ LegacyIsRecent)'
  BY <1>10 DEF TypeOK, AskFails
<1>11. CASE UNCHANGED vars
  BY <1>11 DEF vars
<1>12. QED
  BY <1>1, <1>2, <1>3, <1>4, <1>5, <1>6, <1>7, <1>8, <1>9, <1>10, <1>11 DEF Next, Publish

\* A refused publication stays out of reach of the old answer.
LEMMA ForgetsStep == TypeOK /\ RefusedForgets /\ [Next]_vars => RefusedForgets'
<1> SUFFICES ASSUME TypeOK, RefusedForgets, [Next]_vars PROVE RefusedForgets'
  OBVIOUS
<1> USE ProcessAssumption DEF RefusedForgets, CacheOf
<1>1. ASSUME NEW a \in Publication, Ask(a) PROVE RefusedForgets'
  BY <1>1 DEF TypeOK, Ask, Fresh
<1>2. ASSUME NEW a \in Publication, Detect(a) PROVE RefusedForgets'
  BY <1>2 DEF TypeOK, Detect
<1>3. ASSUME NEW a \in Publication, DetectFails(a) PROVE RefusedForgets'
  BY <1>3 DEF TypeOK, DetectFails
<1>4. ASSUME NEW a \in Publication, Insert(a) PROVE RefusedForgets'
  BY <1>4 DEF TypeOK, Insert
<1>5. ASSUME NEW a \in Publication, InsertRefused(a) PROVE RefusedForgets'
  BY <1>5 DEF TypeOK, InsertRefused, Forget, NoCache, Accepted, Inserting
<1>6. ASSUME NEW a \in Publication, InsertFails(a) PROVE RefusedForgets'
  BY <1>6 DEF TypeOK, InsertFails, Forget, NoCache
<1>7. ASSUME NEW p \in Process, Restart(p) PROVE RefusedForgets'
  BY <1>7 DEF TypeOK, Restart, NoCache
<1>8. ASSUME Migrate PROVE RefusedForgets'
  BY <1>8 DEF Migrate
<1>9. ASSUME Tick PROVE RefusedForgets'
  BY <1>9 DEF Tick
<1>10. ASSUME NEW a \in Publication, AskFails(a) PROVE RefusedForgets'
  BY <1>10 DEF AskFails
<1>11. CASE UNCHANGED vars
  BY <1>11 DEF vars
<1>12. QED
  BY <1>1, <1>2, <1>3, <1>4, <1>5, <1>6, <1>7, <1>8, <1>9, <1>10, <1>11 DEF Next, Publish

LEMMA ColumnsInductive == Spec => []IInv
<1>1. IInv /\ [Next]_vars => IInv'
  BY TypeStep, RecentStep, ForgetsStep DEF IInv
<1>2. QED
  BY Start, <1>1, PTL DEF Spec

\* Every reachable state is well typed, and what a transaction has introspected
\* stays true until it ends.
THEOREM ColumnsTypeCorrect == Spec => []TypeOK
<1>1. IInv => TypeOK
  BY DEF IInv
<1>2. QED
  BY ColumnsInductive, <1>1, PTL

\* No publication leaves the message columns out later than TTL after they were
\* last missing.
THEOREM LegacyWritesAreRecent == Spec => []LegacyIsRecent
<1>1. IInv => LegacyIsRecent
  BY DEF IInv
<1>2. QED
  BY ColumnsInductive, <1>1, PTL

\* No publication is refused twice for columns that were rolled back once.
THEOREM RolledBackColumnsRefuseOnce == Spec => RefusedOnce
<1>1. ASSUME IInv, NEW a \in Publication, InsertRefused(a), schema = "legacy"
      PROVE  a \notin refused
  BY <1>1 DEF IInv, TypeOK, RefusedForgets, InsertRefused, Accepted, Inserting
<1>2. IInv /\ [Next]_vars
        => [\A a \in Publication :
              InsertRefused(a) /\ schema = "legacy" => a \notin refused]_vars
  BY <1>1
<1>3. QED
  BY ColumnsInductive, <1>2, PTL DEF RefusedOnce, Spec
=============================================================================
