-------------------------- MODULE MainTableColumns --------------------------
(***************************************************************************)
(* Which columns an INSERT into the main project's table names while that  *)
(* project migrates the table (transports.py).  Every process caches for   *)
(* COLUMN_CACHE_SECONDS whether the three message columns exist; the web   *)
(* and worker processes publish from several threads, which share it.      *)
(*                                                                         *)
(* A publication is retried by callbacks and maintenance until it is       *)
(* written; ExecutionRecords shows that this happens once.  Here one step  *)
(* is what a thread does between two points where another thread, or the   *)
(* main project's migration, can get in.                                   *)
(***************************************************************************)
EXTENDS Integers

CONSTANTS
    Process,        \* worker and web processes
    Publication,    \* records to publish, each by one thread at a time
    ProcessOf,      \* the process that publishes a record
    TTL,            \* COLUMN_CACHE_SECONDS
    MaxClock,       \* bound: the clock stops here
    MaxMigrations,  \* bound: changes of the main table
    MaxFaults       \* bound: lost connections, failed reads and process restarts

ASSUME NatAssumption == {TTL, MaxClock, MaxMigrations, MaxFaults} \subseteq Nat
ASSUME ProcessAssumption == ProcessOf \in [Publication -> Process]

\* The main table: absent, without the message columns, or with them.
Schema == {"missing", "legacy", "i18n"}

\* _main_columns_cache: (expires_at, has_i18n_columns); `set` is FALSE for None.
Cache   == [set : BOOLEAN, until : Nat, has : BOOLEAN]
NoCache == [set |-> FALSE, until |-> 0, has |-> FALSE]

VARIABLES
    schema,      \* the main table
    clock,       \* time.monotonic()
    cache,       \* _main_columns_cache of each process
    pc,          \* where each publication is
    asked,       \* the `now` its thread took when it last asked for the columns
    with,        \* its with_i18n
    absentAt,    \* history: the last moment the message columns were not there
    refused,     \* history: publications whose message columns were refused
                 \* since the table last changed
    migrations, faults

vars == <<schema, clock, cache, pc, asked, with, absentAt, refused, migrations, faults>>

TypeOK ==
    /\ schema \in Schema
    /\ clock \in 0 .. MaxClock
    /\ cache \in [Process -> Cache]
    /\ pc \in [Publication -> {"waiting", "detect", "cached", "detected",
                               "legacy", "i18n"}]
    /\ asked \in [Publication -> Nat]
    /\ with \in [Publication -> BOOLEAN]
    /\ absentAt \in Nat
    /\ refused \subseteq Publication
    /\ migrations \in 0 .. MaxMigrations
    /\ faults \in 0 .. MaxFaults
    /\ \A a \in Publication :
         pc[a] = "detected" => schema # "missing" /\ (with[a] <=> schema = "i18n")

Init ==
    /\ schema \in Schema
    /\ clock = 0
    /\ cache = [p \in Process |-> NoCache]
    /\ pc = [a \in Publication |-> "waiting"]
    /\ asked = [a \in Publication |-> 0]
    /\ with = [a \in Publication |-> FALSE]
    /\ absentAt = 0 /\ refused = {}
    /\ migrations = 0 /\ faults = 0

-----------------------------------------------------------------------------
(* _main_table_has_i18n_columns and DbTransport.publish. *)

Fault == faults < MaxFaults /\ faults' = faults + 1

CacheOf(a) == cache[ProcessOf[a]]

\* Mutant of Fresh: the cache never expires.
FreshForever(a) == CacheOf(a).set
Fresh(a) == CacheOf(a).set /\ CacheOf(a).until > clock

Ask(a) ==
    /\ pc[a] = "waiting"
    /\ asked' = [asked EXCEPT ![a] = clock]
    /\ IF Fresh(a)
       THEN /\ with' = [with EXCEPT ![a] = CacheOf(a).has]
            /\ pc' = [pc EXCEPT ![a] = "cached"]
       ELSE pc' = [pc EXCEPT ![a] = "detect"] /\ UNCHANGED with
    /\ UNCHANGED <<schema, clock, cache, absentAt, refused, migrations, faults>>

\* Another thread of the process forgets the columns between two of the reads of
\* the global: the TypeError is one more failed publication.
AskFails(a) ==
    /\ pc[a] = "waiting" /\ CacheOf(a).set
    /\ \E b \in Publication \ {a} :
         ProcessOf[b] = ProcessOf[a] /\ pc[b] \in {"cached", "detected"} /\ with[b]
    /\ asked' = [asked EXCEPT ![a] = clock]
    /\ Fault
    /\ UNCHANGED <<schema, clock, cache, pc, with, absentAt, refused, migrations>>

\* Mutant of Detect: the expired answer is returned once more.
DetectReturnsOld(a) ==
    /\ pc[a] = "detect" /\ schema # "missing"
    /\ cache' = [cache EXCEPT ![ProcessOf[a]] =
                   [set |-> TRUE, until |-> asked[a] + TTL, has |-> (schema = "i18n")]]
    /\ with' = [with EXCEPT ![a] = CacheOf(a).has]
    /\ pc' = [pc EXCEPT ![a] = "detected"]
    /\ UNCHANGED <<schema, clock, asked, absentAt, refused, migrations, faults>>

\* The introspection reads the table, so until its transaction ends the table
\* cannot be altered; the cache expires TTL after `now` was taken.
Detect(a) ==
    LET has == (schema = "i18n")
    IN  /\ pc[a] = "detect" /\ schema # "missing"
        /\ cache' = [cache EXCEPT ![ProcessOf[a]] =
                       [set |-> TRUE, until |-> asked[a] + TTL, has |-> has]]
        /\ with' = [with EXCEPT ![a] = has]
        /\ pc' = [pc EXCEPT ![a] = "detected"]
        /\ UNCHANGED <<schema, clock, asked, absentAt, refused, migrations, faults>>

\* There is no table, or the connection is lost: nothing is cached.
DetectFails(a) ==
    /\ pc[a] = "detect"
    /\ \/ schema = "missing" /\ UNCHANGED faults
       \/ Fault
    /\ pc' = [pc EXCEPT ![a] = "waiting"]
    /\ UNCHANGED <<schema, clock, cache, asked, with, absentAt, refused, migrations>>

Inserting(a) == pc[a] \in {"cached", "detected"}
Accepted(a)  == schema = "i18n" \/ (schema = "legacy" /\ ~ with[a])

Insert(a) ==
    /\ Inserting(a) /\ Accepted(a)
    /\ pc' = [pc EXCEPT ![a] = IF with[a] THEN "i18n" ELSE "legacy"]
    /\ UNCHANGED <<schema, clock, cache, asked, with, absentAt, refused, migrations, faults>>

\* Mutant of Forget: a refused INSERT leaves the cache alone.
ForgetNothing(a) == UNCHANGED cache
\* _forget_main_columns, after a failed INSERT that named the message columns.
Forget(a) == cache' = IF with[a] THEN [cache EXCEPT ![ProcessOf[a]] = NoCache] ELSE cache

\* The database refuses the INSERT, because of the table as it is now ...
InsertRefused(a) ==
    /\ Inserting(a) /\ ~ Accepted(a)
    /\ Forget(a)
    /\ refused' = IF schema = "legacy" THEN refused \cup {a} ELSE refused
    /\ pc' = [pc EXCEPT ![a] = "waiting"]
    /\ UNCHANGED <<schema, clock, asked, with, absentAt, migrations, faults>>

\* ... or it fails for another reason, or the sync marker cannot be saved after it.
InsertFails(a) ==
    /\ Inserting(a)
    /\ \/ Forget(a)
       \/ Accepted(a) /\ UNCHANGED cache
    /\ pc' = [pc EXCEPT ![a] = "waiting"]
    /\ Fault
    /\ UNCHANGED <<schema, clock, asked, with, absentAt, refused, migrations>>

Publish(a) ==
    \/ Ask(a) \/ AskFails(a) \/ Detect(a) \/ DetectFails(a)
    \/ Insert(a) \/ InsertRefused(a) \/ InsertFails(a)

-----------------------------------------------------------------------------
(* The surroundings. *)

Written(a) == pc[a] \in {"legacy", "i18n"}

\* A process is replaced: its cache and its threads are gone, the records stay.
Restart(p) ==
    /\ cache' = [cache EXCEPT ![p] = NoCache]
    /\ pc' = [a \in Publication |->
                IF ProcessOf[a] = p /\ ~ Written(a) THEN "waiting" ELSE pc[a]]
    /\ Fault
    /\ UNCHANGED <<schema, clock, asked, with, absentAt, refused, migrations>>

\* The main project creates, extends, rolls back or drops the table.
Migrate ==
    /\ \A a \in Publication : pc[a] # "detected"
    /\ migrations < MaxMigrations /\ migrations' = migrations + 1
    /\ schema' \in Schema \ {schema}
    /\ absentAt' = clock
    /\ refused' = {}
    /\ UNCHANGED <<clock, cache, pc, asked, with, faults>>

Tick ==
    /\ clock < MaxClock
    /\ clock' = clock + 1
    /\ absentAt' = IF schema = "i18n" THEN absentAt ELSE clock + 1
    /\ UNCHANGED <<schema, cache, pc, asked, with, refused, migrations, faults>>

Next ==
    \/ \E a \in Publication : Publish(a)
    \/ \E p \in Process : Restart(p)
    \/ Migrate \/ Tick

Spec == Init /\ [][Next]_vars

\* Callbacks and maintenance retry what is not written yet; nothing is assumed
\* of the main project.
Fairness == \A a \in Publication : WF_vars(Publish(a))

FairSpec == Spec /\ Fairness

-----------------------------------------------------------------------------
(* Properties. *)

\* A publication that leaves the message columns out asked for them at most TTL
\* after they were last missing, whichever thread of the process filled the
\* cache and however long that took (settings.md: after the migration it takes
\* five minutes at most until the new columns are written).
LegacyIsRecent ==
    \A a \in Publication :
      pc[a] = "legacy" \/ (Inserting(a) /\ ~ with[a]) => asked[a] <= absentAt + TTL

\* Behind it: a cached "no" has expired by then.
NoIsRecent ==
    /\ absentAt <= clock /\ (schema # "i18n" => absentAt = clock)
    /\ \A a \in Publication : asked[a] <= clock
    /\ \A p \in Process : cache[p].set /\ ~ cache[p].has => cache[p].until <= absentAt + TTL

\* After the columns were rolled back a publication is refused once and then
\* written without them: no thread leaves the old answer in the cache for it
\* (the comment at transports.py:111).
RefusedOnce ==
    [][\A a \in Publication :
         InsertRefused(a) /\ schema = "legacy" => a \notin refused]_vars

\* Behind it: whoever was refused cannot meet the old answer again.
RefusedForgets ==
    schema = "legacy" => \A a \in refused :
      /\ ~ (CacheOf(a).set /\ CacheOf(a).has)
      /\ pc[a] = "cached" => ~ with[a]

IInv == TypeOK /\ NoIsRecent /\ LegacyIsRecent /\ RefusedForgets

\* Once the main project leaves an existing table alone, everything is written.
EventuallyWritten ==
    <>[](schema # "missing") => \A a \in Publication : <>Written(a)
=============================================================================
