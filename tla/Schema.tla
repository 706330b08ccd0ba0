------------------------------- MODULE Schema -------------------------------
(***************************************************************************)
(* How a smalog process opens its database: the lock of the schema         *)
(* migration, the classification of what the database holds, the ordered   *)
(* migrations, the checks after them, the plant's timezone, and the        *)
(* optional diagnostics tables.  Several processes (the service, a CLI     *)
(* command, a newer build after an upgrade) start against one database,    *)
(* may stall at any statement and may crash between any two of them.       *)
(*                                                                         *)
(* SQLite guards the migrations with a row that carries the time it was    *)
(* written; PostgreSQL with a lock of the session, which the library takes *)
(* and which a crash gives back.                                           *)
(***************************************************************************)
EXTENDS Integers, FiniteSets, FiniteSetsExt

CONSTANTS
    Processes,      \* the processes that may open the database
    Zones,          \* timezones a configuration may name
    Builds,         \* versions of the diagnostics tables, one per build
    Engines,        \* "sqlite", "postgres"
    Contents,       \* what the database may hold at first (see Found)
    Patience,       \* age at which a lock is taken over (600 s)
    Tries,          \* attempts to get the lock (400)
    MaxClock, MaxStarts, MaxCrashes        \* bounds of the instance

ASSUME SchemaAssumption ==
    /\ IsFiniteSet(Processes) /\ "none" \notin Processes
    /\ Zones # {} /\ "none" \notin Zones
    /\ Engines \subseteq {"sqlite", "postgres"}
    /\ Contents \subseteq {"empty", "foreign", "older", "current", "newer",
                           "ahead", "nul"}
    /\ Patience \in Nat \ {0} /\ Tries \in Nat \ {0}
    /\ MaxClock \in Nat /\ MaxStarts \in Nat /\ MaxCrashes \in Nat

Migrations == 2     \* 0001_smalog_schema_v1, 0002_inverter_query_support

None == "none"      \* no lock, no timezone, no diagnostics tables, no stamp

VARIABLES
    hostClock,  \* the host's clock, in units of the model
    engine,     \* the database engine of this behaviour
    foreign,    \* it holds tables of SBFspot or of another program
    applied,    \* migrations recorded in _sqlx_migrations
    version,    \* schema_metadata.schema_version agrees with this binary
    text,       \* every TEXT column holds text without NUL
    zone,       \* schema_metadata.plant_timezone
    lock,       \* the lock: its holder and the time written in the row
    tables,     \* shape of the two diagnostics tables: a build, or None
    stamp,      \* schema_metadata.diagnostics_version: a build, or None
    pc,         \* where each process is
    conf,       \* each process's configured timezone and build
    tries,      \* attempts each process has left to get the lock
    noted,      \* the clock or the migrations a process read and acts on
    result,     \* what came of each process's migrations
    stalled,    \* some process was overtaken while it held the lock
    starts, crashes

store == <<foreign, applied, version, text, zone, tables, stamp>>
count == <<starts, crashes>>
schemaVars == <<hostClock, engine, store, lock, pc, conf, tries, noted, result,
          stalled, count>>

NoLock == [by |-> None, at |-> 0]

(* Where a process of SQLite holds the lock.                               *)
Holding == {"classify", "list", "apply", "release"}

Goto(p, where) == pc' = [pc EXCEPT ![p] = where]

(* The migrations a database with this content records: an older smalog's, *)
(* this one's, those of one ahead of it, or of one with another version of *)
(* the schema ("newer").                                                   *)
Found(content) ==
    CASE content \in {"empty", "foreign"} -> 0
      [] content = "older" -> 1
      [] content \in {"current", "newer", "nul"} -> Migrations
      [] content = "ahead" -> Migrations + 1

SchemaInit ==
    /\ hostClock = 0
    /\ engine \in Engines
    /\ \E content \in Contents :
        /\ foreign = (content = "foreign")
        /\ applied = Found(content)
        /\ version = (content \in {"older", "current", "ahead", "nul"})
        /\ text = (content # "nul")
        /\ zone \in IF content \in {"older", "current"} THEN Zones \cup {None}
                    ELSE {None}
    /\ lock = NoLock
    /\ tables = None /\ stamp = None
    /\ pc = [p \in Processes |-> "off"]
    /\ conf = [p \in Processes |->
                 [zone |-> CHOOSE z \in Zones : TRUE, build |-> None]]
    /\ tries = [p \in Processes |-> 0]
    /\ noted = [p \in Processes |-> 0]
    /\ result = [p \in Processes |-> None]
    /\ stalled = FALSE
    /\ starts = 0 /\ crashes = 0

ClockTicks ==
    /\ hostClock < MaxClock
    /\ hostClock' = hostClock + 1
    /\ UNCHANGED <<engine, store, lock, pc, conf, tries, noted, result, stalled,
                   count>>

(* A process starts: SQLite makes the lock's table and waits for its row,  *)
(* PostgreSQL goes straight to the classification.                         *)
Open(p) ==
    /\ pc[p] \in {"off", "failed"}
    /\ starts < MaxStarts
    /\ starts' = starts + 1
    /\ \E z \in Zones, b \in Builds \cup {None} :
          conf' = [conf EXCEPT ![p] = [zone |-> z, build |-> b]]
    /\ tries' = [tries EXCEPT ![p] = Tries]
    /\ result' = [result EXCEPT ![p] = None]
    /\ Goto(p, IF engine = "sqlite" THEN "wait" ELSE "classify")
    /\ UNCHANGED <<hostClock, engine, store, lock, noted, stalled, crashes>>

(* A process exits or crashes; SQLite's row stays, a session's lock ends.  *)
Crash(p) ==
    /\ crashes < MaxCrashes
    /\ pc[p] # "off"
    /\ crashes' = crashes + 1
    /\ Goto(p, "off")
    /\ lock' = IF engine = "postgres" /\ lock.by = p THEN NoLock ELSE lock
    /\ UNCHANGED <<hostClock, engine, store, conf, tries, noted, result,
                   stalled, starts>>

-----------------------------------------------------------------------------
(* The lock of SQLite: one attempt reads the clock, deletes a row older    *)
(* than Patience, and inserts its own unless one is there.                 *)

(* Mutant of Expired: any older row counts as abandoned.                   *)
ExpiredAtOnce(row, now) == row # NoLock /\ row.at < now

Expired(row, now) == row # NoLock /\ row.at < now - Patience

(* History only: the lock's holder is alive and has held it too long.      *)
Outlived == \E p \in Processes : /\ lock.by = p /\ pc[p] \in Holding
                                 /\ lock.at < hostClock - Patience

DeleteExpired(p) ==
    /\ pc[p] = "wait"
    /\ IF tries[p] = 0
       THEN Goto(p, "failed") /\ UNCHANGED <<lock, tries, noted, stalled>>
       ELSE /\ tries' = [tries EXCEPT ![p] = @ - 1]
            /\ \/ UNCHANGED <<lock, pc, noted, stalled>>        \* busy
               \/ /\ noted' = [noted EXCEPT ![p] = hostClock]
                  /\ Goto(p, "insert")
                  /\ IF Expired(lock, hostClock)
                     THEN /\ lock' = NoLock
                          /\ stalled' = (stalled \/ Outlived)
                     ELSE UNCHANGED <<lock, stalled>>
    /\ UNCHANGED <<hostClock, engine, store, conf, result, count>>

InsertLock(p) ==
    /\ pc[p] = "insert"
    /\ \/ /\ lock = NoLock
          /\ lock' = [by |-> p, at |-> noted[p]]
          /\ Goto(p, "classify")
       \/ lock # NoLock /\ Goto(p, "wait") /\ UNCHANGED lock
       \/ Goto(p, "wait") /\ UNCHANGED lock                     \* busy
    /\ UNCHANGED <<hostClock, engine, store, conf, tries, noted, result,
                   stalled, count>>

-----------------------------------------------------------------------------
(* classify_tables: tables of another program, or of a newer smalog, are   *)
(* refused; the lock's and the migrations' own tables do not count.        *)
Classified == ~foreign /\ (applied = 0 \/ version)

(* A process that fails under SQLite's lock still releases it.             *)
Concluded(p, outcome, next) ==
    /\ result' = [result EXCEPT ![p] = outcome]
    /\ Goto(p, IF engine = "sqlite" THEN "release" ELSE next)

Classify(p) ==
    /\ pc[p] = "classify"
    /\ IF Classified THEN Goto(p, "list") /\ UNCHANGED result
                     ELSE Concluded(p, "refused", "failed")
    /\ UNCHANGED <<hostClock, engine, store, lock, conf, tries, noted, stalled,
                   count>>

(* Migrator::run reads which migrations are applied, under a lock of its   *)
(* own in PostgreSQL, and refuses one it does not know.                    *)
List(p) ==
    /\ pc[p] = "list"
    /\ engine = "postgres" => lock = NoLock
    /\ noted' = [noted EXCEPT ![p] = applied]
    /\ IF applied <= Migrations
       THEN /\ Goto(p, "apply")
            /\ lock' = IF engine = "postgres" THEN [by |-> p, at |-> hostClock]
                       ELSE lock
            /\ UNCHANGED result
       ELSE Concluded(p, "refused", "failed") /\ UNCHANGED lock
    /\ UNCHANGED <<hostClock, engine, store, conf, tries, stalled, count>>

(* Each missing migration is one transaction; its CREATE TABLE fails when  *)
(* another process has applied it since the list was read.                 *)
ApplyNext(p) ==
    /\ pc[p] = "apply"
    /\ noted[p] < Migrations
    /\ IF noted[p] = applied
       THEN /\ applied' = applied + 1
            /\ version' = (version \/ applied = 0)
            /\ noted' = [noted EXCEPT ![p] = applied + 1]
            /\ UNCHANGED <<pc, result>>
       ELSE /\ Concluded(p, "collision", "failed")
            /\ UNCHANGED <<applied, version, noted>>
    /\ UNCHANGED <<hostClock, engine, foreign, text, zone, tables, stamp, lock,
                   conf, tries, stalled, count>>

(* verify_*_metadata, and in SQLite the check of every TEXT column.        *)
Verify(p) ==
    /\ pc[p] = "apply"
    /\ noted[p] = Migrations
    /\ lock' = IF engine = "postgres" THEN NoLock ELSE lock
    /\ IF version /\ (engine = "sqlite" => text)
       THEN Concluded(p, "ok", "zone") ELSE Concluded(p, "refused", "failed")
    /\ UNCHANGED <<hostClock, engine, store, conf, tries, noted, stalled,
                   count>>

(* The row is deleted whoever wrote it.                                    *)
Release(p) ==
    /\ pc[p] = "release"
    /\ lock' = NoLock
    /\ Goto(p, IF result[p] = "ok" THEN "zone" ELSE "failed")
    /\ UNCHANGED <<hostClock, engine, store, conf, tries, noted, result,
                   stalled, count>>

-----------------------------------------------------------------------------
(* Mutant of RememberTimezone: the configured zone replaces the stored one.*)
RememberLatestTimezone(p) ==
    /\ pc[p] = "zone"
    /\ zone' = conf[p].zone
    /\ Goto(p, IF conf[p].build = None THEN "ready" ELSE "diagnostics")
    /\ UNCHANGED <<hostClock, engine, foreign, applied, version, text, tables,
                   stamp, lock, conf, tries, noted, result, stalled, count>>

(* remember_timezone: one statement keeps the first timezone and tells     *)
(* whether it is the configured one.                                       *)
RememberTimezone(p) ==
    /\ pc[p] = "zone"
    /\ zone' = IF zone = None THEN conf[p].zone ELSE zone
    /\ Goto(p, IF zone' # conf[p].zone THEN "failed"
               ELSE IF conf[p].build = None THEN "ready" ELSE "diagnostics")
    /\ UNCHANGED <<hostClock, engine, foreign, applied, version, text, tables,
                   stamp, lock, conf, tries, noted, result, stalled, count>>

(* enable_*_diagnostics: tables stamped with another version are dropped.  *)
(* SQLite runs the statements one by one, PostgreSQL as one transaction.   *)
ReadStamp(p) ==
    /\ pc[p] = "diagnostics"
    /\ Goto(p, IF stamp \notin {None, conf[p].build} THEN "drop" ELSE "create")
    /\ UNCHANGED <<hostClock, engine, store, lock, conf, tries, noted, result,
                   stalled, count>>

DropTables(p) ==
    /\ pc[p] \in {"drop", "unstamp"}
    /\ IF pc[p] = "drop" THEN tables' = None ELSE UNCHANGED tables
    /\ IF pc[p] = "unstamp" \/ engine = "postgres"
       THEN stamp' = None /\ Goto(p, "create")
       ELSE UNCHANGED stamp /\ Goto(p, "unstamp")
    /\ UNCHANGED <<hostClock, engine, foreign, applied, version, text, zone,
                   lock, conf, tries, noted, result, stalled, count>>

CreateTables(p) ==
    /\ pc[p] \in {"create", "stamp"}
    /\ IF pc[p] = "create" /\ tables = None
       THEN tables' = conf[p].build ELSE UNCHANGED tables
    /\ IF pc[p] = "stamp" \/ engine = "postgres"
       THEN stamp' = conf[p].build /\ Goto(p, "ready")
       ELSE UNCHANGED stamp /\ Goto(p, "stamp")
    /\ UNCHANGED <<hostClock, engine, foreign, applied, version, text, zone,
                   lock, conf, tries, noted, result, stalled, count>>

SchemaNext ==
    \/ ClockTicks
    \/ \E p \in Processes :
          \/ Open(p) \/ Crash(p)
          \/ DeleteExpired(p) \/ InsertLock(p)
          \/ Classify(p) \/ List(p) \/ ApplyNext(p) \/ Verify(p) \/ Release(p)
          \/ RememberTimezone(p) \/ ReadStamp(p) \/ DropTables(p)
          \/ CreateTables(p)

SchemaSpec == SchemaInit /\ [][SchemaNext]_schemaVars

-----------------------------------------------------------------------------
SchemaTypeOK ==
    /\ hostClock \in 0 .. MaxClock /\ engine \in Engines
    /\ applied \in Nat
    /\ foreign \in BOOLEAN /\ version \in BOOLEAN /\ text \in BOOLEAN
    /\ zone \in Zones \cup {None}
    /\ tables \in Builds \cup {None} /\ stamp \in Builds \cup {None}
    /\ lock.by \in Processes \cup {None} /\ lock.at \in 0 .. MaxClock
    /\ pc \in [Processes -> {"off", "failed", "ready", "wait", "zone",
                             "diagnostics", "drop", "unstamp", "create",
                             "stamp", "insert"} \cup Holding]
    /\ conf \in [Processes -> [zone : Zones, build : Builds \cup {None}]]
    /\ tries \in [Processes -> 0 .. Tries] /\ noted \in [Processes -> Nat]
    /\ result \in [Processes -> {None, "ok", "refused", "collision"}]
    /\ stalled \in BOOLEAN

(* However many processes start at once, and wherever one of them crashes, *)
(* no start fails because another one applied the migration it was about   *)
(* to apply -- unless a process held the lock for longer than Patience and *)
(* was taken for dead.  Acquiring, releasing and reading the migrations.   *)
NoCollision == \A p \in Processes : result[p] = "collision" => stalled

(* Processes that run on one database agree on the plant's timezone, the   *)
(* one the database keeps, and found or made the whole schema.             *)
ReadyAgree ==
    \A p \in Processes :
        pc[p] = "ready" => /\ ~foreign /\ version /\ applied = Migrations
                           /\ zone = conf[p].zone

(* schema.rs says of the version of the diagnostics tables that a database *)
(* holding an older one is rebuilt on start: a process that starts alone   *)
(* and is ready finds the tables its build expects.                        *)
RebuiltOnStart ==
    \A p \in Processes :
        /\ pc[p] = "ready" /\ conf[p].build # None
        /\ \A q \in Processes \ {p} : pc[q] = "off"
        => tables = conf[p].build
=============================================================================
