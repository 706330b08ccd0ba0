------------------------------ MODULE Migrator ------------------------------
(* The import of an SBFspot database (smalog migrate-sbfspot): rows are copied    *)
(* in batches, each in a transaction with its checkpoint; daily yields and        *)
(* statistics are rebuilt; the target is compared with a second, fresh import     *)
(* before the run is called completed.  Invocations may be refused, fail, crash,  *)
(* and be repeated with --resume.                                                 *)
EXTENDS Integers, FiniteSets, Sequences

CONSTANTS
    Sources,    \* source file version -> category -> set of rows with distinct keys
    Options,    \* what an operator may pass: [source, zone, extras]
    Intended,   \* what the one passes who follows the documentation, always
    BatchSize,
    DayLength,  \* instants of a day
    MaxNow,     \* bound: the last instant
    MaxFaults   \* bound: crashes and failed accesses

VARIABLES
    now,          \* the wall clock
    target,       \* cells of the target's tables -> values
    checkpoints,  \* migration_checkpoints, by category
    run,          \* the row of migration_runs, or NoRun
    schema,       \* the target's canonical tables: "none", "begun" or "whole"
    extras,       \* the optional tables that exist
    job,          \* the running invocation
    tx,           \* what its open transaction has written
    faults

durable == <<target, checkpoints, run, schema, extras>>
vars == <<now, target, checkpoints, run, schema, extras, job, tx, faults>>

None == -1
NoRun == [status |-> "none"]
NoCells == [c \in {} |-> None]
NoTx == [cells |-> NoCells]

Categories == <<"config", "inverters", "spot_data", "spot_data_x", "day_data",
                "month_data", "event_data", "consumption">>
CategoryNames == {Categories[i] : i \in DOMAIN Categories}
MeasurementParts == {"mppt", "battery", "grid"}   \* what SpotDataX keys are read for
CanonicalTables == {"inverters", "measurements", "energy", "yields", "events",
                    "consumption", "pvoutput"} \cup MeasurementParts

(* A row has a key, a serial, a time (or entry number) at, a part, a value and a second. *)
(* A cell names a row of a target table, or the columns of one that are written   *)
(* together: measurements is the spot columns, grid the grid power.               *)
Cell(table, serial, at) == [table |-> table, serial |-> serial, at |-> at]
Site == "site"                     \* the serial of what belongs to no inverter

ASSUME SizesAssumption ==
    /\ BatchSize \in Nat \ {0}
    /\ DayLength \in Nat \ {0}
    /\ MaxNow \in Nat /\ MaxFaults \in Nat

ASSUME SourcesAssumption ==
    /\ \A opt \in Options : /\ opt.source \in DOMAIN Sources
                            /\ opt.extras \subseteq {"statistics", "pvoutput"}
    /\ \A version \in DOMAIN Sources, cat \in CategoryNames :
          /\ IsFiniteSet(Sources[version][cat])
          /\ \A r \in Sources[version][cat] : r.key \in Int

(* Row ids and the primary key of SpotDataX tell rows apart; times and rounded     *)
(* totals are integers, and so is None.                                           *)
ASSUME RowsAssumption ==
    /\ \A opt \in Options : opt.zone \in Int
    /\ \A version \in DOMAIN Sources :
          /\ \A cat \in CategoryNames : \A q, r \in Sources[version][cat] :
                q.key = r.key => q = r
          /\ \A r \in Sources[version]["day_data"] : r.at \in Int /\ r.value \in Int
          /\ \A r \in Sources[version]["month_data"] : r.at \in Int

LocalDate(at, zone) == (at + zone) \div DayLength

LowestKey == -1000                 \* i64::MIN
InitialKey(cat) == IF cat = "spot_data_x" THEN LowestKey ELSE 0
NewCheckpoint(cat) == [key |-> InitialKey(cat), rows |-> 0, completed |-> FALSE]

Rows(source, cat) == Sources[source][cat]
ReadRows(source, cat) == {r \in Rows(source, cat) : r.key > InitialKey(cat)}

(* The next at most BatchSize rows in key order.                                  *)
Batch(source, cat, key) ==
    LET left == {r \in Rows(source, cat) : r.key > key}
    IN  {r \in left : Cardinality({q \in left : q.key < r.key}) < BatchSize}

LastKey(rows) == CHOOSE k \in {r.key : r \in rows} : \A r \in rows : r.key <= k

-----------------------------------------------------------------------------
(* What a row writes.                                                             *)

(* The latest values of an inverter become a measurement if SpotData has none then. *)
SyntheticLatest(source, r) ==
    /\ r.at # None /\ r.value # None
    /\ ~\E s \in Rows(source, "spot_data") : s.serial = r.serial /\ s.at = r.at

WantsFlag(opt, r) == "pvoutput" \in opt.extras /\ r.second # None

CellsOf(opt, cat, r) ==
    CASE cat = "config" -> {Cell("staged", Site, r.key)}
      [] cat = "inverters" ->
            {Cell("inverters", r.serial, 0)} \cup
            (IF SyntheticLatest(opt.source, r)
             THEN {Cell("measurements", r.serial, r.at)} ELSE {})
      [] cat = "spot_data" ->
            {Cell("measurements", r.serial, r.at)} \cup
            (IF r.part = "mppt" THEN {Cell("mppt", r.serial, r.at)} ELSE {})
      [] cat = "spot_data_x" ->
            IF r.part \in MeasurementParts
            THEN {Cell("measurements", r.serial, r.at), Cell(r.part, r.serial, r.at)}
            ELSE {}
      [] cat = "day_data" ->
            {Cell("energy", r.serial, r.at)} \cup
            (IF WantsFlag(opt, r) THEN {Cell("pvoutput", r.serial, r.at)} ELSE {})
      [] cat = "month_data" -> {Cell("yields", r.serial, LocalDate(r.at, opt.zone))}
      [] cat = "event_data" -> {Cell("events", r.serial, r.at)}
      [] cat = "consumption" -> {Cell("consumption", Site, r.at)}

Yield(total, daily, complete) == [total |-> total, daily |-> daily, complete |-> complete]

ValueOf(today, c, r) ==
    CASE c.table = "yields" -> Yield(r.value, r.second, c.at < today)
      [] c.table = "pvoutput" -> r.second
      [] OTHER -> r.value

(* A measurement that only carries SpotDataX values is inserted empty, and one    *)
(* that exists is left alone.                                                     *)
OverwritesParent(cat, c) == FALSE                          \* Mutant of EnsuresOnly
EnsuresOnly(cat, c) == cat = "spot_data_x" /\ c.table = "measurements"

(* The target after the rows were written one after the other: the last write to  *)
(* a cell wins.                                                                   *)
LastWriter(opt, cat, rows, c) ==
    CHOOSE r \in rows :
        /\ c \in CellsOf(opt, cat, r)
        /\ \A q \in rows : c \in CellsOf(opt, cat, q) => q.key <= r.key

Written(cells, opt, today, cat, rows) ==
    LET touched == UNION {CellsOf(opt, cat, r) : r \in rows}
    IN  [c \in DOMAIN cells \cup touched |->
            CASE c \notin touched -> cells[c]
              [] EnsuresOnly(cat, c) -> IF c \in DOMAIN cells THEN cells[c] ELSE None
              [] OTHER -> ValueOf(today, c, LastWriter(opt, cat, rows, c))]

(* A row of an inverter that is not in Inverters, or with an unknown flag.        *)
NeedsInverter(cat, r) ==
    \/ cat \in {"spot_data", "day_data", "month_data", "event_data"}
    \/ cat = "spot_data_x" /\ r.part \in MeasurementParts

Refused(cells, opt, cat, r) ==
    \/ NeedsInverter(cat, r) /\ Cell("inverters", r.serial, 0) \notin DOMAIN cells
    \/ cat = "day_data" /\ WantsFlag(opt, r) /\ r.second \notin {0, 1}

-----------------------------------------------------------------------------
(* Daily yields and statistics.                                                   *)

InTable(cells, table) == {c \in DOMAIN cells : c.table = table}

(* The dates MonthData has a yield for: those are never rebuilt.                  *)
CopiedDates(opt) ==
    {Cell("yields", r.serial, LocalDate(r.at, opt.zone)) : r \in ReadRows(opt.source, "month_data")}

(* The total of the latest of some samples, or None.                              *)
LatestTotal(cells, samples) ==
    IF samples = {} THEN None
    ELSE cells[CHOOSE c \in samples : \A d \in samples : d.at <= c.at]

ValidSamples(cells, serial) ==
    {c \in InTable(cells, "energy") : c.serial = serial /\ cells[c] >= 0}

(* The last total before the day, and the last of the day that is not below it.   *)
Baseline(cells, opt, day) ==
    LatestTotal(cells, {c \in ValidSamples(cells, day.serial) :
                            LocalDate(c.at, opt.zone) < day.at})
AcceptedTotal(cells, opt, day) ==
    LatestTotal(cells, {c \in ValidSamples(cells, day.serial) :
                            /\ LocalDate(c.at, opt.zone) = day.at
                            /\ cells[c] >= Baseline(cells, opt, day)})

RebuildableDays(cells, opt) ==
    {day \in {Cell("yields", c.serial, LocalDate(c.at, opt.zone)) : c \in InTable(cells, "energy")} :
        /\ day \notin CopiedDates(opt)
        /\ Baseline(cells, opt, day) # None
        /\ AcceptedTotal(cells, opt, day) # None}

RebuiltYield(cells, opt, today, day) ==
    LET total == AcceptedTotal(cells, opt, day)
    IN  Yield(total, total - Baseline(cells, opt, day), day.at < today)

StatisticsDays(cells, opt) ==
    IF "statistics" \in opt.extras
    THEN {Cell("statistics", c.serial, LocalDate(c.at, opt.zone)) :
              c \in InTable(cells, "measurements")}
    ELSE {}

(* Statistics are a function of the measurements of the day; they are complete    *)
(* once the day has ended and has a measurement for every poll.                   *)
Statistics(cells, opt, today, day) ==
    LET measured == {c \in InTable(cells, "measurements") :
                        c.serial = day.serial /\ LocalDate(c.at, opt.zone) = day.at}
    IN  [of |-> {<<c.at, cells[c]>> : c \in measured},
         complete |-> day.at < today /\ Cardinality(measured) >= DayLength]

(* The cells with some of them computed anew.                                     *)
Filled(cells, days, Value(_)) ==
    [c \in DOMAIN cells \cup days |-> IF c \in days THEN Value(c) ELSE cells[c]]

-----------------------------------------------------------------------------
(* The second import, into a fresh database, that verification compares with:     *)
(* the categories in their order, each in one batch.                              *)
Copied(cells, opt, today, cat) ==
    Written(cells, opt, today, cat, ReadRows(opt.source, cat))

Imported(opt, today) ==
    LET Copy(cells, cat) == Copied(cells, opt, today, cat)
        spot == Copy(Copy(Copy(NoCells, "config"), "inverters"), "spot_data")
        archive == Copy(Copy(Copy(spot, "spot_data_x"), "day_data"), "month_data")
    IN  Copy(Copy(archive, "event_data"), "consumption")

Expected(opt, today) ==
    LET copied == Imported(opt, today)
        withYields == Filled(copied, RebuildableDays(copied, opt),
                             LAMBDA day : RebuiltYield(copied, opt, today, day))
    IN  Filled(withYields, StatisticsDays(withYields, opt),
               LAMBDA day : Statistics(withYields, opt, today, day))

(* The tables that are compared: the staged rows are not.                         *)
Compared(cells) ==
    [c \in {d \in DOMAIN cells : d.table \in CanonicalTables \cup {"statistics"}} |-> cells[c]]

VerificationPasses(opt, today) ==
    /\ run.source = opt.source /\ run.zone = opt.zone
    /\ extras = opt.extras
    /\ \A cat \in CategoryNames : /\ checkpoints[cat].completed
                                  /\ checkpoints[cat].rows = Cardinality(Rows(opt.source, cat))
    /\ Compared(target) = Compared(Expected(opt, today))

-----------------------------------------------------------------------------
Idle == [at |-> "idle"]

Init ==
    /\ now = 0
    /\ target = NoCells
    /\ checkpoints = [cat \in CategoryNames |-> NewCheckpoint(cat)]
    /\ run = NoRun
    /\ schema = "none"
    /\ extras = {}
    /\ job = Idle
    /\ tx = NoTx
    /\ faults = 0

(* Days go by.                                                                    *)
Tick ==
    /\ now < MaxNow
    /\ now' = now + 1
    /\ UNCHANGED <<durable, job, tx, faults>>

(* preflight: a target with some tables and no schema_metadata is refused as       *)
(* unrelated.  --resume wants a run of the same source file; without it the target *)
(* must be empty, or hold no canonical row.  The local date is taken here, once.   *)
NoCanonicalRow == \A c \in DOMAIN target : c.table \notin CanonicalTables

ResumesOnlyInterrupted(mode, opt) ==                       \* Mutant of PreflightPasses
    /\ schema # "begun"
    /\ IF mode = "resume"
       THEN run.status = "interrupted" /\ run.source = opt.source
       ELSE NoCanonicalRow
PreflightPasses(mode, opt) ==
    /\ schema # "begun"
    /\ IF mode = "resume"
       THEN run # NoRun /\ run.source = opt.source
       ELSE NoCanonicalRow

Start(mode, opt) ==
    /\ job = Idle
    /\ PreflightPasses(mode, opt)
    /\ job' = [at |-> "initialize", mode |-> mode, opt |-> opt,
               today |-> LocalDate(now, opt.zone),
               category |-> 1, key |-> 0, todo |-> {}]
    /\ UNCHANGED <<now, durable, tx, faults>>

At(phase) == job.at = phase
Goto(phase) == job' = [job EXCEPT !.at = phase]
Leave == job' = Idle

(* initialize: the tables of the schema's own bookkeeping (the lock, the record of  *)
(* applied migrations), then the canonical tables and schema_metadata in one       *)
(* transaction, then the optional tables the flags ask for.  What exists is kept.  *)
BeginSchema ==
    /\ At("initialize") /\ schema = "none"
    /\ schema' = "begun"
    /\ UNCHANGED <<now, target, checkpoints, run, extras, job, tx, faults>>

ApplySchema ==
    /\ At("initialize") /\ schema = "begun"
    /\ schema' = "whole"
    /\ UNCHANGED <<now, target, checkpoints, run, extras, job, tx, faults>>

EnableExtra ==
    /\ At("initialize") /\ schema = "whole"
    /\ \E table \in job.opt.extras \ extras : extras' = extras \cup {table}
    /\ UNCHANGED <<now, target, checkpoints, run, schema, job, tx, faults>>

Initialized ==
    /\ At("initialize") /\ schema = "whole"
    /\ job.opt.extras \subseteq extras
    /\ Goto("open")
    /\ UNCHANGED <<now, durable, tx, faults>>

(* open_run.  The timezone of a run that exists is neither compared nor changed.  *)
CreateRun ==
    /\ At("open")
    /\ run = NoRun /\ job.mode = "execute"
    /\ run' = [status |-> "running", source |-> job.opt.source, zone |-> job.opt.zone]
    /\ Goto("category")
    /\ UNCHANGED <<now, target, checkpoints, schema, extras, tx, faults>>

ReopenRun ==
    /\ At("open")
    /\ run # NoRun /\ job.mode = "resume" /\ run.source = job.opt.source
    /\ run' = [run EXCEPT !.status = "running"]
    /\ Goto("category")
    /\ UNCHANGED <<now, target, checkpoints, schema, extras, tx, faults>>

RefuseRun ==
    /\ At("open")
    /\ run # NoRun /\ job.mode = "execute"
    /\ Leave
    /\ UNCHANGED <<now, durable, tx, faults>>

-----------------------------------------------------------------------------
(* process_categories.                                                            *)
Cat == Categories[job.category]
NextRows == Batch(job.opt.source, Cat, job.key)
NextCategory == job' = [job EXCEPT !.at = "category", !.category = @ + 1]

SkipCategory ==
    /\ At("category") /\ job.category <= Len(Categories)
    /\ checkpoints[Cat].completed
    /\ NextCategory
    /\ UNCHANGED <<now, durable, tx, faults>>

EnterFromStart ==                                          \* Mutant of EnterCategory
    /\ At("category") /\ job.category <= Len(Categories)
    /\ ~checkpoints[Cat].completed
    /\ job' = [job EXCEPT !.at = "batch", !.key = InitialKey(Cat)]
    /\ UNCHANGED <<now, durable, tx, faults>>
EnterCategory ==
    /\ At("category") /\ job.category <= Len(Categories)
    /\ ~checkpoints[Cat].completed
    /\ job' = [job EXCEPT !.at = "batch", !.key = checkpoints[Cat].key]
    /\ UNCHANGED <<now, durable, tx, faults>>

CompleteCheckpoint ==
    /\ At("batch")
    /\ NextRows = {}
    /\ checkpoints' = [checkpoints EXCEPT ![Cat].completed = TRUE]
    /\ NextCategory
    /\ UNCHANGED <<now, target, run, schema, extras, tx, faults>>

Accepted == \A r \in NextRows : ~Refused(target, job.opt, Cat, r)

(* The rows of a batch and its checkpoint, in the open transaction.               *)
WriteBatch ==
    /\ At("batch")
    /\ NextRows # {} /\ Accepted
    /\ tx' = [cells |-> Written(target, job.opt, job.today, Cat, NextRows),
              checkpoint |-> [key |-> LastKey(NextRows),
                              rows |-> checkpoints[Cat].rows + Cardinality(NextRows),
                              completed |-> FALSE]]
    /\ Goto("commit")
    /\ UNCHANGED <<now, durable, faults>>

(* A row is refused, or a write fails: the transaction is rolled back.            *)
BatchRefused ==
    /\ At("batch")
    /\ NextRows # {} /\ ~Accepted
    /\ Goto("interrupt")
    /\ UNCHANGED <<now, durable, tx, faults>>

BatchFails ==
    /\ At("commit")
    /\ faults < MaxFaults /\ faults' = faults + 1
    /\ tx' = NoTx
    /\ Goto("interrupt")
    /\ UNCHANGED <<now, durable>>

ApplyRowsOnly ==                                           \* Mutant of Apply
    /\ target' = tx.cells
    /\ checkpoints' = checkpoints
Apply ==
    /\ target' = tx.cells
    /\ checkpoints' = [checkpoints EXCEPT ![Cat] = tx.checkpoint]

Commit ==
    /\ At("commit")
    /\ Apply
    /\ tx' = NoTx
    /\ job' = [job EXCEPT !.at = "batch", !.key = tx.checkpoint.key]
    /\ UNCHANGED <<now, run, schema, extras, faults>>

(* A commit that reports an error may have happened all the same.                 *)
CommitFails ==
    /\ At("commit")
    /\ faults < MaxFaults /\ faults' = faults + 1
    /\ Apply
    /\ tx' = NoTx
    /\ Goto("interrupt")
    /\ UNCHANGED <<now, run, schema, extras>>

CategoriesDone ==
    /\ At("category") /\ job.category > Len(Categories)
    /\ job' = [job EXCEPT !.at = "yields", !.todo = RebuildableDays(target, job.opt)]
    /\ UNCHANGED <<now, durable, tx, faults>>

-----------------------------------------------------------------------------
(* rebuild_and_report_daily_yields: each day is committed by itself.              *)
RebuildDay ==
    /\ At("yields")
    /\ \E day \in job.todo :
          /\ target' = Filled(target, {day},
                              LAMBDA d : RebuiltYield(target, job.opt, job.today, d))
          /\ job' = [job EXCEPT !.todo = @ \ {day}]
    /\ UNCHANGED <<now, checkpoints, run, schema, extras, tx, faults>>

(* Every date of MonthData must be there.                                         *)
YieldsDone ==
    /\ At("yields") /\ job.todo = {}
    /\ IF CopiedDates(job.opt) \subseteq DOMAIN target
       THEN job' = [job EXCEPT !.at = "statistics", !.todo = StatisticsDays(target, job.opt)]
       ELSE Goto("interrupt")
    /\ UNCHANGED <<now, durable, tx, faults>>

(* rebuild_daily_statistics.                                                      *)
RebuildStatistics ==
    /\ At("statistics")
    /\ \E day \in job.todo :
          /\ target' = Filled(target, {day},
                              LAMBDA d : Statistics(target, job.opt, job.today, d))
          /\ job' = [job EXCEPT !.todo = @ \ {day}]
    /\ UNCHANGED <<now, checkpoints, run, schema, extras, tx, faults>>

StatisticsDone ==
    /\ At("statistics") /\ job.todo = {}
    /\ Goto("verify")
    /\ UNCHANGED <<now, durable, tx, faults>>

(* An access outside of a batch's transaction fails.                              *)
AccessFails ==
    /\ job.at \in {"category", "batch", "yields", "statistics"}
    /\ faults < MaxFaults /\ faults' = faults + 1
    /\ Goto("interrupt")
    /\ UNCHANGED <<now, durable, tx>>

(* verify_for_run has its own look at the clock.  A verification that cannot be    *)
(* carried out counts as failed.                                                  *)
Decide(phase) ==
    /\ At("verify")
    /\ Goto(phase)
    /\ UNCHANGED <<now, durable, tx>>

Verify ==
    /\ Decide(IF VerificationPasses(job.opt, LocalDate(now, job.opt.zone))
              THEN "complete" ELSE "fail")
    /\ UNCHANGED faults

VerifyFails ==
    /\ Decide("fail")
    /\ faults < MaxFaults /\ faults' = faults + 1

(* complete_run, fail_run, interrupt_run.                                         *)
Outcome(phase) ==
    CASE phase = "complete" -> "completed"
      [] phase = "fail" -> "failed"
      [] phase = "interrupt" -> "interrupted"

CloseRun ==
    /\ job.at \in {"complete", "fail", "interrupt"}
    /\ run' = [run EXCEPT !.status = Outcome(job.at)]
    /\ Leave
    /\ UNCHANGED <<now, target, checkpoints, schema, extras, tx, faults>>

(* The process dies, or returns with an error that it does not record.            *)
Crash ==
    /\ job # Idle
    /\ faults < MaxFaults /\ faults' = faults + 1
    /\ Leave
    /\ tx' = NoTx
    /\ UNCHANGED <<now, durable>>

JobStep ==
    \/ BeginSchema \/ ApplySchema \/ EnableExtra \/ Initialized
    \/ CreateRun \/ ReopenRun \/ RefuseRun
    \/ SkipCategory \/ EnterCategory \/ CompleteCheckpoint \/ WriteBatch
    \/ BatchRefused \/ Commit \/ CategoriesDone
    \/ RebuildDay \/ YieldsDone \/ RebuildStatistics \/ StatisticsDone
    \/ CloseRun

(* A target that was left with some tables and no schema_metadata is refused by    *)
(* every invocation; the operator, told to choose an empty one, may provide it.    *)
LeftHalfMade == job = Idle /\ schema = "begun"

ReplaceTarget ==
    /\ LeftHalfMade
    /\ schema' = "none"
    /\ UNCHANGED <<now, target, checkpoints, run, extras, job, tx, faults>>

Execute == \E opt \in Options : Start("execute", opt)
Resume == \E opt \in Options : Start("resume", opt)

Next ==
    \/ Tick \/ Execute \/ Resume \/ ReplaceTarget
    \/ JobStep \/ Verify
    \/ BatchFails \/ CommitFails \/ AccessFails \/ VerifyFails \/ Crash

Spec == Init /\ [][Next]_vars

(* The process takes its steps, verification comes to some conclusion, and the     *)
(* operator begins, and after an interruption resumes sooner or later.             *)
FairSpec ==
    /\ Spec
    /\ WF_vars(JobStep)
    /\ WF_vars(\E phase \in {"complete", "fail"} : Decide(phase) /\ UNCHANGED faults)
    /\ WF_vars(Execute) /\ SF_vars(Resume)
-----------------------------------------------------------------------------
(* Type correctness.                                                              *)
TypeOK ==
    /\ now \in 0..MaxNow
    /\ \A c \in DOMAIN target :
          c.table \in CanonicalTables \cup {"staged", "statistics"}
    /\ checkpoints \in [CategoryNames -> [key : Int, rows : Nat, completed : BOOLEAN]]
    /\ \/ run = NoRun
       \/ run.status \in {"running", "interrupted", "failed", "completed"}
    /\ schema \in {"none", "begun", "whole"}
    /\ extras \subseteq {"statistics", "pvoutput"}
    /\ job = Idle \/ job.category \in 1 .. Len(Categories) + 1
    /\ faults \in 0..MaxFaults
    /\ tx # NoTx <=> At("commit")

(* The rows of the run's source that a checkpoint says are in the target.         *)
Covered(cat) == {r \in ReadRows(run.source, cat) : r.key <= checkpoints[cat].key}

(* A checkpoint tells the truth through any sequence of failures and resumptions: *)
(* the rows up to its key, and in the staging table only those, are in the        *)
(* target; it counted each once; and if it is completed no row is left.           *)
CheckpointCovers ==
    run # NoRun =>
        \A cat \in CategoryNames :
            /\ checkpoints[cat].rows = Cardinality(Covered(cat))
            /\ checkpoints[cat].completed => Covered(cat) = ReadRows(run.source, cat)
            /\ cat = "config" =>
                  InTable(target, "staged") = {Cell("staged", Site, r.key) : r \in Covered(cat)}
            /\ cat # "month_data" =>
                  \A r \in Covered(cat) :
                      CellsOf([source |-> run.source, extras |-> {}], cat, r)
                          \subseteq DOMAIN target

(* Neither a resumption nor a rollback takes a checkpoint back.                   *)
CheckpointsOnlyAdvance ==
    [][\A cat \in CategoryNames :
          /\ checkpoints'[cat].key >= checkpoints[cat].key
          /\ checkpoints'[cat].rows >= checkpoints[cat].rows
          /\ checkpoints[cat].completed => checkpoints'[cat].completed]_vars

(* What a complete import holds, said of the source alone: of the rows for one    *)
(* cell the last one counts, SpotData goes before an inverter's latest values, a  *)
(* SpotDataX value before the fixed tracker columns, MonthData before DayData.    *)
LastOf(rows) == (CHOOSE r \in rows : \A q \in rows : q.key <= r.key).value

Said(source, cat, serial, at) ==
    {r \in ReadRows(source, cat) : r.serial = serial /\ r.at = at}

Preferred(first, second) == IF first # {} THEN LastOf(first)
                            ELSE IF second # {} THEN LastOf(second) ELSE None

Latest(source) == {r \in ReadRows(source, "inverters") : r.at # None /\ r.value # None}

SourceMeasurement(source, serial, at) ==
    Preferred(Said(source, "spot_data", serial, at),
              {r \in Latest(source) : r.serial = serial /\ r.at = at})

SourceTracker(source, serial, at) ==
    Preferred({r \in Said(source, "spot_data_x", serial, at) : r.part = "mppt"},
              {r \in Said(source, "spot_data", serial, at) : r.part = "mppt"})

SourceMeasured(source) ==
    {<<r.serial, r.at>> : r \in
        Latest(source) \cup ReadRows(source, "spot_data")
        \cup {r \in ReadRows(source, "spot_data_x") : r.part \in MeasurementParts}}

TableHolds(table, keys, Value(_, _)) ==
    /\ InTable(target, table) = {Cell(table, k[1], k[2]) : k \in keys}
    /\ \A k \in keys : target[Cell(table, k[1], k[2])] = Value(k[1], k[2])

(* The energy totals of an inverter, of two for one instant the last.              *)
Totals(source, serial) ==
    {r \in ReadRows(source, "day_data") :
        /\ r.serial = serial /\ r.value >= 0
        /\ \A q \in Said(source, "day_data", serial, r.at) : q.key <= r.key}

(* A yield that is in MonthData, or else between the last total of the days before *)
(* and the last total of the day that is not below it.                            *)
SourceYield(source, zone, c, y) ==
    LET monthly == {r \in ReadRows(source, "month_data") :
                        r.serial = c.serial /\ LocalDate(r.at, zone) = c.at}
        totals == Totals(source, c.serial)
    IN  IF monthly # {} THEN y.total = LastOf(monthly)
        ELSE \E before \in totals, after \in totals :
                /\ LocalDate(before.at, zone) < c.at /\ LocalDate(after.at, zone) = c.at
                /\ \A r \in totals : \/ r.at <= before.at
                                      \/ LocalDate(r.at, zone) >= c.at
                /\ \A r \in totals : \/ r.at <= after.at \/ r.value < before.value
                                      \/ LocalDate(r.at, zone) > c.at
                /\ y.total = after.value /\ y.daily = after.value - before.value
                /\ y.daily >= 0

(* The target holds the source's measurements, tracker values, energy, events and  *)
(* yields and no others, as the run's timezone has them, and no day is marked      *)
(* complete that has not ended.                                                   *)
MeasurementsAreTheSources(source) ==
    /\ TableHolds("measurements", SourceMeasured(source),
                  LAMBDA serial, at : SourceMeasurement(source, serial, at))
    /\ \A c \in InTable(target, "mppt") : target[c] = SourceTracker(source, c.serial, c.at)

ArchiveIsTheSources(source) ==
    /\ TableHolds("energy", {<<r.serial, r.at>> : r \in ReadRows(source, "day_data")},
                  LAMBDA serial, at : LastOf(Said(source, "day_data", serial, at)))
    /\ TableHolds("events", {<<r.serial, r.at>> : r \in ReadRows(source, "event_data")},
                  LAMBDA serial, at : LastOf(Said(source, "event_data", serial, at)))

YieldsAreTheSources(source, zone) ==
    /\ \A c \in InTable(target, "yields") :
          /\ SourceYield(source, zone, c, target[c])
          /\ target[c].complete => c.at < LocalDate(now, zone)
    /\ {Cell("yields", r.serial, LocalDate(r.at, zone)) : r \in ReadRows(source, "month_data")}
          \subseteq DOMAIN target

(* A run that is called completed holds its source, however often it was           *)
(* interrupted, resumed, or resumed with other flags or another timezone in        *)
(* between.                                                                        *)
CompletedIsFaithful ==
    run # NoRun /\ run.status = "completed" =>
        /\ MeasurementsAreTheSources(run.source)
        /\ ArchiveIsTheSources(run.source)
        /\ YieldsAreTheSources(run.source, run.zone)

(* A copied daily yield of a day that had not ended when it was copied.            *)
HoldsUnfinishedDay ==
    /\ job # Idle
    /\ \E c \in InTable(target, "yields") :
          /\ c \in CopiedDates(job.opt)
          /\ ~target[c].complete
          /\ c.at < LocalDate(now, job.opt.zone)

KeepsArguments == job # Idle => job.opt = Intended

(* An interrupted run that is always resumed with the same arguments is completed  *)
(* in the end.                                                                    *)
ResumedRunCompletes == []KeepsArguments => <>(run.status = "completed")

(* So it is, unless the process died while it made the target's first tables, or   *)
(* a yield copied from MonthData was of the current day and the day ended before   *)
(* the run was completed.                                                         *)
ResumedRunCompletesOrIsStale ==
    []KeepsArguments =>
        <>(run.status = "completed" \/ HoldsUnfinishedDay \/ LeftHalfMade)
=============================================================================
