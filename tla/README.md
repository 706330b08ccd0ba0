# smalog in TLA+

smalog reads SMA inverters over Speedwire (UDP) and Bluetooth, stores what they
report, and offers it by HTTP, CSV and MQTT. This directory has TLA+ modules of
its core, TLC configurations that check them on small instances, and TLAPS proofs
for every instance. `PROJECT.json` lists the components, the runs, the lines each
definition stands for, the hazards and the theorems.

    tlc -config service_tick.cfg PollService.tla
    tlapm Diagnostics_proofs.tla

## The system

Crates are below `src/src/crates/`.

| component | state it keeps | operations | talks to |
|---|---|---|---|
| service loop (`smalog/src/service.rs`) | collectors, `last_daily`, `fresh_cycle`, `status_cycle`, API status | `run`, `tick`, `export`, `update_status`, signals | collectors, storage, exporters, writer task |
| collector (`smalog-connection/src/collector.rs`) | inverters of the cycle, session refusals, `month_offsets`, `offsets_probed` | `cycle`, `probe`, `probe_all`, one request primitive | a `Connection`, a sink, a `QuerySupport` |
| query support memory (`smalog/src/query_support.rs`, `smalog-storage/src/query_support.rs`) | refusals in a map and in a table | `load`, `remember` (detached write), `unsupported` | collector, database |
| transmission diagnostics (`smalog/src/diagnostics.rs`, `smalog-storage/src/diagnostics.rs`) | write queue, `Shutdown`, writer task, the ring table | `push`, `run`, `flush`, `write_transmissions`, `prune_ring` | service loop (another thread), database, HTTP API |
| Speedwire transport (`smalog-connection/src/speedwire.rs`, `conn.rs`) | packet id, sessions, devices | `begin`, `login_all`, `request_all`, `end` | inverters by UDP |
| Bluetooth transport (`smalog-connection/src/bluetooth.rs`) | socket, frame buffer, devices | the same trait | inverters by RFCOMM |
| decoding (`smalog-connection/src/smadata2/`) | none | frames and archive records to values | transports, collector |
| storage (`smalog-storage/src/storage.rs`) | measurements, archive samples, yields, cached statistics | `write_poll`, `write_energy_samples`, `write_daily_yields`, reads | service loop, command line, API |
| schema (`smalog-storage/src/schema.rs`) | applied migrations, the migration lock, the plant's timezone, the version of optional tables | `initialize`, `enable_*` | every process that opens the database |
| log buffer (`smalog/src/applog.rs`) | ring of log records with sequence numbers | `push`, `read`, `stats` | tracing, API |
| MQTT, CSV (`smalog-export/`) | client channel, discovery memory; files | `publish`, writes | service loop |
| migrator (`smalog-sbfspot-migrator/`) | the run with its status, a checkpoint per category, the target's rows | execute, resume, verify | an SBFspot database, the target, a second target |
| HTTP API (`smalog/src/service.rs`) | none | `/api/history`, `/api/diagnostics`, `/api/logs` and others | storage, status, log buffer |
| dashboard (`src/src/ui`) | the list of a tab with its cursors, filter and pause | polling the tail, paging backwards | HTTP API |

A tick of the service polls the collectors one after the other, each through a
whole Poll Cycle on its connection, then exports what was delivered to the
database, CSV and MQTT, then replaces the status. Every exchange of a cycle is
pushed to the diagnostics queue, which a task on another thread writes. Refused
queries are remembered by tasks that nobody waits for.

### What is hard

* *Interleaving.* The writer task runs in parallel with the loop; both use a
  mutex, an atomic and two `tokio::sync::Notify`. Refusals are written behind the
  cycle's back, and may land after the table was cleared or not at all.
* *Failure in the middle.* Any await of a cycle may fail; a collector may fail
  while others deliver; a batch or a prune may fail; the process may crash.
* *State that outlives its moment.* Snapshots of failed collectors, refusals past
  their recheck window, the month offset learned once, the wall clock moving on or
  back while a tick or a prune relies on it.
* *Bounds.* The write queue, the rings and the MQTT client's channel at their limits.
* *Answers put together.* An HTTP response is made of several queries, and a list in the
  browser of several responses, while what they read changes, restarts or is evicted.
* *Several processes.* The service, command-line commands and a newer build open one
  database at once, and any of them may stall or die holding the migration lock.
* *Resumption.* An import is made of many transactions; it may stop after any of them
  and is begun again, on another day or with other arguments.
* *Termination.* Signals race with the tick; the tick waits for a broker.

`PROJECT.json` lists each hazard at its line, with the property that would catch
it, or why none does yet.

## The modules

### QuerySupport, Collector

`QuerySupport` is the refusal memory: `memory` is the map of the process, `rows`
the table, `writes` the detached tasks. `Remember` adds to the map and starts a
write for pairs the map did not have; `Load` reads the rows inside the recheck
window at process start. Writes land in any order, fail, or die with the process;
somebody may clear the table; the clock moves by days.

`Collector` extends it with `cycle`, `probe` and `probe_all`. An action is the code
between two awaits: it ends with the connection's answer and everything done with
it until the next request, including the skip of refused queries, the choice of
the next query, the archive loops and their early exits. The connection answers for any
subset of its devices; the rest refuse or are silent, and a request may fail as a
whole. `inverters` holds per inverter which kinds were decoded, whether the day
archive came, which month is held and whether it is corrected, and the event
answers. Decoding is reduced to "what was heard from whom"; the four ways in which
equipment changes the query sequence are constants (`BatterySerials` and so on). A
collector has both a sink and a memory (the service) or neither (the command
line); the code's other two combinations are used nowhere.

`MCCollector` has the sets and sequences of the instances.

### PollService

`run`, `tick`, `export` and `update_status` with `N` collectors. A collector's
cycle is one step, with the outcomes and snapshots `Collector` shows possible:
`new` data, `blank` after a failed login, `old` when begin failed, `bad` when an
observation cannot be converted. `phase` is the place in the loop. Messages to MQTT
go through a channel of `Capacity` slots which the event loop empties while the
broker is reachable; `Publish` waits for a slot as `publish()` does. SIGTERM stays
in its stream until read. SIGINT is seen only by a future created in each select,
and once such a future has been polled the default handler is gone, so in a tick
it is `lost`. `Restart` is an exit or a crash followed by a new process.

### Diagnostics, TransmissionLog

`Diagnostics` takes the write path apart at every access to shared memory: the mutex,
the stop flag, the permit of `notify_one`, the registration with `notify_waiters`.
`work` and `stop` are the two branches of the writer's `select!`. `WriteBatch` is
one transaction; `Prune` is one round of `prune_ring` with its two deletions,
`PruneFails` leaves either of them done. A record's `at` is read from a clock that
may step both ways. Of the five-second join only that it may give up is modelled
(`Timeout`). The flush of `smalog once` and the readers are left out.

`TransmissionLog` is what a reader is promised: a lossy, ordered log in which
nothing is repeated, invented or put before what was recorded earlier.
`Diagnostics` implements it with `sent <- pushed`, `inflight <-` the numbers in queue
and batch, and `stored <-` the numbers in the table: a push is `Send` (and loses
what it evicts), `WriteBatch` is `Store`, a failed write and a restart are `Lose`,
prunes are `Forget`, everything else stutters.

### Speedwire

`login_all`, `request_all` and `end` of the UDP transport. A call goes through the
devices in order; every attempt has a new packet id. `net` holds the answers on
their way or in the socket's buffer: they may stay there for ever, overtake each
other, arrive twice (`copy`) and be read during a later call. `Matches` is
`response_matches`: requests for different registers have the same command, so
only the id tells them apart. The id wraps; nothing is assumed to outlive all
32766 other ids. `noisy` says that energy meters broadcast more often than every
two seconds. `recv` drops their datagrams but restarts its timeout for each, so no
`Timeout` happens then. Frames carry which call they answer and whether all before
them had come; this is history. Discovery and identification at start and the
packet bytes are left out.

### Migrator

`migrate-sbfspot` with `--execute` and `--resume`, again and again on one target. `job`
is the running invocation: its arguments, the local date it took at its start
(`today`), the category it is at, and the key it reads on from. `Start` has the check
of the target that preflight makes, its tables (`schema`) included; `BeginSchema`,
`ApplySchema` and `EnableExtra` are `initialize`, `CreateRun` and `ReopenRun` are `open_run`; `EnterCategory`, `WriteBatch`, `Commit` and
`CompleteCheckpoint` are the loop of `process_categories` and of `process_spot_data_x`,
which differ in their keys only. `tx` is the open transaction. Then come the yields, the
statistics, `Verify`, and `CloseRun` with the three ways to record an outcome.

Source rows have a key, a serial, a time and values; `CellsOf` says which rows of the
target they write, `Written` how batches overwrite one another, `RebuildableDays` and
`RebuiltYield` what the accumulator over the energy samples computes. `Expected` is the second
import, into a fresh database, that verification compares with (`Imported` before the
yields are rebuilt): it is built by the same operators with one batch per category, as
the code runs the same functions, so it cannot show that they are right.
`CompletedIsFaithful` therefore says what a completed run holds by the source alone. A
faulty access ends an invocation and records the run as interrupted; a crash, and a
failure of the recording itself, leave its status `running`; a commit that reports an
error may have happened. An invocation that dies between `BeginSchema` and `ApplySchema`
leaves a target that preflight refuses from then on; `ReplaceTarget` is the operator who
follows the advice of that refusal. A lock row left by a dead process, which makes
`initialize` fail for ten minutes, is in `Schema`; here such an invocation is a `Crash`.

`MCMigrator` has the source database of the instances, in two versions.

### Schema

How a process opens the database: `DeleteExpired` and `InsertLock` are one attempt of
`acquire_sqlite_lock` (its two statements), `Classify`, `List`, `ApplyNext`, `Verify` and `Release`
the migrations, then the timezone and the diagnostics tables. Every action is one
statement or one transaction, between which another process may step, stall or crash.
The database holds at first one of seven contents (empty, foreign, older, current,
of another version, ahead, with NUL in a text). SQLite's lock is a row with the
time it was written; PostgreSQL's belongs to the session and ends with it. `Builds` are
versions of the diagnostics tables: an upgrade is a start with another one. `stalled`
is history: somebody was taken for dead while it held the lock.

### Storage

What one inverter's polls fill: measurements with the cached daily statistics, raw
energy samples with the yields derived from them. `Service` is the next statement or
transaction of an export, `RebuildDate` that of `rebuild-daily-yields` beside it; `Fail` and
`Restart` come between any two. Points in time are slots of days; the device's counter
is a function of time with one reset. Means are kept as sums and durations. The
isolation is SQLite's, one writer at a time: PostgreSQL's recomputation of a yield is
not atomic there, and not modelled. `torn` and `altered` are history.

### History

One response of `/api/history` or `/api/diagnostics`: `todo` holds the queries not yet made,
`got` the answers; each `Read` is a query, between which `WriteMeasurement` and `WriteSample`
store what a poll brings, with an energy of 0 when the poll's energy query failed. `Rows` is the joining of samples and measurements into the
rows of the day, at half slots because samples are rounded to the nearest slot. The
week, month and year views use a Gregorian calendar, from the year 1 on at the earliest,
with the days that have no local midnight (`Gaps`); `Selected` and `Previous` are the windows. `today` is taken once.

### LogRing, SystemView

`LogRing` is the log buffer: `Push` with its two evictions, `ReadPage` with the cursors
`since` and `before` and the reset, and the restart of the process. The ring, a page and the
list are sets: entries are told apart and ordered by their cursors, and `Top` is the n with the highest. A
record's time is its age against the newest one; `Steps` lets the clock jump and step back. `SystemView` composes it
with the dashboard: the poll of the tail, the page of older records, and the merge
functions of `systemLog.ts`. A request is sent, served and delivered in separate steps,
so that answers overtake one another, and the filter, the pause, the tab or the
process may change meanwhile. `spoiled` is history: which of the three disturbances the
code does not undo has befallen the list since it was last filled from nothing.

### Bluetooth

One session over RFCOMM: `begin` with both handshakes (`mis` or not), `logon`, the
clock of `set_plant_time_v2`, requests device by device with their retries, `end`. All devices
write into one `stream` that keeps its order; `owed` is what each has still to send. A
long packet takes two L1 frames, and frames of others may come between them; `l2` is
the packet being put together. Packets may be lost, damaged, late or say that the
device failed. The header and the body of a frame are read one after the other, and a
read that times out drops what it has (`read_exact`): `Failure` may leave the `Rest` of a frame
first in the stream, and `Misread` is the reader out of step, which takes what follows
for a length and swallows that much, up to a frame's end or not. A request that fails
(`Abandoned`) leaves the session open, and the next one meets what is still on its way.
Closing the socket discards what was under way, and `pckt_id` does not
wrap within a session. `MCBluetooth` names the devices of the instance.

### Operators named "Mutant of"

Next to some definitions stands a second one with a plausible bug: a dropped
reset, an off-by-one, a check too late. Put in place of the original it makes a
property fail; `PROJECT.json` says which. They show that the properties depend on
the code and take no part in the specifications.

## The runs

| run | question | bounds and why they suffice |
|---|---|---|
| `collector_refusals` | Is a query skipped exactly if every device refused it, across sessions, days, restarts, lost writes and deletions? Are sessions opened, used and closed in order? | two inverters that come and go between sessions, the three entry points, one refusable query, three days with a window of one: inside, at and past the window |
| `collector_archives` | Is a result made of this cycle's answers, are months corrected, events read to their depth, and does a cycle end? | five queries of which two depend on equipment, one month, two event months of two groups: the paging and both early exits |
| `service_tick` | Is the status honest, are only fresh data stored, do archives stay due until all collectors have them, does SIGTERM end the loop while the broker answers? | two collectors (one that cannot begin), two days: a failure of either, a midnight in the middle, a restart; a channel of one slot, which one message fills |
| `diagnostics_pipeline` | Are records conserved, ordered, flushed and taken from the queue; is the ring bounded; is the log implemented? | three records, a queue of two, batches of two, one row, chunks of one: overflow, a full batch beside a new record, a backlog of two chunks; three instants with a window of one |
| `diagnostics_wait` | (refuted) Does `Shutdown::wait` always resolve? | one record |
| `migrator_resume` | Do checkpoints tell the truth and only advance, does a completed run hold its source, and does resuming complete it? | one to four rows per category in batches of two, so that batches end inside and at the end of a category; two days of two instants, so that a day ends at any step; two failures, of which one may leave the target half made; four sets of arguments |
| `speedwire_calls` | Is only what answers the running call returned, whole if undisturbed, and does the call end? | two inverters, two calls, two attempts, three ids (so ids are reused), answers of up to two frames, one more than a byte of width zero counts |
| `bluetooth` | Is an answer the asked inverter's to this request, and does it lack a part only after a disturbance? | two inverters of which one sends split packets and one may refuse, two calls, two attempts, a stream of two frames, one fault: an answer late by one attempt and by one call, a packet interrupted by another, a frame read in part and the reader out of step in the next request, a request that fails before another |
| `storage` | Are derived yields what the samples give, are stale statistics noticed, is yesterday settled? | three days of two points, three cycles, two failures, one rebuild, two intervals, one counter reset: a failure before and after midnight, and a repair the day after |
| `schema` | Does a start fail on another's migration only if a lock was outlived; do all that run agree on timezone and schema? | two processes, three starts, one crash, two builds, both engines, seven contents, a clock of three instants with a patience of one: below, at and past it |
| `system_view` | Does the list show what its filter admits, without a hole, with an honest end, and does it catch up? | three records of two levels that leave the ring by age (its size is one more than the list keeps, so that trimming hides a record), pages of one, a list of two, two polls in flight, one restart, one user event: lists that outgrow their size, answers out of order |
| `history` | Is the plant the sum of its inverters, is the latest the newest, are the same spans compared? | two inverters, three slots, three writes between the queries, with an energy of 0 or 1, so that one of a slot takes the place of a greater one; every day of 2024 and 2025 with a midnight missing as `today` and as the day asked for, inside a calendar of four years with a leap year |

`TypeOK` is not listed where a module's proofs establish it. Deadlock is checked in
the runs of the collector, the service, diagnostics, the migrator and Speedwire, where some step is always
possible. The runs `bluetooth`, `storage`, `schema`, `system_view` and `history` say
`CHECK_DEADLOCK FALSE`: their bounds on calls, starts, cycles, pushes and writes stop
the model where the program would go on, and a service process has nothing to do when
nothing is asked of it.

### What the refuted statement shows

* `diagnostics_wait`: between the check of the flag and `notified()` a trigger notifies
  nobody; the branch never resolves. The writer is saved only by a later record or its
  other branch, or cut off after five seconds.

### Statements that do not hold, with a configuration but no run

These say what a document or comment says and fail in the model. Each has a
configuration that reproduces it; they are not among the runs.

* `collector_expiry.cfg`: the map is filled at start and never aged
  (`query_support.rs:60`), so a service that runs longer than 30 days goes on skipping
  what `docs/operations.md:308` says it asks again.
* `collector_months.cfg`: `fetch_month` assigns (`collector.rs:762`), so of several months
  only the last answered, the oldest, is in the result (`docs/configuration.md:130`).
* `service_broker.cfg`: the tick awaits a slot of the full channel (`mqtt.rs:149`) while the
  broker is away; the select that reads the signals is not reached
  (`docs/operations.md:37`).
* `migrator_midnight.cfg`: the yield of the current day is copied as incomplete
  (`orchestrate.rs:1311`); once that day has ended, verification expects it complete, and
  a resumption does not copy it again. The run fails every time, until it is begun
  anew in an empty target (`docs/migration-sbfspot.md:152`). No failure is needed for it.
* `system_window.cfg`: when more than a page arrived between two polls, the records beyond the page are
  neither in the list nor reached by paging backwards, which begins below the list
  (`mergeNewer`; `openspec/specs/application-log-buffer/spec.md:253`). A restart that is not noticed,
  because the new process has already passed the old cursor, leaves two
  processes' records in one list (`spec.md:199`).
* `storage_reset.cfg`: after a counter reset the derived yield is negative; missing data is
  promised (`docs/database.md:107`).
* `schema_rebuild.cfg`: SQLite enables the diagnostics tables statement by statement; a
  crash between making and stamping them, then a start of another build, leaves
  tables of the old shape with the new stamp (`schema.rs:16`).

`Bluetooth` states two more, `LoginReachesEveryDevice` and `VerifyReadsTheNewClock`,
without a configuration: a login reads exactly as many replies as there are
devices, so unread replies to the identification take their slots; the clock read
after a write takes the next packet, without comparing its id.

### Seen while modelling, without a run

* A SIGINT that arrives during a tick is lost, because nobody listens and the default
  handler is gone. After a failed login the status shows blank inverters.
* The call to a silent inverter does not end while energy meters broadcast
  (`CallEndsWhenQuiet` has the condition it needs); a missing fragment is not asked for
  again, though `docs/connections.md` says timeouts are, and an answer with a
  fragment missing in its middle counts as whole. Over Bluetooth a packet that times out
  in the middle ends the answer, which is accepted as it is, and a frame of another
  device between the two of a packet destroys it. A read that times out inside a frame
  leaves the reader out of step until it meets a boundary again by chance or the session
  ends: it may then swallow the answer to a later request that nothing disturbed.
  `request()` is documented to log and skip a silent inverter "so the others still deliver
  data" (`bluetooth.rs:592`); these are lost with it, as they are when one
  inverter reports an error (`bluetooth.rs:621`).
* A batch of diagnostics that cannot be written is lost without being counted; rows
  past the retention window stay until the next record is written. In the log buffer a
  record of before a clock step back keeps aged ones behind it.
* An import that dies after it made the lock table or the record of migrations and before the
  canonical tables (`schema.rs:207`) leaves a target in which preflight finds tables and no
  `schema_metadata` (`lib.rs:597`): `--execute` and `--resume` are refused from then on, though
  `docs/migration-sbfspot.md:152` says to resume after an interruption, and schema.rs itself
  would go on with such a database (`classify_sqlite`). The target must be removed by hand.
* `--execute` with an optional flag on a target that has a run is refused only after the
  optional table was made, and a verification without the flag then fails; source
  rows with a rowid of 0 or less are never read.
* Yields taken from the month archive for days without samples are deleted by the
  recomputation of those days, until the next daily tick; a rebuild whose `now` was taken
  before midnight can take back a day's `complete`; live polling never makes
  statistics complete; a measurement overwritten in place is not noticed as stale, nor
  is a changed poll interval that expects as many measurements of a day as before (300 s
  and 301 s both expect 288) but accepts other gaps (`storage.rs:1036`);
  a day without a local midnight cannot be stored as a yield, and with it the rows of
  its request.
* A crash while SQLite's lock is held makes every start fail for ten minutes, because
  a start gives up after ten seconds. A clock that jumps more than ten minutes has a
  live holder taken over, whose release then deletes the other's row. Making the
  lock creates its table, also in a foreign database that is then refused.
* A poll whose energy query failed stores an energy of 0 (`storage.rs:836`), which takes the
  place of the measurement before it in its slot (`service.rs:1945`). If it is stored
  between the queries of a response, the plant's total is more than the sum of the series.
* In a day's rows a sample of the last half slot is labelled 00:00 and replaces the first
  row; the plant's power in a slot counts only devices with an archive sample there; a
  period that begins on a day without a midnight is read from 1970 on.

## Fairness

* `Collector`: weak fairness of `SessionStep`. Each await of a session ends: the
  transports bound it by a timeout (2 s per datagram, 10 s and more on Bluetooth).
  Nothing is assumed about restarts, detached writes or new cycles.
* `PollService`: weak fairness of the service's own steps and of the event loop. The
  task is scheduled and its awaits return, apart from the one on the MQTT
  channel, which is a guard. The broker, the sun and the signals have none.
* `Diagnostics`: weak fairness of the writer's steps and of the second half of a
  `push` or `trigger`. Tokio polls a woken task; a synchronous function that began
  returns. That the loop ever stops is not assumed.
* `Speedwire`: weak fairness of sending and of the timeouts. The socket takes a
  packet, and a timer fires when two seconds pass without a datagram. Devices and
  network have none.
* `Migrator`: weak fairness of the steps of an invocation, of verification coming to
  either result, and of the first `--execute`; strong fairness of `Resume`, which is
  the operator following the documentation: after each interruption, resume. Both
  liveness properties assume the same arguments throughout.
* `SystemView`: weak fairness of the poll, which a timer repeats every five seconds, and of
  serving and delivering the oldest one in flight: the browser and the service
  answer each request. `FollowsTail` further assumes that the tab stays visible and
  unpaused. Evictions, restarts and the user have none.
* `Bluetooth`, `Storage`, `Schema`, `History`: none; they state safety only.

## What is proved

The assumptions are the named `ASSUME`s of the modules: sizes are natural numbers,
those the code needs positive are not zero; the migrator's sources are finite tables
with integer keys, and its options name one of them. TLC evaluates them on each run.

`PollService_proofs`, for any number of collectors, days and channel slots: type
correctness (`TypeCorrect`), `ArchivesAreDue`, `OnlyFreshIsStored` and `StatusHonest`. The
invariant is `ServiceInv`, a conjunction of four:
`DayInv` (the day a tick works with is not in the future, and `last_daily` never
passes any collector's last completed archives), `PolledInv` (in a daily tick every
collector already polled has failed or completed: this is why `last_daily` may be set
at the end), `FreshInv` (the members of `fresh_cycle` delivered in this tick), and
`ShownInv` (`status_cycle` follows the collectors through the phases of a tick; the
status then copies it). None of the properties is inductive by itself, because each
speaks of one moment of the loop and depends on what the phases before collected.

`Diagnostics_proofs`, for any capacity, batch, chunk, ring and number of records:
`TypeCorrect`, `RecordsConserved`, `QueueStaysBounded`, `FlushIsClean`, `StorageOrder`,
`RingStaysBounded` and `ImplementsLog`. `PipelineInv` adds to the properties `PhaseInv` (the writer has a batch
exactly while it is about to write, it flushes only after the stop, and nothing
is pushed after the stop, which is why an empty queue stays empty), `OrderInv` (table
before batch before queue, each in order) and `RowInv` (ids and record numbers of
the rows are in the same order, and below the next id). `ImplementsLog` maps each
step by the lemmas `PushSends`, `DrainStutters`, `WriteStores`, `FailuresLose`,
`PruneForgets`. The bound of the ring counts rows: ids are a key (`KeyInv`), so the table is
finite; the oldest row the cap spares, which exists by well-founded induction, has fewer than
`MaxRows` rows after it; and a chunk that was not filled took every row it may take, while
after a filled one `prunePending` brings the writer back (`RestInv`).

`Speedwire_proofs`, for any number of devices and attempts and any width of the
packet id: `TypeCorrect` and `AnswersBelong`. `ConnectionInv` is `IdInv` (while an answer
is awaited, everything with the current id belongs to the running call), `FrameInv`
(frames are kept only while fragments are missing, and come from the device the
call is at), `ReplyInv` and `LoginInv` (a login is at a device only when all
before it granted theirs). `AnswersAreComplete` needs `AttemptInv` besides: nothing but
the request and one answer carries the packet id an attempt waits for, and while no
fragment was lost or overtaken, those accepted are the first of that answer in order and those
on their way are exactly the others. An answer of `n` fragments that
ends with the one numbered 0 is then whole. It holds under the same condition as
`AnswersBelong`, that no datagram outlives the ids between.

`Migrator_proofs`, for every finite source, batch size and number of failures, and
any sequence of options: `TypeCorrect`, `CheckpointsTellTheTruth`, `CheckpointsAdvance`
and `CompletedRunsAreFaithful`. `MigratorInv` adds to `CheckpointCovers` and the types four parts:
`ShapeInv` (the shape of a run and of an invocation), `FreshInv` (without a run nothing
is written), `KeyInv` (no checkpoint is before the key it began with) and `PhaseInv` (at a
batch the key in memory is the checkpoint's, and an open transaction holds exactly the
batch after it: this is why a commit, whether or not its result is known, makes the
counts true again). The counts are cardinalities, so the heart of the proof is
`BatchExtends`: the rows up to the new key are those up to the old one and the batch,
with nothing in both. First and last keys of a finite set exist by well-founded
induction over its strict subsets.

`CompletedRunsAreFaithful` has two halves. The first is about the import and not about steps: what the
second import of verification (`Expected`) leaves in a cell is what the source says of it.
`CopyStep` follows one cell through one category, `SoleWriter`, `MeasuredCell` and
`TrackerCell` through all eight, where later categories overwrite earlier ones or leave
them alone; `SamplesAreTotals` and `RebuiltIsTheSources` find the rows of the source
behind a rebuilt yield, which needs that a later instant is never of an earlier
date (`DatesInOrder`). A measurement made of an inverter's latest values is
suppressed by any row of SpotData, read or not; that verification wants every row counted
and every checkpoint completed is why the two are the same (`AllAreRead`). The second half is `FaithInv`: while rows are
written the run is called running, so what verification saw stays true until the run is
reopened, and the days marked complete stay ended as time goes by. The proof
assumes of the source (`RowsAssumption`) that keys tell the rows of a category apart,
which they do as row ids and as SpotDataX's primary key, and that times and rounded totals
are integers, NULL among them as `None`. Since both sides are compared for equality, a
yield that both the run and the second import would leave out is not noticed; nor
does the property ask for one.

`Collector_proofs`, for any inverters, equipment, queries, archive months, bounds and
sequence of cycles and restarts: `TypeCorrect` and the seven safety properties of the
runs, `SessionOrder`, `SkipsAreJustified`, `MemoryCoversTheTable`,
`AsksOnlyWhatSomeoneAnswers`, `ObservationsAreFresh`, `MonthsAreCorrected`,
`EventsAreReadToDepth`. The first two parts of `RefusalInv` say that no stored, pending or
remembered refusal is from the future and that each was once given (`Dated`), and that the memory has
every pair with a write under way and every fresh row of the table (`Known`). `SessionKnows`
then gives the session's `refused` what the memory has, so that a skip is justified by
it and a query that all refused is not sent. `OrderInv` is for the one query sent
out of order, the fallback for today's energy: the record of the last transmission has
passed the place in the sequence the loop has come to, so no other query is mistaken for
the one just answered. `FreshInv` ties each decoded field to a request
of this cycle, `OffsetInv` has the offsets probed before the first month is read, and
`DepthInv` says which months and groups the nested loops have asked for when they are at
any place, hence at their end.

`Storage_proofs`, for any number of days, points per day, intervals, failures and
rebuilds: `TypeCorrect`, `YieldsAreExact`, `YesterdayIsSettled`,
`StaleStatisticsAreNoticed`. `CycleInv` bounds what an export still has to do by the
days of its samples. `YieldInv` makes precise when a yield may lag behind the samples: a
day is *owed* from the first sample written to its recomputation and *settled* by
it, and a failure between the two leaves it `torn`. `YesterdayInv` follows
yesterday's row through the list of affected dates, which always has it.
`StatsInv` says that statistics were made from some of the measurements that are there
now, for some interval; since measurements are only added, equal counts mean equal sets,
which is why comparing a count is enough (`StaleIsNoticed`). Sums over days are used only
as functions of the same arguments.

`Storage_proofs`, second part, about `Schema`, for any number of processes, timezones,
builds and attempts, and any patience: `SchemaTypesCorrect`, `OnlyOverrunsCollide` and `RunningProcessesAgree`. `SchemaInv`
is `LockInv` (in PostgreSQL whoever applies has the lock; in SQLite whoever is past
the lock has its row, or somebody was taken for dead while holding it), `ListInv` (the
list of migrations a process read is the database's for as long as it is used, with
the same exception), `PassedInv` (what a check found stays true: nothing turns a whole
smalog database into another, and a timezone once kept is never changed) and
`NotedInv` (the time noted for the lock's row). The proof assumes of the names only
that no process and no timezone is called "none".

`Bluetooth_proofs`, for any devices, splitting of packets, attempts and faults:
`TypeCorrect`, `AnswersBelong` and `AnswersAreWhole`. `SessionInv` is `ClientTypes` and `NetInv` (every
packet on the stream, being put together or still owed is `Sane`: it is no newer than
the last one sent, and one with the current identifier answers the attempt being
read), `FrameInv` (the fragments accepted are this attempt's) and `QuietInv` (serial
numbers are learnt only while no answer is kept). The heart is `Sane`: an attempt takes
an identifier nobody has, so what is late carries an older one. `AnswersAreWhole` needs
to know where every piece of an answer is. `ReadInv` says it of an attempt nothing has
disturbed, to a device whose serial number is known: the pieces with at least m to
follow are accepted, the last j are owed, and the frames of those between are on the stream, each
once and in the answer's order, the first frame of the next one perhaps read already. So the
next frame read is the next of the answer or of no interest, and an empty stream means that
something is still owed, which makes a timeout a disturbance. A torn frame on the
stream and a reader out of step are disturbances that last into later requests, so the
argument is about streams of whole frames only. `DoneInv` then keeps the
answers of the devices dealt with whole. Both proofs rest on `pckt_id` not wrapping within a
session, and on `BluetoothAssumption`, which for the second also says that no device is
called "unknown", the mark of a serial number not learnt.

`Dashboard_proofs`, for any sizes of ring, page and list, any number of polls in
flight and any number of restarts: `ViewTypesCorrect`, `ListMatchesFilter`, `ListHasNoHole`
and `OldestEntryIsOldest`. `ViewInv` is `RingInv` (a cursor is given once in a process
run), `PollInv` and `OlderInv` (what a request in flight means) and `ListInv`. Two ideas
carry it. `Genuine`: an entry that calls itself of the present run is below the next
cursor and is what the ring has under its cursor, if the ring still has it; so entries
of two pages with one cursor are one entry. `PageInv`: between being read and being
delivered, a page of the present run keeps everything the query asked for that the ring
still holds, down to where the page was cut off; eviction only makes that easier and
new records are beyond the page. A poll then leaves a list whole if it meets it
(`MergedList`: a record above the list, within it or below it is in the page or in
the list), an older page because it starts where the list ends (`ExtendedList`), and trimming
because an upper part of a whole list is whole. `spoiled` says when the pieces do not meet or
are of two runs; the theorems say nothing of such a list, except that it passes the
filter. Because pages and lists are sets, none of this needs an induction over sequences.

`Dashboard_proofs`, second part, about `History`, for any devices, times of day, powers, span
of years, days without a midnight and number of writes between the queries: `LatestNotOvertaken`,
`PeriodsCompareAlike` and `PlantIsSumOfInverters`. `HistoryInv` is `TablesInv` (a device has
one measurement of a time), `RequestInv` (no request is for a
day after the one it took for today), `ProgressInv` (the answers are those of the first
queries, what is left to do are the others) and `AnswersInv`. The last is what makes a
response out of several reads hold together: measurements are only added, so each
answer still `Holds` of the tables, exactly if nothing was stored meanwhile, and a
later one `Follows` an earlier one, having for each of its measurements one as late. A
response that reads the latest before the day's rows would break it.

The rest is about pure operators. Days are numbered by a closed formula, from which follow that
years and months join without gap or overlap (`YearLength`, `MonthTable`), that earlier dates have
smaller numbers and that every number has a date (`EveryDayHasDate`). `WeekFits`, `MonthFits`
and `YearFits` then say of the three kinds of period that the one before ends where the selected one
begins and that the cut of `previous_*_comparison_end` keeps exactly the comparable days, also
where a month has no 31st and a year no 29th of February. A sum over devices is a fold. A smallest
set of devices on which it differed from the number of units below the values would, as sets are
well-founded, be one more device than a set where it does not; so there is none (`SumIsCount`),
and about numbers of units the prover can reason: sums of greater values
are not smaller (`SumGrows`), and numbering the inverters in ascending order does not change
them (`SumRenumbered`). `EnergyAt` is carried by
the last measurement of each slot (`InSlotIs`), so it does not fall with time
(`EnergyInTime`), nor with more measurements as long as no slot's last one has less energy
than one before it (`EnergyWithMore`, under `SlotsGrow`), and an inverter's own series
reaches what the plant's row has of it (`OwnSeries`).

Only model-checked: all liveness (`CycleEnds`, `SigtermStopsWithBroker`,
`RecordsLeaveTheQueue`, `CallEndsWhenQuiet`, `ResumedRunCompletesOrIsStale`,
`FollowsTail`), which the prover cannot do. Every invariant and every action property
of the runs is a theorem.

## What is not modelled, and the plan

In this order:

1. **Transmission reader**: `read_transmissions` pages and fetches the devices of a page in
   two queries, while the writer prunes; the dashboard's other tab over it.
   Composed with `Diagnostics`.
2. **Storage**, the rest: consumption and events, `rebuild-statistics`, and
   PostgreSQL's recomputation, which is not one transaction.
3. **`tick_once`** and the flush of `smalog once`; `set_plant_time_v1`; the discovery
   and identification of Speedwire.
4. Pure operators: archive windows and day differences, the query sequence.

Left out for good: wording and layout of CSV, MQTT topics and HTTP answers, byte
decoding, configuration parsing, the astronomy of `daylight` (a Boolean here), the
sockets, the charts of the dashboard, the benchmark, packaging, and the SMA Data 1 stubs,
which return an error.
