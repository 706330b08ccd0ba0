----------------------------- MODULE Diagnostics -----------------------------
(***************************************************************************)
(* The write path of the transmission ring: the poll cycle pushes into     *)
(* WriteQueue, the DiagnosticsWriter task drains it into the database and  *)
(* prunes the ring, and Service::run stops the writer through Shutdown.    *)
(* The two run on different threads: every access to the queue's mutex, an *)
(* atomic or a Notify is a step of its own.                                *)
(***************************************************************************)
EXTENDS Integers, Sequences, FiniteSets

CONSTANTS
    Capacity,       \* QUEUE_CAPACITY
    MaxBatch,       \* MAX_BATCH
    FlushAt,        \* FLUSH_AT_RECORDS
    MaxRows,        \* RingBounds.max_rows
    Retention,      \* RingBounds.retention
    PruneChunk,     \* PRUNE_CHUNK
    MaxRecords,     \* bound: records pushed in a behaviour
    MaxTime         \* bound: the last instant of the clock

ASSUME DiagnosticsAssumption ==
    /\ Capacity \in Nat \ {0}
    /\ MaxBatch \in Nat \ {0}
    /\ FlushAt \in Nat
    /\ MaxRows \in Nat
    /\ Retention \in Nat \ {0}
    /\ PruneChunk \in Nat \ {0}
    /\ MaxRecords \in Nat
    /\ MaxTime \in Nat

VARIABLES
    main,           \* Service::run: running, notifying (inside a push),
                    \* triggering (inside trigger), joining, exited
    now,            \* the wall clock
    pushed,         \* history: records pushed so far
    pending,        \* WriteQueue.state.pending
    dropped,        \* WriteQueue.dropped
    permit,         \* WriteQueue.notify holds a permit
    stopped,        \* Shutdown.stopped
    writer,         \* where the writer task is
    work,           \* its wait_for_work() branch while it selects
    stop,           \* its shutdown.wait() branch while it selects
    batch,          \* drained, not written yet
    prunePending,   \* prune_pending
    db,             \* table poll_transmissions
    nextId,         \* the next transmission_id
    pruneFailed,    \* history: the last prune returned an error
    newest,         \* history: the latest record ever written, 0 = none
    written,        \* history: records written
    failed,         \* history: records lost to a failed write
    lost            \* history: records lost with a process, or dropped in it

queueVars == <<pending, dropped, permit>>
writerVars == <<writer, work, stop, batch, prunePending>>
dbVars == <<db, nextId, pruneFailed, newest, written, failed>>
vars == <<main, now, pushed, queueVars, stopped, writerVars, dbVars, lost>>

Record == [n : 1..MaxRecords, at : 0..MaxTime]
DbRow == [id : Nat \ {0}, n : 1..MaxRecords, at : 0..MaxTime]

TypeOK ==
    /\ main \in {"running", "notifying", "triggering", "joining", "exited"}
    /\ now \in 0..MaxTime
    /\ pushed \in 0..MaxRecords
    /\ pending \in Seq(Record)
    /\ dropped \in Nat
    /\ permit \in BOOLEAN /\ stopped \in BOOLEAN
    /\ writer \in {"top", "select", "woken", "drain", "write", "prune",
                   "flush", "flushwrite", "done"}
    /\ work \in {"off", "check", "unregistered", "parked", "size", "sleeping"}
    /\ stop \in {"off", "check", "unregistered", "parked"}
    /\ batch \in Seq(Record)
    /\ prunePending \in BOOLEAN /\ pruneFailed \in BOOLEAN
    /\ db \in SUBSET DbRow
    /\ nextId \in Nat \ {0}
    /\ newest \in 0..MaxRecords
    /\ written \in Nat /\ failed \in Nat /\ lost \in Nat

Init ==
    /\ main = "running" /\ now = 0 /\ pushed = 0
    /\ pending = <<>> /\ dropped = 0 /\ permit = FALSE
    /\ stopped = FALSE
    /\ writer = "top" /\ work = "off" /\ stop = "off"
    /\ batch = <<>> /\ prunePending = TRUE
    /\ db = {} /\ nextId = 1 /\ pruneFailed = FALSE
    /\ newest = 0 /\ written = 0 /\ failed = 0 /\ lost = 0

-----------------------------------------------------------------------------
(* The poll cycle: CollectorSink::record pushes, then wakes the writer.    *)

Overflow == IF Len(pending) >= Capacity THEN Len(pending) - Capacity + 1 ELSE 0

(* Mutant of Push: the records that make room are not counted.             *)
PushUncounted ==
    /\ main = "running" /\ pushed < MaxRecords
    /\ pushed' = pushed + 1
    /\ pending' = Append(SubSeq(pending, Overflow + 1, Len(pending)),
                         [n |-> pushed + 1, at |-> now])
    /\ main' = "notifying"
    /\ UNCHANGED <<now, dropped, permit, stopped, writerVars, dbVars, lost>>

(* Under the mutex: pop the oldest while full, append.                     *)
Push ==
    /\ main = "running" /\ pushed < MaxRecords
    /\ pushed' = pushed + 1
    /\ pending' = Append(SubSeq(pending, Overflow + 1, Len(pending)),
                         [n |-> pushed + 1, at |-> now])
    /\ dropped' = dropped + Overflow
    /\ main' = "notifying"
    /\ UNCHANGED <<now, permit, stopped, writerVars, dbVars, lost>>

(* Mutant of NotifyOne: a wakeup with nobody waiting is lost.              *)
NotifyParked ==
    /\ main = "notifying"
    /\ work' = IF work = "parked" THEN "size" ELSE work
    /\ main' = "running"
    /\ UNCHANGED <<now, pushed, queueVars, stopped, writer, stop, batch,
                   prunePending, dbVars, lost>>

(* notify_one(): wake the parked writer or leave a permit.                 *)
NotifyOne ==
    /\ main = "notifying"
    /\ IF work = "parked" THEN work' = "size" /\ UNCHANGED permit
                          ELSE permit' = TRUE /\ UNCHANGED work
    /\ main' = "running"
    /\ UNCHANGED <<now, pushed, pending, dropped, stopped, writer, stop, batch,
                   prunePending, dbVars, lost>>

(* After the loop: trigger() stores the flag, then notifies the waiters.   *)
Trigger ==
    /\ main = "running"
    /\ stopped' = TRUE
    /\ main' = "triggering"
    /\ UNCHANGED <<now, pushed, queueVars, writerVars, dbVars, lost>>

NotifyWaiters ==
    /\ main = "triggering"
    /\ stop' = IF stop = "parked" THEN "check" ELSE stop
    /\ main' = "joining"
    /\ UNCHANGED <<now, pushed, queueVars, stopped, writer, work, batch,
                   prunePending, dbVars, lost>>

Join ==
    /\ main = "joining" /\ writer = "done"
    /\ main' = "exited"
    /\ UNCHANGED <<now, pushed, queueVars, stopped, writerVars, dbVars, lost>>

(* timeout(5 s): main goes on without the writer.                          *)
Timeout ==
    /\ main = "joining"
    /\ main' = "exited"
    /\ UNCHANGED <<now, pushed, queueVars, stopped, writerVars, dbVars, lost>>

-----------------------------------------------------------------------------
(* DiagnosticsWriter::run.                                                 *)

Alive == main # "exited"

writerEnv == <<main, now, pushed, stopped, lost>>

Top ==
    /\ Alive /\ writer = "top"
    /\ writer' = IF stopped THEN "flush"
                 ELSE IF prunePending THEN "drain" ELSE "select"
    /\ IF writer' = "select" THEN work' = "check" /\ stop' = "check"
                             ELSE UNCHANGED <<work, stop>>
    /\ UNCHANGED <<writerEnv, queueVars, batch, prunePending, dbVars>>

(* wait_for_work(): pending() == 0, notified().await, pending() < FlushAt, *)
(* sleep(FLUSH_INTERVAL).                                                  *)
Selecting == Alive /\ writer = "select"

selectUnchanged == <<writerEnv, pending, dropped, batch, prunePending, dbVars>>

WorkCheck ==
    /\ Selecting /\ work = "check"
    /\ work' = IF pending = <<>> THEN "unregistered" ELSE "size"
    /\ UNCHANGED <<selectUnchanged, permit, writer, stop>>

WorkNotified ==
    /\ Selecting /\ work = "unregistered"
    /\ work' = IF permit THEN "size" ELSE "parked"
    /\ permit' = FALSE
    /\ UNCHANGED <<selectUnchanged, writer, stop>>

WorkSize ==
    /\ Selecting /\ work = "size"
    /\ IF Len(pending) < FlushAt
       THEN work' = "sleeping" /\ UNCHANGED <<writer, stop>>
       ELSE writer' = "woken" /\ work' = "off" /\ stop' = "off"
    /\ UNCHANGED <<selectUnchanged, permit>>

WorkSlept ==
    /\ Selecting /\ work = "sleeping"
    /\ writer' = "woken" /\ work' = "off" /\ stop' = "off"
    /\ UNCHANGED <<selectUnchanged, permit>>

(* shutdown.wait(): while !is_stopped() { notified().await }.              *)
StopCheck ==
    /\ Selecting /\ stop = "check"
    /\ IF stopped
       THEN writer' = "woken" /\ work' = "off" /\ stop' = "off"
       ELSE stop' = "unregistered" /\ UNCHANGED <<writer, work>>
    /\ UNCHANGED <<selectUnchanged, permit>>

StopRegister ==
    /\ Selecting /\ stop = "unregistered"
    /\ stop' = "parked"
    /\ UNCHANGED <<selectUnchanged, permit, writer, work>>

(* Mutant of Woken: the stop returns without the flush.                    *)
WokenReturns ==
    /\ Alive /\ writer = "woken"
    /\ writer' = IF stopped THEN "done" ELSE "drain"
    /\ UNCHANGED <<writerEnv, queueVars, work, stop, batch, prunePending,
                   dbVars>>

Woken ==
    /\ Alive /\ writer = "woken"
    /\ writer' = IF stopped THEN "flush" ELSE "drain"
    /\ UNCHANGED <<writerEnv, queueVars, work, stop, batch, prunePending,
                   dbVars>>

(* drain(), in the loop and in the flush after it.                         *)
Take == IF Len(pending) <= MaxBatch THEN Len(pending) ELSE MaxBatch

Drain ==
    /\ Alive /\ writer \in {"drain", "flush"}
    /\ batch' = SubSeq(pending, 1, Take)
    /\ pending' = SubSeq(pending, Take + 1, Len(pending))
    /\ writer' = IF writer = "flush"
                 THEN IF pending = <<>> THEN "done" ELSE "flushwrite"
                 ELSE IF pending # <<>> THEN "write"
                 ELSE IF prunePending THEN "prune" ELSE "top"
    /\ UNCHANGED <<writerEnv, dropped, permit, work, stop, prunePending,
                   dbVars>>

AfterWrite == IF writer = "flushwrite" THEN "flush" ELSE "prune"

(* Mutant of NewRows: the batch is inserted from its end.                  *)
NewRowsReversed == {[id |-> nextId + Len(batch) - i, n |-> batch[i].n,
                     at |-> batch[i].at] : i \in 1..Len(batch)}

(* The rows of a batch, with the ids the insertions are given in turn.     *)
NewRows == {[id |-> nextId + i - 1, n |-> batch[i].n,
             at |-> batch[i].at] : i \in 1..Len(batch)}

(* write_transmissions: one transaction for the whole batch.               *)
WriteBatch ==
    /\ Alive /\ writer \in {"write", "flushwrite"}
    /\ db' = db \cup NewRows
    /\ nextId' = nextId + Len(batch)
    /\ newest' = batch[Len(batch)].n
    /\ written' = written + Len(batch)
    /\ batch' = <<>>
    /\ writer' = AfterWrite
    /\ UNCHANGED <<writerEnv, queueVars, work, stop, prunePending, pruneFailed,
                   failed>>

(* Mutant of WriteFails: the batch goes back to the end of the queue.      *)
WriteRequeues ==
    /\ Alive /\ writer \in {"write", "flushwrite"}
    /\ pending' = pending \o batch
    /\ batch' = <<>>
    /\ writer' = AfterWrite
    /\ UNCHANGED <<writerEnv, dropped, permit, work, stop, prunePending, db,
                   nextId, pruneFailed, newest, written, failed>>

(* The error is logged and the batch is gone.                              *)
WriteFails ==
    /\ Alive /\ writer \in {"write", "flushwrite"}
    /\ failed' = failed + Len(batch)
    /\ batch' = <<>>
    /\ writer' = AfterWrite
    /\ UNCHANGED <<writerEnv, queueVars, work, stop, prunePending, db, nextId,
                   pruneFailed, newest, written>>

(* prune_ring(): the oldest chunk of what is aged against the newest row,  *)
(* then the oldest chunk of what exceeds the row cap.                      *)
Oldest(S, k) == {r \in S : Cardinality({x \in S : x.id < r.id}) < k}

Aged(rows) ==
    {r \in rows : \E x \in rows : x.at - Retention > r.at}

OverCap(rows) ==
    {r \in rows : Cardinality({x \in rows : x.id > r.id}) >= MaxRows}

AfterAged == db \ Oldest(Aged(db), PruneChunk)

(* Mutant of More: only the aged rows are asked about.                     *)
MoreAged == Cardinality(Aged(db)) >= PruneChunk

More == \/ Cardinality(Aged(db)) >= PruneChunk
        \/ Cardinality(OverCap(AfterAged)) >= PruneChunk

Prune ==
    /\ Alive /\ writer = "prune"
    /\ db' = AfterAged \ Oldest(OverCap(AfterAged), PruneChunk)
    /\ prunePending' = More
    /\ pruneFailed' = FALSE
    /\ writer' = "top"
    /\ UNCHANGED <<writerEnv, queueVars, work, stop, batch, nextId, newest,
                   written, failed>>

(* Either statement can fail; the two deletes are not one transaction.     *)
PruneFails ==
    /\ Alive /\ writer = "prune"
    /\ db' \in {db, AfterAged}
    /\ prunePending' = FALSE
    /\ pruneFailed' = TRUE
    /\ writer' = "top"
    /\ UNCHANGED <<writerEnv, queueVars, work, stop, batch, nextId, newest,
                   written, failed>>

-----------------------------------------------------------------------------
Tick ==
    /\ now' \in 0..MaxTime /\ now' # now
    /\ UNCHANGED <<main, pushed, queueVars, stopped, writerVars, dbVars, lost>>

(* A new process, after an exit or a crash: only the database is left.     *)
Restart ==
    /\ main' = "running"
    /\ lost' = lost + Len(pending) + Len(batch) + dropped
    /\ pending' = <<>> /\ dropped' = 0 /\ permit' = FALSE
    /\ stopped' = FALSE
    /\ writer' = "top" /\ work' = "off" /\ stop' = "off"
    /\ batch' = <<>> /\ prunePending' = TRUE
    /\ UNCHANGED <<now, pushed, dbVars>>

MainStep == Push \/ NotifyOne \/ Trigger \/ NotifyWaiters \/ Join \/ Timeout

WriterStep ==
    \/ Top \/ Woken \/ Drain
    \/ WorkCheck \/ WorkNotified \/ WorkSize \/ WorkSlept
    \/ StopCheck \/ StopRegister
    \/ WriteBatch \/ WriteFails
    \/ Prune \/ PruneFails

Next == MainStep \/ WriterStep \/ Tick \/ Restart

Spec == Init /\ [][Next]_vars

-----------------------------------------------------------------------------
(* No record disappears without being accounted for, and none is written   *)
(* twice: each one pushed is waiting, in the writer's hands, written,      *)
(* dropped by the full queue, failed with its batch or lost with a process.*)
Conservation ==
    pushed = written + failed + lost + dropped + Len(pending) + Len(batch)

(* The queue never holds more than its capacity, whatever the writer does. *)
QueueBounded == Len(pending) <= Capacity /\ Len(batch) <= MaxBatch

(* Paging by transmission_id is paging by time of recording: the ids of the*)
(* stored rows follow the order of the pushes, and what is still to be     *)
(* written comes after every stored row.                                   *)
StoredInOrder ==
    /\ \A r1, r2 \in db : r1.id < r2.id <=> r1.n < r2.n
    /\ \A r \in db : /\ \A i \in 1..Len(batch) : r.n < batch[i].n
                     /\ \A i \in 1..Len(pending) : r.n < pending[i].n

(* A writer that finished by itself left nothing behind: what was recorded *)
(* before the stop was written, or failed at the database.                 *)
CleanFlush == writer = "done" => pending = <<>> /\ batch = <<>>

(* Whenever the writer rests after a prune that worked, the ring holds no  *)
(* more rows than its cap, however large the backlog was.                  *)
RingBounded ==
    writer \in {"top", "select", "woken"} /\ ~prunePending /\ ~pruneFailed
        => Cardinality(db) <= MaxRows

(* The writer's tasks are scheduled, timers fire, the database answers; and*)
(* a push or a trigger that has begun is completed.  When the process is   *)
(* asked to stop, or exceeds the five seconds, is left open.               *)
FairSpec ==
    /\ Spec
    /\ WF_vars(WriterStep) /\ WF_vars(NotifyOne) /\ WF_vars(NotifyWaiters)

(* No wakeup of the queue's Notify is lost: records do not stay queued.    *)
RecordsLeaveTheQueue == pending # <<>> ~> (pending = <<>> \/ main = "exited")

(* Seen from a reader, the pipeline is the lossy, ordered log.             *)
InFlight == {batch[i].n : i \in 1..Len(batch)}
                \cup {pending[i].n : i \in 1..Len(pending)}

Log == INSTANCE TransmissionLog WITH
           sent <- pushed,
           inflight <- InFlight,
           stored <- {r.n : r \in db}

LogSpec == Log!Spec

-----------------------------------------------------------------------------
(* Statements of the comments and specifications that the code does not    *)
(* keep.                                                                   *)

(* Shutdown::wait: "Resolve as soon as the signal has fired, now or later."*)
WaitResolves ==
    (stopped /\ writer = "select") ~> (writer # "select" \/ main = "exited")
=============================================================================
