------------------------------ MODULE LogRing ------------------------------
(***************************************************************************)
(* The in-memory ring of captured log records (crates/smalog/src/applog.rs)*)
(* and the page GET /api/logs reads from it.  Every tracing call of the    *)
(* process appends one record; the ring is bounded by age, measured        *)
(* against the newest record, and by an entry cap.  Cursors number the     *)
(* records of one process run and start again at 1 when it restarts.       *)
(*                                                                         *)
(* A record's time is kept as its age relative to the newest record, the   *)
(* only thing eviction looks at: each push lets the clock move by a member *)
(* of Steps, which may be a jump or a step back.  The target prefix of a   *)
(* query is a filter like the level and is left out, as are message,       *)
(* fields and the count of capped records, which is only displayed.        *)
(*                                                                         *)
(* The VecDeque is the set of its records: the cursors are given and the   *)
(* records appended under one lock, so their order is that of the cursors. *)
(***************************************************************************)
EXTENDS Integers, FiniteSets, FiniteSetsExt

CONSTANTS Levels,       \* severity ranks; 1 is the most severe
          Steps,        \* how far the wall clock moves between two records
          Retention,    \* the age window
          MaxRecords,   \* the entry cap
          MaxPushes,    \* bound: records captured over all process runs
          MaxRestarts   \* bound: restarts of the service

ASSUME LogRingAssumption ==
    /\ Levels \subseteq Nat \ {0} /\ Levels # {} /\ IsFiniteSet(Levels)
    /\ Steps \subseteq Int
    /\ Retention \in Nat
    /\ MaxRecords \in Nat \ {0}
    /\ MaxPushes \in Nat
    /\ MaxRestarts \in Nat

VARIABLES ring,      \* VecDeque<LogRecord>, in the order of the cursors
          nextSeq,   \* the next cursor
          run,       \* which process run this is (no variable of the code)
          pushes     \* records captured so far, for the bound

ringVars == <<ring, nextSeq, run, pushes>>

None == 0    \* an absent cursor: cursors start at 1

Record == [run : 0 .. MaxRestarts, seq : Nat \ {0}, age : Int, level : Levels]

\* What a page says of a record: all but its time, which no client logic reads.
Entry == [run : 0 .. MaxRestarts, seq : Nat \ {0}, level : Levels]
EntryOf(r) == [run |-> r.run, seq |-> r.seq, level |-> r.level]

RingInit ==
    /\ ring = {}
    /\ nextSeq = 1
    /\ run = 0
    /\ pushes = 0

\* The n with the highest cursors.
Top(records, n) ==
    {r \in records : Cardinality({q \in records : q.seq > r.seq}) < n}

\* Eviction by age goes from the front and stops at the first record that is
\* within the window.
InWindow(records) ==
    {r \in records : \E q \in records : q.seq <= r.seq /\ q.age <= Retention}

\* LogBuffer::push: append, evict by age from the front, then by the cap.
Push(step, level) ==
    LET record == [run |-> run, seq |-> nextSeq, age |-> 0, level |-> level]
        aged   == {[r EXCEPT !.age = @ + step] : r \in ring}
    IN  /\ ring' = Top(InWindow(aged \cup {record}), MaxRecords)
        /\ nextSeq' = nextSeq + 1

\* CaptureLayer::on_event: any code of the process logs one event.
Capture ==
    /\ pushes < MaxPushes
    /\ pushes' = pushes + 1
    /\ \E step \in Steps, level \in Levels : Push(step, level)
    /\ UNCHANGED run

\* The process restarts: the ring is lost and the cursors start again.
Restart ==
    /\ run < MaxRestarts
    /\ run' = run + 1
    /\ ring' = {}
    /\ nextSeq' = 1
    /\ UNCHANGED pushes

\* What a query selects: newer than since, older than before, at least as
\* severe as the level.
Matching(since, before, level) ==
    LET Match(r) == /\ r.seq > since
                    /\ before = None \/ r.seq < before
                    /\ r.level <= level
    IN  {EntryOf(r) : r \in {q \in ring : Match(q)}}

\* Mutant of ReadPage: a cursor beyond the ring is taken literally.
ReadWithoutReset(since, before, level, limit) ==
    LET all == Matching(since, before, level)
    IN  [entries |-> Top(all, limit), reset |-> FALSE,
         more |-> Top(all, limit) # all, run |-> run, last |-> nextSeq - 1]

\* LogBuffer::read.  A since cursor beyond the ring is ignored and the page
\* says so.  "more", "run" and "last" are kept for the properties.
ReadPage(since, before, level, limit) ==
    LET reset == since > nextSeq - 1
        all   == Matching(IF reset THEN None ELSE since, before, level)
    IN  [entries |-> Top(all, limit), reset |-> reset,
         more |-> Top(all, limit) # all, run |-> run, last |-> nextSeq - 1]

============================================================================
