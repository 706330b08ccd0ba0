------------------------------ MODULE Storage ------------------------------
(***************************************************************************)
(* The canonical tables of smalog-storage that one inverter's polls fill:  *)
(* measurements with the optional daily-statistics cache computed from     *)
(* them, and raw energy samples with the daily yields computed from them.  *)
(*                                                                         *)
(* Two processes write.  The service exports each poll cycle (export() of  *)
(* service.rs): write_poll(), then write_energy_samples(), then            *)
(* write_daily_yields(), each of which may fail on its own and is not      *)
(* retried.  The command `rebuild-daily-yields` recomputes a range of days *)
(* beside it.  Every step below is one autocommitted statement or one      *)
(* transaction; between two steps the other process, midnight, or a crash  *)
(* may come.                                                               *)
(***************************************************************************)
EXTENDS Integers, FiniteSets, FiniteSetsExt, Functions

CONSTANTS
    Days,          \* local days 1 .. Days
    Slots,         \* points in time in a day; archive slots and polls fall on them
    Powers,        \* AC power values a poll may observe
    Intervals,     \* poll intervals, in slots, a start may be configured with
    Workloads,     \* what the service exports: sets of "statistics", "archives"
    Resets,        \* points where the energy counter may restart from zero
    MaxCycles,     \* bound on exported poll cycles
    MaxFailures,   \* bound on failed statements and crashes
    MaxRebuilds    \* bound on runs of rebuild-daily-yields

ASSUME StorageAssumption ==
    /\ Days \in Nat \ {0} /\ Slots \in Nat \ {0}
    /\ Powers \subseteq Nat
    /\ Intervals \subseteq 1 .. Slots /\ Intervals # {}
    /\ Workloads \subseteq SUBSET {"statistics", "archives"} /\ Workloads # {}
    /\ Resets \subseteq Nat /\ Resets # {}
    /\ MaxCycles \in Nat /\ MaxFailures \in Nat /\ MaxRebuilds \in Nat

VARIABLES
    clock,     \* the present point in time
    work,      \* what the service exports
    interval,  \* statistics_poll_interval_s of the running service
    reset,     \* the point from which the device counts from zero again
    known,     \* the inverters row exists
    meas,      \* inverter_measurements: point -> AC power, NoPower, or NotMeasured
    stats,     \* inverter_daily_statistics: day -> row
    samples,   \* inverter_energy_samples: the points held
    yields,    \* inverter_daily_yields: day -> row
    cycle,     \* the poll cycle being exported
    cli,       \* the rebuild-daily-yields process
    used,      \* what the bounds have left: cycles, failures, rebuilds
    altered,   \* history: days with a measurement changed in place since
               \* their statistics were computed
    torn       \* history: days whose yield an unfinished write left behind

vars == <<clock, work, interval, reset, known, meas, stats, samples, yields,
          cycle, cli, used, altered, torn>>

Points == 1 .. Days * Slots
DayOf(p) == (p - 1) \div Slots + 1
Start(d) == (d - 1) * Slots + 1      \* local_day_utc_bounds(): half open
End(d) == d * Slots + 1

NoRow == [row |-> FALSE]
NoPower == -1       \* a measurement whose AC phases are all NULL
NotMeasured == -2   \* no measurement at this point
Idle == [step |-> "idle"]

(* The device's cumulative counter at a point.                             *)
Total(p) == IF p < reset THEN 10 + p ELSE p - reset

----------------------------------------------------------------------------
(* Daily yields.  recompute_daily_yield(): last counter of the day less    *)
(* the last counter before it, in one transaction.                         *)

Within(S, lo, hi) == {p \in S : p >= lo /\ p < hi}

YieldFrom(S, d) ==
    LET base == Within(S, 0, Start(d))
        day == Within(S, Start(d), End(d))
    IN  IF base = {} \/ day = {} THEN NoRow
        ELSE [row |-> TRUE, total |-> Total(Max(day)),
              daily |-> Total(Max(day)) - Total(Max(base))]

Recomputed(d, now, who) ==
    LET y == YieldFrom(samples, d)
    IN  IF y = NoRow THEN NoRow      \* the row is deleted
        ELSE [row |-> TRUE, total |-> y.total, daily |-> y.daily,
              complete |-> now >= End(d), by |-> who]

(* Mutant of AffectedDates: yesterday is not revisited after midnight.     *)
AffectedWithoutYesterday(dates, now) ==
    (dates \union {d + 1 : d \in dates}) \intersect 1 .. Days

(* recompute_affected_daily_yields()                                       *)
AffectedDates(dates, now) ==
    (dates \union {d + 1 : d \in dates} \union {DayOf(now) - 1})
        \intersect 1 .. Days

(* upsert_daily_yield() of a month-archive record: is_complete stays.      *)
ArchiveYield(d) ==
    [row |-> TRUE, total |-> Total(End(d) - 1),
     daily |-> Total(End(d) - 1) - Total(Start(d) - 1),
     complete |-> yields[d] # NoRow /\ yields[d].complete, by |-> "archive"]

----------------------------------------------------------------------------
(* Daily statistics.  calculate_daily_statistics() over the measurements   *)
(* of a day; means are kept as the weighted sum and the accepted duration. *)

Measured(d) == {p \in Start(d) .. End(d) - 1 : meas[p] # NotMeasured}

Following(P, p, end) ==
    IF \E q \in P : q > p THEN Min({q \in P : q > p}) ELSE end

(* weighted_mean(): a sample stands until the next one; a gap longer than  *)
(* two intervals is left out.                                              *)
WeightedMean(P, d, every) ==
    LET len(p) == Following(P, p, End(d)) - p
        accepted == {p \in P : len(p) <= 2 * every /\ meas[p] # NoPower}
    IN  <<SumFunction([p \in accepted |-> meas[p] * len(p)]),
          SumFunction([p \in accepted |-> len(p)])>>

ExpectedCount(every) == (Slots + every - 1) \div every

StatisticsOf(P, d, every) ==
    LET W == {meas[p] : p \in P} \ {NoPower}
    IN  [count |-> Cardinality(P),
         expected |-> ExpectedCount(every),
         first |-> IF P = {} THEN 0 ELSE Min(P),
         last |-> IF P = {} THEN 0 ELSE Max(P),
         peak |-> IF W = {} THEN NoPower ELSE Max(W),
         mean |-> WeightedMean(P, d, every)]

CalculateDailyStatistics(d, every) == StatisticsOf(Measured(d), d, every)

(* is_complete of the same calculation, which also looks at the clock.     *)
FullyMeasured(d, every, now) ==
    LET P == Measured(d)
    IN  /\ now >= End(d)
        /\ Cardinality(P) >= ExpectedCount(every)
        /\ P # {} /\ Min(P) - Start(d) <= every /\ End(d) - Max(P) <= every
        /\ \A p \in P \ {Max(P)} : Following(P, p, End(d)) - p <= 2 * every

(* Mutant of IsStale: the configured interval is not compared.             *)
IsStaleIgnoresInterval(d) ==
    LET P == Measured(d)
    IN  \/ stats[d].of.count # Cardinality(P)
        \/ stats[d].of.last # (IF P = {} THEN 0 ELSE Max(P))

(* daily_statistics_is_stale(), and is_stale of daily_statistics().        *)
IsStale(d) ==
    LET P == Measured(d)
    IN  \/ stats[d].of.count # Cardinality(P)
        \/ stats[d].of.last # (IF P = {} THEN 0 ELSE Max(P))
        \/ stats[d].of.expected # ExpectedCount(interval)

----------------------------------------------------------------------------
Init ==
    /\ clock = 1
    /\ work \in Workloads
    /\ interval \in Intervals
    /\ reset \in Resets
    /\ known = FALSE
    /\ meas = [p \in Points |-> NotMeasured]
    /\ stats = [d \in 1 .. Days |-> NoRow]
    /\ samples = {}
    /\ yields = [d \in 1 .. Days |-> NoRow]
    /\ cycle = Idle
    /\ cli = Idle
    /\ used = [cycles |-> 0, failures |-> 0, rebuilds |-> 0]
    /\ altered = {}
    /\ torn = {}

Tick ==
    /\ clock < Days * Slots
    /\ clock' = clock + 1
    /\ UNCHANGED <<work, interval, reset, known, meas, stats, samples, yields,
                   cycle, cli, used, altered, torn>>

(* A poll cycle has been collected and export() begins.  The cycle carries *)
(* the live measurement taken now, the archive slots of today so far, and  *)
(* on the daily tick the month archive of the days gone by.                *)
ExportBegins ==
    /\ cycle = Idle
    /\ used.cycles < MaxCycles
    /\ \E power \in Powers \union {NoPower}, daily \in BOOLEAN :
         /\ "statistics" \notin work => power = NoPower
         /\ "archives" \notin work => ~daily
         /\ cycle' = [step |-> IF "statistics" \in work THEN "poll" ELSE "identity",
                      at |-> clock, power |-> power, daily |-> daily]
    /\ used' = [used EXCEPT !.cycles = @ + 1]
    /\ UNCHANGED <<clock, work, interval, reset, known, meas, stats, samples,
                   yields, cli, altered, torn>>

(* export() moves on to the next write of the cycle.                       *)
AfterPoll(c) ==
    IF "archives" \in work THEN [c EXCEPT !.step = "identity"] ELSE Idle
AfterSamples(c) ==
    IF c.daily
    THEN [step |-> "months", at |-> c.at, daily |-> TRUE,
          left |-> 1 .. DayOf(c.at) - 1]
    ELSE Idle

(* COALESCE(EXCLUDED.x, x) on a power column.                              *)
Coalesce(new, old) == IF new = NoPower /\ old # NotMeasured THEN old ELSE new

(* write_poll(): identity, measurement and children in one transaction.    *)
WritePoll ==
    /\ cycle.step = "poll"
    /\ known' = TRUE
    /\ LET p == cycle.at
           m == Coalesce(cycle.power, meas[p])
       IN  /\ meas' = [meas EXCEPT ![p] = m]
           /\ altered' = IF meas[p] \notin {NotMeasured, m}
                         THEN altered \union {DayOf(p)} ELSE altered
    /\ cycle' = [cycle EXCEPT !.step = "statistics"]
    /\ UNCHANGED <<clock, work, interval, reset, stats, samples, yields, cli,
                   used, torn>>

(* ... then recompute_daily_statistics() for the day of the measurement.   *)
WriteStatistics ==
    /\ cycle.step = "statistics"
    /\ LET d == DayOf(cycle.at)
       IN  /\ stats' = [stats EXCEPT ![d] =
                          [row |-> TRUE, of |-> CalculateDailyStatistics(d, interval),
                           complete |-> FullyMeasured(d, interval, clock)]]
           /\ altered' = altered \ {d}
    /\ cycle' = AfterPoll(cycle)
    /\ UNCHANGED <<clock, work, interval, reset, known, meas, samples, yields,
                   cli, used, torn>>

(* write_energy_samples(): the clock is read once, write_identity().       *)
WriteIdentity ==
    /\ cycle.step = "identity"
    /\ known' = TRUE
    /\ LET d == DayOf(cycle.at)
       IN  cycle' = [step |-> "samples", at |-> cycle.at, daily |-> cycle.daily,
                     now |-> clock, dates |-> {},
                     left |-> Start(d) .. cycle.at]
    /\ UNCHANGED <<clock, work, interval, reset, meas, stats, samples, yields,
                   cli, used, altered, torn>>

(* One archive slot, in time order, autocommitted.                         *)
WriteSample ==
    /\ cycle.step = "samples"
    /\ cycle.left # {}
    /\ LET p == Min(cycle.left)
       IN  /\ samples' = samples \union {p}
           /\ cycle' = [cycle EXCEPT !.left = @ \ {p},
                                     !.dates = @ \union {DayOf(p)}]
    /\ UNCHANGED <<clock, work, interval, reset, known, meas, stats, yields,
                   cli, used, altered, torn>>

SamplesWritten ==
    /\ cycle.step = "samples"
    /\ cycle.left = {}
    /\ cycle' = [cycle EXCEPT !.step = "yields",
                              !.left = AffectedDates(cycle.dates, cycle.now)]
    /\ UNCHANGED <<clock, work, interval, reset, known, meas, stats, samples,
                   yields, cli, used, altered, torn>>

(* recompute_daily_yield() of one affected date, in date order; the last   *)
(* one ends write_energy_samples().                                        *)
WriteYield ==
    /\ cycle.step = "yields"
    /\ LET d == Min(cycle.left)
           rest == cycle.left \ {d}
       IN  /\ yields' = [yields EXCEPT ![d] = Recomputed(d, cycle.now, "service")]
           /\ IF rest # {}
              THEN /\ cycle' = [cycle EXCEPT !.left = rest]
                   /\ UNCHANGED torn
              ELSE /\ cycle' = AfterSamples(cycle)
                   /\ torn' = torn \ ({DayOf(cycle.now) - 1} \union cycle.dates
                                        \union {e + 1 : e \in cycle.dates})
    /\ UNCHANGED <<clock, work, interval, reset, known, meas, stats, samples,
                   cli, used, altered>>

(* write_daily_yields(): one autocommitted upsert per month record.        *)
WriteArchiveYield ==
    /\ cycle.step = "months"
    /\ IF cycle.left = {}
       THEN cycle' = Idle /\ UNCHANGED yields
       ELSE LET d == Min(cycle.left)
            IN  /\ yields' = [yields EXCEPT ![d] = ArchiveYield(d)]
                /\ cycle' = [cycle EXCEPT !.left = @ \ {d}]
    /\ UNCHANGED <<clock, work, interval, reset, known, meas, stats, samples,
                   cli, used, altered, torn>>

(* What an unfinished write_energy_samples() leaves behind.                *)
TornBy(c) ==
    IF c.step \in {"samples", "yields"}
    THEN torn \union ((c.dates \union {d + 1 : d \in c.dates}) \intersect 1 .. Days)
    ELSE torn

(* A statement fails: export() logs the error and goes on with the next    *)
(* write of the cycle.                                                     *)
Fail ==
    /\ cycle # Idle
    /\ used.failures < MaxFailures
    /\ cycle' = CASE cycle.step \in {"poll", "statistics"} -> AfterPoll(cycle)
                  [] cycle.step \in {"identity", "samples", "yields"} ->
                       AfterSamples(cycle)
                  [] OTHER -> Idle
    /\ torn' = TornBy(cycle)
    /\ used' = [used EXCEPT !.failures = @ + 1]
    /\ UNCHANGED <<clock, work, interval, reset, known, meas, stats, samples,
                   yields, cli, altered>>

(* The service dies and is started again, perhaps with another interval.   *)
Restart ==
    /\ used.failures < MaxFailures
    /\ used' = [used EXCEPT !.failures = @ + 1]
    /\ cycle' = Idle
    /\ torn' = TornBy(cycle)
    /\ interval' \in Intervals
    /\ UNCHANGED <<clock, work, reset, known, meas, stats, samples, yields, cli,
                   altered>>

(* rebuild-daily-yields over a half-open range of days; it reads the clock *)
(* once and refuses an unknown inverter.                                   *)
RebuildBegins ==
    /\ "archives" \in work
    /\ cli = Idle
    /\ known
    /\ used.rebuilds < MaxRebuilds
    /\ \E a, b \in 1 .. Days + 1 :
         a < b /\ cli' = [step |-> "rebuild", date |-> a, end |-> b, now |-> clock]
    /\ used' = [used EXCEPT !.rebuilds = @ + 1]
    /\ UNCHANGED <<clock, work, interval, reset, known, meas, stats, samples,
                   yields, cycle, altered, torn>>

RebuildDate ==
    /\ cli.step = "rebuild"
    /\ yields' = [yields EXCEPT ![cli.date] =
                    Recomputed(cli.date, cli.now, "rebuild")]
    /\ cli' = IF cli.date + 1 < cli.end THEN [cli EXCEPT !.date = @ + 1] ELSE Idle
    /\ UNCHANGED <<clock, work, interval, reset, known, meas, stats, samples,
                   cycle, used, altered, torn>>

Service ==
    \/ WritePoll \/ WriteStatistics \/ WriteIdentity \/ WriteSample
    \/ SamplesWritten \/ WriteYield \/ WriteArchiveYield

Next ==
    \/ Tick \/ ExportBegins \/ Service \/ Fail \/ Restart
    \/ RebuildBegins \/ RebuildDate

Spec == Init /\ [][Next]_vars

----------------------------------------------------------------------------
(* What the exported cycle and the rebuild command carry between two steps.*)
PollCycle == [step : {"poll", "statistics", "identity"}, at : 1 .. clock,
              power : Powers \union {NoPower}, daily : BOOLEAN]
SampleCycle == [step : {"samples"}, at : 1 .. clock, daily : BOOLEAN,
                now : 1 .. clock, dates : SUBSET (1 .. Days),
                left : SUBSET Points]
YieldCycle == [step : {"yields"}, at : 1 .. clock, daily : BOOLEAN,
               now : 1 .. clock, dates : SUBSET (1 .. Days),
               left : SUBSET (1 .. Days)]
MonthCycle == [step : {"months"}, at : 1 .. clock, daily : BOOLEAN,
               left : SUBSET (1 .. Days)]

CycleType ==
    \/ cycle = Idle
    \/ cycle \in PollCycle
    \/ cycle \in SampleCycle
    \/ cycle \in YieldCycle
    \/ cycle \in MonthCycle

CliType ==
    \/ cli = Idle
    \/ cli \in [step : {"rebuild"}, date : 1 .. Days, end : 1 .. Days + 1,
                now : 1 .. clock]

TypeOK ==
    /\ clock \in Points
    /\ work \in Workloads /\ interval \in Intervals /\ reset \in Resets
    /\ known \in BOOLEAN
    /\ meas \in [Points -> Powers \union {NoPower, NotMeasured}]
    /\ samples \subseteq 1 .. clock
    /\ DOMAIN stats = 1 .. Days /\ DOMAIN yields = 1 .. Days
    /\ CycleType /\ CliType
    /\ altered \subseteq 1 .. Days /\ torn \subseteq 1 .. Days
    /\ used \in [cycles : 0 .. MaxCycles, failures : 0 .. MaxFailures,
                rebuilds : 0 .. MaxRebuilds]

(* Between exports, every daily yield computed from the samples is the one *)
(* today's samples give, whatever interrupted the writes before and        *)
(* whichever process recomputed it: a write of samples that finished, on   *)
(* the same day or the day after, has repaired what an unfinished one left *)
(* (recompute_affected_daily_yields()).                                    *)
YieldIsExact ==
    cycle.step \notin {"samples", "yields"} =>
        \A d \in 1 .. Days \ torn :
            /\ yields[d] # NoRow /\ yields[d].by # "archive" =>
                 /\ YieldFrom(samples, d) # NoRow
                 /\ yields[d].daily = YieldFrom(samples, d).daily
                 /\ yields[d].total = YieldFrom(samples, d).total
            /\ yields[d] = NoRow => YieldFrom(samples, d) = NoRow

(* Yesterday is settled by the first write of samples that finishes after  *)
(* midnight: its row is complete, unless the rebuild command or the month  *)
(* archive wrote it last.                                                  *)
YesterdayIsFinal ==
    [][cycle.step = "yields" /\ cycle'.step # "yields" /\ used' = used =>
         LET d == DayOf(cycle.now) - 1
         IN  d >= 1 => \/ yields'[d] = NoRow
                       \/ yields'[d].complete
                       \/ yields'[d].by # "service"]_vars

(* Cached statistics that no longer are what calculate_daily_statistics()  *)
(* gives for the stored measurements are reported stale; the one exception *)
(* is a measurement changed in place whose recomputation did not happen.   *)
(* The interval is compared by the number of measurements it expects: one  *)
(* that expects as many is not told apart.                                 *)
StaleIsNoticed ==
    \A d \in 1 .. Days \ altered :
        stats[d] # NoRow =>
            \/ IsStale(d)
            \/ \E every \in Intervals :
                  /\ ExpectedCount(every) = ExpectedCount(interval)
                  /\ stats[d].of = CalculateDailyStatistics(d, every)

(* docs/database.md: "Counter resets or missing baselines produce missing  *)
(* data, not a fabricated zero."  recompute_daily_yield() stores the       *)
(* difference whatever its sign.                                           *)
ResetIsMissingData ==
    \A d \in 1 .. Days :
        yields[d] # NoRow /\ yields[d].by # "archive" => yields[d].daily >= 0
============================================================================
