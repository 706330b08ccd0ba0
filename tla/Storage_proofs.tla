--------------------------- MODULE Storage_proofs ---------------------------
(***************************************************************************)
(* Proofs about Storage, for days and histories of any length: the yields  *)
(* the samples give are the ones stored, yesterday is settled, and cached  *)
(* statistics that no longer fit their measurements are noticed.  And,     *)
(* from "The opening of the database" on, about Schema, for any number of  *)
(* processes, any patience and any content of the database: a start fails  *)
(* on a migration of another one only after somebody outlived the lock,    *)
(* and whoever runs has the whole schema and the database's timezone.      *)
(***************************************************************************)
EXTENDS Storage, Schema, FiniteSetTheorems, WellFoundedInduction, TLAPS

(* Local days.                                                             *)
-----------------------------------------------------------------------------

LEMMA Quotient ==
    ASSUME NEW n \in Nat, NEW s \in Nat \ {0}
    PROVE  /\ n \div s \in Nat
           /\ (n \div s) * s <= n /\ n < (n \div s) * s + s
OBVIOUS

LEMMA Products ==
    ASSUME NEW a \in Int, NEW b \in Int, NEW s \in Nat \ {0}
    PROVE  /\ a * s \in Int
           /\ (a + 1) * s = a * s + s /\ (a - 1) * s = a * s - s
           /\ a <= b => a * s <= b * s
           /\ a * s < b * s => a < b
<1>1. a * s \in Int
  OBVIOUS
<1>2. (a + 1) * s = a * s + s /\ (a - 1) * s = a * s - s
  OBVIOUS
<1>3. a <= b => a * s <= b * s
  OBVIOUS
<1>4. a * s < b * s => a < b
  OBVIOUS
<1> QED
  BY <1>1, <1>2, <1>3, <1>4

LEMMA DayBounds ==
    ASSUME NEW d \in Int
    PROVE  /\ Start(d) \in Int /\ End(d) \in Int
           /\ Start(d + 1) = End(d) /\ Start(d) < End(d)
<1>1. (d - 1) * Slots = d * Slots - Slots /\ d * Slots \in Int
  BY StorageAssumption, Products
<1>2. d + 1 - 1 = d
  OBVIOUS
<1> QED
  BY <1>1, <1>2, StorageAssumption DEF Start, End

LEMMA DaysInOrder ==
    ASSUME NEW d \in Int, NEW e \in Int, d < e
    PROVE  End(d) <= Start(e)
<1>1. d * Slots <= (e - 1) * Slots
  BY StorageAssumption, Products
<1> QED
  BY <1>1, StorageAssumption, Products DEF Start, End

(* A point lies in its local day, and in the days of the model.            *)
LEMMA PointInDay ==
    ASSUME NEW p \in Points
    PROVE  /\ DayOf(p) \in 1 .. Days
           /\ Start(DayOf(p)) <= p /\ p < End(DayOf(p))
<1> DEFINE q == (p - 1) \div Slots
<1>0. Days * Slots \in Int /\ Slots \in Nat \ {0} /\ Days \in Int
  BY StorageAssumption, Products
<1>1. p \in Nat /\ p >= 1 /\ p <= Days * Slots /\ p - 1 \in Nat
  BY <1>0 DEF Points
<1>2. q \in Nat /\ q * Slots <= p - 1 /\ p - 1 < q * Slots + Slots
  BY <1>0, <1>1, Quotient
<1>3. DayOf(p) = q + 1
  BY DEF DayOf
<1> HIDE DEF q
<1>4. q * Slots \in Int /\ (q + 1) * Slots = q * Slots + Slots
  BY <1>0, <1>2, Products
<1>5. q < Days
  BY <1>0, <1>1, <1>2, <1>4, Products
<1>6. Start(q + 1) = q * Slots + 1 /\ End(q + 1) = q * Slots + Slots + 1
  BY <1>2, <1>4 DEF Start, End
<1> QED
  BY <1>0, <1>1, <1>2, <1>3, <1>4, <1>5, <1>6

(* A point between the bounds of a day belongs to it.                      *)
LEMMA DayOfPoint ==
    ASSUME NEW p \in Points, NEW d \in Int, Start(d) <= p, p < End(d)
    PROVE  DayOf(p) = d
<1>1. DayOf(p) \in Int /\ Start(DayOf(p)) <= p /\ p < End(DayOf(p))
  BY PointInDay
<1>2. p \in Int /\ Start(d) \in Int /\ End(d) \in Int
  BY DayBounds, StorageAssumption, Products DEF Points
<1>3. CASE DayOf(p) < d
  BY <1>1, <1>2, <1>3, DaysInOrder, DayBounds
<1>4. CASE d < DayOf(p)
  BY <1>1, <1>2, <1>4, DaysInOrder, DayBounds
<1> QED
  BY <1>1, <1>3, <1>4

LEMMA LeastOf ==
    ASSUME NEW S, S \subseteq Nat, S # {}
    PROVE  Min(S) \in S
<1> DEFINE upto(m) == 0 .. m
           T == {upto(m) : m \in S}
<1>1. T \subseteq FiniteSubsetsOf(Nat)
  <2>1. \A m \in S : IsFiniteSet(0 .. m) /\ 0 .. m \subseteq Nat
    BY FS_Interval
  <2> QED
    BY <2>1 DEF FiniteSubsetsOf
<1>2. PICK U \in T : \A V \in T : ~(<<V, U>> \in StrictSubsetOrdering(Nat))
  <2>1. T # {}
    OBVIOUS
  <2>2. IsWellFoundedOn(StrictSubsetOrdering(Nat), FiniteSubsetsOf(Nat))
    BY FS_StrictSubsetOrderingWellFounded
  <2> HIDE DEF T
  <2> QED
    BY <1>1, <2>1, <2>2, WFMin
<1>3. PICK m \in S : U = 0 .. m
  OBVIOUS
<1>4. ASSUME NEW n \in S, n < m PROVE FALSE
  <2>1. 0 .. n \subseteq 0 .. m /\ m \in 0 .. m /\ m \notin 0 .. n
    BY <1>4
  <2>2. <<0 .. n, 0 .. m>> \in StrictSubsetOrdering(Nat)
    BY <2>1 DEF StrictSubsetOrdering
  <2> QED
    BY <1>2, <1>3, <2>2
<1>5. m \in S /\ \A n \in S : m <= n
  BY <1>4
<1> QED
  BY <1>5 DEF Min

-----------------------------------------------------------------------------
(* Types.                                                                  *)

LEMMA Constants ==
    /\ Days \in Nat \ {0} /\ Slots \in Nat \ {0}
    /\ Days * Slots \in Nat /\ Days * Slots >= 1
    /\ Intervals \subseteq Nat \ {0} /\ Intervals # {}
    /\ MaxCycles \in Nat /\ MaxFailures \in Nat /\ MaxRebuilds \in Nat
    /\ \A w \in Powers \union {NoPower} : w \in Int /\ w # NotMeasured
<1>1. Days \in Nat \ {0} /\ Slots \in Nat \ {0}
  BY StorageAssumption
<1>2. 1 * Slots <= Days * Slots /\ Days * Slots \in Int /\ 1 * Slots = Slots
  BY <1>1, Products
<1>3. \A w \in Powers \union {NoPower} : w \in Int /\ w # NotMeasured
  BY StorageAssumption DEF NoPower, NotMeasured
<1> QED
  BY <1>1, <1>2, <1>3, StorageAssumption

(* A cycle carries what its step says.                                     *)
LEMMA CycleSteps ==
    ASSUME TypeOK
    PROVE  /\ cycle.step \in {"poll", "statistics", "identity"}
                => cycle \in PollCycle
           /\ cycle.step = "samples" => cycle \in SampleCycle
           /\ cycle.step = "yields" => cycle \in YieldCycle
           /\ cycle.step = "months" => cycle \in MonthCycle
           /\ cycle.step \notin {"poll", "statistics", "identity", "samples",
                                 "yields", "months"} => cycle = Idle
           /\ cycle # Idle => cycle.at \in 1 .. clock /\ cycle.at \in Points
<1> USE DEF Idle, PollCycle, SampleCycle, YieldCycle, MonthCycle
<1>0. 1 .. clock \subseteq Points
  BY Constants DEF TypeOK, Points
<1>1. CASE cycle = Idle
  BY <1>1
<1>2. CASE cycle \in PollCycle
  BY <1>0, <1>2
<1>3. CASE cycle \in SampleCycle
  BY <1>0, <1>3
<1>4. CASE cycle \in YieldCycle
  BY <1>0, <1>4
<1>5. CASE cycle \in MonthCycle
  BY <1>0, <1>5
<1> QED
  BY <1>1, <1>2, <1>3, <1>4, <1>5 DEF TypeOK, CycleType

LEMMA CycleKept ==
    ASSUME TypeOK, clock' \in Points, clock <= clock', cycle' = cycle
    PROVE  CycleType'
<1>1. 1 .. clock \subseteq 1 .. clock'
  BY Constants DEF TypeOK, Points
<1> QED
  BY <1>1 DEF TypeOK, CycleType, PollCycle, SampleCycle, YieldCycle, MonthCycle

LEMMA CliKept ==
    ASSUME TypeOK, clock' \in Points, clock <= clock', cli' = cli
    PROVE  CliType'
<1>1. 1 .. clock \subseteq 1 .. clock'
  BY Constants DEF TypeOK, Points
<1> QED
  BY <1>1 DEF TypeOK, CliType

LEMMA AfterPollType ==
    ASSUME TypeOK, cycle \in PollCycle
    PROVE  /\ AfterPoll(cycle) = Idle \/ AfterPoll(cycle) \in PollCycle
           /\ AfterPoll(cycle) # Idle => /\ AfterPoll(cycle).at = cycle.at
                                         /\ AfterPoll(cycle).step = "identity"
BY DEF AfterPoll, PollCycle

LEMMA AfterSamplesType ==
    ASSUME TypeOK, cycle # Idle
    PROVE  AfterSamples(cycle) = Idle \/ AfterSamples(cycle) \in MonthCycle
<1>1. cycle.at \in 1 .. clock /\ cycle.at \in Points
  BY CycleSteps
<1>2. 1 .. DayOf(cycle.at) - 1 \subseteq 1 .. Days
  BY <1>1, PointInDay, Constants
<1>3. [step |-> "months", at |-> cycle.at, daily |-> TRUE,
       left |-> 1 .. DayOf(cycle.at) - 1] \in MonthCycle
  BY <1>1, <1>2 DEF MonthCycle
<1> HIDE DEF MonthCycle
<1> QED
  BY <1>3, Zenon DEF AfterSamples

LEMMA ClockType ==
    ASSUME TypeOK
    PROVE  clock \in Nat /\ clock >= 1 /\ clock \in 1 .. clock
           /\ 1 .. clock \subseteq Points
BY Constants DEF TypeOK, Points

UsedType == [cycles : 0 .. MaxCycles, failures : 0 .. MaxFailures,
             rebuilds : 0 .. MaxRebuilds]

LEMMA UsedTypes ==
    ASSUME used \in UsedType
    PROVE  /\ used.cycles < MaxCycles
                => [used EXCEPT !.cycles = @ + 1] \in UsedType
           /\ used.failures < MaxFailures
                => [used EXCEPT !.failures = @ + 1] \in UsedType
           /\ used.rebuilds < MaxRebuilds
                => [used EXCEPT !.rebuilds = @ + 1] \in UsedType
BY Constants DEF UsedType

LEMMA InitTypes == Init => TypeOK
<1> SUFFICES ASSUME Init PROVE TypeOK
  OBVIOUS
<1>1. clock \in Points /\ CycleType /\ CliType
  BY Constants DEF Init, Points, CycleType, CliType
<1>2. meas \in [Points -> Powers \union {NoPower, NotMeasured}]
  BY DEF Init
<1>3. used \in UsedType
  BY Constants DEF Init, UsedType
<1> QED
  BY <1>1, <1>2, <1>3 DEF Init, TypeOK, UsedType

LEMMA TornType ==
    ASSUME TypeOK PROVE TornBy(cycle) \subseteq 1 .. Days
BY DEF TornBy, TypeOK

LEMMA ClockSteps ==
    ASSUME TypeOK, Tick \/ ExportBegins \/ RebuildBegins
    PROVE  TypeOK'
<1> USE DEF TypeOK
<1>1. CASE Tick
  <2>1. clock' \in Points /\ clock <= clock' /\ 1 .. clock \subseteq 1 .. clock'
    BY <1>1, Constants DEF Tick, Points
  <2>2. CycleType' /\ CliType'
    BY <1>1, <2>1, CycleKept, CliKept DEF Tick
  <2> QED
    BY <1>1, <2>1, <2>2 DEF Tick
<1>2. CASE ExportBegins
  <2>1. PICK power \in Powers \union {NoPower}, daily \in BOOLEAN :
          cycle' = [step |-> IF "statistics" \in work THEN "poll" ELSE "identity",
                    at |-> clock, power |-> power, daily |-> daily]
    BY <1>2 DEF ExportBegins
  <2>2. cycle' \in PollCycle'
    BY <1>2, <2>1, ClockType DEF ExportBegins, PollCycle
  <2>3. CliType'
    BY <1>2, CliKept, ClockType DEF ExportBegins
  <2>4. used' \in UsedType
    BY <1>2, UsedTypes DEF ExportBegins, UsedType
  <2> QED
    BY <1>2, <2>2, <2>3, <2>4 DEF ExportBegins, CycleType, UsedType
<1>3. CASE RebuildBegins
  <2>1. PICK a \in 1 .. Days + 1, b \in 1 .. Days + 1 :
          a < b /\ cli' = [step |-> "rebuild", date |-> a, end |-> b, now |-> clock]
    BY <1>3 DEF RebuildBegins
  <2>2. CliType'
    BY <1>3, <2>1, ClockType, Constants DEF RebuildBegins, CliType
  <2>3. CycleType'
    BY <1>3, CycleKept, ClockType DEF RebuildBegins
  <2>4. used' \in UsedType
    BY <1>3, UsedTypes DEF RebuildBegins, UsedType
  <2> QED
    BY <1>3, <2>2, <2>3, <2>4 DEF RebuildBegins, UsedType
<1> QED
  BY <1>1, <1>2, <1>3

(* What a cycle has written, and what it has left.                         *)
Early == {"poll", "statistics", "identity", "samples", "yields"}

CycleInv ==
    /\ cycle.step \in Early => samples \subseteq 1 .. cycle.at
    /\ cycle.step = "samples" =>
          /\ cycle.dates \subseteq {DayOf(cycle.at)}
          /\ cycle.left \subseteq Start(DayOf(cycle.at)) .. cycle.at
          /\ cycle.dates = {} => cycle.left # {}
    /\ cycle.step = "yields" =>
          /\ cycle.dates = {DayOf(cycle.at)}
          /\ cycle.left # {}
          /\ cycle.left \subseteq AffectedDates(cycle.dates, cycle.now)

TypeInv == TypeOK /\ CycleInv

(* WriteStatistics, but for the row it writes.                             *)
StatisticsControl ==
    /\ cycle.step = "statistics" /\ cycle' = AfterPoll(cycle)
    /\ altered' = altered \ {DayOf(cycle.at)}
    /\ DOMAIN stats' = DOMAIN stats
    /\ UNCHANGED <<clock, work, interval, reset, known, meas, samples, yields,
                   cli, used, torn>>

LEMMA StatisticsEffect == WriteStatistics => StatisticsControl
BY Zenon DEF WriteStatistics, StatisticsControl

(* WriteYield, WriteArchiveYield and RebuildDate, but for the row.         *)
YieldControl ==
    /\ cycle.step = "yields"
    /\ DOMAIN yields' = DOMAIN yields
    /\ IF cycle.left \ {Min(cycle.left)} # {}
       THEN /\ cycle' = [cycle EXCEPT !.left = @ \ {Min(cycle.left)}]
            /\ torn' = torn
       ELSE /\ cycle' = AfterSamples(cycle)
            /\ torn' = torn \ ({DayOf(cycle.now) - 1} \union cycle.dates
                                 \union {e + 1 : e \in cycle.dates})
    /\ UNCHANGED <<clock, work, interval, reset, known, meas, stats, samples,
                   cli, used, altered>>

LEMMA YieldEffect ==
    ASSUME WriteYield
    PROVE  /\ YieldControl
           /\ yields' = [yields EXCEPT ![Min(cycle.left)] =
                           Recomputed(Min(cycle.left), cycle.now, "service")]
BY Zenon DEF WriteYield, YieldControl

ArchiveControl ==
    /\ cycle.step = "months"
    /\ DOMAIN yields' = DOMAIN yields
    /\ IF cycle.left = {} THEN cycle' = Idle
       ELSE cycle' = [cycle EXCEPT !.left = @ \ {Min(cycle.left)}]
    /\ UNCHANGED <<clock, work, interval, reset, known, meas, stats, samples,
                   cli, used, altered, torn>>

LEMMA ArchiveEffect ==
    ASSUME WriteArchiveYield
    PROVE  /\ ArchiveControl
           /\ IF cycle.left = {} THEN yields' = yields
              ELSE yields' = [yields EXCEPT ![Min(cycle.left)] =
                                ArchiveYield(Min(cycle.left))]
BY Zenon DEF WriteArchiveYield, ArchiveControl

RebuildControl ==
    /\ cli.step = "rebuild"
    /\ DOMAIN yields' = DOMAIN yields
    /\ cli' = IF cli.date + 1 < cli.end THEN [cli EXCEPT !.date = @ + 1] ELSE Idle
    /\ UNCHANGED <<clock, work, interval, reset, known, meas, stats, samples,
                   cycle, used, altered, torn>>

LEMMA RebuildEffect ==
    ASSUME RebuildDate
    PROVE  /\ RebuildControl
           /\ yields' = [yields EXCEPT ![cli.date] =
                           Recomputed(cli.date, cli.now, "rebuild")]
BY Zenon DEF RebuildDate, RebuildControl

LEMMA LeastLeft ==
    ASSUME TypeInv, cycle.step \in {"samples", "yields", "months"},
           cycle.left # {}
    PROVE  Min(cycle.left) \in cycle.left
<1>0. Points \subseteq Nat /\ 1 .. Days \subseteq Nat
  BY Constants DEF Points
<1>1. cycle.left \subseteq Points \/ cycle.left \subseteq 1 .. Days
  BY CycleSteps DEF TypeInv, SampleCycle, YieldCycle, MonthCycle
<1>2. cycle.left \subseteq Nat
  BY <1>0, <1>1
<1> QED
  BY <1>2, LeastOf

LEMMA PollTypes ==
    ASSUME TypeInv, WritePoll \/ WriteStatistics
    PROVE  TypeInv'
<1> USE DEF TypeInv
<1>1. cycle \in PollCycle /\ cycle.at \in Points /\ DayOf(cycle.at) \in 1 .. Days
  BY CycleSteps, PointInDay DEF WritePoll, WriteStatistics, Idle
<1>2. CliType'
  BY CliKept, ClockType DEF TypeOK, WritePoll, WriteStatistics
<1>3. CASE WritePoll
  <2>1. cycle' = [cycle EXCEPT !.step = "statistics"] /\ clock' = clock
    BY <1>3 DEF WritePoll
  <2>2. cycle' \in PollCycle' /\ cycle'.at = cycle.at /\ cycle'.step = "statistics"
    BY <1>1, <2>1 DEF PollCycle
  <2>3. Coalesce(cycle.power, meas[cycle.at]) \in Powers \union {NoPower, NotMeasured}
    BY <1>1 DEF Coalesce, TypeOK, PollCycle
  <2>4. meas' \in [Points -> Powers \union {NoPower, NotMeasured}]
    BY <1>1, <1>3, <2>3 DEF WritePoll, TypeOK
  <2>5. altered' \subseteq 1 .. Days
    BY <1>1, <1>3 DEF WritePoll, TypeOK
  <2>6. TypeOK'
    BY <1>2, <1>3, <2>2, <2>4, <2>5 DEF WritePoll, TypeOK, CycleType
  <2>7. CycleInv'
    BY <1>3, <2>2 DEF WritePoll, CycleInv, Early
  <2> QED
    BY <2>6, <2>7
<1>4. CASE WriteStatistics
  <2>1. StatisticsControl
    BY <1>4, StatisticsEffect
  <2>2. /\ cycle' = Idle \/ cycle' \in PollCycle
        /\ cycle' # Idle => cycle'.at = cycle.at /\ cycle'.step = "identity"
    BY <1>1, <2>1, AfterPollType DEF StatisticsControl
  <2>3. CycleType'
    BY <2>1, <2>2 DEF CycleType, StatisticsControl, PollCycle
  <2>4. TypeOK'
    BY <1>2, <2>1, <2>3 DEF StatisticsControl, TypeOK
  <2>5. CycleInv'
    BY <2>1, <2>2 DEF StatisticsControl, CycleInv, Early, Idle
  <2> QED
    BY <2>4, <2>5
<1> QED
  BY <1>3, <1>4

LEMMA SampleTypes ==
    ASSUME TypeInv, WriteIdentity \/ WriteSample \/ SamplesWritten
    PROVE  TypeInv'
<1> USE DEF TypeInv
<1> DEFINE D == DayOf(cycle.at)
<1>1. cycle.at \in Points /\ D \in 1 .. Days /\ cycle.at \in 1 .. clock
  BY CycleSteps, PointInDay DEF WriteIdentity, WriteSample, SamplesWritten, Idle
<1>2. CliType' /\ clock' = clock
  BY CliKept, ClockType DEF TypeOK, WriteIdentity, WriteSample, SamplesWritten
<1>3. /\ Start(D) \in Nat \ {0} /\ Start(D) <= cycle.at
      /\ cycle.at < End(D) /\ cycle.at \in Nat
  <2>1. (D - 1) * Slots >= 0 /\ (D - 1) * Slots \in Int
    <3>1. 0 * Slots <= (D - 1) * Slots /\ 0 * Slots = 0
      BY <1>1, Constants, Products
    <3> QED
      BY <1>1, <3>1, Constants, Products
  <2>2. Start(D) \in Nat \ {0}
    BY <2>1 DEF Start
  <2> QED
    BY <1>1, <2>2, PointInDay, Constants DEF Points
<1>4. Start(D) .. cycle.at \subseteq Points
  BY <1>1, <1>3, Constants DEF Points
<1> HIDE DEF D
<1>5. CASE WriteIdentity
  <2>1. cycle \in PollCycle
    BY <1>5, CycleSteps DEF WriteIdentity
  <2>2. cycle' = [step |-> "samples", at |-> cycle.at, daily |-> cycle.daily,
                  now |-> clock, dates |-> {}, left |-> Start(D) .. cycle.at]
    BY <1>5 DEF WriteIdentity, D
  <2>3. cycle.daily \in BOOLEAN
    BY <2>1 DEF PollCycle
  <2>4. cycle' \in SampleCycle'
    BY <1>1, <1>2, <1>4, <2>2, <2>3, ClockType DEF SampleCycle
  <2>5. TypeOK'
    BY <1>2, <1>5, <2>4 DEF WriteIdentity, TypeOK, CycleType
  <2>6. CycleInv'
    <3>1. cycle'.at = cycle.at /\ cycle'.dates = {} /\ cycle'.step = "samples"
      BY <2>2
    <3>2. cycle'.left = Start(DayOf(cycle.at)) .. cycle.at /\ cycle'.left # {}
      BY <1>3, <2>2 DEF D
    <3>3. samples' \subseteq 1 .. cycle.at
      BY <1>5 DEF WriteIdentity, CycleInv, Early
    <3> QED
      BY <3>1, <3>2, <3>3 DEF CycleInv
  <2> QED
    BY <2>5, <2>6
<1>6. CASE WriteSample
  <2>1. cycle \in SampleCycle /\ cycle.step = "samples" /\ cycle.left # {}
    BY <1>6, CycleSteps DEF WriteSample
  <2> DEFINE p == Min(cycle.left)
  <2>2. p \in cycle.left
    BY <2>1, LeastLeft
  <2>3. /\ samples' = samples \union {p}
        /\ cycle' = [cycle EXCEPT !.left = @ \ {p}, !.dates = @ \union {DayOf(p)}]
    BY <1>6 DEF WriteSample
  <2> HIDE DEF p
  <2>4. /\ cycle.left \subseteq Start(D) .. cycle.at
        /\ cycle.dates \subseteq {D} /\ samples \subseteq 1 .. cycle.at
    BY <2>1 DEF CycleInv, D, Early
  <2>5. p \in Points /\ p \in 1 .. cycle.at /\ DayOf(p) = D
    <3>1. p \in Start(D) .. cycle.at
      BY <2>2, <2>4
    <3>2. Start(D) \in Int /\ End(D) \in Int /\ D \in Int
      BY <1>1, DayBounds, Constants
    <3>3. p \in Points /\ p \in 1 .. cycle.at /\ Start(D) <= p /\ p < End(D)
      BY <1>3, <1>4, <3>1, <3>2
    <3> QED
      BY <3>2, <3>3, DayOfPoint
  <2>6. cycle' = [cycle EXCEPT !.left = @ \ {p}, !.dates = @ \union {D}]
    BY <2>3, <2>5
  <2>7. /\ cycle' \in SampleCycle' /\ cycle'.step = "samples"
        /\ cycle'.at = cycle.at /\ cycle'.dates = {D}
        /\ cycle'.left = cycle.left \ {p}
    BY <1>1, <1>2, <2>1, <2>4, <2>6 DEF SampleCycle
  <2>8. samples' \subseteq 1 .. cycle.at /\ samples' \subseteq 1 .. clock
    BY <1>1, <2>3, <2>4, <2>5, ClockType
  <2>9. TypeOK'
    BY <1>2, <1>6, <2>7, <2>8 DEF WriteSample, TypeOK, CycleType
  <2>10. CycleInv'
    BY <2>4, <2>7, <2>8 DEF CycleInv, D
  <2> QED
    BY <2>9, <2>10
<1>7. CASE SamplesWritten
  <2>1. cycle \in SampleCycle /\ cycle.step = "samples" /\ cycle.left = {}
    BY <1>7, CycleSteps DEF SamplesWritten
  <2>2. cycle.dates = {D} /\ samples \subseteq 1 .. cycle.at
    BY <2>1 DEF CycleInv, D, Early
  <2>3. /\ AffectedDates(cycle.dates, cycle.now) \subseteq 1 .. Days
        /\ D \in AffectedDates(cycle.dates, cycle.now)
    BY <1>1, <2>2 DEF AffectedDates
  <2>4. cycle' = [cycle EXCEPT !.step = "yields",
                    !.left = AffectedDates(cycle.dates, cycle.now)]
    BY <1>7 DEF SamplesWritten
  <2>5. /\ cycle' \in YieldCycle' /\ cycle'.step = "yields"
        /\ cycle'.at = cycle.at /\ cycle'.dates = cycle.dates
        /\ cycle'.now = cycle.now
        /\ cycle'.left = AffectedDates(cycle.dates, cycle.now)
    BY <1>2, <2>1, <2>3, <2>4 DEF SampleCycle, YieldCycle
  <2>6. TypeOK'
    BY <1>2, <1>7, <2>5 DEF SamplesWritten, TypeOK, CycleType
  <2>7. CycleInv'
    BY <1>7, <2>2, <2>3, <2>5 DEF SamplesWritten, CycleInv, D, AffectedDates
  <2> QED
    BY <2>6, <2>7
<1> QED
  BY <1>5, <1>6, <1>7

LEMMA EndOfSamples ==
    ASSUME TypeInv, cycle # Idle, cycle' = AfterSamples(cycle), clock' = clock
    PROVE  CycleType' /\ CycleInv'
<1>1. cycle' = Idle \/ cycle' \in MonthCycle
  BY AfterSamplesType DEF TypeInv
<1>2. MonthCycle' = MonthCycle
  BY DEF MonthCycle
<1>3. cycle'.step \notin Early
  BY <1>1 DEF Early, Idle, MonthCycle
<1> QED
  BY <1>1, <1>2, <1>3 DEF CycleType, CycleInv, Early

LEMMA YieldTypes ==
    ASSUME TypeInv, WriteYield \/ WriteArchiveYield \/ RebuildDate
    PROVE  TypeInv'
<1> USE DEF TypeInv
<1>1. CASE WriteYield
  <2>1. YieldControl
    BY <1>1, YieldEffect
  <2>2. cycle \in YieldCycle /\ cycle # Idle /\ clock' = clock
    BY <2>1, CycleSteps DEF YieldControl, Idle
  <2>3. CliType'
    BY <2>1, CliKept, ClockType DEF TypeOK, YieldControl
  <2>4. CycleType' /\ CycleInv'
    <3>1. CASE cycle.left \ {Min(cycle.left)} = {}
      BY <2>1, <2>2, <3>1, EndOfSamples DEF YieldControl
    <3>2. CASE cycle.left \ {Min(cycle.left)} # {}
      <4> DEFINE rest == cycle.left \ {Min(cycle.left)}
      <4>1. cycle' = [cycle EXCEPT !.left = rest] /\ samples' = samples
        BY <2>1, <3>2 DEF YieldControl
      <4>2. rest \subseteq cycle.left /\ rest # {}
        BY <3>2
      <4> HIDE DEF rest
      <4>3. /\ cycle' \in YieldCycle' /\ cycle'.left = rest
            /\ cycle'.at = cycle.at /\ cycle'.dates = cycle.dates
            /\ cycle'.now = cycle.now /\ cycle'.step = "yields"
        BY <2>2, <4>1, <4>2 DEF YieldCycle
      <4>4. /\ samples \subseteq 1 .. cycle.at /\ cycle.dates = {DayOf(cycle.at)}
            /\ cycle.left \subseteq AffectedDates(cycle.dates, cycle.now)
        BY <2>1 DEF YieldControl, CycleInv, Early
      <4> QED
        BY <4>1, <4>2, <4>3, <4>4 DEF CycleType, CycleInv
    <3> QED
      BY <3>1, <3>2
  <2>5. torn' \subseteq 1 .. Days
    BY <2>1 DEF YieldControl, TypeOK
  <2> QED
    BY <2>1, <2>3, <2>4, <2>5 DEF YieldControl, TypeOK
<1>2. CASE WriteArchiveYield
  <2>1. ArchiveControl
    BY <1>2, ArchiveEffect
  <2>2. cycle \in MonthCycle /\ clock' = clock
    BY <2>1, CycleSteps DEF ArchiveControl
  <2>3. CliType'
    BY <2>1, CliKept, ClockType DEF TypeOK, ArchiveControl
  <2>4. cycle' = Idle \/ cycle' \in MonthCycle'
    BY <2>1, <2>2 DEF ArchiveControl, MonthCycle
  <2>5. CycleType' /\ CycleInv'
    <3>1. cycle'.step \notin Early
      BY <2>4 DEF Early, Idle, MonthCycle
    <3> QED
      BY <2>4, <3>1 DEF CycleType, CycleInv, Early
  <2> QED
    BY <2>1, <2>3, <2>5 DEF ArchiveControl, TypeOK
<1>3. CASE RebuildDate
  <2>1. RebuildControl
    BY <1>3, RebuildEffect
  <2>2. cli \in [step : {"rebuild"}, date : 1 .. Days, end : 1 .. Days + 1,
                 now : 1 .. clock]
    BY <2>1 DEF RebuildControl, TypeOK, CliType, Idle
  <2>3. CliType'
    BY <2>1, <2>2, Constants DEF RebuildControl, CliType
  <2>4. CycleType'
    BY <2>1, CycleKept, ClockType DEF RebuildControl, TypeOK
  <2>5. CycleInv'
    BY <2>1 DEF RebuildControl, CycleInv, AffectedDates
  <2> QED
    BY <2>1, <2>3, <2>4, <2>5 DEF RebuildControl, TypeOK
<1> QED
  BY <1>1, <1>2, <1>3

LEMMA FailTypes ==
    ASSUME TypeInv, Fail \/ Restart
    PROVE  TypeInv'
<1> USE DEF TypeInv
<1>1. used' \in UsedType /\ torn' \subseteq 1 .. Days
  BY UsedTypes, TornType DEF TypeOK, UsedType, Fail, Restart
<1>2. CliType'
  BY CliKept, ClockType DEF TypeOK, Fail, Restart
<1>3. CycleType' /\ CycleInv'
  <2>1. CASE cycle' = Idle
    BY <2>1 DEF CycleType, CycleInv, Early, Idle
  <2>2. CASE Fail /\ cycle' = AfterPoll(cycle) /\ cycle.step \in {"poll", "statistics"}
    <3>1. cycle \in PollCycle /\ cycle # Idle
      BY <2>2, CycleSteps DEF Idle
    <3>2. cycle' = Idle \/ cycle' \in PollCycle'
      BY <2>2, <3>1, AfterPollType DEF Fail, PollCycle
    <3>3. cycle' # Idle => cycle'.at = cycle.at /\ cycle'.step = "identity"
      BY <2>2, <3>1, AfterPollType
    <3>4. CycleInv'
      BY <2>2, <3>3 DEF Fail, CycleInv, Early, Idle
    <3> QED
      BY <3>2, <3>4 DEF CycleType
  <2>3. CASE Fail /\ cycle' = AfterSamples(cycle)
    BY <2>3, EndOfSamples DEF Fail
  <2> QED
    BY <2>1, <2>2, <2>3 DEF Fail, Restart
<1> QED
  BY <1>1, <1>2, <1>3 DEF TypeOK, Fail, Restart, UsedType

LEMMA ClockStepsInv ==
    ASSUME TypeInv, Tick \/ ExportBegins \/ RebuildBegins
    PROVE  TypeInv'
<1>1. TypeOK'
  BY ClockSteps DEF TypeInv
<1>2. CASE Tick \/ RebuildBegins
  BY <1>1, <1>2 DEF TypeInv, CycleInv, Tick, RebuildBegins, AffectedDates
<1>3. CASE ExportBegins
  <2>1. cycle'.at = clock /\ cycle'.step \in {"poll", "identity"}
    BY <1>3 DEF ExportBegins
  <2> QED
    BY <1>1, <1>3, <2>1 DEF ExportBegins, TypeInv, TypeOK, CycleInv
<1> QED
  BY <1>2, <1>3

LEMMA TypeStep == TypeInv /\ [Next]_vars => TypeInv'
<1> SUFFICES ASSUME TypeInv, [Next]_vars PROVE TypeInv'
  OBVIOUS
<1>1. CASE UNCHANGED vars
  BY <1>1 DEF vars, TypeInv, TypeOK, CycleType, CliType, CycleInv, PollCycle,
              SampleCycle, YieldCycle, MonthCycle, AffectedDates
<1> QED
  BY <1>1, ClockStepsInv, PollTypes, SampleTypes, YieldTypes, FailTypes
  DEF Next, Service

LEMMA TypesHold == Spec => []TypeInv
<1>1. Init => TypeInv
  BY InitTypes DEF Init, TypeInv, CycleInv, Early, Idle
<1> QED
  BY <1>1, TypeStep, PTL DEF Spec

(* Every table, cycle and cursor keeps its type: in particular a cycle     *)
(* never writes a day or a point outside the calendar.                     *)
THEOREM TypeCorrect == Spec => []TypeOK
<1>1. TypeInv => TypeOK
  BY DEF TypeInv
<1> QED
  BY <1>1, TypesHold, PTL

-----------------------------------------------------------------------------
(* Yields.                                                                 *)

(* What YieldIsExact says of one day.                                      *)
Exact(d) ==
    /\ yields[d] # NoRow /\ yields[d].by # "archive" =>
         /\ YieldFrom(samples, d) # NoRow
         /\ yields[d].daily = YieldFrom(samples, d).daily
         /\ yields[d].total = YieldFrom(samples, d).total
    /\ yields[d] = NoRow => YieldFrom(samples, d) = NoRow

(* The days the running write of samples has still to recompute, and those *)
(* it has recomputed.                                                      *)
Owed(d) ==
    \/ cycle.step = "samples" /\ d \in cycle.dates
    \/ /\ cycle.step = "yields" /\ d \in cycle.left
       /\ d \in cycle.dates \union {e + 1 : e \in cycle.dates}

Settled(d) ==
    /\ cycle.step = "yields"
    /\ d \in AffectedDates(cycle.dates, cycle.now) \ cycle.left

Right(d) == (d \notin torn /\ ~Owed(d)) \/ Settled(d)

YieldInv == \A d \in 1 .. Days : Right(d) => Exact(d)

LEMMA RecomputedFields ==
    ASSUME NEW d, NEW now, NEW who
    PROVE  \/ YieldFrom(samples, d) = NoRow /\ Recomputed(d, now, who) = NoRow
           \/ /\ YieldFrom(samples, d) # NoRow
              /\ Recomputed(d, now, who) # NoRow
              /\ Recomputed(d, now, who).total = YieldFrom(samples, d).total
              /\ Recomputed(d, now, who).daily = YieldFrom(samples, d).daily
              /\ Recomputed(d, now, who).complete = (now >= End(d))
              /\ Recomputed(d, now, who).by = who
<1> DEFINE y == YieldFrom(samples, d)
           row == [row |-> TRUE, total |-> y.total, daily |-> y.daily,
                   complete |-> now >= End(d), by |-> who]
<1>1. Recomputed(d, now, who) = IF y = NoRow THEN NoRow ELSE row
  BY Zenon DEF Recomputed
<1>2. /\ row.total = y.total /\ row.daily = y.daily
      /\ row.complete = (now >= End(d)) /\ row.by = who /\ row.row = TRUE
  BY Zenon
<1>3. NoRow.row = FALSE
  BY Zenon DEF NoRow
<1> HIDE DEF y, row
<1>4. row # NoRow
  BY <1>2, <1>3, Zenon
<1> QED
  BY <1>1, <1>2, <1>4, Zenon DEF y

LEMMA ArchiveFields ==
    ASSUME NEW d
    PROVE  ArchiveYield(d) # NoRow /\ ArchiveYield(d).by = "archive"
<1>1. ArchiveYield(d).by = "archive" /\ ArchiveYield(d).row = TRUE
  BY Zenon DEF ArchiveYield
<1>2. NoRow.row = FALSE
  BY Zenon DEF NoRow
<1> QED
  BY <1>1, <1>2, Zenon

LEMMA SameSamples ==
    ASSUME UNCHANGED <<samples, reset>>, NEW d
    PROVE  YieldFrom(samples, d)' = YieldFrom(samples, d)
BY DEF YieldFrom, Total, Within

LEMMA RecomputedIsExact ==
    ASSUME NEW d, NEW now, NEW who \in {"service", "rebuild"},
           yields'[d] = Recomputed(d, now, who), UNCHANGED <<samples, reset>>
    PROVE  Exact(d)'
<1>1. YieldFrom(samples, d)' = YieldFrom(samples, d)
  BY SameSamples
<1> QED
  BY <1>1, RecomputedFields DEF Exact

LEMMA KeptExact ==
    ASSUME NEW d, Exact(d), yields'[d] = yields[d], UNCHANGED <<samples, reset>>
    PROVE  Exact(d)'
<1>1. YieldFrom(samples, d)' = YieldFrom(samples, d)
  BY SameSamples
<1> QED
  BY <1>1 DEF Exact

(* A step that leaves the tables alone and promises no more days.          *)
LEMMA YieldsKept ==
    ASSUME YieldInv, UNCHANGED <<yields, samples, reset>>,
           \A d \in 1 .. Days : Right(d)' => Right(d)
    PROVE  YieldInv'
BY KeptExact DEF YieldInv

LEMMA NothingOwed ==
    ASSUME cycle.step \notin {"samples", "yields"}, NEW d
    PROVE  Right(d) <=> d \notin torn
BY DEF Right, Owed, Settled

(* A sample changes the yield of its own day only: the samples of a cycle  *)
(* are the newest there are.                                               *)
LEMMA YieldElsewhere ==
    ASSUME TypeInv, WriteSample, NEW d \in 1 .. Days, d # DayOf(cycle.at)
    PROVE  YieldFrom(samples, d)' = YieldFrom(samples, d)
<1> DEFINE D == DayOf(cycle.at)
           p == Min(cycle.left)
<1>1. /\ cycle \in SampleCycle /\ cycle.step = "samples" /\ cycle.left # {}
      /\ cycle.at \in Points /\ cycle # Idle
  BY CycleSteps DEF WriteSample, TypeInv, Idle
<1>2. p \in cycle.left
  BY <1>1, LeastLeft
<1>3. samples' = samples \union {p} /\ reset' = reset
  BY DEF WriteSample
<1>4. /\ D \in Int /\ Start(D) <= cycle.at /\ cycle.at < End(D)
      /\ cycle.at \in Int
  BY <1>1, PointInDay, Constants DEF Points
<1> HIDE DEF p, D
<1>5. p \in Start(D) .. cycle.at /\ samples \subseteq 1 .. cycle.at
  BY <1>1, <1>2 DEF TypeInv, CycleInv, Early, D
<1>6. d \in Int /\ D # d /\ \A e \in {d, D} : Start(e) \in Int /\ End(e) \in Int
  BY <1>4, Constants, DayBounds DEF D
<1>7. CASE d < D
  <2>1. Start(d) < End(d) /\ End(d) <= Start(D) /\ Start(D) <= p /\ p \in Int
    BY <1>4, <1>5, <1>6, <1>7, DayBounds, DaysInOrder
  <2>2. /\ Within(samples', 0, Start(d)) = Within(samples, 0, Start(d))
        /\ Within(samples', Start(d), End(d)) = Within(samples, Start(d), End(d))
    BY <1>3, <1>6, <2>1 DEF Within
  <2> QED
    BY <1>3, <2>2 DEF YieldFrom, Total, Start, End, Within
<1>8. CASE D < d
  <2>1. End(D) <= Start(d)
    BY <1>4, <1>6, <1>8, DaysInOrder
  <2>2. \A q \in samples' : q \in Int /\ q < Start(d)
    BY <1>3, <1>4, <1>5, <1>6, <2>1
  <2>3. \A q \in samples : q \in samples'
    BY <1>3
  <2>4. /\ Within(samples', Start(d), End(d)) = {}
        /\ Within(samples, Start(d), End(d)) = {}
    BY <1>6, <2>2, <2>3 DEF Within
  <2>5. YieldFrom(samples, d) = NoRow
    BY <2>4 DEF YieldFrom
  <2>6. YieldFrom(samples, d)' = NoRow
    BY <2>4 DEF YieldFrom, Start, End, Within
  <2> QED
    BY <2>5, <2>6
<1> QED
  BY <1>4, <1>6, <1>7, <1>8

(* The last recomputation hands its days over as settled.                  *)
LEMMA WriteYieldExact ==
    ASSUME TypeInv, YieldInv, WriteYield
    PROVE  YieldInv'
<1> DEFINE d0 == Min(cycle.left)
           rest == cycle.left \ {d0}
<1>1. /\ YieldControl /\ UNCHANGED <<samples, reset>>
      /\ yields' = [yields EXCEPT ![d0] = Recomputed(d0, cycle.now, "service")]
  BY YieldEffect DEF YieldControl
<1>2. /\ cycle \in YieldCycle /\ cycle.step = "yields" /\ cycle # Idle
      /\ cycle.left # {} /\ cycle.left \subseteq 1 .. Days
      /\ DOMAIN yields = 1 .. Days
  BY <1>1, CycleSteps
  DEF YieldControl, TypeInv, TypeOK, CycleInv, Idle, YieldCycle
<1>3. d0 \in cycle.left
  BY <1>2, LeastLeft
<1> SUFFICES ASSUME NEW d \in 1 .. Days, Right(d)' PROVE Exact(d)'
  BY DEF YieldInv
<1> HIDE DEF d0, rest
<1>4. CASE d = d0
  <2>1. yields'[d] = Recomputed(d, cycle.now, "service")
    BY <1>1, <1>2, <1>4
  <2> QED
    BY <1>1, <2>1, RecomputedIsExact
<1>5. CASE d # d0
  <2>1. yields'[d] = yields[d]
    BY <1>1, <1>2, <1>5
  <2>2. Right(d)
    <3>1. CASE rest # {}
      <4>1. cycle' = [cycle EXCEPT !.left = rest] /\ torn' = torn
        BY <1>1, <3>1 DEF YieldControl, rest, d0
      <4>2. /\ cycle'.step = "yields" /\ cycle'.left = rest
            /\ cycle'.dates = cycle.dates /\ cycle'.now = cycle.now
        BY <1>2, <4>1 DEF YieldCycle
      <4>3. d \in rest <=> d \in cycle.left
        BY <1>5 DEF rest
      <4> QED
        BY <1>2, <4>1, <4>2, <4>3 DEF Right, Owed, Settled, AffectedDates
    <3>2. CASE rest = {}
      <4>1. /\ cycle' = AfterSamples(cycle)
            /\ torn' = torn \ ({DayOf(cycle.now) - 1} \union cycle.dates
                                 \union {e + 1 : e \in cycle.dates})
        BY <1>1, <3>2 DEF YieldControl, rest, d0
      <4>2. cycle'.step \notin {"samples", "yields"}
        BY <1>2, <4>1, AfterSamplesType DEF TypeInv, Idle, MonthCycle
      <4>3. d \notin torn' /\ d \notin cycle.left
        BY <1>5, <3>2, <4>2 DEF Right, Owed, Settled, rest
      <4> QED
        BY <1>2, <4>1, <4>3 DEF Right, Owed, Settled, AffectedDates
    <3> QED
      BY <3>1, <3>2
  <2> QED
    BY <1>1, <2>1, <2>2, KeptExact DEF YieldInv
<1> QED
  BY <1>4, <1>5

LEMMA YieldStep == TypeInv /\ YieldInv /\ [Next]_vars => YieldInv'
<1> SUFFICES ASSUME TypeInv, YieldInv, [Next]_vars PROVE YieldInv'
  OBVIOUS
<1>1. CASE Tick \/ RebuildBegins \/ UNCHANGED vars
  BY <1>1, YieldsKept
  DEF Tick, RebuildBegins, vars, Right, Owed, Settled, AffectedDates
<1>2. CASE ExportBegins
  <2>1. /\ cycle.step \notin {"samples", "yields"} /\ torn' = torn
        /\ cycle'.step \notin {"samples", "yields"}
    BY <1>2 DEF ExportBegins, Idle
  <2> QED
    BY <1>2, <2>1, YieldsKept DEF ExportBegins, Right, Owed, Settled
<1>3. CASE WritePoll
  <2>1. cycle'.step = "statistics" /\ cycle.step = "poll"
    BY <1>3, CycleSteps DEF WritePoll, TypeInv, PollCycle
  <2> QED
    BY <1>3, <2>1, YieldsKept DEF WritePoll, Right, Owed, Settled
<1>4. CASE WriteStatistics
  <2>1. StatisticsControl /\ cycle \in PollCycle
    BY <1>4, StatisticsEffect, CycleSteps DEF StatisticsControl, TypeInv
  <2>2. cycle'.step \notin {"samples", "yields"} /\ cycle.step = "statistics"
    BY <2>1, AfterPollType DEF StatisticsControl, TypeInv, Idle
  <2> QED
    BY <2>1, <2>2, YieldsKept DEF StatisticsControl, Right, Owed, Settled
<1>5. CASE WriteIdentity
  <2>1. cycle'.step = "samples" /\ cycle'.dates = {} /\ cycle.step = "identity"
    BY <1>5 DEF WriteIdentity
  <2> QED
    BY <1>5, <2>1, YieldsKept DEF WriteIdentity, Right, Owed, Settled
<1>6. CASE WriteSample
  <2>1. /\ cycle \in SampleCycle /\ cycle.step = "samples"
        /\ cycle' = [cycle EXCEPT !.left = @ \ {Min(cycle.left)},
                       !.dates = @ \union {DayOf(Min(cycle.left))}]
        /\ torn' = torn /\ yields' = yields
    BY <1>6, CycleSteps DEF WriteSample, TypeInv
  <2>2. /\ cycle'.step = "samples" /\ cycle.dates \subseteq cycle'.dates
        /\ cycle'.dates # {} /\ cycle'.at = cycle.at
    BY <2>1 DEF SampleCycle
  <2>3. cycle'.dates = {DayOf(cycle.at)}
    <3>1. TypeInv'
      BY <1>6, SampleTypes
    <3> QED
      BY <2>2, <3>1 DEF TypeInv, CycleInv
  <2> SUFFICES ASSUME NEW d \in 1 .. Days, Right(d)' PROVE Exact(d)'
    BY DEF YieldInv
  <2>4. d # DayOf(cycle.at) /\ Right(d)
    BY <2>1, <2>2, <2>3 DEF Right, Owed, Settled
  <2>5. YieldFrom(samples, d)' = YieldFrom(samples, d)
    BY <1>6, <2>4, YieldElsewhere
  <2> QED
    BY <2>1, <2>4, <2>5 DEF YieldInv, Exact
<1>7. CASE SamplesWritten
  <2>1. /\ cycle \in SampleCycle /\ cycle.step = "samples"
        /\ cycle' = [cycle EXCEPT !.step = "yields",
                       !.left = AffectedDates(cycle.dates, cycle.now)]
        /\ torn' = torn /\ UNCHANGED <<yields, samples, reset>>
    BY <1>7, CycleSteps DEF SamplesWritten, TypeInv
  <2>2. /\ cycle'.step = "yields" /\ cycle'.dates = cycle.dates
        /\ cycle'.now = cycle.now
        /\ cycle'.left = AffectedDates(cycle.dates, cycle.now)
    BY <2>1 DEF SampleCycle
  <2> QED
    BY <2>1, <2>2, YieldsKept DEF Right, Owed, Settled, AffectedDates
<1>8. CASE WriteYield
  BY <1>8, WriteYieldExact
<1>9. CASE WriteArchiveYield
  <2>1. ArchiveControl /\ UNCHANGED <<samples, reset>> /\ torn' = torn
    BY <1>9, ArchiveEffect DEF ArchiveControl
  <2>2. cycle \in MonthCycle /\ cycle.step = "months" /\ DOMAIN yields = 1 .. Days
    BY <2>1, CycleSteps DEF ArchiveControl, TypeInv, TypeOK
  <2>3. cycle'.step \notin {"samples", "yields"}
    BY <2>1, <2>2 DEF ArchiveControl, MonthCycle, Idle
  <2> SUFFICES ASSUME NEW d \in 1 .. Days, Right(d)' PROVE Exact(d)'
    BY DEF YieldInv
  <2>4. Exact(d)
    BY <2>1, <2>2, <2>3 DEF YieldInv, Right, Owed, Settled
  <2>5. CASE yields'[d] = yields[d]
    BY <2>1, <2>4, <2>5, KeptExact
  <2>6. CASE yields'[d] = ArchiveYield(d)
    BY <2>6, ArchiveFields DEF Exact
  <2> QED
    BY <1>9, <2>2, <2>5, <2>6, ArchiveEffect
<1>10. CASE Fail \/ Restart
  <2>1. UNCHANGED <<yields, samples, reset>> /\ torn' = TornBy(cycle)
    BY <1>10 DEF Fail, Restart
  <2>2. cycle'.step \notin {"samples", "yields"}
    <3>1. CASE Fail
      <4>1. CASE cycle.step \in {"poll", "statistics"}
        BY <3>1, <4>1, CycleSteps, AfterPollType DEF Fail, TypeInv, Idle
      <4>2. CASE cycle.step \in {"identity", "samples", "yields"}
        BY <3>1, <4>2, AfterSamplesType DEF Fail, TypeInv, Idle, MonthCycle
      <4>3. CASE cycle.step \notin {"poll", "statistics", "identity", "samples", "yields"}
        BY <3>1, <4>3 DEF Fail, Idle
      <4> QED
        BY <4>1, <4>2, <4>3
    <3>2. CASE Restart
      BY <3>2 DEF Restart, Idle
    <3> QED
      BY <1>10, <3>1, <3>2
  <2>3. ASSUME NEW d \in 1 .. Days, d \notin TornBy(cycle)
        PROVE  d \notin torn /\ ~Owed(d)
    BY <2>3 DEF TornBy, Owed
  <2> QED
    BY <2>1, <2>2, <2>3, YieldsKept DEF Right, Owed, Settled
<1>11. CASE RebuildDate
  <2>1. /\ RebuildControl /\ UNCHANGED <<samples, reset>>
        /\ yields' = [yields EXCEPT ![cli.date] =
                        Recomputed(cli.date, cli.now, "rebuild")]
    BY <1>11, RebuildEffect DEF RebuildControl
  <2>2. DOMAIN yields = 1 .. Days
    BY DEF TypeInv, TypeOK
  <2> SUFFICES ASSUME NEW d \in 1 .. Days, Right(d)' PROVE Exact(d)'
    BY DEF YieldInv
  <2>3. CASE d = cli.date
    <3>1. yields'[d] = Recomputed(d, cli.now, "rebuild")
      BY <2>1, <2>2, <2>3
    <3> QED
      BY <2>1, <3>1, RecomputedIsExact
  <2>4. CASE d # cli.date
    <3>1. yields'[d] = yields[d]
      BY <2>1, <2>2, <2>4
    <3>2. Right(d)
      BY <2>1 DEF RebuildControl, Right, Owed, Settled, AffectedDates
    <3> QED
      BY <2>1, <3>1, <3>2, KeptExact DEF YieldInv
  <2> QED
    BY <2>3, <2>4
<1> QED
  BY <1>1, <1>2, <1>3, <1>4, <1>5, <1>6, <1>7, <1>8, <1>9, <1>10, <1>11
  DEF Next, Service

(* Between exports every stored yield is the one the samples give, but on  *)
(* the days an unfinished write of samples left behind.                    *)
THEOREM YieldsAreExact == Spec => []YieldIsExact
<1>1. Init => YieldInv
  BY DEF Init, YieldInv, Exact, YieldFrom, Within
<1>2. YieldInv => YieldIsExact
  BY NothingOwed DEF YieldInv, YieldIsExact, Exact
<1> QED
  BY <1>1, <1>2, TypesHold, YieldStep, PTL DEF Spec

(* Yesterday's row, once the running write of samples has recomputed it.   *)
FinalRow(d) ==
    yields[d] = NoRow \/ yields[d].complete \/ yields[d].by # "service"

YesterdayInv ==
    cycle.step = "yields" =>
        \A d \in 1 .. Days : d = DayOf(cycle.now) - 1 /\ d \notin cycle.left
                               => FinalRow(d)

LEMMA SettledRow ==
    ASSUME TypeInv, cycle.step = "yields", NEW d \in 1 .. Days,
           d = DayOf(cycle.now) - 1,
           yields'[d] = Recomputed(d, cycle.now, "service")
    PROVE  FinalRow(d)'
<1>1. cycle.now \in Points
  BY CycleSteps, ClockType DEF TypeInv, YieldCycle
<1>2. /\ DayOf(cycle.now) = d + 1 /\ d \in Int
      /\ Start(DayOf(cycle.now)) <= cycle.now
  BY <1>1, PointInDay, Constants
<1>3. cycle.now >= End(d)
  BY <1>1, <1>2, DayBounds, Constants DEF Points
<1> DEFINE late == cycle.now >= End(d)
           row == Recomputed(d, cycle.now, "service")
<1>4. row = NoRow \/ row.complete = late
  BY RecomputedFields
<1>5. late
  BY <1>3
<1> HIDE DEF late, row
<1>6. row = NoRow \/ row.complete
  BY <1>4, <1>5, Zenon
<1> QED
  BY <1>6, Zenon DEF FinalRow, row

LEMMA KeptRow ==
    ASSUME NEW d, FinalRow(d), yields'[d] = yields[d]
    PROVE  FinalRow(d)'
BY Zenon DEF FinalRow

(* The days the last recomputation and the ones before it have settled.    *)
LEMMA WriteYieldFinal ==
    ASSUME TypeInv, YesterdayInv, WriteYield, NEW d \in 1 .. Days,
           d = DayOf(cycle.now) - 1, d \notin cycle.left \ {Min(cycle.left)}
    PROVE  FinalRow(d)'
<1> DEFINE d0 == Min(cycle.left)
<1>1. /\ YieldControl
      /\ yields' = [yields EXCEPT ![d0] = Recomputed(d0, cycle.now, "service")]
  BY YieldEffect
<1>2. cycle.step = "yields" /\ DOMAIN yields = 1 .. Days
  BY <1>1 DEF YieldControl, TypeInv, TypeOK
<1> HIDE DEF d0
<1>3. CASE d = d0
  <2>1. yields'[d] = Recomputed(d, cycle.now, "service")
    BY <1>1, <1>2, <1>3
  <2> QED
    BY <1>2, <2>1, SettledRow
<1>4. CASE d # d0
  <2>1. yields'[d] = yields[d]
    BY <1>1, <1>2, <1>4
  <2>2. FinalRow(d)
    BY <1>2, <1>4 DEF YesterdayInv, d0
  <2> QED
    BY <2>1, <2>2, KeptRow
<1> QED
  BY <1>3, <1>4

LEMMA YesterdayStep == TypeInv /\ YesterdayInv /\ [Next]_vars => YesterdayInv'
<1> SUFFICES ASSUME TypeInv, YesterdayInv, [Next]_vars PROVE YesterdayInv'
  OBVIOUS
<1>1. CASE Tick \/ RebuildBegins \/ UNCHANGED vars
  BY <1>1, KeptRow DEF Tick, RebuildBegins, vars, YesterdayInv
<1>2. CASE ExportBegins \/ WriteIdentity
  BY <1>2 DEF ExportBegins, WriteIdentity, YesterdayInv
<1>3. CASE WritePoll \/ WriteSample
  <2>1. cycle'.step # "yields"
    BY <1>3, CycleSteps DEF WritePoll, WriteSample, TypeInv, PollCycle, SampleCycle
  <2> QED
    BY <2>1 DEF YesterdayInv
<1>4. CASE WriteStatistics
  <2>1. cycle'.step # "yields"
    BY <1>4, StatisticsEffect, CycleSteps, AfterPollType
    DEF StatisticsControl, TypeInv, Idle
  <2> QED
    BY <2>1 DEF YesterdayInv
<1>5. CASE SamplesWritten
  <2>1. cycle \in SampleCycle
    BY <1>5, CycleSteps DEF SamplesWritten, TypeInv
  <2>2. /\ cycle'.now = cycle.now
        /\ cycle'.left = AffectedDates(cycle.dates, cycle.now)
    BY <1>5, <2>1 DEF SamplesWritten, SampleCycle
  <2> QED
    BY <2>2 DEF YesterdayInv, AffectedDates
<1>6. CASE WriteYield
  <2>1. YieldControl /\ cycle \in YieldCycle /\ cycle # Idle
    BY <1>6, YieldEffect, CycleSteps DEF YieldControl, TypeInv, Idle
  <2>2. CASE cycle.left \ {Min(cycle.left)} = {}
    <3>1. cycle'.step # "yields"
      BY <2>1, <2>2, AfterSamplesType DEF YieldControl, TypeInv, Idle, MonthCycle
    <3> QED
      BY <3>1 DEF YesterdayInv
  <2>3. CASE cycle.left \ {Min(cycle.left)} # {}
    <3>1. cycle' = [cycle EXCEPT !.left = @ \ {Min(cycle.left)}]
      BY <2>1, <2>3 DEF YieldControl
    <3>2. cycle'.now = cycle.now /\ cycle'.left = cycle.left \ {Min(cycle.left)}
      BY <2>1, <3>1 DEF YieldCycle
    <3> QED
      BY <1>6, <3>2, WriteYieldFinal DEF YesterdayInv
  <2> QED
    BY <2>2, <2>3
<1>7. CASE WriteArchiveYield
  <2>1. cycle'.step # "yields"
    BY <1>7, ArchiveEffect, CycleSteps DEF ArchiveControl, TypeInv, MonthCycle, Idle
  <2> QED
    BY <2>1 DEF YesterdayInv
<1>8. CASE Fail \/ Restart
  <2>1. cycle'.step # "yields"
    <3>1. CASE Fail /\ cycle.step \in {"poll", "statistics"}
      BY <3>1, CycleSteps, AfterPollType DEF Fail, TypeInv, Idle
    <3>2. CASE Fail /\ cycle.step \in {"identity", "samples", "yields"}
      BY <3>2, AfterSamplesType DEF Fail, TypeInv, Idle, MonthCycle
    <3>3. CASE cycle' = Idle
      BY <3>3 DEF Idle
    <3> QED
      BY <1>8, <3>1, <3>2, <3>3 DEF Fail, Restart
  <2> QED
    BY <2>1 DEF YesterdayInv
<1>9. CASE RebuildDate
  <2>1. /\ cycle' = cycle /\ DOMAIN yields = 1 .. Days
        /\ yields' = [yields EXCEPT ![cli.date] =
                        Recomputed(cli.date, cli.now, "rebuild")]
    BY <1>9, RebuildEffect DEF RebuildControl, TypeInv, TypeOK
  <2> SUFFICES ASSUME cycle.step = "yields", NEW d \in 1 .. Days,
                      d = DayOf(cycle.now) - 1, d \notin cycle.left
               PROVE  FinalRow(d)'
    BY <2>1 DEF YesterdayInv
  <2>2. CASE d = cli.date
    <3>1. yields'[d] = Recomputed(d, cli.now, "rebuild")
      BY <2>1, <2>2
    <3>2. yields'[d] = NoRow \/ yields'[d].by = "rebuild"
      BY <3>1, RecomputedFields
    <3> QED
      BY <3>2 DEF FinalRow
  <2>3. CASE d # cli.date
    BY <2>1, <2>3, KeptRow DEF YesterdayInv
  <2> QED
    BY <2>2, <2>3
<1> QED
  BY <1>1, <1>2, <1>3, <1>4, <1>5, <1>6, <1>7, <1>8, <1>9 DEF Next, Service

LEMMA YesterdayHolds == Spec => []YesterdayInv
<1>1. Init => YesterdayInv
  BY DEF Init, Idle, YesterdayInv
<1> QED
  BY <1>1, TypesHold, YesterdayStep, PTL DEF Spec

(* The step of the cycle that ends a write of samples.                     *)
LEMMA LastYield ==
    ASSUME TypeInv, YesterdayInv, [Next]_vars, cycle.step = "yields",
           cycle'.step # "yields", used' = used,
           NEW d, d = DayOf(cycle.now) - 1, d >= 1
    PROVE  FinalRow(d)'
<1>1. cycle \in YieldCycle /\ cycle # Idle
  BY CycleSteps DEF TypeInv, Idle
<1>2. d \in 1 .. Days
  BY <1>1, ClockType, PointInDay, Constants DEF TypeInv, YieldCycle
<1>3. CASE WriteYield
  <2>1. cycle.left \ {Min(cycle.left)} = {}
    <3> SUFFICES ASSUME cycle.left \ {Min(cycle.left)} # {} PROVE FALSE
      OBVIOUS
    <3>1. cycle' = [cycle EXCEPT !.left = @ \ {Min(cycle.left)}]
      BY <1>3, YieldEffect DEF YieldControl
    <3> QED
      BY <1>1, <3>1 DEF YieldCycle
  <2> QED
    BY <1>2, <1>3, <2>1, WriteYieldFinal
<1>4. CASE Fail \/ Restart
  <2>1. used' = [used EXCEPT !.failures = @ + 1] /\ used \in UsedType
    BY <1>4 DEF Fail, Restart, TypeInv, TypeOK, UsedType
  <2>2. used.failures \in Int
    BY <2>1, Constants DEF UsedType
  <2>3. used.failures = used.failures + 1
    BY <2>1 DEF UsedType
  <2> QED
    BY <2>2, <2>3
<1>5. CASE \/ Tick \/ RebuildBegins \/ RebuildDate \/ UNCHANGED vars
  <2>1. CASE RebuildDate
    BY <2>1, RebuildEffect DEF RebuildControl
  <2>2. CASE Tick \/ RebuildBegins \/ UNCHANGED vars
    BY <2>2 DEF Tick, RebuildBegins, vars
  <2> QED
    BY <1>5, <2>1, <2>2
<1>6. CASE \/ ExportBegins \/ WritePoll \/ WriteStatistics \/ WriteIdentity
           \/ WriteSample \/ SamplesWritten \/ WriteArchiveYield
  BY <1>1, <1>6, StatisticsEffect, ArchiveEffect
  DEF ExportBegins, WritePoll, WriteIdentity, WriteSample, SamplesWritten,
      StatisticsControl, ArchiveControl
<1> QED
  BY <1>3, <1>4, <1>5, <1>6 DEF Next, Service

(* The write of samples that is the first to finish after midnight leaves  *)
(* yesterday complete, whatever else was written meanwhile.                *)
THEOREM YesterdayIsSettled == Spec => YesterdayIsFinal
<1>1. TypeInv /\ YesterdayInv /\ [Next]_vars =>
        [cycle.step = "yields" /\ cycle'.step # "yields" /\ used' = used =>
           LET d == DayOf(cycle.now) - 1
           IN  d >= 1 => \/ yields'[d] = NoRow
                         \/ yields'[d].complete
                         \/ yields'[d].by # "service"]_vars
  <2> SUFFICES ASSUME TypeInv, YesterdayInv, [Next]_vars, cycle.step = "yields",
                      cycle'.step # "yields", used' = used,
                      NEW d, d = DayOf(cycle.now) - 1, d >= 1
               PROVE  \/ yields'[d] = NoRow
                      \/ yields'[d].complete
                      \/ yields'[d].by # "service"
    BY Zenon
  <2>1. FinalRow(d)'
    BY LastYield
  <2> QED
    BY <2>1, Zenon DEF FinalRow
<1> QED
  BY <1>1, TypesHold, YesterdayHolds, PTL DEF Spec, YesterdayIsFinal

-----------------------------------------------------------------------------
(* Statistics.                                                             *)

(* Statistics describe measurements that are still there, as they still    *)
(* are, though others may have come.                                       *)
StatsInv ==
    \A d \in 1 .. Days \ altered :
        stats[d] # NoRow =>
            \E P \in SUBSET Measured(d), every \in Intervals :
                stats[d].of = StatisticsOf(P, d, every)

(* Statistics depend on nothing but the measurements they are made from.   *)
LEMMA SameStatistics ==
    ASSUME NEW P, \A p \in P : meas'[p] = meas[p], NEW d, NEW every
    PROVE  StatisticsOf(P, d, every)' = StatisticsOf(P, d, every)
<1> DEFINE len(p) == Following(P, p, End(d)) - p
           old == {p \in P : len(p) <= 2 * every /\ meas[p] # NoPower}
           new == {p \in P : len(p) <= 2 * every /\ meas'[p] # NoPower}
<1>1. old = new
  OBVIOUS
<1>2. [p \in new |-> meas'[p] * len(p)] = [p \in old |-> meas[p] * len(p)]
  OBVIOUS
<1>3. [p \in new |-> len(p)] = [p \in old |-> len(p)]
  BY <1>1
<1>4. WeightedMean(P, d, every) =
        <<SumFunction([p \in old |-> meas[p] * len(p)]),
          SumFunction([p \in old |-> len(p)])>>
  BY DEF WeightedMean
<1>5. WeightedMean(P, d, every)' =
        <<SumFunction([p \in new |-> meas'[p] * len(p)]),
          SumFunction([p \in new |-> len(p)])>>
  BY DEF WeightedMean, Following, End
<1> HIDE DEF len, old, new
<1>6. WeightedMean(P, d, every)' = WeightedMean(P, d, every)
  BY <1>2, <1>3, <1>4, <1>5
<1>7. {meas'[p] : p \in P} \ {NoPower} = {meas[p] : p \in P} \ {NoPower}
  OBVIOUS
<1> QED
  BY <1>6, <1>7, Zenon DEF StatisticsOf, ExpectedCount

LEMMA StatisticsRow ==
    ASSUME TypeInv, WriteStatistics, NEW d \in 1 .. Days
    PROVE  /\ d # DayOf(cycle.at) => stats'[d] = stats[d]
           /\ d = DayOf(cycle.at)
                => stats'[d].of = CalculateDailyStatistics(d, interval)
<1>1. DOMAIN stats = 1 .. Days
  BY DEF TypeInv, TypeOK
<1> DEFINE D == DayOf(cycle.at)
           row == [row |-> TRUE, of |-> CalculateDailyStatistics(D, interval),
                   complete |-> FullyMeasured(D, interval, clock)]
<1>2. stats' = [stats EXCEPT ![D] = row]
  BY Zenon DEF WriteStatistics
<1>3. row.of = CalculateDailyStatistics(D, interval)
  BY Zenon
<1> HIDE DEF row, D
<1>4. d # D => stats'[d] = stats[d]
  BY <1>1, <1>2, Zenon
<1>5. d = D => stats'[d] = row
  BY <1>1, <1>2, Zenon
<1>6. d = D => stats'[d].of = CalculateDailyStatistics(D, interval)
  BY <1>3, <1>5, Zenon
<1> QED
  BY <1>4, <1>6 DEF D

LEMMA StatsKept ==
    ASSUME StatsInv, UNCHANGED <<stats, meas, altered>>
    PROVE  StatsInv'
<1> SUFFICES ASSUME NEW d \in 1 .. Days \ altered, stats[d] # NoRow
             PROVE  (\E P \in SUBSET Measured(d), every \in Intervals :
                        stats[d].of = StatisticsOf(P, d, every))'
  BY DEF StatsInv
<1>1. PICK P \in SUBSET Measured(d), every \in Intervals :
          stats[d].of = StatisticsOf(P, d, every)
  BY DEF StatsInv
<1>2. StatisticsOf(P, d, every)' = StatisticsOf(P, d, every)
  BY SameStatistics
<1>3. Measured(d)' = Measured(d)
  BY DEF Measured, Start, End
<1> QED
  BY <1>1, <1>2, <1>3

LEMMA StatsStep == TypeInv /\ StatsInv /\ [Next]_vars => StatsInv'
<1> SUFFICES ASSUME TypeInv, StatsInv, [Next]_vars PROVE StatsInv'
  OBVIOUS
<1>1. CASE WritePoll
  <2> DEFINE p == cycle.at
             m == Coalesce(cycle.power, meas[p])
  <2>1. /\ meas' = [meas EXCEPT ![p] = m] /\ stats' = stats
        /\ altered' = IF meas[p] \notin {NotMeasured, m}
                      THEN altered \union {DayOf(p)} ELSE altered
    BY <1>1 DEF WritePoll
  <2>2. p \in Points /\ DOMAIN meas = Points
    BY <1>1, CycleSteps DEF WritePoll, TypeInv, TypeOK, Idle
  <2> HIDE DEF m
  <2> SUFFICES ASSUME NEW d \in 1 .. Days \ altered', stats[d] # NoRow
               PROVE  (\E P \in SUBSET Measured(d), every \in Intervals :
                          stats[d].of = StatisticsOf(P, d, every))'
    BY <2>1 DEF StatsInv
  <2>3. d \in 1 .. Days \ altered
    BY <2>1
  <2>4. PICK P \in SUBSET Measured(d), every \in Intervals :
            stats[d].of = StatisticsOf(P, d, every)
    BY <2>3 DEF StatsInv
  <2>5. ASSUME NEW q \in P PROVE meas'[q] = meas[q]
    <3>1. CASE q # p
      BY <2>1, <3>1
    <3>2. CASE q = p
      <4>1. meas[p] # NotMeasured /\ Start(d) <= p /\ p < End(d)
        BY <2>4, <3>2, DayBounds, Constants DEF Measured
      <4>2. DayOf(p) = d
        BY <2>2, <4>1, DayOfPoint
      <4>3. meas[p] = m
        BY <2>1, <4>1, <4>2
      <4> QED
        BY <2>1, <2>2, <3>2, <4>3
    <3> QED
      BY <3>1, <3>2
  <2>6. StatisticsOf(P, d, every)' = StatisticsOf(P, d, every)
    BY <2>5, SameStatistics
  <2>7. P \subseteq Measured(d)'
    BY <2>4, <2>5 DEF Measured, Start, End
  <2> QED
    BY <2>1, <2>4, <2>6, <2>7
<1>2. CASE WriteStatistics
  <2>1. /\ StatisticsControl /\ meas' = meas /\ interval \in Intervals
        /\ altered' = altered \ {DayOf(cycle.at)}
    BY <1>2, StatisticsEffect DEF StatisticsControl, TypeInv, TypeOK
  <2>2. \A d \in 1 .. Days : Measured(d)' = Measured(d)
    BY <2>1 DEF Measured, Start, End
  <2> SUFFICES ASSUME NEW d \in 1 .. Days \ altered', stats'[d] # NoRow
               PROVE  (\E P \in SUBSET Measured(d), every \in Intervals :
                          stats[d].of = StatisticsOf(P, d, every))'
    BY DEF StatsInv
  <2>3. CASE d # DayOf(cycle.at)
    <3>1. stats'[d] = stats[d] /\ d \in 1 .. Days \ altered
      BY <1>2, <2>1, <2>3, StatisticsRow
    <3>2. PICK P \in SUBSET Measured(d), every \in Intervals :
              stats[d].of = StatisticsOf(P, d, every)
      BY <3>1 DEF StatsInv
    <3>3. StatisticsOf(P, d, every)' = StatisticsOf(P, d, every)
      BY <2>1, SameStatistics
    <3> QED
      BY <2>2, <3>1, <3>2, <3>3
  <2>4. CASE d = DayOf(cycle.at)
    <3> DEFINE P == Measured(d)
               every == interval
    <3>1. stats'[d].of = StatisticsOf(P, d, every)
      BY <1>2, <2>4, StatisticsRow DEF CalculateDailyStatistics
    <3>2. PICK Q : Q = P
      OBVIOUS
    <3>3. PICK e \in Intervals : e = every
      BY <2>1
    <3>4. StatisticsOf(Q, d, e)' = StatisticsOf(Q, d, e)
      BY <2>1, SameStatistics
    <3> QED
      BY <2>2, <3>1, <3>2, <3>3, <3>4
  <2> QED
    BY <2>3, <2>4
<1>3. CASE \/ Tick \/ ExportBegins \/ RebuildBegins \/ WriteIdentity
           \/ WriteSample \/ SamplesWritten \/ Fail \/ Restart
           \/ UNCHANGED vars
  BY <1>3, StatsKept
  DEF Tick, ExportBegins, RebuildBegins, WriteIdentity, WriteSample,
      SamplesWritten, Fail, Restart, vars
<1>4. CASE WriteYield \/ WriteArchiveYield \/ RebuildDate
  BY <1>4, StatsKept, YieldEffect, ArchiveEffect, RebuildEffect
  DEF YieldControl, ArchiveControl, RebuildControl
<1> QED
  BY <1>1, <1>2, <1>3, <1>4 DEF Next, Service

LEMMA SameSize ==
    ASSUME NEW S, IsFiniteSet(S), NEW T, T \subseteq S,
           Cardinality(S) = Cardinality(T)
    PROVE  T = S
BY FS_Subset

(* What the calculation counts and expects, whatever its other fields say. *)
LEMMA CountAndExpected ==
    ASSUME NEW P, NEW d, NEW every
    PROVE  /\ StatisticsOf(P, d, every).count = Cardinality(P)
           /\ StatisticsOf(P, d, every).expected = ExpectedCount(every)
<1> DEFINE W == {meas[p] : p \in P} \ {NoPower}
           first == IF P = {} THEN 0 ELSE Min(P)
           last == IF P = {} THEN 0 ELSE Max(P)
           peak == IF W = {} THEN NoPower ELSE Max(W)
           mean == WeightedMean(P, d, every)
           expected == ExpectedCount(every)
<1>1. StatisticsOf(P, d, every) =
         [count |-> Cardinality(P), expected |-> expected, first |-> first,
          last |-> last, peak |-> peak, mean |-> mean]
  BY Zenon DEF StatisticsOf
<1> HIDE DEF first, last, peak, mean, expected
<1>2. /\ StatisticsOf(P, d, every).count = Cardinality(P)
      /\ StatisticsOf(P, d, every).expected = expected
  BY <1>1
<1> QED
  BY <1>2 DEF expected

(* A count that is right leaves no room for other measurements: cached     *)
(* statistics that are not noticed as stale are those of the measurements  *)
(* stored now, for an interval that expects as many.                       *)
LEMMA NoticedByCount ==
    ASSUME TypeInv, StatsInv PROVE StaleIsNoticed
<1> SUFFICES ASSUME NEW d \in 1 .. Days \ altered, stats[d] # NoRow, ~IsStale(d)
             PROVE  \E every \in Intervals :
                       /\ ExpectedCount(every) = ExpectedCount(interval)
                       /\ stats[d].of = CalculateDailyStatistics(d, every)
  BY DEF StaleIsNoticed
<1>1. PICK P \in SUBSET Measured(d), every \in Intervals :
          stats[d].of = StatisticsOf(P, d, every)
  BY DEF StatsInv
<1>2. /\ stats[d].of.count = Cardinality(P)
      /\ stats[d].of.expected = ExpectedCount(every)
  BY <1>1, CountAndExpected, Zenon
<1>3. /\ stats[d].of.count = Cardinality(Measured(d))
      /\ stats[d].of.expected = ExpectedCount(interval)
  BY DEF IsStale
<1>4. IsFiniteSet(Measured(d))
  <2>1. Start(d) \in Int /\ End(d) - 1 \in Int
    BY DayBounds, Constants
  <2>2. IsFiniteSet(Start(d) .. End(d) - 1)
    BY <2>1, FS_Interval
  <2> QED
    BY <2>2, FS_Subset DEF Measured
<1>5. Cardinality(Measured(d)) = Cardinality(P)
  BY <1>2, <1>3
<1>6. P = Measured(d)
  BY <1>1, <1>4, <1>5, SameSize
<1> QED
  BY <1>1, <1>2, <1>3, <1>6 DEF CalculateDailyStatistics

(* Cached statistics that no longer fit the stored measurements are        *)
(* reported stale, unless a measurement was changed in place.              *)
THEOREM StaleStatisticsAreNoticed == Spec => []StaleIsNoticed
<1>1. Init => StatsInv
  BY DEF Init, StatsInv
<1> QED
  BY <1>1, NoticedByCount, TypesHold, StatsStep, PTL DEF Spec

-----------------------------------------------------------------------------
(* The opening of the database.                                            *)

(* A process that has read the clock for its lock row noted it.            *)
NotedInv ==
    \A p \in Processes :
        pc[p] = "insert" => noted[p] \in 0 .. MaxClock

(* Where the lock is held, by engine.  In SQLite this is so until a holder *)
(* is taken for dead; PostgreSQL keeps the lock while the session lives.   *)
LockInv ==
    \A p \in Processes :
        /\ pc[p] \in {"wait", "insert", "release"} => engine = "sqlite"
        /\ engine = "postgres" /\ pc[p] = "apply" => lock.by = p
        /\ engine = "sqlite" /\ pc[p] \in Holding => lock.by = p \/ stalled

(* The list a process read is still right while it holds the lock, and     *)
(* never runs ahead of the database.                                       *)
ListInv ==
    \A p \in Processes :
        pc[p] = "apply" => /\ noted[p] <= applied /\ applied <= Migrations
                           /\ noted[p] = applied \/ stalled

(* Whoever got past a check found what it checks, and it stays so.         *)
Whole == ~foreign /\ version /\ applied = Migrations

PassedInv ==
    \A p \in Processes :
        /\ pc[p] \in {"list", "apply"} => ~foreign
        /\ pc[p] = "release" /\ result[p] = "ok" => Whole
        /\ pc[p] = "zone" => Whole
        /\ pc[p] \in {"diagnostics", "drop", "unstamp", "create", "stamp",
                      "ready"} => Whole /\ zone = conf[p].zone

SchemaInv ==
    /\ SchemaTypeOK /\ NotedInv /\ LockInv /\ ListInv /\ PassedInv /\ NoCollision

-----------------------------------------------------------------------------
(* The invariant holds at first, whatever the database contains.           *)
LEMMA InitEstablishes == SchemaInit => SchemaInv
<1> SUFFICES ASSUME SchemaInit PROVE SchemaInv
  OBVIOUS
<1> USE SchemaAssumption DEF SchemaInit
<1>1. applied \in Nat /\ foreign \in BOOLEAN /\ version \in BOOLEAN
      /\ text \in BOOLEAN /\ zone \in Zones \cup {None}
  <2> PICK content \in Contents :
        /\ foreign = (content = "foreign")
        /\ applied = Found(content)
        /\ version = (content \in {"older", "current", "ahead", "nul"})
        /\ text = (content # "nul")
        /\ zone \in IF content \in {"older", "current"} THEN Zones \cup {None}
                    ELSE {None}
    OBVIOUS
  <2>1. Found(content) \in Nat
    BY DEF Found, Migrations
  <2> QED
    BY <2>1
<1>2. (CHOOSE z \in Zones : TRUE) \in Zones
  OBVIOUS
<1>3. SchemaTypeOK
  <2>1. conf \in [Processes -> [zone : Zones, build : Builds \cup {None}]]
    BY <1>2
  <2>2. tries \in [Processes -> 0 .. Tries]
    BY DEF None
  <2>3. pc \in [Processes -> {"off", "failed", "ready", "wait", "zone",
                             "diagnostics", "drop", "unstamp", "create",
                             "stamp", "insert"} \cup Holding]
    OBVIOUS
  <2>4. lock.by \in Processes \cup {None} /\ lock.at \in 0 .. MaxClock
    BY DEF NoLock
  <2>5. hostClock \in 0 .. MaxClock /\ engine \in Engines
    OBVIOUS
  <2>6. tables \in Builds \cup {None} /\ stamp \in Builds \cup {None}
    OBVIOUS
  <2>7. /\ result \in [Processes -> {None, "ok", "refused", "collision"}]
        /\ stalled \in BOOLEAN
    OBVIOUS
  <2>8. noted \in [Processes -> Nat]
    OBVIOUS
  <2> HIDE DEF SchemaInit
  <2> QED
    BY <1>1, <2>1, <2>2, <2>3, <2>4, <2>5, <2>6, <2>7, <2>8
       DEF SchemaTypeOK
<1>4. NotedInv /\ LockInv /\ ListInv /\ PassedInv /\ NoCollision
  BY DEF NotedInv, LockInv, ListInv, PassedInv, NoCollision, Holding, None
<1> QED
  BY <1>3, <1>4 DEF SchemaInv

-----------------------------------------------------------------------------
(* Every step keeps the invariant, one action at a time.                   *)

(* The clock alone moves: ages grow, nobody reads them.                    *)
LEMMA ClockTicksPreserves ==
    ASSUME SchemaInv, ClockTicks PROVE SchemaInv'
<1> USE SchemaAssumption DEF SchemaInv, ClockTicks, store, count, None, Holding,
      Migrations
<1>1. SchemaTypeOK'
  BY DEF SchemaTypeOK, NotedInv, PassedInv
<1>2. NotedInv'
  BY DEF NotedInv, SchemaTypeOK
<1>3. LockInv'
  BY DEF LockInv, SchemaTypeOK
<1>4. ListInv'
  BY DEF ListInv, SchemaTypeOK, LockInv, NotedInv
<1>5. PassedInv'
  BY DEF PassedInv, SchemaTypeOK, NotedInv, ListInv, Whole
<1>6. NoCollision'
  BY DEF NoCollision, SchemaTypeOK, LockInv, ListInv
<1> QED
  BY <1>1, <1>2, <1>3, <1>4, <1>5, <1>6

(* A process that starts holds nothing.                                    *)
LEMMA OpenPreserves ==
    ASSUME NEW p \in Processes, SchemaInv, Open(p) PROVE SchemaInv'
<1> USE SchemaAssumption DEF SchemaInv, Open, Goto, store, count, None,
      Holding, Migrations
<1>1. SchemaTypeOK'
  BY DEF SchemaTypeOK, NotedInv, PassedInv
<1>2. NotedInv'
  BY DEF NotedInv, SchemaTypeOK
<1>3. LockInv'
  BY DEF LockInv, SchemaTypeOK
<1>4. ListInv'
  BY DEF ListInv, SchemaTypeOK, LockInv, NotedInv
<1>5. PassedInv'
  BY DEF PassedInv, SchemaTypeOK, NotedInv, ListInv, Whole
<1>6. NoCollision'
  BY DEF NoCollision, SchemaTypeOK, LockInv, ListInv
<1> QED
  BY <1>1, <1>2, <1>3, <1>4, <1>5, <1>6

(* A crash leaves SQLite's row, and ends the session of PostgreSQL.        *)
LEMMA CrashPreserves ==
    ASSUME NEW p \in Processes, SchemaInv, Crash(p) PROVE SchemaInv'
<1> USE SchemaAssumption DEF SchemaInv, Crash, Goto, NoLock, store, count,
      None, Holding, Migrations
<1>1. SchemaTypeOK'
  BY DEF SchemaTypeOK, NotedInv, PassedInv
<1>2. NotedInv'
  BY DEF NotedInv, SchemaTypeOK
<1>3. LockInv'
  BY DEF LockInv, SchemaTypeOK
<1>4. ListInv'
  BY DEF ListInv, SchemaTypeOK, LockInv, NotedInv
<1>5. PassedInv'
  BY DEF PassedInv, SchemaTypeOK, NotedInv, ListInv, Whole
<1>6. NoCollision'
  BY DEF NoCollision, SchemaTypeOK, LockInv, ListInv
<1> QED
  BY <1>1, <1>2, <1>3, <1>4, <1>5, <1>6

(* Who deletes a living holder's row has let it outlive its lock.          *)
LEMMA DeleteExpiredPreserves ==
    ASSUME NEW p \in Processes, SchemaInv, DeleteExpired(p) PROVE SchemaInv'
<1> USE SchemaAssumption DEF SchemaInv, DeleteExpired, Goto, NoLock, Expired,
      Outlived, store, count, None, Holding, Migrations
<1>1. SchemaTypeOK'
  <2>1. hostClock \in Nat /\ noted' \in [Processes -> Nat]
    BY DEF SchemaTypeOK
  <2>2. lock'.by \in Processes \cup {"none"} /\ lock'.at \in 0 .. MaxClock
    BY DEF SchemaTypeOK
  <2>3. tries' \in [Processes -> 0 .. Tries]
    BY DEF SchemaTypeOK
  <2>4. stalled' \in BOOLEAN
    BY DEF SchemaTypeOK
  <2>5. pc' \in [Processes -> {"off", "failed", "ready", "wait", "zone",
                              "diagnostics", "drop", "unstamp", "create",
                              "stamp", "insert"} \cup Holding]
    BY SMTT(30) DEF SchemaTypeOK
  <2> QED
    BY <2>1, <2>2, <2>3, <2>4, <2>5 DEF SchemaTypeOK
<1>2. NotedInv'
  BY DEF NotedInv, SchemaTypeOK
<1>3. LockInv'
  <2> SUFFICES ASSUME NEW q \in Processes
               PROVE  /\ pc'[q] \in {"wait", "insert", "release"}
                             => engine' = "sqlite"
                      /\ engine' = "postgres" /\ pc'[q] = "apply"
                             => lock'.by = q
                      /\ engine' = "sqlite" /\ pc'[q] \in Holding
                             => lock'.by = q \/ stalled'
    BY DEF LockInv
  <2>1. engine' = engine /\ engine = "sqlite"
    BY DEF LockInv
  <2>2. pc'[q] \in Holding => pc[q] \in Holding
    BY DEF SchemaTypeOK
  <2>3. lock' = lock \/ stalled' \/ lock.by # q \/ pc[q] \notin Holding
    BY DEF SchemaTypeOK
  <2>4. stalled => stalled'
    OBVIOUS
  <2> QED BY <2>1, <2>2, <2>3, <2>4 DEF LockInv
<1>4. ListInv'
  BY DEF ListInv, SchemaTypeOK, LockInv, NotedInv
<1>5. PassedInv'
  BY DEF PassedInv, SchemaTypeOK, NotedInv, ListInv, Whole
<1>6. NoCollision'
  BY DEF NoCollision, SchemaTypeOK, LockInv, ListInv
<1> QED
  BY <1>1, <1>2, <1>3, <1>4, <1>5, <1>6

(* The row is inserted only where none is.                                 *)
LEMMA InsertLockPreserves ==
    ASSUME NEW p \in Processes, SchemaInv, InsertLock(p) PROVE SchemaInv'
<1> USE SchemaAssumption DEF SchemaInv, InsertLock, Goto, NoLock, store,
      count, None, Holding, Migrations
<1>1. SchemaTypeOK'
  BY DEF SchemaTypeOK, NotedInv, PassedInv
<1>2. NotedInv'
  BY DEF NotedInv, SchemaTypeOK
<1>3. LockInv'
  BY DEF LockInv, SchemaTypeOK
<1>4. ListInv'
  BY DEF ListInv, SchemaTypeOK, LockInv, NotedInv
<1>5. PassedInv'
  BY DEF PassedInv, SchemaTypeOK, NotedInv, ListInv, Whole
<1>6. NoCollision'
  BY DEF NoCollision, SchemaTypeOK, LockInv, ListInv
<1> QED
  BY <1>1, <1>2, <1>3, <1>4, <1>5, <1>6

(* A database that is refused is not read further.                         *)
LEMMA ClassifyPreserves ==
    ASSUME NEW p \in Processes, SchemaInv, Classify(p) PROVE SchemaInv'
<1> USE SchemaAssumption DEF SchemaInv, Classify, Goto, Classified,
      Concluded, store, count, None, Holding, Migrations
<1>1. SchemaTypeOK'
  BY DEF SchemaTypeOK, NotedInv, PassedInv
<1>2. NotedInv'
  BY DEF NotedInv, SchemaTypeOK
<1>3. LockInv'
  BY DEF LockInv, SchemaTypeOK
<1>4. ListInv'
  BY DEF ListInv, SchemaTypeOK, LockInv, NotedInv
<1>5. PassedInv'
  BY DEF PassedInv, SchemaTypeOK, NotedInv, ListInv, Whole
<1>6. NoCollision'
  BY DEF NoCollision, SchemaTypeOK, LockInv, ListInv
<1> QED
  BY <1>1, <1>2, <1>3, <1>4, <1>5, <1>6

(* The list is read under the lock, so it is right.                        *)
LEMMA ListPreserves ==
    ASSUME NEW p \in Processes, SchemaInv, List(p) PROVE SchemaInv'
<1> USE SchemaAssumption DEF SchemaInv, List, Goto, Concluded, NoLock, store,
      count, None, Holding, Migrations
<1>1. SchemaTypeOK'
  <2>1. applied' \in Nat /\ noted' \in [Processes -> Nat]
    BY DEF SchemaTypeOK
  <2>2. lock'.by \in Processes \cup {"none"} /\ lock'.at \in 0 .. MaxClock
    BY DEF SchemaTypeOK
  <2>3. result' \in [Processes -> {"none", "ok", "refused", "collision"}]
    BY DEF SchemaTypeOK
  <2>4. version' \in BOOLEAN
    BY DEF SchemaTypeOK
  <2>5. pc' \in [Processes -> {"off", "failed", "ready", "wait", "zone",
                              "diagnostics", "drop", "unstamp", "create",
                              "stamp", "insert"} \cup Holding]
    BY DEF SchemaTypeOK
  <2> QED
    BY <2>1, <2>2, <2>3, <2>4, <2>5 DEF SchemaTypeOK
<1>2. NotedInv'
  BY DEF NotedInv, SchemaTypeOK
<1>3. LockInv'
  BY DEF LockInv, SchemaTypeOK
<1>4. ListInv'
  BY DEF ListInv, SchemaTypeOK, LockInv, NotedInv
<1>5. PassedInv'
  BY DEF PassedInv, SchemaTypeOK, NotedInv, ListInv, Whole
<1>6. NoCollision'
  BY DEF NoCollision, SchemaTypeOK, LockInv, ListInv
<1> QED
  BY <1>1, <1>2, <1>3, <1>4, <1>5, <1>6

(* A migration is applied by the list, which follows it.                   *)
LEMMA ApplyNextPreserves ==
    ASSUME NEW p \in Processes, SchemaInv, ApplyNext(p) PROVE SchemaInv'
<1> USE SchemaAssumption DEF SchemaInv, ApplyNext, Goto, Concluded, store,
      count, None, Holding, Migrations
<1>1. SchemaTypeOK'
  <2>1. applied' \in Nat /\ noted' \in [Processes -> Nat]
    BY DEF SchemaTypeOK
  <2>2. lock'.by \in Processes \cup {"none"} /\ lock'.at \in 0 .. MaxClock
    BY DEF SchemaTypeOK
  <2>3. result' \in [Processes -> {"none", "ok", "refused", "collision"}]
    BY DEF SchemaTypeOK
  <2>4. version' \in BOOLEAN
    BY DEF SchemaTypeOK
  <2>5. pc' \in [Processes -> {"off", "failed", "ready", "wait", "zone",
                              "diagnostics", "drop", "unstamp", "create",
                              "stamp", "insert"} \cup Holding]
    BY DEF SchemaTypeOK
  <2> QED
    BY <2>1, <2>2, <2>3, <2>4, <2>5 DEF SchemaTypeOK
<1>2. NotedInv'
  BY DEF NotedInv, SchemaTypeOK
<1>3. LockInv'
  BY DEF LockInv, SchemaTypeOK
<1>4. ListInv'
  BY DEF ListInv, SchemaTypeOK, LockInv, NotedInv
<1>5. PassedInv'
  BY DEF PassedInv, SchemaTypeOK, NotedInv, ListInv, Whole
<1>6. NoCollision'
  BY DEF NoCollision, SchemaTypeOK, LockInv, ListInv
<1> QED
  BY <1>1, <1>2, <1>3, <1>4, <1>5, <1>6

(* Whoever comes to the checks with a whole list has the whole schema.     *)
LEMMA VerifyPreserves ==
    ASSUME NEW p \in Processes, SchemaInv, Verify(p) PROVE SchemaInv'
<1> USE SchemaAssumption DEF SchemaInv, Verify, Goto, Concluded, NoLock,
      store, count, None, Holding, Migrations
<1>1. SchemaTypeOK'
  <2>1. applied' \in Nat /\ noted' \in [Processes -> Nat]
    BY DEF SchemaTypeOK
  <2>2. lock'.by \in Processes \cup {"none"} /\ lock'.at \in 0 .. MaxClock
    BY DEF SchemaTypeOK
  <2>3. result' \in [Processes -> {"none", "ok", "refused", "collision"}]
    BY DEF SchemaTypeOK
  <2>4. version' \in BOOLEAN
    BY DEF SchemaTypeOK
  <2>5. pc' \in [Processes -> {"off", "failed", "ready", "wait", "zone",
                              "diagnostics", "drop", "unstamp", "create",
                              "stamp", "insert"} \cup Holding]
    BY DEF SchemaTypeOK
  <2> QED
    BY <2>1, <2>2, <2>3, <2>4, <2>5 DEF SchemaTypeOK
<1>2. NotedInv'
  BY DEF NotedInv, SchemaTypeOK
<1>3. LockInv'
  BY DEF LockInv, SchemaTypeOK
<1>4. ListInv'
  BY DEF ListInv, SchemaTypeOK, LockInv, NotedInv
<1>5. PassedInv'
  BY DEF PassedInv, SchemaTypeOK, NotedInv, ListInv, Whole
<1>6. NoCollision'
  BY DEF NoCollision, SchemaTypeOK, LockInv, ListInv
<1> QED
  BY <1>1, <1>2, <1>3, <1>4, <1>5, <1>6

(* Only a process of SQLite releases.                                      *)
LEMMA ReleasePreserves ==
    ASSUME NEW p \in Processes, SchemaInv, Release(p) PROVE SchemaInv'
<1> USE SchemaAssumption DEF SchemaInv, Release, Goto, NoLock, store, count,
      None, Holding, Migrations
<1>1. SchemaTypeOK'
  BY DEF SchemaTypeOK, NotedInv, PassedInv
<1>2. NotedInv'
  BY DEF NotedInv, SchemaTypeOK
<1>3. LockInv'
  BY DEF LockInv, SchemaTypeOK
<1>4. ListInv'
  BY DEF ListInv, SchemaTypeOK, LockInv, NotedInv
<1>5. PassedInv'
  BY DEF PassedInv, SchemaTypeOK, NotedInv, ListInv, Whole
<1>6. NoCollision'
  BY DEF NoCollision, SchemaTypeOK, LockInv, ListInv
<1> QED
  BY <1>1, <1>2, <1>3, <1>4, <1>5, <1>6

(* The zone of those that run was kept before, and is not changed.         *)
LEMMA RememberTimezonePreserves ==
    ASSUME NEW p \in Processes, SchemaInv, RememberTimezone(p) PROVE SchemaInv'
<1> USE SchemaAssumption DEF SchemaInv, RememberTimezone, Goto, store, count,
      None, Holding, Migrations
<1>1. SchemaTypeOK'
  BY DEF SchemaTypeOK, NotedInv, PassedInv
<1>2. NotedInv'
  BY DEF NotedInv, SchemaTypeOK
<1>3. LockInv'
  BY DEF LockInv, SchemaTypeOK
<1>4. ListInv'
  BY DEF ListInv, SchemaTypeOK, LockInv, NotedInv
<1>5. PassedInv'
  <2>1. \A q \in Processes : conf[q].zone \in Zones /\ conf[q].zone # "none"
    BY DEF SchemaTypeOK
  <2>2. Whole /\ Whole'
    BY DEF PassedInv, Whole
  <2>3. ASSUME NEW q \in Processes,
               pc[q] \in {"diagnostics", "drop", "unstamp", "create", "stamp",
                         "ready"}
        PROVE  zone' = conf'[q].zone
    BY <2>1, <2>3 DEF PassedInv
  <2>4. pc'[p] # "failed" => zone' = conf'[p].zone
    BY DEF SchemaTypeOK
  <2>5. pc'[p] \in {"failed", "ready", "diagnostics"}
    BY DEF SchemaTypeOK
  <2>6. ASSUME NEW q \in Processes, q # p PROVE pc'[q] = pc[q]
    BY <2>6 DEF SchemaTypeOK
  <2> HIDE DEF RememberTimezone
  <2> QED
    BY <2>2, <2>3, <2>4, <2>5, <2>6 DEF PassedInv, Whole
<1>6. NoCollision'
  BY DEF NoCollision, SchemaTypeOK, LockInv, ListInv
<1> QED
  BY <1>1, <1>2, <1>3, <1>4, <1>5, <1>6

(* Nothing changes but the place.                                          *)
LEMMA ReadStampPreserves ==
    ASSUME NEW p \in Processes, SchemaInv, ReadStamp(p) PROVE SchemaInv'
<1> USE SchemaAssumption DEF SchemaInv, ReadStamp, Goto, store, count, None,
      Holding, Migrations
<1>1. SchemaTypeOK'
  BY DEF SchemaTypeOK, NotedInv, PassedInv
<1>2. NotedInv'
  BY DEF NotedInv, SchemaTypeOK
<1>3. LockInv'
  BY DEF LockInv, SchemaTypeOK
<1>4. ListInv'
  BY DEF ListInv, SchemaTypeOK, LockInv, NotedInv
<1>5. PassedInv'
  BY DEF PassedInv, SchemaTypeOK, NotedInv, ListInv, Whole
<1>6. NoCollision'
  BY DEF NoCollision, SchemaTypeOK, LockInv, ListInv
<1> QED
  BY <1>1, <1>2, <1>3, <1>4, <1>5, <1>6

(* The diagnostics tables are apart from the schema.                       *)
LEMMA DropTablesPreserves ==
    ASSUME NEW p \in Processes, SchemaInv, DropTables(p) PROVE SchemaInv'
<1> USE SchemaAssumption DEF SchemaInv, DropTables, Goto, store, count, None,
      Holding, Migrations
<1>1. SchemaTypeOK'
  BY DEF SchemaTypeOK, NotedInv, PassedInv
<1>2. NotedInv'
  BY DEF NotedInv, SchemaTypeOK
<1>3. LockInv'
  BY DEF LockInv, SchemaTypeOK
<1>4. ListInv'
  BY DEF ListInv, SchemaTypeOK, LockInv, NotedInv
<1>5. PassedInv'
  BY DEF PassedInv, SchemaTypeOK, NotedInv, ListInv, Whole
<1>6. NoCollision'
  BY DEF NoCollision, SchemaTypeOK, LockInv, ListInv
<1> QED
  BY <1>1, <1>2, <1>3, <1>4, <1>5, <1>6

(* So are they when made anew.                                             *)
LEMMA CreateTablesPreserves ==
    ASSUME NEW p \in Processes, SchemaInv, CreateTables(p) PROVE SchemaInv'
<1> USE SchemaAssumption DEF SchemaInv, CreateTables, Goto, store, count,
      None, Holding, Migrations
<1>1. SchemaTypeOK'
  BY DEF SchemaTypeOK, NotedInv, PassedInv
<1>2. NotedInv'
  BY DEF NotedInv, SchemaTypeOK
<1>3. LockInv'
  BY DEF LockInv, SchemaTypeOK
<1>4. ListInv'
  BY DEF ListInv, SchemaTypeOK, LockInv, NotedInv
<1>5. PassedInv'
  BY DEF PassedInv, SchemaTypeOK, NotedInv, ListInv, Whole
<1>6. NoCollision'
  BY DEF NoCollision, SchemaTypeOK, LockInv, ListInv
<1> QED
  BY <1>1, <1>2, <1>3, <1>4, <1>5, <1>6

-----------------------------------------------------------------------------
LEMMA StepPreserves == SchemaInv /\ [SchemaNext]_schemaVars => SchemaInv'
<1> SUFFICES ASSUME SchemaInv, [SchemaNext]_schemaVars PROVE SchemaInv'
  OBVIOUS
<1>1. CASE ClockTicks
  BY <1>1, ClockTicksPreserves
<1>2. CASE \E p \in Processes :
             \/ Open(p) \/ Crash(p)
             \/ DeleteExpired(p) \/ InsertLock(p)
             \/ Classify(p) \/ List(p) \/ ApplyNext(p) \/ Verify(p) \/ Release(p)
             \/ RememberTimezone(p) \/ ReadStamp(p) \/ DropTables(p)
             \/ CreateTables(p)
  BY <1>2, OpenPreserves, CrashPreserves, DeleteExpiredPreserves,
     InsertLockPreserves, ClassifyPreserves, ListPreserves,
     ApplyNextPreserves, VerifyPreserves, ReleasePreserves,
     RememberTimezonePreserves, ReadStampPreserves, DropTablesPreserves,
     CreateTablesPreserves
<1>3. CASE UNCHANGED schemaVars
  BY <1>3 DEF SchemaInv, SchemaTypeOK, NotedInv, LockInv, ListInv, PassedInv, Whole,
              NoCollision, Holding, schemaVars, store, count
<1> QED
  BY <1>1, <1>2, <1>3 DEF SchemaNext

(* Every reachable state satisfies the invariant.                          *)
THEOREM Inductive == SchemaSpec => []SchemaInv
<1> QED
  BY InitEstablishes, StepPreserves, PTL DEF SchemaSpec

(* Every variable keeps its type, however many processes open the database.*)
THEOREM SchemaTypesCorrect == SchemaSpec => []SchemaTypeOK
<1>1. SchemaInv => SchemaTypeOK
  BY DEF SchemaInv
<1> QED
  BY <1>1, Inductive, PTL

(* The migration lock does its work: a start fails on a migration another  *)
(* process has applied only after some process held the lock longer than   *)
(* Patience and was taken for dead.  acquire, release, Migrator::run.      *)
THEOREM OnlyOverrunsCollide == SchemaSpec => []NoCollision
<1>1. SchemaInv => NoCollision
  BY DEF SchemaInv
<1> QED
  BY <1>1, Inductive, PTL

(* A process runs only on a database that is smalog's, of this schema and  *)
(* whole, and of which the timezone is its own; so no two that run on one  *)
(* database differ in it.  initialize, verify_metadata, remember_timezone. *)
THEOREM RunningProcessesAgree == SchemaSpec => []ReadyAgree
<1>1. SchemaInv => ReadyAgree
  BY DEF SchemaInv, PassedInv, Whole, ReadyAgree
<1> QED
  BY <1>1, Inductive, PTL
=============================================================================
