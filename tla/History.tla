------------------------------ MODULE History ------------------------------
(***************************************************************************)
(* GET /api/history and GET /api/diagnostics: a response is put together   *)
(* from several queries, each a transaction of its own, while the service  *)
(* goes on storing measurements and archive samples of the day.  The day   *)
(* view joins them into five-minute rows of the plant and of each          *)
(* inverter; the week, month and year views add up daily yields and        *)
(* compare them with the same part of the period before.                   *)
(*                                                                         *)
(* Times of a day are half slots (150 s), because a sample is rounded to   *)
(* the nearest slot; days are numbered from the first of FirstYear.        *)
(***************************************************************************)
EXTENDS Integers, Sequences, FiniteSets, FiniteSetsExt, Functions

CONSTANTS
    Devices,                \* serials of the plant's inverters
    Slots,                  \* five-minute slots of a day
    Powers,                 \* AC power of a sample, 0 too
    MaxEnergy,              \* bound of a device's energy of the day
    FirstYear, LastYear,    \* years of the calendar
    FirstWeekday,           \* weekday of its first day, Monday = 0
    Gaps,                   \* days that have no midnight in the timezone
    Views,                  \* views that are asked for
    MaxWrites               \* bound of the writes to the day's tables

ASSUME HistoryAssumption ==
    /\ IsFiniteSet(Devices) /\ Devices # {} /\ Devices \subseteq Nat
    /\ Slots \in Nat \ {0}
    /\ Powers \subseteq Nat /\ MaxEnergy \in Nat
    /\ FirstYear \in Nat \ {0} /\ LastYear \in Nat /\ FirstYear + 2 <= LastYear
    /\ FirstWeekday \in 0 .. 6
    /\ Gaps \subseteq Nat
    /\ Views \subseteq {"aggregate", "inverter", "strings", "diagnostics",
                        "week", "month", "year"}
    /\ MaxWrites \in Nat

-----------------------------------------------------------------------------
(* The Gregorian calendar.                                                 *)

Leap(y) == (y % 4 = 0 /\ y % 100 # 0) \/ y % 400 = 0

Length(y, m) == CASE m = 2 -> IF Leap(y) THEN 29 ELSE 28
                  [] m \in {4, 6, 9, 11} -> 30
                  [] OTHER -> 31

Dates == {d \in (FirstYear .. LastYear) \X (1 .. 12) \X (1 .. 31) :
             d[3] <= Length(d[1], d[2])}

(* The days of the years 1 to y, and of the months of a year before m.     *)
YearsUpTo(y) == 365 * y + y \div 4 - y \div 100 + y \div 400
MonthsBefore(y, m) ==
    <<0, 31, 59, 90, 120, 151, 181, 212, 243, 273, 304, 334>>[m]
    + (IF m > 2 /\ Leap(y) THEN 1 ELSE 0)

DaysBefore(y, m) ==
    YearsUpTo(y - 1) - YearsUpTo(FirstYear - 1) + MonthsBefore(y, m)

NumberOf == [d \in Dates |-> DaysBefore(d[1], d[2]) + d[3] - 1]
DateOf == [n \in Range(NumberOf) |-> CHOOSE d \in Dates : NumberOf[d] = n]

Day(y, m, d) == NumberOf[<<y, m, d>>]
Weekday(n) == (n + FirstWeekday) % 7

(* chrono's first and last day of the model's calendar that a view asks    *)
(* for, so that the period before is in the calendar as well.              *)
Askable == Day(FirstYear + 1, 1, 8) .. Day(LastYear - 1, 12, 31)

WeekStart(n) == n - Weekday(n)
MonthStart(n) == Day(DateOf[n][1], DateOf[n][2], 1)
YearStart(n) == Day(DateOf[n][1], 1, 1)

AddMonth(n) == LET d == DateOf[n] IN
    IF d[2] = 12 THEN Day(d[1] + 1, 1, 1) ELSE Day(d[1], d[2] + 1, 1)

PreviousMonth(n) == LET d == DateOf[n] IN
    IF d[2] = 1 THEN Day(d[1] - 1, 12, 1) ELSE Day(d[1], d[2] - 1, 1)

-----------------------------------------------------------------------------
(* The windows of a period and of the one before, as build_history takes   *)
(* them: from a day up to and without another one.                         *)

Window(from, to) == [from |-> from, to |-> to]

Selected(view, day) ==
    CASE view = "week"  -> Window(WeekStart(day), WeekStart(day) + 7)
      [] view = "month" -> Window(MonthStart(day), AddMonth(MonthStart(day)))
      [] view = "year"  -> Window(YearStart(day), Day(DateOf[day][1] + 1, 1, 1))
      [] OTHER -> Window(day, day + 1)

(* previous_week_comparison_end                                            *)
WeekEnd(start, today) ==
    IF start = WeekStart(today) THEN start - 7 + Weekday(today) + 1 ELSE start

(* Mutant of MonthEnd: the day of the month is not capped.                 *)
MonthEndUncapped(start, today) ==
    IF start = MonthStart(today)
    THEN PreviousMonth(start) + DateOf[today][3] ELSE start

(* previous_month_comparison_end: the day is capped to the shorter month.  *)
MonthEnd(start, today) ==
    IF start = MonthStart(today)
    THEN PreviousMonth(start)
         + Min({DateOf[today][3], DateOf[start - 1][3]})
    ELSE start

(* previous_year_comparison_end: February 29 becomes February 28.          *)
YearEnd(start, today) ==
    LET t == DateOf[today]
        last == t[1] - 1
    IN  IF start # YearStart(today) THEN start
        ELSE Day(last, t[2], IF <<last, t[2], t[3]>> \in Dates THEN t[3]
                             ELSE t[3] - 1) + 1

Previous(view, day, today) ==
    LET start == Selected(view, day).from
    IN  CASE view = "week"  -> Window(start - 7, WeekEnd(start, today))
          [] view = "month" -> Window(PreviousMonth(start), MonthEnd(start, today))
          [] view = "year"  -> Window(YearStart(start - 1), YearEnd(start, today))
          [] OTHER -> Window(day - 1, day)

(* local_day_start: a day without a midnight starts in 1970.               *)
Epoch == -1
DayStart(n) == IF n \in Gaps THEN Epoch ELSE n

-----------------------------------------------------------------------------
(* The rows of the day view.                                               *)

SlotOf(half) == (half + 1) \div 2
SlotsSeen(ms, d) == {SlotOf(m.at) : m \in {x \in ms : x.device = d}}

(* The latest sample of a device in a slot.                                *)
InSlot(ms, d, s) ==
    LET here == {m \in ms : m.device = d /\ SlotOf(m.at) = s}
    IN  CHOOSE m \in here : \A x \in here : x.at <= m.at

(* Mutant of EnergyAt: a device that has stopped answering adds no energy. *)
EnergyWithoutSilent(ms, d, s) ==
    IF s \in SlotsSeen(ms, d) THEN InSlot(ms, d, s).energy ELSE 0

(* The energy shown for a device never falls: the most of the slots so far. *)
EnergyAt(ms, d, s) ==
    LET seen == {k \in SlotsSeen(ms, d) : k <= s}
    IN  Max({InSlot(ms, d, k).energy : k \in seen} \cup {0})

(* The power bridges one slot without a sample.                            *)
PowerAt(ms, d, s) ==
    LET seen == {k \in SlotsSeen(ms, d) : k <= s}
    IN  IF seen # {} /\ s - Max(seen) <= 1 THEN InSlot(ms, d, Max(seen)).power
        ELSE 0

(* build_day_metric_rows: the archive's power, of the devices that have    *)
(* one for the slot, replaces the measured one.                            *)
RowAt(ms, ps, s) ==
    LET archived == {p \in ps : p.slot = s}
    IN  [energy |-> SumFunction([d \in Devices |-> EnergyAt(ms, d, s)]),
         power  |-> IF archived # {}
                    THEN SumFunction([p \in archived |-> p.power])
                    ELSE SumFunction([d \in Devices |-> PowerAt(ms, d, s)])]

(* The rows go by their label, the time of day: a sample of the last half  *)
(* slot is rounded to midnight, and its row takes the place of the first.  *)
Label(s) == s % Slots

Rows(ms, ps) ==
    LET slots == {SlotOf(m.at) : m \in ms}
    IN  [l \in {Label(s) : s \in slots} |->
            RowAt(ms, ps, Max({s \in slots : Label(s) = l}))]

-----------------------------------------------------------------------------
VARIABLES
    today,      \* the plant's local date
    measured,   \* the measurements of the day: [at, device, power, energy]
    archive,    \* its archive samples: [slot, device, power]
    asked,      \* the request: [view, serial, day, today], or NoRequest
    todo,       \* the queries it has still to make
    got,        \* the answers of those it has made
    quiet,      \* history: nothing was written since the request began
    writes

vars == <<today, measured, archive, asked, todo, got, quiet, writes>>

(* The days that have a yield: every one up to today.                      *)
Stored == 0 .. today

Idle == [view |-> "none", serial |-> 0, day |-> 0, today |-> 0]

Metrics(ds) == [what |-> "metrics", of |-> ds, days |-> Window(0, 0)]
Power(ds) == [what |-> "power", of |-> ds, days |-> Window(0, 0)]
Latest(ds) == [what |-> "latest", of |-> ds, days |-> Window(0, 0)]
Details(ds) == [what |-> "details", of |-> ds, days |-> Window(0, 0)]
Yields(window) == [what |-> "yields", of |-> {}, days |-> window]

Ascending(ds) ==
    CHOOSE q \in [1 .. Cardinality(ds) -> ds] :
        \A i, j \in DOMAIN q : i < j => q[i] < q[j]

(* Mutant of PlantQueries: the inverters' series are read before the total.*)
PlantQueriesLast ==
    LET n == Cardinality(Devices)
        own == [k \in 1 .. 2 * n |->
                   LET d == {Ascending(Devices)[(k + 1) \div 2]}
                   IN  IF k % 2 = 1 THEN Metrics(d) ELSE Power(d)]
    IN  own \o <<Metrics(Devices), Power(Devices)>>

(* The plant's total first, then each inverter's series.                   *)
PlantQueries ==
    LET n == Cardinality(Devices)
        own == [k \in 1 .. 2 * n |->
                   LET d == {Ascending(Devices)[(k + 1) \div 2]}
                   IN  IF k % 2 = 1 THEN Metrics(d) ELSE Power(d)]
    IN  <<Metrics(Devices), Power(Devices)>> \o own

(* Mutant of DiagnosticQueries: the latest samples are read before the day's. *)
DiagnosticQueriesLatestFirst ==
    <<Latest(Devices), Metrics(Devices), Details(Devices)>>

(* diagnostics_handler: the day's samples, the latest ones, the details.   *)
DiagnosticQueries == <<Metrics(Devices), Latest(Devices), Details(Devices)>>

(* The queries of a request, in order; day views end with the yield of the *)
(* day before.                                                             *)
Queries(r) ==
    CASE r.view = "aggregate" ->
            PlantQueries \o <<Yields(Previous(r.view, r.day, r.today))>>
      [] r.view = "inverter" ->
            <<Metrics({r.serial}), Power({r.serial}),
              Yields(Previous(r.view, r.day, r.today))>>
      [] r.view = "strings" -> <<Metrics({r.serial})>>
      [] r.view = "diagnostics" -> DiagnosticQueries
      [] OTHER -> <<Yields(Selected(r.view, r.day)),
                    Yields(Previous(r.view, r.day, r.today))>>

DayViews == {"aggregate", "inverter", "strings", "diagnostics"}

(* A behaviour is about one view; the tables of the day start empty.       *)
Init ==
    /\ \E view \in Views :
          /\ asked = [Idle EXCEPT !.view = view]
          /\ IF view \in DayViews THEN today = Max(Askable)
                                  ELSE today \in Askable
    /\ measured = {} /\ archive = {}
    /\ todo = <<>> /\ got = <<>>
    /\ quiet = TRUE /\ writes = 0

Idling == asked.day = 0
Answered == ~Idling /\ todo = <<>>

(* history_handler, diagnostics_handler: the day defaults to today; a past *)
(* one or the period around it may be chosen.                              *)
Ask ==
    /\ Idling
    /\ \E d \in Devices,
          n \in Askable \cap {today, today - 7, today - 31, today - 365} :
          /\ asked.view \in DayViews => n = today
          /\ asked.view \notin {"inverter", "strings"} => d = Min(Devices)
          /\ asked' = [asked EXCEPT !.serial = d, !.day = n, !.today = today]
    /\ todo' = Queries(asked')
    /\ got' = <<>>
    /\ quiet' = TRUE
    /\ UNCHANGED <<today, measured, archive, writes>>

(* What a query answers: convert_daily_rows fails on a day that has no     *)
(* midnight.                                                               *)
Answer(q) ==
    LET window == {n \in Stored : /\ DayStart(q.days.from) <= n
                                  /\ n < DayStart(q.days.to)}
        newest(d) == {m \in measured : m.device = d /\
                         \A x \in measured : x.device = d => x.at <= m.at}
    IN  CASE q.what = "metrics" -> {m \in measured : m.device \in q.of}
          [] q.what = "power"   -> {p \in archive : p.device \in q.of}
          [] q.what = "yields"  -> window
          [] OTHER -> UNION {newest(d) : d \in q.of}

Fails(q) == q.what = "yields" /\ Answer(q) \cap Gaps # {}

Read ==
    /\ todo # <<>> /\ ~Fails(Head(todo))
    /\ got' = Append(got, Answer(Head(todo)))
    /\ todo' = Tail(todo)
    /\ UNCHANGED <<today, measured, archive, asked, quiet, writes>>

Forget ==
    /\ asked' = [Idle EXCEPT !.view = asked.view]
    /\ todo' = <<>> /\ got' = <<>>
    /\ UNCHANGED <<today, measured, archive, quiet, writes>>

(* A failed query answers the request with 500.                            *)
Fail == todo # <<>> /\ Forget

(* The build_*_summary functions add up and compare what was read, and the *)
(* response is sent.                                                       *)
Respond == Answered /\ Forget

-----------------------------------------------------------------------------
(* What the service stores meanwhile.                                      *)

Wrote == /\ writes < MaxWrites
         /\ writes' = writes + 1
         /\ quiet' = FALSE
         /\ UNCHANGED <<today, asked, todo, got>>

(* A poll's measurement is later than the device's last one.  The inverter's *)
(* counter of the day does not fall, but a poll whose energy query failed  *)
(* stores 0.                                                               *)
WriteMeasurement(d, at, power, energy) ==
    /\ asked.view \in DayViews
    /\ \A m \in measured :
          m.device = d => m.at < at /\ (energy = 0 \/ m.energy <= energy)
    /\ measured' = measured \cup {[at |-> at, device |-> d, power |-> power,
                                   energy |-> energy]}
    /\ UNCHANGED archive
    /\ Wrote

WriteSample(d, slot, power) ==
    /\ asked.view \in {"aggregate", "inverter"}
    /\ archive' = {p \in archive : ~(p.device = d /\ p.slot = slot)}
                  \cup {[slot |-> slot, device |-> d, power |-> power]}
    /\ UNCHANGED measured
    /\ Wrote

(* Midnight passes, once during a request, and a poll recomputes the yield of *)
(* the new day; Init covers the midnights before it.                       *)
NextDay ==
    /\ asked.view \notin DayViews /\ ~Idling
    /\ quiet /\ today + 1 \in Askable
    /\ today' = today + 1
    /\ quiet' = FALSE
    /\ UNCHANGED <<measured, archive, asked, todo, got, writes>>

Next ==
    \/ Ask \/ Read \/ Fail \/ Respond \/ NextDay
    \/ \E d \in Devices, power \in Powers :
          \/ \E at \in 0 .. 2 * Slots - 1, e \in 0 .. MaxEnergy :
                WriteMeasurement(d, at, power, e)
          \/ \E slot \in 0 .. Slots - 1 : WriteSample(d, slot, power)

Spec == Init /\ [][Next]_vars

-----------------------------------------------------------------------------
(* The plant's rows and an inverter's, from the answers of the aggregate.  *)
TotalRows == Rows(got[1], got[2])
OwnRows(k) == Rows(got[2 * k + 1], got[2 * k + 2])

(* The rows an inverter's series has up to a time of day.                  *)
UpTo(k, l) == {x \in DOMAIN OwnRows(k) : x <= l}
Reached(k, l) == Max({OwnRows(k)[x].energy : x \in UpTo(k, l)} \cup {0})
Giving(k, l) == IF UpTo(k, l) # {} /\ l - Max(UpTo(k, l)) <= 1
                THEN OwnRows(k)[Max(UpTo(k, l))].power ELSE 0

(* In no slot a poll whose energy query failed came after one that had it. *)
SlotsGrow(ms) ==
    \A m, n \in ms :
        m.device = n.device /\ SlotOf(m.at) = SlotOf(n.at) /\ m.at < n.at
        => m.energy <= n.energy

(* At every row of the day the plant's energy is that of its inverters'    *)
(* series, also of those that are silent by then or lost an energy value,  *)
(* and so is its power when it is not taken from an archive -- unless a    *)
(* sample was rounded to the next midnight.  What is stored between two of *)
(* the queries only adds to the inverters' side, unless it takes the place *)
(* of a measurement of its slot with more energy.                          *)
TotalIsSumOfParts ==
    /\ Answered /\ asked.view = "aggregate"
    /\ \A m \in measured : SlotOf(m.at) < Slots
    => \A l \in DOMAIN TotalRows :
          LET own == 1 .. Cardinality(Devices)
              total == TotalRows[l]
              energy == SumFunction([k \in own |-> Reached(k, l)])
          IN  /\ SlotsGrow(measured) => total.energy <= energy
              /\ quiet => total.energy = energy
              /\ quiet /\ archive = {} =>
                    total.power = SumFunction([k \in own |-> Giving(k, l)])

(* Each measurement in one answer has one as late in another.              *)
AnswerTo(what) ==
    got[CHOOSE i \in DOMAIN got : Queries(asked)[i].what = what]
NoneNewer(one, other, d) ==
    \A m \in AnswerTo(one) : m.device = d =>
        \E x \in AnswerTo(other) : x.device = d /\ m.at <= x.at

(* The latest measurement shown beside the day's samples is not older than *)
(* any of them, and the lifetime details not older than it.                *)
LatestIsNewest ==
    Answered /\ asked.view = "diagnostics" =>
        \A d \in Devices :
            /\ NoneNewer("metrics", "latest", d)
            /\ NoneNewer("latest", "details", d)

(* The part of the period before that is compared: the days up to the same *)
(* weekday, day of the month, or day of the year as the day the request    *)
(* took for today, and all of it when the period is not the current one.   *)
SamePart(n) ==
    LET t == DateOf[asked.today]
        d == DateOf[n]
    IN  \/ Selected(asked.view, asked.day) # Selected(asked.view, asked.today)
        \/ asked.view = "week" /\ Weekday(n) <= Weekday(asked.today)
        \/ asked.view = "month" /\ d[3] <= t[3]
        \/ asked.view = "year" /\ (d[2] < t[2] \/ (d[2] = t[2] /\ d[3] <= t[3]))

(* Week, month and year: the total shown is of days of the selected period,*)
(* the one it is compared with of exactly the days at the same place in the*)
(* period before, across months of different lengths and leap years --     *)
(* unless a bound of the window is a day without a midnight.               *)
SameSpanCompared ==
    Answered /\ asked.view \in {"week", "month", "year"} =>
        LET this == Selected(asked.view, asked.day)
            before == Selected(asked.view, this.from - 1)
            compared == Previous(asked.view, asked.day, asked.today)
        IN  {this.from, this.to, compared.from, compared.to} \cap Gaps = {} =>
                /\ \A n \in got[1] : this.from <= n /\ n < this.to
                /\ got[2] = {n \in before.from .. before.to - 1 :
                                n \in Stored /\ SamePart(n)}
=============================================================================
