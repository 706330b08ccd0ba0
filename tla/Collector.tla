------------------------------ MODULE Collector ------------------------------
(***************************************************************************)
(* One Collector driving one Connection through a Poll Cycle: begin, login,*)
(* clock synchronisation, the spot query sequence, the archives, end.  Each*)
(* action is the code between two awaits: it ends with the connection's    *)
(* answer and everything the handler does with it up to the next request.  *)
(* The connection is external; any subset of the devices may answer, refuse*)
(* ("LRI not available") or stay silent, and any request may fail whole.   *)
(***************************************************************************)
EXTENDS QuerySupport, Sequences

CONSTANTS
    Modes,          \* how a process runs the collector: cycle (the service),
                    \* probe, probe_all (the CLI, without store and sink)
    DeviceSets,     \* the device lists a successful begin() can produce
    First,          \* the inverter that heads every device list it is in
    SpotQueries,    \* the spot queries of this instance, in process() order
    BatterySerials, \* inverters of dev_class 8007 or 8009
    BatterySusy,    \* inverters of susy_id 292
    RelaySerials,   \* inverters of dev_class 8001
    ZeroToday,      \* inverters that report e_today = 0 beside an e_total
    Wobbling,       \* inverters that stamp their daily records a day late
    Months,         \* [archive] months
    EventMonths,    \* [archive] event_months
    Flaky,          \* bound: kinds that may go unanswered in this instance
    Refusable,      \* bound: kinds that may be answered "LRI not available"
    Groups          \* event groups to ask: <<"user">> or with "installer"

(* QueryKind in the order of query_sequence().                             *)
ProcessOrder ==
    << "SoftwareVersion", "TypeLabel", "BatteryChargeStatus", "BatteryInfo",
       "MeteringGridMsTotW", "ConsumptionEnergy", "ConsumptionPower",
       "DeviceStatus", "InverterTemperature", "GridRelayStatus",
       "EnergyProduction", "OperationTime", "SpotDcPower", "SpotDcVoltage",
       "SpotAcPower", "SpotAcVoltage", "SpotAcTotalPower",
       "SpotGridFrequency" >>

(* The three queries of probe_sequence().                                  *)
ProbeOrder == <<"EnergyProduction", "SpotAcTotalPower", "TypeLabel">>

ArchiveKinds == {"MonthOffsetProbe", "DayArchive", "MonthArchive",
                 "EventArchive"}

Place(q) == CHOOSE i \in DOMAIN ProcessOrder : ProcessOrder[i] = q

ASSUME CollectorAssumption ==
    /\ Modes \subseteq {"cycle", "probe", "probe_all"}
    /\ DeviceSets \subseteq SUBSET Serials
    /\ BatterySerials \cup BatterySusy \cup RelaySerials \cup ZeroToday
           \cup Wobbling \subseteq Serials
    /\ Refusable \subseteq Flaky /\ Flaky \subseteq Kinds
    /\ Months \in Nat /\ EventMonths \in Nat
    /\ Groups \in {<<"user">>, <<"user", "installer">>}
    /\ SpotQueries \in Seq(Kinds)
    /\ \A i \in DOMAIN SpotQueries : \E j \in DOMAIN ProcessOrder :
           SpotQueries[i] = ProcessOrder[j]
    /\ \A i, j \in DOMAIN SpotQueries :
           i < j => Place(SpotQueries[i]) < Place(SpotQueries[j])
    /\ {ProbeOrder[i] : i \in DOMAIN ProbeOrder} \cup ArchiveKinds
           \cup {"ETodayFallback"} \subseteq Kinds
    /\ \E i \in DOMAIN SpotQueries : SpotQueries[i] = "EnergyProduction"

VARIABLES
    pc,         \* the request the collector awaits next
    mode,       \* the entry point this process calls
    daily,      \* cycle()'s daily argument: month and event archives wanted
    at,         \* position in the query sequence, or month of an archive
    group,      \* position in Groups while fetching events
    devices,    \* connector.devices()
    session,    \* the connection's session: closed, open, authed
    inverters,  \* serial -> what this cycle decoded for it
    refused,    \* this session's refusals: serial -> queries
    offsets,    \* month_offsets: serial -> unknown, none or shift
    probed,     \* offsets_probed
    wobbled,    \* history: inverters whose probe showed the day-late stamps
    eof,        \* serials whose event log reported its first entry
    result,     \* what the running or last call returns
    last,       \* the last Poll Transmission handed to the sink
    heard,      \* history: <<serial, kind, month>> answered in this cycle
    asked,      \* history: <<month, group>> event requests of this cycle
    refusedOn,  \* history: pair -> 1 + the day of its last refusal, 0 = never
    evidence    \* history: pairs refused since the table was cleared

vars == <<pc, mode, daily, at, group, devices, session, inverters, refused,
          offsets, probed, wobbled, eof, result, last, heard, asked, refusedOn,
          evidence, storeVars>>

Blank == [got |-> {}, day |-> FALSE, month |-> 0, aligned |-> TRUE,
          events |-> {}]

InverterData ==
    [got : SUBSET Kinds, day : BOOLEAN, month : 0..Months,
     aligned : BOOLEAN, events : SUBSET ((1..EventMonths) \X (1..Len(Groups)))]

Steps == {"begin", "login", "clock", "end"}
Outcomes == {"ok", "empty", "unsupported", "failed"}
PCs == {"idle", "login", "clock", "spot", "etoday", "probe", "offsets", "day",
        "month", "event", "end"}

(* The collector owns the state these types describe between two awaits.   *)
TypeOK ==
    /\ StoreTypeOK
    /\ pc \in PCs
    /\ mode \in Modes
    /\ daily \in BOOLEAN /\ probed \in BOOLEAN
    /\ at \in Nat \ {0} /\ group \in 1..Len(Groups)
    /\ devices \subseteq Serials
    /\ session \in {"closed", "open", "authed"}
    /\ DOMAIN inverters \subseteq Serials
    /\ \A s \in DOMAIN inverters : inverters[s] \in InverterData
    /\ refused \in [Serials -> SUBSET Kinds]
    /\ offsets \in [Serials -> {"unknown", "none", "shift"}]
    /\ wobbled \subseteq Serials /\ eof \subseteq Serials
    /\ result \in {"none", "running", "ok", "err"}
    /\ last \in [kind : Kinds \cup Steps, outcome : Outcomes, sent : BOOLEAN]

-----------------------------------------------------------------------------
(* Recording and the one request primitive.                                *)

Transmission(kind, outcome, sent) ==
    [kind |-> kind, outcome |-> outcome, sent |-> sent]

(* Only the service builds its collectors with_sink, with_query_support.   *)
HasStore == mode = "cycle"

Record(kind, outcome, sent) ==
    last' = IF HasStore THEN Transmission(kind, outcome, sent) ELSE last

(* Mutant of EveryDeviceRefused: one refusal silences the query for all.   *)
AnyDeviceRefused(kind) ==
    /\ HasStore
    /\ devices # {}
    /\ \E s \in devices : kind \in refused[s]

(* every_device_refused().                                                 *)
EveryDeviceRefused(kind) ==
    /\ HasStore
    /\ devices # {}
    /\ \A s \in devices : kind \in refused[s]

(* remember_refusals(): the shared store and this session's set together.  *)
RememberRefusals(kind, R) ==
    /\ Remember(R, kind)
    /\ refused' = [s \in Serials |->
                      IF s \in R THEN refused[s] \cup {kind} ELSE refused[s]]
    /\ refusedOn' = [s \in Serials |-> [k \in Kinds |->
                        IF s \in R /\ k = kind THEN today + 1
                        ELSE refusedOn[s][k]]]
    /\ evidence' = evidence \cup (R \X {kind})

KeepRefusals ==
    UNCHANGED <<storeVars, refused, refusedOn, evidence>>

Answered(kind, A, R) ==
    /\ ~EveryDeviceRefused(kind)
    /\ R # {} => kind \in Refusable
    /\ A # devices => kind \in Flaky
    /\ IF HasStore THEN RememberRefusals(kind, R) ELSE KeepRefusals
    /\ Record(kind, IF A # {} THEN "ok"
                    ELSE IF devices # {} /\ R = devices THEN "unsupported"
                    ELSE "empty", TRUE)

(* record_skipped(): not sent, recorded as unsupported, answered empty.    *)
Skipped(kind) ==
    /\ EveryDeviceRefused(kind)
    /\ Record(kind, "unsupported", FALSE)
    /\ KeepRefusals

(* request_all returned an error: every caller goes on as with no frames.  *)
Failed(kind) ==
    /\ ~EveryDeviceRefused(kind)
    /\ kind \in Flaky
    /\ Record(kind, "failed", TRUE)
    /\ KeepRefusals

(* request_recorded(kind), of which the devices A answered with frames.    *)
Request(kind, A) ==
    \/ \E R \in SUBSET (devices \ A) : Answered(kind, A, R)
    \/ A = {} /\ Skipped(kind)
    \/ A = {} /\ Failed(kind)

(* The answers of the devices A are decoded into their inverters.          *)
Decode(A, kinds, events) ==
    inverters' = [s \in DOMAIN inverters |->
                     IF s \in A
                     THEN [inverters[s] EXCEPT !.got = @ \cup kinds,
                                               !.events = @ \cup events]
                     ELSE inverters[s]]

Hear(A, kind, n) == heard' = heard \cup {<<s, kind, n>> : s \in A}

-----------------------------------------------------------------------------
Init ==
    /\ StoreInit
    /\ pc = "idle" /\ mode \in Modes /\ daily = FALSE
    /\ at = 1 /\ group = 1
    /\ devices \in DeviceSets \cup {{}}
    /\ session = "closed"
    /\ inverters = <<>>
    /\ refused = [s \in Serials |-> {}]
    /\ offsets = [s \in Serials |-> "unknown"]
    /\ probed = FALSE /\ wobbled = {}
    /\ eof = {}
    /\ result = "none"
    /\ last = Transmission("end", "ok", TRUE)
    /\ heard = {} /\ asked = {}
    /\ refusedOn = [s \in Serials |-> [k \in Kinds |-> 0]]
    /\ evidence = {}

(* cycle() and probe_inner() up to the answer of connector.begin(): on     *)
(* success rebuild_inverters() and load_refusals() follow at once.         *)
BeginFails(d) ==
    /\ pc = "idle"
    /\ d => mode = "cycle"
    /\ daily' = d
    /\ result' = "err"
    /\ Record("begin", "failed", TRUE)
    /\ UNCHANGED <<pc, mode, at, group, devices, session, inverters, refused,
                   offsets, probed, wobbled, eof, heard, asked, refusedOn,
                   evidence>>
    /\ UNCHANGED storeVars

(* Mutant of RebuildInverters: known inverters keep their last values.     *)
KeepInverters(D) ==
    [s \in D |-> IF s \in DOMAIN inverters THEN inverters[s] ELSE Blank]

RebuildInverters(D) == [s \in D |-> Blank]

(* Mutant of LoadRefusals: the session starts from what it will hear.      *)
LoadNoRefusals(D) == [s \in Serials |-> {}]

LoadRefusals(D) ==
    [s \in Serials |-> IF HasStore /\ s \in D THEN Unsupported(s) ELSE {}]

Begin(d, D) ==
    /\ pc = "idle"
    /\ D \in DeviceSets
    /\ d => mode = "cycle"
    /\ daily' = d
    /\ session' = "open"
    /\ devices' = D
    /\ inverters' = RebuildInverters(D)
    /\ refused' = LoadRefusals(D)
    /\ pc' = "login" /\ result' = "running"
    /\ Record("begin", "ok", TRUE)
    /\ heard' = {} /\ asked' = {}
    /\ UNCHANGED <<mode, at, group, offsets, probed, wobbled, eof, refusedOn,
                   evidence>>
    /\ UNCHANGED storeVars

(* Mutant of LoginFails: the error returns before the teardown.            *)
LoginFailsReturns ==
    /\ pc = "login"
    /\ pc' = "idle" /\ result' = "err"
    /\ Record("login", "failed", TRUE)
    /\ UNCHANGED <<mode, daily, at, group, devices, session, inverters,
                   refused, offsets, probed, wobbled, eof, heard, asked,
                   refusedOn, evidence>>
    /\ UNCHANGED storeVars

LoginFails ==
    /\ pc = "login"
    /\ pc' = "end" /\ result' = "err"
    /\ Record("login", "failed", TRUE)
    /\ UNCHANGED <<mode, daily, at, group, devices, session, inverters,
                   refused, offsets, probed, wobbled, eof, heard, asked,
                   refusedOn, evidence>>
    /\ UNCHANGED storeVars

Login ==
    /\ pc = "login"
    /\ session' = "authed"
    /\ pc' = IF mode = "cycle" THEN "clock" ELSE "spot"
    /\ at' = 1
    /\ Record("login", "ok", TRUE)
    /\ UNCHANGED <<mode, daily, group, devices, inverters, refused, offsets,
                   probed, wobbled, eof, result, heard, asked, refusedOn,
                   evidence>>
    /\ UNCHANGED storeVars

(* clock_sync(): whatever set_clock says, the cycle goes on.               *)
ClockSync ==
    /\ pc = "clock"
    /\ pc' = "spot"
    /\ \E o \in {"ok", "failed"} : Record("clock", o, TRUE)
    /\ UNCHANGED <<mode, daily, at, group, devices, session, inverters,
                   refused, offsets, probed, wobbled, eof, result, heard, asked,
                   refusedOn, evidence>>
    /\ UNCHANGED storeVars

-----------------------------------------------------------------------------
(* query_sequence() and probe_sequence().                                  *)

Sequence == IF mode = "probe" THEN ProbeOrder ELSE SpotQueries

HasBattery == {s \in DOMAIN inverters :
                   \/ s \in BatterySusy
                   \/ s \in BatterySerials /\ "TypeLabel" \in inverters[s].got}

(* The queries process() asks only of plants that have the equipment.      *)
Wanted(q) ==
    \/ mode = "probe"
    \/ q \notin {"BatteryChargeStatus", "BatteryInfo", "GridRelayStatus"}
    \/ q \in {"BatteryChargeStatus", "BatteryInfo"} /\ HasBattery # {}
    \/ /\ q = "GridRelayStatus"
       /\ First \in DOMAIN inverters \cap RelaySerials
       /\ "TypeLabel" \in inverters[First].got

AfterSpot(i) == IF i <= Len(Sequence) THEN "spot"
                ELSE IF mode # "cycle" THEN "end"
                ELSE IF probed THEN "day" ELSE "offsets"

SpotUnchanged ==
    UNCHANGED <<mode, daily, group, devices, session, offsets, probed, wobbled,
                eof, result, asked>>

SpotQuery(A) ==
    /\ pc = "spot" /\ at <= Len(Sequence) /\ Wanted(Sequence[at])
    /\ LET q == Sequence[at]
           done == mode = "probe" /\ A # {}
       IN  /\ Request(q, A)
           /\ Decode(A, {q}, {})
           /\ Hear(A, q, 0)
           /\ at' = at + 1
           /\ pc' = IF done THEN "end"
                    ELSE IF mode = "cycle" /\ q = "EnergyProduction"
                    THEN "etoday"
                    ELSE AfterSpot(at + 1)
    /\ SpotUnchanged

SpotNotWanted ==
    /\ pc = "spot" /\ at <= Len(Sequence) /\ ~Wanted(Sequence[at])
    /\ at' = at + 1
    /\ pc' = AfterSpot(at + 1)
    /\ UNCHANGED <<inverters, last, heard>>
    /\ KeepRefusals
    /\ SpotUnchanged

(* etoday_fallback(): derive e_today for the inverters that report zero.   *)
NeedsEToday == {s \in DOMAIN inverters \cap ZeroToday :
                    "EnergyProduction" \in inverters[s].got}

(* Of the answering devices A, those in H sent a midnight total.           *)
ETodayFallback(A, H) ==
    /\ pc = "etoday" /\ NeedsEToday # {}
    /\ H # A => "ETodayFallback" \in Flaky
    /\ Request("ETodayFallback", A)
    /\ Decode(H \cap NeedsEToday, {"ETodayFallback"}, {})
    /\ Hear(H, "ETodayFallback", 0)
    /\ pc' = AfterSpot(at)
    /\ UNCHANGED at
    /\ SpotUnchanged

NoETodayFallback ==
    /\ pc = "etoday" /\ NeedsEToday = {}
    /\ pc' = AfterSpot(at)
    /\ UNCHANGED <<at, inverters, last, heard>>
    /\ KeepRefusals
    /\ SpotUnchanged

-----------------------------------------------------------------------------
(* The archives: fetch_day() on every cycle, fetch_month() and             *)
(* fetch_events() when daily.                                              *)

AfterMonths == IF EventMonths > 0 THEN "event" ELSE "end"

AfterDay == IF ~daily THEN "end"
            ELSE IF Months > 0 THEN "month" ELSE AfterMonths

ArchiveUnchanged ==
    UNCHANGED <<mode, daily, devices, session, result>>

(* Mutant of OffsetAfterProbe: only the first inverter's days are compared.*)
OffsetOfFirst(s, A, H) ==
    IF s \notin A THEN offsets[s]
    ELSE IF s = First /\ s \in H \cap Wobbling THEN "shift" ELSE "none"

OffsetAfterProbe(s, A, H) ==
    IF s \notin A THEN offsets[s]
    ELSE IF s \in H \cap Wobbling THEN "shift" ELSE "none"

(* probe_month_offsets(): of the answering devices A, those in H returned  *)
(* records; a wobbling one among them gets its correction.  The probe      *)
(* counts as done whatever came back.                                      *)
ProbeMonthOffsets(A, H) ==
    /\ pc = "offsets"
    /\ H # A => "MonthOffsetProbe" \in Flaky
    /\ Request("MonthOffsetProbe", A)
    /\ offsets' = [s \in Serials |-> OffsetAfterProbe(s, A, H)]
    /\ probed' = TRUE
    /\ wobbled' = wobbled \cup (H \cap Wobbling)
    /\ pc' = "day"
    /\ Hear(A, "MonthOffsetProbe", 0)
    /\ UNCHANGED <<at, group, inverters, eof, asked>>
    /\ ArchiveUnchanged

FetchDay(A, H) ==
    /\ pc = "day"
    /\ H # A => "DayArchive" \in Flaky
    /\ Request("DayArchive", A)
    /\ inverters' = [s \in DOMAIN inverters |->
                        IF s \in A THEN [inverters[s] EXCEPT !.day = s \in H]
                        ELSE inverters[s]]
    /\ Hear(H, "DayArchive", 0)
    /\ pc' = AfterDay
    /\ at' = 1 /\ group' = 1
    /\ eof' = {}
    /\ UNCHANGED <<offsets, probed, wobbled, asked>>
    /\ ArchiveUnchanged

(* One month: its answer replaces month_data and has_month_data.           *)
FetchMonth(A, H) ==
    /\ pc = "month"
    /\ H # A => "MonthArchive" \in Flaky
    /\ Request("MonthArchive", A)
    /\ inverters' = [s \in DOMAIN inverters |->
           IF s \in A
           THEN [inverters[s] EXCEPT
                    !.month = IF s \in H THEN at ELSE 0,
                    !.aligned = s \notin H
                                \/ (offsets[s] = "shift") = (s \in Wobbling)]
           ELSE inverters[s]]
    /\ Hear(H, "MonthArchive", at)
    /\ IF at < Months THEN at' = at + 1 /\ pc' = "month"
                      ELSE at' = 1 /\ pc' = AfterMonths
    /\ UNCHANGED <<group, offsets, probed, wobbled, eof, asked>>
    /\ ArchiveUnchanged

(* Mutant of LogsExhausted: one exhausted log ends the reading.            *)
SomeLogExhausted(exhausted) == DOMAIN inverters \cap exhausted # {}

(* The early exit of fetch_events(): every log is exhausted.               *)
LogsExhausted(exhausted) ==
    DOMAIN inverters # {} /\ DOMAIN inverters \subseteq exhausted

(* Mutant of PrevMonth: the loop stays at its month.                       *)
SameMonth == at

(* The loop goes on with the month before: at counts backwards from now.   *)
PrevMonth == at + 1

(* One month and user group: of the answering devices A, those in E        *)
(* returned the first entry of their log.                                  *)
FetchEvents(A, E) ==
    /\ pc = "event"
    /\ Request("EventArchive", A)
    /\ Decode(A, {}, {<<at, group>>})
    /\ Hear(A, "EventArchive", at)
    /\ asked' = asked \cup {<<at, group>>}
    /\ eof' = eof \cup E
    /\ IF group < Len(Groups)
       THEN group' = group + 1 /\ UNCHANGED <<at, pc>>
       ELSE /\ group' = 1
            /\ IF LogsExhausted(eof') \/ at = EventMonths
               THEN pc' = "end" /\ UNCHANGED at
               ELSE at' = PrevMonth /\ UNCHANGED pc
    /\ UNCHANGED <<offsets, probed, wobbled>>
    /\ ArchiveUnchanged

(* end() cannot fail; then cycle() returns.                                *)
End ==
    /\ pc = "end"
    /\ session' = "closed"
    /\ pc' = "idle" /\ at' = 1 /\ group' = 1
    /\ result' = IF result = "err" THEN "err" ELSE "ok"
    /\ Record("end", "ok", TRUE)
    /\ UNCHANGED <<mode, daily, devices, inverters, refused, offsets, probed,
                   wobbled, eof, heard, asked, refusedOn, evidence>>
    /\ UNCHANGED storeVars

-----------------------------------------------------------------------------
(* The rest of the world: detached writes, the clock, the operator, and a  *)
(* restart of the process at any point.                                    *)

sessionVars == <<pc, mode, daily, at, group, devices, session, inverters,
                 refused, offsets, probed, wobbled, eof, result, last, heard,
                 asked>>

StoreStep ==
    /\ \/ \E w \in writes : WriteLands(w) \/ WriteFails(w)
       \/ NextDay
    /\ UNCHANGED <<refusedOn, evidence>>
    /\ UNCHANGED sessionVars

(* A refusal heard before the idle service's table is cleared is no longer *)
(* evidence; one still on its way to the table will be there afterwards.   *)
OperatorClears ==
    /\ ClearQuerySupport
    /\ evidence' = {p \in evidence : pc # "idle" \/ \E w \in writes :
                        w.serial = p[1] /\ w.query = p[2]}
    /\ UNCHANGED refusedOn
    /\ UNCHANGED sessionVars

Restart ==
    /\ StoreRestart
    /\ pc' = "idle" /\ mode' \in Modes /\ daily' = FALSE
    /\ at' = 1 /\ group' = 1
    /\ devices' \in DeviceSets \cup {{}}
    /\ session' = "closed"
    /\ inverters' = <<>>
    /\ refused' = [s \in Serials |-> {}]
    /\ offsets' = [s \in Serials |-> "unknown"]
    /\ probed' = FALSE /\ wobbled' = {} /\ eof' = {} /\ result' = "none"
    /\ last' = Transmission("end", "ok", TRUE)
    /\ heard' = {} /\ asked' = {}
    /\ UNCHANGED <<refusedOn, evidence>>

SessionStep ==
    \/ \E d \in BOOLEAN :
          BeginFails(d) \/ \E D \in DeviceSets : Begin(d, D)
    \/ LoginFails \/ Login \/ ClockSync
    \/ \E A \in SUBSET devices :
          \/ SpotQuery(A)
          \/ \E H \in SUBSET A :
                \/ ETodayFallback(A, H)
                \/ ProbeMonthOffsets(A, H)
                \/ FetchDay(A, H)
                \/ FetchMonth(A, H)
                \/ FetchEvents(A, H)
    \/ SpotNotWanted \/ NoETodayFallback
    \/ End

Next == SessionStep \/ StoreStep \/ OperatorClears \/ Restart

Spec == Init /\ [][Next]_vars
-----------------------------------------------------------------------------
(* Once begin() succeeded, the session is torn down before cycle() returns,*)
(* a failed login included: an idle collector holds no session. Data       *)
(* requests go out only inside a logged-in session, and a probe never      *)
(* reaches clock synchronisation or the archives.                          *)
SessionsInOrder ==
    /\ pc = "idle" => session = "closed"
    /\ pc \in {"clock", "spot", "etoday", "offsets", "day", "month", "event"}
           => session = "authed"
    /\ mode # "cycle"
           => pc \notin {"clock", "etoday", "offsets", "day", "month", "event"}

(* A query is skipped only if every device it would address has refused it *)
(* at some time: one device's refusal never silences another.              *)
SkipIsJustified ==
    ~last.sent => \A s \in devices : refusedOn[s][last.kind] > 0

(* The kind of the request the collector is about to make.                 *)
PendingKind ==
    CASE pc = "spot" -> Sequence[at]
      [] pc = "etoday" -> "ETodayFallback"
      [] pc = "offsets" -> "MonthOffsetProbe"
      [] pc = "day" -> "DayArchive"
      [] pc = "month" -> "MonthArchive"
      [] pc = "event" -> "EventArchive"
      [] OTHER -> "none"

(* No round trip is spent on a query that every device of the session has  *)
(* refused since the process knows of it, in an earlier cycle or in this.  *)
NeverAsksWhatAllRefused ==
    [][ /\ <<pc, at, group>>' # <<pc, at, group>>
        /\ last'.kind = PendingKind /\ last'.sent
        /\ devices # {}
        => \E s \in devices : PendingKind \notin memory[s] ]_vars

(* Every refusal the table holds inside the recheck window is one the      *)
(* running process knows, across restarts, expiry and detached writes, if  *)
(* it could read the table when it started.                                *)
FreshRowsAreKnown ==
    loaded =>
        \A r \in rows : WithinRecheck(r) => r.query \in memory[r.serial]

(* What a successful cycle returns was decoded from answers to this cycle's*)
(* own requests: nothing is carried over from an earlier session.          *)
FreshObservation ==
    pc = "idle" /\ result = "ok" =>
        \A s \in DOMAIN inverters :
            /\ \A k \in inverters[s].got : <<s, k, 0>> \in heard
            /\ inverters[s].day => <<s, "DayArchive", 0>> \in heard
            /\ inverters[s].month # 0 =>
                   <<s, "MonthArchive", inverters[s].month>> \in heard
            /\ \A e \in inverters[s].events :
                   <<s, "EventArchive", e[1]>> \in heard

(* Once an inverter has shown that it stamps its days late, every month    *)
(* decoded from it, in this cycle and in later ones, is corrected.         *)
MonthIsCorrected ==
    \A s \in DOMAIN inverters :
        s \in wobbled /\ inverters[s].month # 0 => inverters[s].aligned

(* The event log is read to its configured depth unless every inverter has *)
(* reported the first entry of its log.                                    *)
EventsReadToDepth ==
    pc = "idle" /\ result = "ok" /\ daily /\ mode = "cycle" =>
        \/ \A m \in 1..EventMonths, g \in 1..Len(Groups) : <<m, g>> \in asked
        \/ DOMAIN inverters \subseteq eof

(* A cycle comes to an end: no query or archive loop runs forever.         *)
CycleEnds == pc # "idle" ~> pc = "idle"

(* What a session awaits always returns: the transports bound each await.  *)
FairSpec == Spec /\ WF_vars(SessionStep)

-----------------------------------------------------------------------------
(* Statements of the documentation that the code does not keep.            *)

(* "Answers older than SUPPORT_RECHECK_DAYS must not be returned" to the   *)
(* session that begins: refusedOn is one more than the refusal's day.      *)
MemoryExpires ==
    [][ pc = "idle" /\ pc' = "login"
        => \A s \in devices' : \A k \in refused'[s] :
               refusedOn[s][k] + RecheckDays > today ]_vars

(* "Months of daily totals to (re)fetch each day": every month an inverter *)
(* returned records for is part of the cycle's result.                     *)
EveryMonthIsKept ==
    pc = "idle" /\ result = "ok" =>
        \A s \in DOMAIN inverters : \A n \in 1..Months :
            <<s, "MonthArchive", n>> \in heard => inverters[s].month = n
=============================================================================
