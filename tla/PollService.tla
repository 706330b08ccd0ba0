----------------------------- MODULE PollService -----------------------------
(***************************************************************************)
(* The service loop: Service::run and Service::tick over several           *)
(* collectors, the export of what they returned, the status the HTTP API   *)
(* shows, MQTT's bounded channel, and the two signals that end the loop.   *)
(* A collector's cycle is one step here (Collector has its inside): only   *)
(* its outcome and what it leaves in the collector's snapshot matter.      *)
(***************************************************************************)
EXTENDS Naturals, FiniteSets

CONSTANTS
    N,              \* collectors, polled in the order 1..N
    Bluetooth,      \* collectors whose begin() can fail
    PollAtNight,    \* service.poll_at_night
    Mqtt,           \* mqtt.enabled
    Messages,       \* MQTT messages per inverter
    Capacity,       \* slots of the MQTT client's request channel
    MaxDay          \* bound: the last day the clock reaches

Collectors == 1..N

ASSUME ServiceAssumption ==
    /\ N \in Nat \ {0}
    /\ Bluetooth \subseteq 1..N
    /\ PollAtNight \in BOOLEAN /\ Mqtt \in BOOLEAN
    /\ Messages \in Nat \ {0} /\ Capacity \in Nat \ {0}
    /\ MaxDay \in Nat

VARIABLES
    phase,      \* where the loop is: select, sleeping, polling, storing,
                \* publishing, status, stopped
    next,       \* the collector to poll, or to export, next
    today,      \* the wall clock, in days
    light,      \* whether daylight::is_light holds now
    tick,       \* what tick() captured: [day, daily]
    lastDaily,  \* 1 + the day of Service.last_daily, 0 = None
    snapshot,   \* collector -> what its inverters hold: none, blank, bad (not
                \* convertible), new (this tick's) or old
    fresh,      \* collectors in fresh_cycle
    shown,      \* status_cycle: collector -> age of the data shown
    errors,     \* collectors that failed in this tick
    consumption,\* the collector whose site consumption is exported, 0 = None
    status,     \* the API's status: [polled, error, light, inverters]
    queue,      \* messages in the MQTT client's channel
    toPublish,  \* messages this tick still has to publish
    broker,     \* whether the MQTT broker can be reached
    term,       \* a SIGTERM waits in its stream
    int,        \* SIGINT: off (no handler yet), none, pending, lost
    stored,     \* history: collectors whose poll this tick wrote
    dailyDone   \* history: collector -> 1 + day of its last daily cycle

vars == <<phase, next, today, light, tick, lastDaily, snapshot, fresh, shown,
          errors, consumption, status, queue, toPublish, broker, term, int,
          stored, dailyDone>>

Phases == {"select", "sleeping", "polling", "storing", "publishing", "status",
           "stopped"}
Ages == {"none", "blank", "bad", "new", "old"}

TypeOK ==
    /\ phase \in Phases
    /\ next \in 1..(N + 1)
    /\ today \in 0..MaxDay
    /\ light \in BOOLEAN
    /\ tick \in [day : 0..MaxDay, daily : BOOLEAN]
    /\ lastDaily \in 0..(MaxDay + 1)
    /\ snapshot \in [Collectors -> Ages]
    /\ fresh \subseteq Collectors
    /\ shown \in [Collectors -> Ages]
    /\ errors \subseteq Collectors
    /\ consumption \in 0..N
    /\ status \in [polled : BOOLEAN, error : BOOLEAN, light : BOOLEAN,
                   inverters : [Collectors -> Ages]]
    /\ queue \in 0..Capacity
    /\ toPublish \in 0..(N * Messages)
    /\ broker \in BOOLEAN /\ term \in BOOLEAN
    /\ int \in {"off", "none", "pending", "lost"}
    /\ stored \subseteq Collectors
    /\ dailyDone \in [Collectors -> 0..(MaxDay + 1)]

(* start() queues the bridge's "online" message.                           *)
Announcement == IF Mqtt THEN 1 ELSE 0

NoneShown == [c \in Collectors |-> "none"]

Idle ==
    [polled |-> FALSE, error |-> FALSE, light |-> FALSE,
     inverters |-> NoneShown]

Init ==
    /\ phase = "select" /\ next = 1
    /\ today = 0 /\ light \in BOOLEAN
    /\ tick = [day |-> 0, daily |-> FALSE]
    /\ lastDaily = 0
    /\ snapshot = NoneShown
    /\ fresh = {} /\ shown = NoneShown /\ errors = {} /\ consumption = 0
    /\ status = Idle
    /\ queue = Announcement /\ toPublish = 0 /\ broker \in BOOLEAN
    /\ term = FALSE /\ int = "off"
    /\ stored = {}
    /\ dailyDone = [c \in Collectors |-> 0]

-----------------------------------------------------------------------------
(* run(): the select between the next tick and the two signals.            *)

tickVars == <<tick, snapshot, fresh, shown, errors, consumption>>
outVars == <<status, queue, toPublish, stored, dailyDone, lastDaily>>
world == <<today, light, broker>>

(* Mutant of EnterSelect: a signal that is already there waits for the     *)
(* sleep, and competes with it.                                            *)
EnterSelectAsleep ==
    /\ phase = "select"
    /\ phase' = "sleeping"
    /\ int' = IF int = "off" THEN "none" ELSE int
    /\ UNCHANGED <<next, tickVars, outVars, world, term>>

(* The first poll of a new select: the sleep is at least a second long, so *)
(* only a SIGTERM that came earlier can be ready.  ctrl_c() starts         *)
(* listening here: a SIGINT that came during the tick is not seen.         *)
EnterSelect ==
    /\ phase = "select"
    /\ phase' = IF term THEN "stopped" ELSE "sleeping"
    /\ int' = IF int = "off" THEN "none" ELSE int
    /\ UNCHANGED <<next, tickVars, outVars, world, term>>

Stop ==
    /\ phase = "sleeping"
    /\ term \/ int = "pending"
    /\ phase' = "stopped"
    /\ UNCHANGED <<next, tickVars, outVars, world, term, int>>

(* The locals of tick(), as it finds them at its start: those of the tick  *)
(* before went out of scope at its end.                                    *)
ClearTick ==
    /\ fresh' = {} /\ errors' = {} /\ shown' = NoneShown /\ stored' = {}
    /\ consumption' = 0

(* The sleep ends: the other branches are dropped, and with ctrl_c() a     *)
(* SIGINT that became ready together with the timer.  tick() starts with   *)
(* the daylight gate and decides what is due today.                        *)
Wake ==
    /\ phase = "sleeping"
    /\ int' = IF int = "pending" THEN "lost" ELSE int
    /\ status' = [status EXCEPT !.light = light]
    /\ IF ~light /\ ~PollAtNight
       THEN /\ phase' = "select"
            /\ UNCHANGED <<next, tickVars>>
       ELSE /\ phase' = "polling"
            /\ next' = 1
            /\ tick' = [day |-> today, daily |-> lastDaily # today + 1]
            /\ UNCHANGED <<fresh, shown, errors, consumption>>
            /\ snapshot' = [c \in Collectors |->
                   IF snapshot[c] = "new" THEN "old" ELSE snapshot[c]]
    /\ UNCHANGED <<queue, toPublish, stored, dailyDone, lastDaily, world, term>>

-----------------------------------------------------------------------------
(* tick(): one collector after the other.                                  *)

CycleOk(c, consumes) ==
    /\ phase = "polling" /\ c = next
    /\ snapshot' = [snapshot EXCEPT ![c] = "new"]
    /\ fresh' = fresh \cup {c}
    /\ shown' = [shown EXCEPT ![c] = "new"]
    /\ consumption' = IF consumption = 0 /\ consumes THEN c ELSE consumption
    /\ dailyDone' = IF tick.daily
                    THEN [dailyDone EXCEPT ![c] = tick.day + 1] ELSE dailyDone
    /\ next' = next + 1
    /\ UNCHANGED <<phase, tick, errors, status, queue, toPublish, stored,
                   lastDaily, world, term, int>>

(* A failed cycle shows what observations() still finds: before begin() the*)
(* old snapshot, after a failed login the rebuilt blank one, and nothing   *)
(* when the decoded values cannot be converted.                            *)
CycleErr(c, left) ==
    /\ phase = "polling" /\ c = next
    /\ \/ c \in Bluetooth /\ left = snapshot[c]
       \/ left \in {"blank", "bad"}
    /\ snapshot' = [snapshot EXCEPT ![c] = left]
    /\ errors' = errors \cup {c}
    /\ shown' = [shown EXCEPT ![c] = IF left = "bad" THEN "none" ELSE left]
    /\ next' = next + 1
    /\ UNCHANGED <<phase, tick, fresh, consumption, outVars, world, term, int>>

(* Mutant of DailyComplete: a failed collector's archives count as read.   *)
DailyTried == tick.daily

DailyComplete == tick.daily /\ errors = {}

(* After the last collector: last_daily only when every collector answered.*)
AllPolled ==
    /\ phase = "polling" /\ next = N + 1
    /\ IF fresh # {}
       THEN /\ lastDaily' = IF DailyComplete
                            THEN tick.day + 1 ELSE lastDaily
            /\ phase' = "storing" /\ next' = 1
       ELSE /\ phase' = "status"
            /\ UNCHANGED <<lastDaily, next>>
    /\ UNCHANGED <<tickVars, status, queue, toPublish, stored, dailyDone,
                   world, term, int>>

-----------------------------------------------------------------------------
(* export() and update_status().                                           *)

(* Mutant of Exported: the export is given status_cycle.                   *)
ExportedAll == {c \in Collectors : shown[c] # "none"}

(* export() is given fresh_cycle.                                          *)
Exported == fresh

(* The database writes of one collector's inverters; an error is logged.   *)
Store(c, ok) ==
    /\ phase = "storing" /\ c = next
    /\ stored' = IF ok /\ c \in Exported THEN stored \cup {c} ELSE stored
    /\ c \notin Exported => ok
    /\ next' = next + 1
    /\ UNCHANGED <<phase, tickVars, status, queue, toPublish, dailyDone,
                   lastDaily, world, term, int>>

(* Consumption and CSV, then the messages of the fresh inverters.          *)
Stored ==
    /\ phase = "storing" /\ next = N + 1
    /\ toPublish' = IF Mqtt THEN Cardinality(Exported) * Messages ELSE 0
    /\ phase' = IF Mqtt THEN "publishing" ELSE "status"
    /\ UNCHANGED <<next, tickVars, status, queue, stored, dailyDone, lastDaily,
                   world, term, int>>

(* client.publish().await: waits for a free slot in the channel.           *)
Publish ==
    /\ phase = "publishing"
    /\ IF toPublish = 0
       THEN phase' = "status" /\ UNCHANGED <<queue, toPublish>>
       ELSE /\ queue < Capacity
            /\ queue' = queue + 1
            /\ toPublish' = toPublish - 1
            /\ UNCHANGED phase
    /\ UNCHANGED <<next, tickVars, status, stored, dailyDone, lastDaily, world,
                   term, int>>

(* Mutant of UpdateStatus: an error is shown when no collector delivered.  *)
UpdateStatusAllFailed ==
    /\ phase = "status"
    /\ status' = [status EXCEPT !.polled = TRUE, !.error = fresh = {},
                                !.inverters = shown]
    /\ ClearTick
    /\ phase' = "select"
    /\ UNCHANGED <<next, tick, snapshot, queue, toPublish, dailyDone,
                   lastDaily, world, term, int>>

UpdateStatus ==
    /\ phase = "status"
    /\ status' = [status EXCEPT !.polled = TRUE, !.error = errors # {},
                                !.inverters = shown]
    /\ ClearTick
    /\ phase' = "select"
    /\ UNCHANGED <<next, tick, snapshot, queue, toPublish, dailyDone,
                   lastDaily, world, term, int>>

-----------------------------------------------------------------------------
(* The world: the client's event loop, the broker, daylight, the clock, the*)
(* signals, and a new process after a stop or a crash.                     *)

serviceVars == <<phase, next, tickVars, lastDaily, status, toPublish, stored,
                 dailyDone>>

EventLoop ==
    /\ broker /\ queue > 0
    /\ queue' = queue - 1
    /\ UNCHANGED <<serviceVars, world, term, int>>

BrokerChanges ==
    /\ Mqtt
    /\ broker' = ~broker
    /\ UNCHANGED <<serviceVars, queue, today, light, term, int>>

SunMoves ==
    /\ light' = ~light
    /\ UNCHANGED <<serviceVars, queue, today, broker, term, int>>

NextDay ==
    /\ today < MaxDay
    /\ today' = today + 1
    /\ UNCHANGED <<serviceVars, queue, light, broker, term, int>>

Sigterm ==
    /\ ~term /\ phase # "stopped"
    /\ term' = TRUE
    /\ UNCHANGED <<serviceVars, queue, world, int>>

(* Once ctrl_c() was polled Tokio's handler replaces the default one, and  *)
(* without a listener the signal is dropped.                               *)
Sigint ==
    /\ int = "none" /\ phase # "stopped"
    /\ int' = IF phase = "sleeping" THEN "pending" ELSE "lost"
    /\ UNCHANGED <<serviceVars, queue, world, term>>

Restart ==
    /\ phase' = "select" /\ next' = 1
    /\ tick' = [day |-> today, daily |-> FALSE]
    /\ lastDaily' = 0
    /\ snapshot' = NoneShown /\ fresh' = {} /\ shown' = NoneShown
    /\ errors' = {} /\ consumption' = 0 /\ stored' = {}
    /\ status' = Idle
    /\ queue' = Announcement /\ toPublish' = 0
    /\ term' = FALSE /\ int' = "off"
    /\ UNCHANGED <<dailyDone, world>>

ServiceStep ==
    \/ EnterSelect \/ Stop \/ Wake
    \/ \E c \in Collectors :
          \/ \E b \in BOOLEAN : CycleOk(c, b) \/ Store(c, b)
          \/ \E left \in Ages : CycleErr(c, left)
    \/ AllPolled \/ Stored \/ Publish \/ UpdateStatus

WorldStep == BrokerChanges \/ SunMoves \/ NextDay \/ Sigterm \/ Sigint

Next == ServiceStep \/ EventLoop \/ WorldStep \/ Restart

Spec == Init /\ [][Next]_vars

-----------------------------------------------------------------------------
(* A tick skips the daily archives only on a day on which every collector  *)
(* has already completed a cycle with them: a partial failure never counts *)
(* as done, and a tick that runs over midnight counts for the day it began.*)
DailyDue ==
    [][ phase = "sleeping" /\ phase' = "polling" /\ ~tick'.daily
        => \A c \in Collectors : dailyDone[c] = today + 1 ]_vars

(* Only what a collector delivered in this very tick reaches the database; *)
(* what a failed collector still holds goes no further than the status.    *)
StaleNeverStored ==
    [][ \A c \in stored' \ stored : snapshot[c] = "new" /\ c \notin errors ]_vars

(* Between ticks the status shows every inverter the collectors still know *)
(* at its true age, and it reports no error only if all of it is new.      *)
StatusIsHonest ==
    phase \in {"select", "sleeping"} /\ status.polled =>
        /\ \A c \in Collectors :
              status.inverters[c] = IF snapshot[c] = "bad" THEN "none"
                                    ELSE snapshot[c]
        /\ ~status.error => \A c \in Collectors : status.inverters[c] = "new"

(* The service's own steps keep being taken; MQTT's event loop runs on.    *)
FairSpec == Spec /\ WF_vars(ServiceStep) /\ WF_vars(EventLoop)

Stopped == phase = "stopped"

(* A SIGTERM ends the process after at most the tick that is running.      *)
SigtermStops == term ~> (Stopped \/ ~term)

(* The same with MQTT, if the broker can be reached from some time on.     *)
SigtermStopsWithBroker == <>[]broker => SigtermStops

=============================================================================
