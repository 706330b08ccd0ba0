-------------------------- MODULE PollService_proofs --------------------------
(***************************************************************************)
(* Theorems about PollService, for any number of collectors, any set of    *)
(* them on Bluetooth, any channel capacity and any number of days.         *)
(***************************************************************************)
EXTENDS PollService, FiniteSetTheorems, TLAPS

(* What the status shows of what a collector holds.                        *)
Seen(age) == IF age = "bad" THEN "none" ELSE age

(* The collectors this tick is through with.                               *)
Done == IF phase = "polling" THEN 1..(next - 1) ELSE Collectors

(* The days: last_daily and the histories never run ahead of the tick, nor *)
(* the tick ahead of the clock, and last_daily promises no collector more  *)
(* than it did.                                                            *)
DayInv ==
    /\ tick.day <= today
    /\ lastDaily <= tick.day + 1
    /\ \A c \in Collectors : dailyDone[c] <= tick.day + 1
    /\ lastDaily # 0 => \A c \in Collectors : dailyDone[c] >= lastDaily

(* Half way through a daily tick, a collector it is through with has either*)
(* failed or completed its archives.                                       *)
PolledInv ==
    phase = "polling" /\ tick.daily =>
        \A c \in Done : c \in errors \/ dailyDone[c] = tick.day + 1

(* fresh_cycle holds collectors this tick is through with, whose snapshot  *)
(* is this tick's and which did not fail.                                  *)
FreshInv ==
    /\ fresh \subseteq Done
    /\ errors \subseteq Done
    /\ \A c \in fresh : snapshot[c] = "new" /\ c \notin errors
    /\ phase \in {"select", "sleeping", "stopped"} => fresh = {} /\ errors = {}

(* status_cycle follows the collectors through the tick, and the status    *)
(* follows status_cycle.                                                   *)
ShownInv ==
    /\ phase \in {"polling", "storing", "publishing", "status"} =>
           \A c \in Done : /\ shown[c] = Seen(snapshot[c])
                           /\ c \notin errors => shown[c] = "new"
    /\ phase \in {"select", "sleeping"} /\ status.polled =>
           \A c \in Collectors :
               /\ status.inverters[c] = Seen(snapshot[c])
               /\ ~status.error => status.inverters[c] = "new"

ServiceInv == DayInv /\ PolledInv /\ FreshInv /\ ShownInv

-----------------------------------------------------------------------------
(* The messages of any set of fresh collectors fit the counter's range.    *)
LEMMA MessagesBounded ==
    ASSUME NEW S \in SUBSET Collectors
    PROVE  Cardinality(S) * Messages \in 0..(N * Messages)
<1>1. IsFiniteSet(Collectors) /\ Cardinality(Collectors) = N
  BY FS_Interval, ServiceAssumption DEF Collectors
<1>2. IsFiniteSet(S) /\ Cardinality(S) <= N
  BY <1>1, FS_Subset
<1>3. Cardinality(S) \in Nat
  BY <1>2, FS_CardinalityType
<1>4. ASSUME NEW k \in Nat, k <= N
      PROVE  k * Messages \in 0..(N * Messages)
  <2>1. k * Messages \in Nat /\ N * Messages \in Nat
    BY ServiceAssumption
  <2>2. PICK r \in Nat : N = k + r
    <3>1. N - k \in Nat /\ N = k + (N - k)
      BY <1>4, ServiceAssumption
    <3> QED BY <3>1
  <2>3. N * Messages = k * Messages + r * Messages /\ r * Messages \in Nat
    BY <2>2, ServiceAssumption
  <2> QED BY <2>1, <2>3
<1> QED BY <1>2, <1>3, <1>4

(* Every variable keeps its type: the loop's position, its queues and its  *)
(* histories stay in range for every number of collectors.                 *)
THEOREM TypeCorrect == Spec => []TypeOK
<1>1. Init => TypeOK
  <2> SUFFICES ASSUME Init PROVE TypeOK
    OBVIOUS
  <2>1. NoneShown \in [Collectors -> Ages]
    BY DEF NoneShown, Ages
  <2>2. status \in [polled : BOOLEAN, error : BOOLEAN, light : BOOLEAN,
                    inverters : [Collectors -> Ages]]
    BY <2>1 DEF Init, Idle
  <2>3. toPublish \in 0..(N * Messages) /\ queue \in 0..Capacity
    BY ServiceAssumption DEF Init, Announcement
  <2>4. next \in 1..(N + 1) /\ consumption \in 0..N
    BY ServiceAssumption DEF Init
  <2>5. /\ tick \in [day : 0..MaxDay, daily : BOOLEAN]
        /\ today \in 0..MaxDay /\ lastDaily \in 0..(MaxDay + 1)
        /\ stored \subseteq Collectors
        /\ dailyDone \in [Collectors -> 0..(MaxDay + 1)]
    BY ServiceAssumption DEF Init
  <2> QED BY <2>1, <2>2, <2>3, <2>4, <2>5 DEF Init, TypeOK, Phases
<1>2. TypeOK /\ [Next]_vars => TypeOK'
  <2> SUFFICES ASSUME TypeOK, [Next]_vars PROVE TypeOK'
    OBVIOUS
  <2>a. tick.day + 1 \in 0..(MaxDay + 1) /\ today + 1 \in Nat
    BY ServiceAssumption DEF TypeOK
  <2>b. NoneShown \in [Collectors -> Ages]
    BY DEF NoneShown, Ages
  <2>1. CASE EnterSelect
    BY <2>1 DEF EnterSelect, TypeOK, Phases, tickVars, outVars, world
  <2>2. CASE Stop
    BY <2>2 DEF Stop, TypeOK, Phases, tickVars, outVars, world
  <2>3. CASE Wake
    <3>1. status' \in [polled : BOOLEAN, error : BOOLEAN, light : BOOLEAN,
                       inverters : [Collectors -> Ages]]
      BY <2>3 DEF Wake, ClearTick, TypeOK
    <3>2. tick' \in [day : 0..MaxDay, daily : BOOLEAN]
      <4> DEFINE due == lastDaily # today + 1
      <4>1. due \in BOOLEAN
        OBVIOUS
      <4>2. today \in 0..MaxDay /\ tick \in [day : 0..MaxDay, daily : BOOLEAN]
        BY DEF TypeOK
      <4>3. \/ tick' = tick
            \/ tick' = [day |-> today, daily |-> due]
        BY <2>3 DEF Wake, ClearTick, tickVars
      <4> HIDE DEF due
      <4> QED BY <4>1, <4>2, <4>3
    <3>3. /\ snapshot' \in [Collectors -> Ages]
          /\ shown' \in [Collectors -> Ages]
      BY <2>3, <2>b DEF Wake, ClearTick, TypeOK, Ages, tickVars
    <3>4. /\ next' \in 1..(N + 1) /\ consumption' \in 0..N
          /\ fresh' \subseteq Collectors /\ errors' \subseteq Collectors
          /\ phase' \in Phases /\ int' \in {"off", "none", "pending", "lost"}
      BY <2>3, ServiceAssumption DEF Wake, ClearTick, TypeOK, Phases, tickVars
    <3> QED BY <2>3, <3>1, <3>2, <3>3, <3>4 DEF Wake, ClearTick, TypeOK, world
  <2>4. ASSUME NEW c \in Collectors, NEW b \in BOOLEAN, CycleOk(c, b)
        PROVE  TypeOK'
    <3>1. /\ next' \in 1..(N + 1) /\ consumption' \in 0..N
          /\ fresh' \subseteq Collectors
      BY <2>4, ServiceAssumption DEF CycleOk, TypeOK, Collectors
    <3>2. /\ snapshot' \in [Collectors -> Ages]
          /\ shown' \in [Collectors -> Ages]
          /\ dailyDone' \in [Collectors -> 0..(MaxDay + 1)]
      BY <2>4, <2>a DEF CycleOk, TypeOK, Ages
    <3> QED BY <2>4, <3>1, <3>2 DEF CycleOk, TypeOK, world
  <2>5. ASSUME NEW c \in Collectors, NEW b \in BOOLEAN, Store(c, b)
        PROVE  TypeOK'
    <3>1. next' \in 1..(N + 1)
      BY <2>5, ServiceAssumption DEF Store, Exported, TypeOK, Collectors
    <3>2. stored' \subseteq Collectors
      BY <2>5 DEF Store, Exported, TypeOK
    <3> QED BY <2>5, <3>1, <3>2 DEF Store, Exported, TypeOK, tickVars, world
  <2>6. ASSUME NEW c \in Collectors, NEW left \in Ages, CycleErr(c, left)
        PROVE  TypeOK'
    <3>1. next' \in 1..(N + 1) /\ errors' \subseteq Collectors
      BY <2>6, ServiceAssumption DEF CycleErr, TypeOK, Collectors
    <3>2. /\ snapshot' \in [Collectors -> Ages]
          /\ shown' \in [Collectors -> Ages]
      BY <2>6 DEF CycleErr, TypeOK, Ages
    <3> QED BY <2>6, <3>1, <3>2 DEF CycleErr, TypeOK, outVars, world
  <2>7. CASE AllPolled
    BY <2>7, <2>a, ServiceAssumption
    DEF AllPolled, DailyComplete, TypeOK, Phases, tickVars, world
  <2>8. CASE Stored
    <3>1. toPublish' \in 0..(N * Messages)
      <4>1. Cardinality(fresh) * Messages \in 0..(N * Messages)
        BY MessagesBounded DEF TypeOK
      <4>2. 0 \in 0..(N * Messages)
        BY ServiceAssumption
      <4> QED BY <2>8, <4>1, <4>2 DEF Stored, Exported
    <3> QED BY <2>8, <3>1 DEF Stored, Exported, TypeOK, Phases, tickVars, world
  <2>9. CASE Publish
    <3>1. toPublish' \in 0..(N * Messages) /\ queue' \in 0..Capacity
      <4>1. N * Messages \in Nat
        BY ServiceAssumption
      <4> QED BY <2>9, <4>1, ServiceAssumption DEF Publish, TypeOK
    <3> QED BY <2>9, <3>1 DEF Publish, TypeOK, Phases, tickVars, world
  <2>10. CASE UpdateStatus
    <3>1. status' \in [polled : BOOLEAN, error : BOOLEAN, light : BOOLEAN,
                       inverters : [Collectors -> Ages]]
      BY <2>10 DEF UpdateStatus, TypeOK
    <3>2. /\ shown' \in [Collectors -> Ages] /\ consumption' \in 0..N
          /\ fresh' \subseteq Collectors /\ errors' \subseteq Collectors
          /\ stored' \subseteq Collectors
      BY <2>10, <2>b, ServiceAssumption DEF UpdateStatus, ClearTick
    <3> QED BY <2>10, <3>1, <3>2 DEF UpdateStatus, TypeOK, Phases, world
  <2>11. CASE EventLoop
    BY <2>11, ServiceAssumption
    DEF EventLoop, TypeOK, serviceVars, tickVars, world
  <2>12. ASSUME BrokerChanges \/ SunMoves \/ Sigterm \/ Sigint
         PROVE  TypeOK'
    BY <2>12 DEF BrokerChanges, SunMoves, Sigterm, Sigint, TypeOK,
                 serviceVars, tickVars, world
  <2>13. CASE NextDay
    <3>1. today' \in 0..MaxDay
      BY <2>13, ServiceAssumption DEF NextDay, TypeOK
    <3> QED BY <2>13, <3>1 DEF NextDay, TypeOK, serviceVars, tickVars
  <2>14. CASE Restart
    <3>1. /\ status' \in [polled : BOOLEAN, error : BOOLEAN, light : BOOLEAN,
                          inverters : [Collectors -> Ages]]
          /\ snapshot' \in [Collectors -> Ages]
          /\ shown' \in [Collectors -> Ages]
      BY <2>14, <2>b DEF Restart, Idle
    <3>2. toPublish' \in 0..(N * Messages) /\ queue' \in 0..Capacity
      BY <2>14, ServiceAssumption DEF Restart, Announcement
    <3>3. tick' \in [day : 0..MaxDay, daily : BOOLEAN]
      BY <2>14 DEF Restart, TypeOK
    <3>4. /\ next' \in 1..(N + 1) /\ consumption' \in 0..N
          /\ lastDaily' \in 0..(MaxDay + 1)
      BY <2>14, ServiceAssumption DEF Restart
    <3> QED
      BY <2>14, <3>1, <3>2, <3>3, <3>4 DEF Restart, TypeOK, Phases, world
  <2>15. CASE UNCHANGED vars
    BY <2>15 DEF vars, TypeOK
  <2> QED
    BY <2>1, <2>2, <2>3, <2>4, <2>5, <2>6, <2>7, <2>8, <2>9, <2>10, <2>11,
       <2>12, <2>13, <2>14, <2>15 DEF Next, ServiceStep, WorldStep
<1> QED BY <1>1, <1>2, PTL DEF Spec

-----------------------------------------------------------------------------
(* What the four parts of the invariant cannot be disturbed by: the steps  *)
(* that leave the tick, the collectors' data and the status alone.         *)
Quiet ==
    /\ UNCHANGED <<tickVars, lastDaily, dailyDone>>
    /\ today' \in Nat /\ today <= today'

(* Every step but those of a tick itself and a restart is quiet.           *)
LEMMA QuietSteps ==
    ASSUME TypeOK,
           \/ EnterSelect \/ Stop \/ Stored \/ Publish
           \/ EventLoop \/ WorldStep \/ UNCHANGED vars
           \/ \E c \in Collectors, b \in BOOLEAN : Store(c, b)
    PROVE  Quiet
<1>1. today \in Nat
  BY ServiceAssumption DEF TypeOK
<1>2. CASE WorldStep
  BY <1>1, <1>2 DEF Quiet, WorldStep, BrokerChanges, SunMoves, NextDay,
                    Sigterm, Sigint, serviceVars, world
<1>3. CASE UNCHANGED vars
  BY <1>1, <1>3 DEF Quiet, vars, tickVars
<1> QED
  BY <1>1, <1>2, <1>3
  DEF Quiet, EnterSelect, Stop, Stored, Exported, Publish, EventLoop, Store,
      Exported, outVars, serviceVars, world

(* The days stay in step.                                                  *)
LEMMA DayStep ==
    ASSUME TypeOK, DayInv, PolledInv, [Next]_vars
    PROVE  DayInv'
<1>a. /\ tick.day \in Nat /\ today \in Nat /\ lastDaily \in Nat
      /\ \A c \in Collectors : dailyDone[c] \in Nat
  BY ServiceAssumption DEF TypeOK
<1>1. CASE Quiet
  BY <1>1, <1>a DEF Quiet, DayInv, tickVars
<1>2. CASE Wake
  <2>1. \/ tick' = tick
        \/ tick'.day = today
    BY <1>2 DEF Wake, ClearTick, tickVars
  <2> QED BY <1>2, <2>1, <1>a DEF Wake, ClearTick, DayInv, world
<1>3. ASSUME NEW c \in Collectors, NEW b \in BOOLEAN, CycleOk(c, b)
      PROVE  DayInv'
  <2>1. \A d \in Collectors :
            \/ dailyDone'[d] = dailyDone[d]
            \/ dailyDone'[d] = tick.day + 1
    BY <1>3 DEF CycleOk, TypeOK
  <2> QED BY <1>3, <2>1, <1>a DEF CycleOk, DayInv, world
<1>4. ASSUME NEW c \in Collectors, NEW left \in Ages, CycleErr(c, left)
      PROVE  DayInv'
  BY <1>4 DEF CycleErr, DayInv, outVars, world
<1>5. CASE AllPolled
  <2>1. CASE lastDaily' = lastDaily
    BY <1>5, <2>1 DEF AllPolled, DailyComplete, DayInv, tickVars, world
  <2>2. CASE lastDaily' # lastDaily
    <3>1. /\ phase = "polling" /\ next = N + 1 /\ tick.daily /\ errors = {}
          /\ lastDaily' = tick.day + 1
      BY <1>5, <2>2 DEF AllPolled, DailyComplete
    <3>2. Done = Collectors
      BY <3>1, ServiceAssumption DEF Done, Collectors
    <3>3. \A c \in Collectors : dailyDone[c] = tick.day + 1
      BY <3>1, <3>2 DEF PolledInv
    <3> QED
      BY <1>5, <3>1, <3>3, <1>a DEF AllPolled, DailyComplete, DayInv,
          tickVars, world
  <2> QED BY <2>1, <2>2
<1>6. CASE Restart
  BY <1>6, <1>a DEF Restart, DayInv, world
<1>7. CASE UpdateStatus
  BY <1>7 DEF UpdateStatus, DayInv, world
<1> QED
  BY <1>1, <1>2, <1>3, <1>4, <1>5, <1>6, <1>7, QuietSteps DEF Next, ServiceStep

(* Every collector a daily tick is through with failed or is up to date.   *)
LEMMA PolledStep ==
    ASSUME TypeOK, PolledInv, [Next]_vars
    PROVE  PolledInv'
<1>1. ASSUME Quiet, (phase' = "polling" => phase = "polling" /\ next' = next)
      PROVE  PolledInv'
  BY <1>1 DEF Quiet, PolledInv, Done, tickVars
<1>2. CASE Wake
  BY <1>2 DEF Wake, ClearTick, PolledInv, Done
<1>3. ASSUME NEW c \in Collectors, NEW b \in BOOLEAN, CycleOk(c, b)
      PROVE  PolledInv'
  <2>1. 1..(next' - 1) = 1..(next - 1) \cup {c}
    BY <1>3, ServiceAssumption DEF CycleOk, TypeOK
  <2>2. tick.daily => dailyDone'[c] = tick.day + 1
    BY <1>3 DEF CycleOk, TypeOK
  <2>3. \A d \in Collectors : d # c => dailyDone'[d] = dailyDone[d]
    BY <1>3 DEF CycleOk, TypeOK
  <2>4. 1..(next - 1) \subseteq Collectors
    BY ServiceAssumption DEF TypeOK, Collectors
  <2> QED BY <1>3, <2>1, <2>2, <2>3, <2>4 DEF CycleOk, PolledInv, Done
<1>4. ASSUME NEW c \in Collectors, NEW left \in Ages, CycleErr(c, left)
      PROVE  PolledInv'
  <2>1. 1..(next' - 1) = 1..(next - 1) \cup {c}
    BY <1>4, ServiceAssumption DEF CycleErr, TypeOK
  <2> QED BY <1>4, <2>1 DEF CycleErr, PolledInv, Done, outVars
<1>5. CASE AllPolled
  BY <1>5 DEF AllPolled, DailyComplete, PolledInv
<1>6. CASE Restart
  BY <1>6 DEF Restart, PolledInv
<1>7. ASSUME \/ EnterSelect \/ Stop \/ Stored \/ Publish
             \/ EventLoop \/ WorldStep \/ UNCHANGED vars
             \/ \E c \in Collectors, b \in BOOLEAN : Store(c, b)
      PROVE  phase' = "polling" => phase = "polling" /\ next' = next
  BY <1>7 DEF EnterSelect, Stop, Stored, Exported, Publish, EventLoop,
         WorldStep, BrokerChanges, SunMoves, NextDay, Sigterm, Sigint, Store,
         Exported,
         vars, serviceVars
<1>8. CASE UpdateStatus
  BY <1>8 DEF UpdateStatus, PolledInv
<1> QED
  BY <1>1, <1>2, <1>3, <1>4, <1>5, <1>6, <1>7, <1>8, QuietSteps
  DEF Next, ServiceStep

(* The fresh collectors are this tick's, and no failed one is among them.  *)
LEMMA FreshStep ==
    ASSUME TypeOK, FreshInv, [Next]_vars
    PROVE  FreshInv'
<1>a. Done \subseteq Collectors
  BY ServiceAssumption DEF Done, TypeOK, Collectors
<1>1. ASSUME Quiet, Done \subseteq Done',
             phase' \in {"select", "sleeping", "stopped"} =>
                 phase \in {"select", "sleeping", "stopped"}
      PROVE  FreshInv'
  BY <1>1 DEF Quiet, FreshInv, tickVars
<1>2. CASE Wake
  <2>1. CASE phase' = "polling"
    BY <1>2, <2>1 DEF Wake, ClearTick, FreshInv
  <2>2. CASE phase' # "polling"
    BY <1>2, <2>2 DEF Wake, ClearTick, FreshInv, Done,
        tickVars
  <2> QED BY <2>1, <2>2
<1>3. ASSUME NEW c \in Collectors, NEW b \in BOOLEAN, CycleOk(c, b)
      PROVE  FreshInv'
  <2>1. c \notin Done /\ Done' = Done \cup {c}
    BY <1>3, ServiceAssumption DEF CycleOk, TypeOK, Done
  <2>2. \A d \in Collectors :
            snapshot'[d] = IF d = c THEN "new" ELSE snapshot[d]
    BY <1>3 DEF CycleOk, TypeOK
  <2> QED
    BY <1>3, <2>1, <2>2, <1>a DEF CycleOk, FreshInv
<1>4. ASSUME NEW c \in Collectors, NEW left \in Ages, CycleErr(c, left)
      PROVE  FreshInv'
  <2>1. c \notin Done /\ Done' = Done \cup {c}
    BY <1>4, ServiceAssumption DEF CycleErr, TypeOK, Done
  <2>2. \A d \in Collectors : d # c => snapshot'[d] = snapshot[d]
    BY <1>4 DEF CycleErr, TypeOK
  <2> QED
    BY <1>4, <2>1, <2>2, <1>a DEF CycleErr, FreshInv
<1>5. CASE AllPolled
  BY <1>5, <1>a DEF AllPolled, DailyComplete, FreshInv,
      Done, tickVars
<1>6. CASE Restart
  BY <1>6 DEF Restart, FreshInv
<1>7. ASSUME \/ EnterSelect \/ Stop \/ Stored \/ Publish
             \/ EventLoop \/ WorldStep \/ UNCHANGED vars
             \/ \E c \in Collectors, b \in BOOLEAN : Store(c, b)
      PROVE  /\ Done \subseteq Done'
             /\ phase' \in {"select", "sleeping", "stopped"} =>
                    phase \in {"select", "sleeping", "stopped"}
  BY <1>7, <1>a DEF EnterSelect, Stop, Stored, Exported, Publish, EventLoop,
         WorldStep, BrokerChanges, SunMoves, NextDay, Sigterm,
         Sigint, Store, Exported, vars, serviceVars, Done
<1>8. CASE UpdateStatus
  BY <1>8 DEF UpdateStatus, ClearTick, FreshInv
<1> QED
  BY <1>1, <1>2, <1>3, <1>4, <1>5, <1>6, <1>7, <1>8, QuietSteps
  DEF Next, ServiceStep

(* The status tells of each collector what the collector holds.            *)
LEMMA ShownStep ==
    ASSUME TypeOK, ShownInv, [Next]_vars
    PROVE  ShownInv'
<1>a. Done \subseteq Collectors
  BY ServiceAssumption DEF Done, TypeOK, Collectors
<1>1. ASSUME Quiet, UNCHANGED status, Done' = Done,
             phase' \in {"polling", "storing", "publishing", "status"} =>
                 phase \in {"polling", "storing", "publishing", "status"},
             phase' \in {"select", "sleeping"} => phase \in {"select",
             "sleeping"}
      PROVE  ShownInv'
  BY <1>1 DEF Quiet, ShownInv, tickVars
<1>2. CASE Wake
  <2>1. CASE phase' = "polling"
    BY <1>2, <2>1 DEF Wake, ClearTick, ShownInv, Done
  <2>2. CASE phase' # "polling"
    <3>1. status'.polled = status.polled /\ status'.error = status.error
          /\ status'.inverters = status.inverters
      BY <1>2 DEF Wake, ClearTick, TypeOK
    <3>2. phase' = "select" /\ phase = "sleeping" /\ snapshot' = snapshot
      BY <1>2, <2>2 DEF Wake, ClearTick, tickVars
    <3> QED BY <3>1, <3>2 DEF ShownInv
  <2> QED BY <2>1, <2>2
<1>3. ASSUME NEW c \in Collectors, NEW b \in BOOLEAN, CycleOk(c, b)
      PROVE  ShownInv'
  <2>1. Done' = Done \cup {c}
    BY <1>3, ServiceAssumption DEF CycleOk, TypeOK, Done
  <2>2. \A d \in Collectors :
            /\ snapshot'[d] = IF d = c THEN "new" ELSE snapshot[d]
            /\ shown'[d] = IF d = c THEN "new" ELSE shown[d]
    BY <1>3 DEF CycleOk, TypeOK
  <2> QED BY <1>3, <2>1, <2>2, <1>a DEF CycleOk, ShownInv, Seen
<1>4. ASSUME NEW c \in Collectors, NEW left \in Ages, CycleErr(c, left)
      PROVE  ShownInv'
  <2>1. Done' = Done \cup {c}
    BY <1>4, ServiceAssumption DEF CycleErr, TypeOK, Done
  <2>2. \A d \in Collectors :
            /\ snapshot'[d] = IF d = c THEN left ELSE snapshot[d]
            /\ shown'[d] = IF d = c THEN Seen(left) ELSE shown[d]
    BY <1>4 DEF CycleErr, TypeOK, Seen
  <2> QED BY <1>4, <2>1, <2>2, <1>a DEF CycleErr, ShownInv
<1>5. CASE AllPolled
  <2>1. Done' = Done
    BY <1>5, ServiceAssumption DEF AllPolled, DailyComplete, Done, Collectors
  <2> QED BY <1>5, <2>1 DEF AllPolled, DailyComplete, ShownInv, tickVars
<1>6. CASE UpdateStatus
  <2>1. Done = Collectors
    BY <1>6 DEF UpdateStatus, Done
  <2>2. status'.error = (errors # {}) /\ status'.inverters = shown
    BY <1>6 DEF UpdateStatus, TypeOK
  <2> QED BY <1>6, <2>1, <2>2 DEF UpdateStatus, ShownInv
<1>7. CASE Restart
  BY <1>7 DEF Restart, ShownInv, Idle
<1>8. ASSUME \/ EnterSelect \/ Stop \/ Stored \/ Publish \/ EventLoop
             \/ WorldStep \/ UNCHANGED vars
             \/ \E c \in Collectors, b \in BOOLEAN : Store(c, b)
      PROVE  ShownInv'
  <2>1. UNCHANGED status /\ Done' = Done
    BY <1>8 DEF EnterSelect, Stop, Stored, Exported, Publish, EventLoop,
        WorldStep,
           BrokerChanges, SunMoves, NextDay, Sigterm, Sigint, Store, Exported,
           vars,
           outVars, serviceVars, Done
  <2>2. /\ phase' \in {"polling", "storing", "publishing", "status"} =>
               phase \in {"polling", "storing", "publishing", "status"}
        /\ phase' \in {"select", "sleeping"} => phase \in {"select", "sleeping"}
    BY <1>8 DEF EnterSelect, Stop, Stored, Exported, Publish, EventLoop,
        WorldStep,
           BrokerChanges, SunMoves, NextDay, Sigterm, Sigint, Store, Exported,
           vars,
           outVars, serviceVars
  <2> QED BY <1>1, <1>8, <2>1, <2>2, QuietSteps
<1> QED
  BY <1>2, <1>3, <1>4, <1>5, <1>6, <1>7, <1>8 DEF Next, ServiceStep

-----------------------------------------------------------------------------
(* The four parts hold together in every reachable state.                  *)
THEOREM Invariance == Spec => []ServiceInv
<1>1. Init => ServiceInv
  <2> SUFFICES ASSUME Init PROVE ServiceInv
    OBVIOUS
  <2>1. DayInv
    BY DEF Init, DayInv
  <2>2. PolledInv /\ FreshInv /\ ShownInv
    BY DEF Init, PolledInv, FreshInv, ShownInv, Idle
  <2> QED BY <2>1, <2>2 DEF ServiceInv
<1>2. TypeOK /\ ServiceInv /\ [Next]_vars => ServiceInv'
  BY DayStep, PolledStep, FreshStep, ShownStep DEF ServiceInv
<1> QED BY <1>1, <1>2, TypeCorrect, PTL DEF Spec

(* A tick skips the daily archives only when every collector has completed *)
(* a cycle with them today.                                                *)
THEOREM ArchivesAreDue == Spec => DailyDue
<1>1. ASSUME TypeOK, ServiceInv, [Next]_vars
      PROVE  [phase = "sleeping" /\ phase' = "polling" /\ ~tick'.daily
              => \A c \in Collectors : dailyDone[c] = today + 1]_vars
  <2> SUFFICES ASSUME phase = "sleeping", phase' = "polling", ~tick'.daily,
                      NEW c \in Collectors
               PROVE  dailyDone[c] = today + 1
    OBVIOUS
  <2>1. Wake
    BY <1>1 DEF Next, ServiceStep, EnterSelect, Stop, CycleOk, CycleErr,
        Store, Exported,
       AllPolled, DailyComplete, Stored, Exported, Publish, UpdateStatus,
       EventLoop, WorldStep,
       BrokerChanges, SunMoves, NextDay, Sigterm, Sigint, Restart, vars,
       serviceVars
  <2>2. lastDaily = today + 1
    <3> DEFINE due == lastDaily # today + 1
    <3>1. tick' = [day |-> today, daily |-> due]
      BY <2>1 DEF Wake, ClearTick
    <3>2. due => tick'.daily
      <4> HIDE DEF due
      <4> QED BY <3>1
    <3> QED BY <3>2
  <2>3. /\ tick.day \in Nat /\ today \in Nat /\ dailyDone[c] \in Nat
    BY <1>1, ServiceAssumption DEF TypeOK
  <2>4. /\ dailyDone[c] >= lastDaily
        /\ dailyDone[c] <= tick.day + 1 /\ tick.day <= today
    BY <1>1, <2>2, <2>3 DEF ServiceInv, DayInv
  <2> QED BY <2>2, <2>3, <2>4
<1> QED BY <1>1, TypeCorrect, Invariance, PTL DEF Spec, DailyDue

(* Only what was delivered in this very tick, by a collector that did not  *)
(* fail in it, is written to the database.                                 *)
THEOREM OnlyFreshIsStored == Spec => StaleNeverStored
<1>1. ASSUME TypeOK, ServiceInv, [Next]_vars
      PROVE  [\A c \in stored' \ stored :
                  snapshot[c] = "new" /\ c \notin errors]_vars
  <2> SUFFICES ASSUME NEW c \in stored' \ stored
               PROVE  snapshot[c] = "new" /\ c \notin errors
    OBVIOUS
  <2>1. \E d \in Collectors, b \in BOOLEAN : Store(d, b)
    BY <1>1 DEF Next, ServiceStep, EnterSelect, Stop, Wake, ClearTick,
        CycleOk, CycleErr,
       AllPolled, DailyComplete, Stored, Exported, Publish, UpdateStatus,
       EventLoop, WorldStep,
       BrokerChanges, SunMoves, NextDay, Sigterm, Sigint, Restart, vars,
       serviceVars, outVars
  <2>2. c \in fresh
    BY <1>1, <2>1 DEF Store, Exported, TypeOK
  <2> QED BY <1>1, <2>2 DEF ServiceInv, FreshInv
<1> QED BY <1>1, TypeCorrect, Invariance, PTL DEF Spec, StaleNeverStored

(* Between ticks the status is what the collectors hold.                   *)
THEOREM StatusHonest == Spec => []StatusIsHonest
<1>1. ServiceInv => StatusIsHonest
  BY DEF ServiceInv, ShownInv, StatusIsHonest, Seen
<1> QED BY <1>1, Invariance, PTL
=============================================================================
