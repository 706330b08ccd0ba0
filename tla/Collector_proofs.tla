-------------------------- MODULE Collector_proofs --------------------------
(***************************************************************************)
(* Proofs about Collector, for any inverters, queries, archive depths and  *)
(* refusals: what a cycle returns was heard in it, a query is skipped only *)
(* when it was refused, and asked only when it was not.                    *)
(***************************************************************************)
EXTENDS Collector, TLAPS

(* The loops stay inside their sequences.                                  *)
LoopInv ==
    /\ pc \in {"clock", "spot"} => at <= Len(Sequence)
    /\ pc = "month" => at <= Months /\ group = 1
    /\ pc = "event" => at <= EventMonths
    /\ refusedOn \in [Serials -> [Kinds -> Nat]]

TypeInv == TypeOK /\ LoopInv

-----------------------------------------------------------------------------
(* The constants.                                                          *)

LEMMA SequenceType ==
    /\ SpotQueries \in Seq(Kinds) /\ Len(SpotQueries) >= 1
    /\ ProbeOrder \in Seq(Kinds) /\ Len(ProbeOrder) >= 1
    /\ Len(Groups) \in Nat /\ Len(Groups) >= 1
    /\ ArchiveKinds \subseteq Kinds /\ "ETodayFallback" \in Kinds
<1>1. SpotQueries \in Seq(Kinds) /\ Len(SpotQueries) >= 1
  BY CollectorAssumption
<1>2. ProbeOrder \in Seq(Kinds) /\ Len(ProbeOrder) >= 1
  <2>1. \A i \in 1..3 : ProbeOrder[i] \in Kinds
    BY CollectorAssumption DEF ProbeOrder
  <2> QED
    BY <2>1 DEF ProbeOrder
<1>3. Len(Groups) \in Nat /\ Len(Groups) >= 1
  <2>1. CASE Groups = <<"user">>
    BY <2>1
  <2>2. CASE Groups = <<"user", "installer">>
    BY <2>2
  <2> QED
    BY <2>1, <2>2, CollectorAssumption
<1>4. ArchiveKinds \subseteq Kinds /\ "ETodayFallback" \in Kinds
  BY CollectorAssumption
<1> QED
  BY <1>1, <1>2, <1>3, <1>4

LEMMA GroupsType == Len(Groups) \in Nat /\ 1 \in 1..Len(Groups)
BY SequenceType

LEMMA SequenceIsType ==
    Sequence \in Seq(Kinds) /\ Len(Sequence) >= 1
<1>1. CASE mode = "probe"
  BY <1>1, SequenceType DEF Sequence
<1>2. CASE mode # "probe"
  BY <1>2, SequenceType DEF Sequence
<1> QED
  BY <1>1, <1>2

LastType == [kind : Kinds \cup Steps, outcome : Outcomes, sent : BOOLEAN]

LEMMA RecordTypes ==
    ASSUME TypeInv, NEW kind \in Kinds \cup Steps, NEW outcome \in Outcomes,
           NEW sent \in BOOLEAN, Record(kind, outcome, sent)
    PROVE  last' \in LastType
<1>1. last \in LastType
  BY DEF TypeInv, TypeOK, LastType
<1>2. Transmission(kind, outcome, sent) \in LastType
  BY DEF Transmission, LastType
<1> QED
  BY <1>1, <1>2 DEF Record

(* What one request does to the memory of refusals and the records.        *)
LEMMA RequestTypes ==
    ASSUME TypeInv, NEW kind \in Kinds, NEW A \in SUBSET devices,
           Request(kind, A)
    PROVE  /\ StoreTypeOK'
           /\ refused' \in [Serials -> SUBSET Kinds]
           /\ refusedOn' \in [Serials -> [Kinds -> Nat]]
           /\ last' \in LastType
<1>1. CASE \E R \in SUBSET (devices \ A) : Answered(kind, A, R)
  <2> PICK R \in SUBSET (devices \ A) : Answered(kind, A, R)
    BY <1>1
  <2>1. last' \in LastType
    BY RecordTypes DEF Answered, Outcomes
  <2>2. CASE HasStore
    <3>1. RememberRefusals(kind, R) /\ R \subseteq Serials
      BY <2>2 DEF Answered, TypeInv, TypeOK
    <3>2. today + 1 \in Nat
      BY StoreAssumption DEF TypeInv, TypeOK, StoreTypeOK
    <3>3. StoreTypeOK'
      BY <3>1 DEF RememberRefusals, Remember, TypeInv, TypeOK, StoreTypeOK, Row
    <3>4. refused' \in [Serials -> SUBSET Kinds]
      BY <3>1 DEF RememberRefusals, TypeInv, TypeOK
    <3>5. refusedOn' \in [Serials -> [Kinds -> Nat]]
      BY <3>1, <3>2 DEF RememberRefusals, TypeInv, LoopInv
    <3> QED
      BY <2>1, <3>3, <3>4, <3>5
  <2>3. CASE ~HasStore
    BY <2>1, <2>3 DEF Answered, KeepRefusals, storeVars, TypeInv, TypeOK,
                      LoopInv, StoreTypeOK
  <2> QED
    BY <2>2, <2>3
<1>2. CASE Skipped(kind) \/ Failed(kind)
  <2>1. last' \in LastType
    BY <1>2, RecordTypes DEF Skipped, Failed, Outcomes
  <2> QED
    BY <1>2, <2>1 DEF Skipped, Failed, KeepRefusals, storeVars, TypeInv,
                      TypeOK, LoopInv, StoreTypeOK
<1> QED
  BY <1>1, <1>2 DEF Request

LEMMA DecodeTypes ==
    ASSUME TypeInv, NEW A, NEW kinds \in SUBSET Kinds,
           NEW events \in SUBSET ((1..EventMonths) \X (1..Len(Groups))),
           Decode(A, kinds, events)
    PROVE  /\ DOMAIN inverters' = DOMAIN inverters
           /\ \A s \in DOMAIN inverters' : inverters'[s] \in InverterData
<1>1. DOMAIN inverters' = DOMAIN inverters
  BY DEF Decode
<1>2. ASSUME NEW s \in DOMAIN inverters
      PROVE  inverters'[s] \in InverterData
  <2>1. inverters[s] \in InverterData
    BY DEF TypeInv, TypeOK
  <2>2. [inverters[s] EXCEPT !.got = @ \cup kinds, !.events = @ \cup events]
          \in InverterData
    BY <2>1 DEF InverterData
  <2> QED
    BY <2>1, <2>2 DEF Decode
<1> QED
  BY <1>1, <1>2

-----------------------------------------------------------------------------
(* Types.                                                                  *)

LEMMA AfterSpotType ==
    ASSUME NEW i \in Nat
    PROVE  /\ AfterSpot(i) \in {"spot", "end", "day", "offsets"}
           /\ AfterSpot(i) = "spot" => i <= Len(Sequence)
BY DEF AfterSpot

LEMMA StoreStepTypes ==
    ASSUME TypeInv, StoreStep \/ OperatorClears \/ Restart
    PROVE  StoreTypeOK'
<1>1. CASE StoreStep
  <2>1. CASE \E w \in writes : WriteLands(w) \/ WriteFails(w)
    BY <2>1 DEF WriteLands, WriteFails, TypeInv, TypeOK, StoreTypeOK
  <2>2. CASE NextDay
    BY <2>2, StoreAssumption DEF NextDay, TypeInv, TypeOK, StoreTypeOK
  <2> QED
    BY <1>1, <2>1, <2>2 DEF StoreStep
<1>2. CASE OperatorClears
  BY <1>2 DEF OperatorClears, ClearQuerySupport, TypeInv, TypeOK, StoreTypeOK
<1>3. CASE Restart
  <2>1. Load \in [Serials -> SUBSET Kinds]
    BY DEF Load, TypeInv, TypeOK, StoreTypeOK, Row
  <2>2. NothingRefused \in [Serials -> SUBSET Kinds]
    BY DEF NothingRefused
  <2> QED
    BY <1>3, <2>1, <2>2 DEF Restart, StoreRestart, TypeInv, TypeOK, StoreTypeOK
<1> QED
  BY <1>1, <1>2, <1>3

LEMMA InitTypes == Init => TypeInv
<1> SUFFICES ASSUME Init PROVE TypeInv
  OBVIOUS
<1>1. last \in LastType
  BY DEF Init, Transmission, LastType, Steps, Outcomes
<1>2. StoreTypeOK
  BY StoreAssumption DEF Init, StoreInit, NothingRefused, StoreTypeOK
<1>3. devices \subseteq Serials
  BY CollectorAssumption DEF Init
<1>4. LoopInv
  BY DEF Init, LoopInv
<1>5. /\ at \in Nat \ {0} /\ group \in 1..Len(Groups)
      /\ DOMAIN inverters = {}
  BY GroupsType DEF Init
<1> QED
  BY <1>1, <1>2, <1>3, <1>4, <1>5 DEF Init, TypeInv, TypeOK, LastType, PCs

LEMMA SessionTypes ==
    ASSUME TypeInv,
           \/ \E d \in BOOLEAN : \/ BeginFails(d)
                                 \/ \E D \in DeviceSets : Begin(d, D)
           \/ LoginFails \/ Login \/ ClockSync \/ End
    PROVE  TypeInv'
<1> USE DEF TypeInv, TypeOK, LoopInv, PCs
<1>0. StoreTypeOK'
  BY DEF BeginFails, Begin, LoginFails, Login, ClockSync, End, storeVars,
         StoreTypeOK
<1>1. last' \in LastType
  BY RecordTypes DEF BeginFails, Begin, LoginFails, Login, ClockSync, End,
                     Steps, Outcomes
<1>2. ASSUME NEW d \in BOOLEAN, BeginFails(d) PROVE TypeInv'
  BY <1>0, <1>1, <1>2 DEF BeginFails, LastType, Sequence
<1>3. ASSUME NEW d \in BOOLEAN, NEW D \in DeviceSets, Begin(d, D)
      PROVE  TypeInv'
  <2>1. D \subseteq Serials
    BY CollectorAssumption
  <2>2. \A s \in D : Unsupported(s) \in SUBSET Kinds
    BY <2>1 DEF Unsupported, StoreTypeOK
  <2>3. refused' \in [Serials -> SUBSET Kinds]
    BY <1>3, <2>2 DEF Begin, LoadRefusals
  <2>4. Blank \in InverterData
    BY CollectorAssumption DEF Blank, InverterData
  <2>5. /\ DOMAIN inverters' \subseteq Serials
        /\ \A s \in DOMAIN inverters' : inverters'[s] \in InverterData
    BY <1>3, <2>1, <2>4 DEF Begin, RebuildInverters
  <2> QED
    BY <1>0, <1>1, <1>3, <2>1, <2>3, <2>5 DEF Begin, LastType
<1>4. CASE LoginFails
  BY <1>0, <1>1, <1>4 DEF LoginFails, LastType
<1>5. CASE Login
  <2>1. 1 <= Len(Sequence')
    BY <1>5, SequenceIsType DEF Login, Sequence
  <2> QED
    BY <1>0, <1>1, <1>5, <2>1 DEF Login, LastType
<1>6. CASE ClockSync
  BY <1>0, <1>1, <1>6 DEF ClockSync, LastType, Sequence
<1>7. CASE End
  BY <1>0, <1>1, <1>7, SequenceType DEF End, LastType
<1> QED
  BY <1>2, <1>3, <1>4, <1>5, <1>6, <1>7

LEMMA SpotTypes ==
    ASSUME TypeInv,
           \/ \E A \in SUBSET devices :
                 \/ SpotQuery(A)
                 \/ \E H \in SUBSET A : ETodayFallback(A, H)
           \/ SpotNotWanted \/ NoETodayFallback
    PROVE  TypeInv'
<1> USE DEF TypeInv, TypeOK, LoopInv, PCs
<1>1. ASSUME NEW A \in SUBSET devices, SpotQuery(A) PROVE TypeInv'
  <2>1. Sequence[at] \in Kinds
    BY <1>1, SequenceIsType DEF SpotQuery
  <2>2. Request(Sequence[at], A) /\ Decode(A, {Sequence[at]}, {})
    BY <1>1 DEF SpotQuery
  <2>3. /\ \A s \in DOMAIN inverters' : inverters'[s] \in InverterData
        /\ DOMAIN inverters' \subseteq Serials
    BY <2>1, <2>2, DecodeTypes
  <2>4. /\ pc' \in PCs
        /\ pc' \notin {"clock", "month", "event"}
        /\ pc' = "spot" => at + 1 <= Len(Sequence)
    BY <1>1, AfterSpotType DEF SpotQuery
  <2>5. Sequence' = Sequence
    BY <1>1 DEF SpotQuery, SpotUnchanged, Sequence
  <2> QED
    <3>1. at' = at + 1 /\ at' \in Nat \ {0}
      BY <1>1 DEF SpotQuery
    <3>2. /\ StoreTypeOK' /\ last' \in LastType
          /\ refused' \in [Serials -> SUBSET Kinds]
          /\ refusedOn' \in [Serials -> [Kinds -> Nat]]
      BY <2>1, <2>2, RequestTypes
    <3>3. LoopInv'
      BY <2>4, <2>5, <3>1, <3>2
    <3> QED
      BY <1>1, <2>3, <2>4, <3>1, <3>2, <3>3
      DEF SpotQuery, SpotUnchanged, LastType
<1>2. ASSUME NEW A \in SUBSET devices, NEW H \in SUBSET A,
             ETodayFallback(A, H)
      PROVE  TypeInv'
  <2>1. Request("ETodayFallback", A) /\ Decode(H \cap NeedsEToday, {"ETodayFallback"}, {})
    BY <1>2 DEF ETodayFallback
  <2>2. /\ \A s \in DOMAIN inverters' : inverters'[s] \in InverterData
        /\ DOMAIN inverters' \subseteq Serials
    BY <2>1, DecodeTypes, SequenceType
  <2>3. /\ pc' \in PCs
        /\ pc' \notin {"clock", "month", "event"}
        /\ pc' = "spot" => at <= Len(Sequence)
    BY <1>2, AfterSpotType DEF ETodayFallback
  <2>4. Sequence' = Sequence
    BY <1>2 DEF ETodayFallback, SpotUnchanged, Sequence
  <2> QED
    BY <1>2, <2>1, <2>2, <2>3, <2>4, RequestTypes, SequenceType
    DEF ETodayFallback, SpotUnchanged, LastType
<1>3. CASE SpotNotWanted
  <2>1. /\ pc' \in PCs
        /\ pc' \notin {"clock", "month", "event"}
        /\ pc' = "spot" => at + 1 <= Len(Sequence)
    BY <1>3, AfterSpotType DEF SpotNotWanted
  <2> QED
    BY <1>3, <2>1 DEF SpotNotWanted, SpotUnchanged, KeepRefusals, storeVars,
                      StoreTypeOK, Sequence
<1>4. CASE NoETodayFallback
  <2>1. /\ pc' \in PCs
        /\ pc' \notin {"clock", "month", "event"}
        /\ pc' = "spot" => at <= Len(Sequence)
    BY <1>4, AfterSpotType DEF NoETodayFallback
  <2> QED
    BY <1>4, <2>1 DEF NoETodayFallback, SpotUnchanged, KeepRefusals,
                      storeVars, StoreTypeOK, Sequence
<1> QED
  BY <1>1, <1>2, <1>3, <1>4

(* What the day and month archives do, with their Boolean fields named.    *)
DayControl(A, H) ==
    /\ pc = "day" /\ Request("DayArchive", A) /\ pc' = AfterDay
    /\ at' = 1 /\ group' = 1 /\ eof' = {}
    /\ UNCHANGED <<offsets, probed, wobbled, asked>>
    /\ ArchiveUnchanged /\ Hear(H, "DayArchive", 0)
    /\ DOMAIN inverters' = DOMAIN inverters

MonthControl(A, H) ==
    /\ pc = "month" /\ Request("MonthArchive", A)
    /\ UNCHANGED <<group, offsets, probed, wobbled, eof, asked>>
    /\ ArchiveUnchanged /\ Hear(H, "MonthArchive", at)
    /\ IF at < Months THEN at' = at + 1 /\ pc' = "month"
                      ELSE at' = 1 /\ pc' = AfterMonths
    /\ DOMAIN inverters' = DOMAIN inverters

WithDay(s, b) == [inverters[s] EXCEPT !.day = b]
WithMonth(s, n, b) == [inverters[s] EXCEPT !.month = n, !.aligned = b]

LEMMA WithDayType ==
    ASSUME NEW s, inverters[s] \in InverterData, NEW b \in BOOLEAN
    PROVE  WithDay(s, b) \in InverterData
BY Zenon DEF InverterData, WithDay

LEMMA WithMonthType ==
    ASSUME NEW s, inverters[s] \in InverterData, NEW n \in 0..Months,
           NEW b \in BOOLEAN
    PROVE  WithMonth(s, n, b) \in InverterData
BY Zenon DEF InverterData, WithMonth

LEMMA DayEffect ==
    ASSUME NEW A, NEW H, FetchDay(A, H)
    PROVE  DayControl(A, H)
BY Zenon DEF FetchDay, DayControl

LEMMA MonthEffect ==
    ASSUME NEW A, NEW H, FetchMonth(A, H)
    PROVE  MonthControl(A, H)
BY Zenon DEF FetchMonth, MonthControl

LEMMA DayDecoded ==
    ASSUME NEW A, NEW H, FetchDay(A, H), NEW s \in DOMAIN inverters
    PROVE  \/ s \notin A /\ inverters'[s] = inverters[s]
           \/ \E b \in BOOLEAN : (b => s \in H) /\ inverters'[s] = WithDay(s, b)
<1>1. inverters'[s] = IF s \in A THEN WithDay(s, s \in H) ELSE inverters[s]
  BY Zenon DEF FetchDay, WithDay
<1>2. (s \in H) \in BOOLEAN
  OBVIOUS
<1> QED
  BY <1>1, <1>2, Zenon

LEMMA MonthDecoded ==
    ASSUME NEW A, NEW H, FetchMonth(A, H), NEW s \in DOMAIN inverters
    PROVE  \/ s \notin A /\ inverters'[s] = inverters[s]
           \/ \E b \in BOOLEAN :
                 /\ s \in Wobbling /\ offsets[s] = "shift" => b
                 /\ \/ s \in H /\ inverters'[s] = WithMonth(s, at, b)
                    \/ s \notin H /\ inverters'[s] = WithMonth(s, 0, b)
<1> DEFINE b == s \notin H \/ (offsets[s] = "shift") = (s \in Wobbling)
<1>1. inverters'[s] =
          IF s \in A THEN WithMonth(s, IF s \in H THEN at ELSE 0, b)
                     ELSE inverters[s]
  BY Zenon DEF FetchMonth, WithMonth
<1>2. b \in BOOLEAN
  OBVIOUS
<1>3. s \in Wobbling /\ offsets[s] = "shift" => b
  OBVIOUS
<1>4. CASE s \in H
  BY <1>1, <1>2, <1>3, <1>4, Zenon
<1>5. CASE s \notin H
  BY <1>1, <1>2, <1>3, <1>5, Zenon
<1> QED
  BY <1>4, <1>5

RequestTyped ==
    /\ StoreTypeOK' /\ last' \in LastType
    /\ refused' \in [Serials -> SUBSET Kinds]
    /\ refusedOn' \in [Serials -> [Kinds -> Nat]]

LEMMA ArchiveRequestTypes ==
    ASSUME TypeInv, NEW A \in SUBSET devices,
           \E kind \in ArchiveKinds : Request(kind, A)
    PROVE  RequestTyped
BY RequestTypes, SequenceType DEF RequestTyped

LEMMA ArchiveTypes ==
    ASSUME TypeInv, NEW A \in SUBSET devices, NEW H \in SUBSET A,
           \/ ProbeMonthOffsets(A, H) \/ FetchDay(A, H)
           \/ FetchMonth(A, H) \/ FetchEvents(A, H)
    PROVE  TypeInv'
<1> USE DEF TypeInv, TypeOK, LoopInv, PCs
<1>0. Months \in Nat /\ EventMonths \in Nat
  BY CollectorAssumption
<1>1. CASE ProbeMonthOffsets(A, H)
  <2>1. offsets' \in [Serials -> {"unknown", "none", "shift"}]
    BY <1>1 DEF ProbeMonthOffsets, OffsetAfterProbe
  <2>2. Request("MonthOffsetProbe", A)
    BY <1>1 DEF ProbeMonthOffsets
  <2> QED
    BY <1>1, <2>1, <2>2, RequestTypes, SequenceType
    DEF ProbeMonthOffsets, ArchiveUnchanged, ArchiveKinds, LastType
<1>2. CASE FetchDay(A, H)
  <2>1. DayControl(A, H)
    BY <1>2, DayEffect
  <2>2. ASSUME NEW s \in DOMAIN inverters
        PROVE  inverters'[s] \in InverterData
    <3>1. \A b \in BOOLEAN : WithDay(s, b) \in InverterData
      BY WithDayType
    <3> QED
      BY <1>2, <3>1, DayDecoded
  <2>3. /\ \A s \in DOMAIN inverters' : inverters'[s] \in InverterData
        /\ DOMAIN inverters' \subseteq Serials
    BY <2>1, <2>2 DEF DayControl
  <2>4. pc' \in PCs /\ pc' \notin {"clock", "spot"}
    BY <2>1 DEF DayControl, AfterDay, AfterMonths
  <2>5. (pc' = "month" => Months > 0) /\ (pc' = "event" => EventMonths > 0)
    BY <2>1 DEF DayControl, AfterDay, AfterMonths
  <2>6. RequestTyped
    BY <2>1, ArchiveRequestTypes DEF DayControl, ArchiveKinds
  <2> QED
    BY <1>0, <2>1, <2>3, <2>4, <2>5, <2>6, GroupsType
    DEF DayControl, ArchiveUnchanged, RequestTyped, LastType
<1>3. CASE FetchMonth(A, H)
  <2>1. MonthControl(A, H)
    BY <1>3, MonthEffect
  <2>2. ASSUME NEW s \in DOMAIN inverters
        PROVE  inverters'[s] \in InverterData
    <3>1. at \in 0..Months /\ 0 \in 0..Months
      BY <1>0, <2>1 DEF MonthControl
    <3>2. \A b \in BOOLEAN : /\ WithMonth(s, at, b) \in InverterData
                            /\ WithMonth(s, 0, b) \in InverterData
      BY <3>1, WithMonthType
    <3>3. inverters[s] \in InverterData
      BY <2>2
    <3>4. \/ inverters'[s] = inverters[s]
          \/ \E b \in BOOLEAN : \/ inverters'[s] = WithMonth(s, at, b)
                              \/ inverters'[s] = WithMonth(s, 0, b)
      BY <1>3, <2>2, MonthDecoded, Zenon
    <3> QED
      BY <3>2, <3>3, <3>4, Zenon
  <2>3. /\ \A s \in DOMAIN inverters' : inverters'[s] \in InverterData
        /\ DOMAIN inverters' \subseteq Serials
    BY <2>1, <2>2 DEF MonthControl
  <2>4. /\ pc' \in PCs /\ pc' \notin {"clock", "spot"}
        /\ at' \in Nat \ {0}
        /\ pc' = "month" => at' <= Months
        /\ pc' = "event" => EventMonths > 0 /\ at' = 1
    BY <1>0, <2>1 DEF MonthControl, AfterMonths
  <2> QED
    <3>1. RequestTyped
      BY <2>1, ArchiveRequestTypes DEF MonthControl, ArchiveKinds
    <3> QED
      BY <1>0, <2>1, <2>3, <2>4, <3>1, GroupsType
      DEF MonthControl, ArchiveUnchanged, RequestTyped, LastType
<1>4. CASE FetchEvents(A, H)
  <2>1. Request("EventArchive", A) /\ Decode(A, {}, {<<at, group>>})
    BY <1>4 DEF FetchEvents
  <2>2. <<at, group>> \in (1..EventMonths) \X (1..Len(Groups))
    BY <1>0, <1>4 DEF FetchEvents
  <2>3. /\ \A s \in DOMAIN inverters' : inverters'[s] \in InverterData
        /\ DOMAIN inverters' \subseteq Serials
    BY <2>1, <2>2, DecodeTypes
  <2>4. /\ pc' \in {"event", "end"}
        /\ at' \in Nat \ {0} /\ group' \in 1..Len(Groups)
        /\ pc' = "event" => at' <= EventMonths
    BY <1>0, <1>4, SequenceType DEF FetchEvents, PrevMonth
  <2>5. eof' \subseteq Serials
    BY <1>4 DEF FetchEvents
  <2> QED
    <3>1. RequestTyped
      BY <2>1, ArchiveRequestTypes DEF ArchiveKinds
    <3> QED
      BY <1>0, <1>4, <2>3, <2>4, <2>5, <3>1
      DEF FetchEvents, ArchiveUnchanged, RequestTyped, LastType
<1> QED
  BY <1>1, <1>2, <1>3, <1>4

LEMMA WorldTypes ==
    ASSUME TypeInv, StoreStep \/ OperatorClears \/ Restart
    PROVE  TypeInv'
<1>1. StoreTypeOK'
  BY StoreStepTypes
<1>2. CASE StoreStep \/ OperatorClears
  BY <1>1, <1>2 DEF StoreStep, OperatorClears, sessionVars, TypeInv, TypeOK,
                    LoopInv, Sequence
<1>3. CASE Restart
  <2>1. devices' \subseteq Serials /\ mode' \in Modes /\ DOMAIN inverters' = {}
    BY <1>3, CollectorAssumption DEF Restart
  <2>2. last' \in LastType
    BY <1>3 DEF Restart, Transmission, LastType, Steps, Outcomes
  <2>3. group' \in 1..Len(Groups)
    BY <1>3, GroupsType DEF Restart
  <2>4. LoopInv'
    BY <1>3 DEF Restart, TypeInv, LoopInv
  <2>5. /\ pc' = "idle" /\ at' = 1 /\ session' = "closed" /\ result' = "none"
        /\ daily' = FALSE /\ probed' = FALSE /\ wobbled' = {} /\ eof' = {}
        /\ refused' = [s \in Serials |-> {}]
        /\ offsets' = [s \in Serials |-> "unknown"]
    BY <1>3 DEF Restart
  <2>6. TypeOK'
    <3>1. refused' \in [Serials -> SUBSET Kinds]
      BY <2>5
    <3>2. offsets' \in [Serials -> {"unknown", "none", "shift"}]
      BY <2>5
    <3>3. pc' \in PCs /\ at' \in Nat \ {0}
      BY <2>5 DEF PCs
    <3>4. \A s \in DOMAIN inverters' : inverters'[s] \in InverterData
      BY <2>1
    <3>5. wobbled' \subseteq Serials /\ eof' \subseteq Serials
      BY <2>5
    <3> QED
      BY <1>1, <2>1, <2>2, <2>3, <2>5, <3>1, <3>2, <3>3, <3>4, <3>5
      DEF TypeOK, LastType
  <2> QED
    BY <2>4, <2>6 DEF TypeInv
<1> QED
  BY <1>2, <1>3

(* The actions of a session, as the lemmas above take them.                *)
LEMMA TypeStep == TypeInv /\ [Next]_vars => TypeInv'
<1> SUFFICES ASSUME TypeInv, [Next]_vars PROVE TypeInv'
  OBVIOUS
<1>1. CASE SessionStep
  BY <1>1, SessionTypes, SpotTypes, ArchiveTypes DEF SessionStep
<1>2. CASE StoreStep \/ OperatorClears \/ Restart
  BY <1>2, WorldTypes
<1>3. CASE UNCHANGED vars
  BY <1>3 DEF vars, storeVars, TypeInv, TypeOK, LoopInv, StoreTypeOK, Sequence
<1> QED
  BY <1>1, <1>2, <1>3 DEF Next

(* Every variable of the collector and of its memory keeps its type.       *)
THEOREM TypeCorrect == Spec => []TypeOK
<1>1. TypeInv => TypeOK
  BY DEF TypeInv
<1> QED
  BY <1>1, InitTypes, TypeStep, PTL DEF Spec

-----------------------------------------------------------------------------
(* Sessions.                                                               *)

LEMMA OrderStep == SessionsInOrder /\ [Next]_vars => SessionsInOrder'
<1> SUFFICES ASSUME SessionsInOrder, [Next]_vars PROVE SessionsInOrder'
  OBVIOUS
<1> USE DEF SessionsInOrder
<1>1. ASSUME NEW d \in BOOLEAN,
             BeginFails(d) \/ \E D \in DeviceSets : Begin(d, D)
      PROVE  SessionsInOrder'
  BY <1>1 DEF BeginFails, Begin
<1>2. CASE LoginFails \/ Login \/ ClockSync \/ End
  BY <1>2 DEF LoginFails, Login, ClockSync, End
<1>3. ASSUME NEW A, SpotQuery(A) PROVE SessionsInOrder'
  BY <1>3 DEF SpotQuery, SpotUnchanged, AfterSpot
<1>4. ASSUME NEW A, NEW H, ETodayFallback(A, H) PROVE SessionsInOrder'
  BY <1>4 DEF ETodayFallback, SpotUnchanged, AfterSpot
<1>5. CASE SpotNotWanted \/ NoETodayFallback
  BY <1>5 DEF SpotNotWanted, NoETodayFallback, SpotUnchanged, AfterSpot
<1>6. ASSUME NEW A, NEW H, ProbeMonthOffsets(A, H) PROVE SessionsInOrder'
  BY <1>6 DEF ProbeMonthOffsets, ArchiveUnchanged
<1>7. ASSUME NEW A, NEW H, FetchDay(A, H) PROVE SessionsInOrder'
  BY <1>7, DayEffect DEF DayControl, ArchiveUnchanged, AfterDay, AfterMonths
<1>8. ASSUME NEW A, NEW H, FetchMonth(A, H) PROVE SessionsInOrder'
  BY <1>8, MonthEffect DEF MonthControl, ArchiveUnchanged, AfterMonths
<1>9. ASSUME NEW A, NEW H, FetchEvents(A, H) PROVE SessionsInOrder'
  BY <1>9 DEF FetchEvents, ArchiveUnchanged
<1>10. CASE StoreStep \/ OperatorClears
  BY <1>10 DEF StoreStep, OperatorClears, sessionVars
<1>11. CASE Restart
  BY <1>11 DEF Restart
<1>12. CASE UNCHANGED vars
  BY <1>12 DEF vars
<1> QED
  BY <1>1, <1>2, <1>3, <1>4, <1>5, <1>6, <1>7, <1>8, <1>9, <1>10, <1>11,
     <1>12 DEF Next, SessionStep

(* A session is torn down before its cycle returns, data requests go out   *)
(* only when it is logged in, and a probe asks only its queries.           *)
THEOREM SessionOrder == Spec => []SessionsInOrder
<1>1. Init => SessionsInOrder
  BY DEF Init, SessionsInOrder
<1> QED
  BY <1>1, OrderStep, PTL DEF Spec

-----------------------------------------------------------------------------
(* Refusals.                                                               *)

(* Whatever the process or the table holds was refused at some time.       *)
Dated ==
    /\ \A s \in Serials : \A k \in refused[s] \cup memory[s] : refusedOn[s][k] > 0
    /\ \A r \in rows \cup writes : refusedOn[r.serial][r.query] > 0

(* The process knows what it is about to write, and what it could read.    *)
Known ==
    /\ \A w \in writes : w.query \in memory[w.serial]
    /\ FreshRowsAreKnown

(* A session starts from the memory and learns whatever the memory learns. *)
SessionKnows ==
    HasStore /\ pc # "idle" => \A s \in devices : memory[s] \subseteq refused[s]

LastInv ==
    /\ ~HasStore => last = Transmission("end", "ok", TRUE)
    /\ SkipIsJustified

RefusalInv == Dated /\ Known /\ SessionKnows /\ LastInv

(* A request leaves the invariant and says what it did.                    *)
LEMMA RequestRefusals ==
    ASSUME TypeInv, RefusalInv, NEW kind \in Kinds, NEW A \in SUBSET devices,
           Request(kind, A), UNCHANGED <<devices, mode>>, pc # "idle"
    PROVE  RefusalInv'
<1> USE DEF TypeInv, TypeOK, LoopInv, StoreTypeOK, RefusalInv
<1>0. HasStore' = HasStore
  BY DEF HasStore
<1>1. CASE HasStore /\ \E R \in SUBSET (devices \ A) : Answered(kind, A, R)
  <2>0. PICK R \in SUBSET (devices \ A) : Answered(kind, A, R)
    BY <1>1
  <2>1. /\ R \subseteq Serials
        /\ memory' = [s \in Serials |->
                        IF s \in R THEN memory[s] \cup {kind} ELSE memory[s]]
        /\ refused' = [s \in Serials |->
                        IF s \in R THEN refused[s] \cup {kind} ELSE refused[s]]
        /\ rows' = rows /\ today' = today /\ loaded' = loaded
        /\ writes' = writes \cup {[serial |-> s, query |-> kind, day |-> today] :
                                    s \in {x \in R : kind \notin memory[x]}}
        /\ refusedOn' = [s \in Serials |-> [k \in Kinds |->
                            IF s \in R /\ k = kind THEN today + 1
                            ELSE refusedOn[s][k]]]
        /\ last'.sent
    BY <1>1, <2>0 DEF Answered, RememberRefusals, Remember, Record, Transmission
  <2>2. \A s \in Serials, k \in Kinds :
            \/ refusedOn'[s][k] = refusedOn[s][k]
            \/ refusedOn'[s][k] > 0
    BY <2>1, StoreAssumption
  <2>3. \A s \in R : refusedOn'[s][kind] > 0
    BY <2>1, StoreAssumption
  <2>4. \A w \in writes' : w \in writes \/ (w.query = kind /\ w.serial \in R)
    BY <2>1
  <2>5. Dated'
    BY <2>1, <2>2, <2>3, <2>4 DEF Dated, Row
  <2>6. Known'
    BY <2>1, <2>4 DEF Known, FreshRowsAreKnown, WithinRecheck, Row
  <2>7. SessionKnows'
    BY <1>0, <1>1, <2>1 DEF SessionKnows
  <2>8. LastInv'
    BY <1>0, <1>1, <2>1 DEF LastInv, SkipIsJustified
  <2> QED
    BY <2>5, <2>6, <2>7, <2>8
<1>2. CASE ~HasStore \/ Skipped(kind) \/ Failed(kind)
  <2>1. KeepRefusals
    BY <1>2 DEF Request, Answered, Skipped, Failed
  <2>2. Dated' /\ Known' /\ SessionKnows'
    BY <1>0, <2>1 DEF KeepRefusals, storeVars, Dated, Known,
                      FreshRowsAreKnown, WithinRecheck, SessionKnows
  <2>3. CASE ~HasStore
    <3>1. last' = last
      BY <2>3 DEF Request, Answered, Skipped, Failed, Record
    <3> QED
      BY <1>0, <2>1, <2>2, <2>3, <3>1
      DEF LastInv, SkipIsJustified, KeepRefusals, Transmission
  <2>4. CASE HasStore /\ Failed(kind)
    BY <1>0, <2>2, <2>4 DEF Failed, Record, Transmission, LastInv,
                            SkipIsJustified
  <2>5. CASE HasStore /\ Skipped(kind)
    <3>1. last'.kind = kind
      BY <2>5 DEF Skipped, Record, Transmission
    <3>2. \A s \in devices : refusedOn[s][kind] > 0
      BY <2>5 DEF Skipped, EveryDeviceRefused, Dated
    <3> QED
      BY <1>0, <2>1, <2>2, <2>5, <3>1, <3>2
      DEF LastInv, SkipIsJustified, KeepRefusals
  <2> QED
    BY <1>2, <2>3, <2>4, <2>5
<1> QED
  BY <1>1, <1>2 DEF Request

(* A step of the session that asks for nothing.                            *)
LEMMA QuietRefusals ==
    ASSUME RefusalInv,
           UNCHANGED <<storeVars, refused, refusedOn, devices, mode>>,
           pc' # "idle" => pc # "idle",
           \/ last' = last
           \/ \E kind \in Steps, outcome \in Outcomes :
                 Record(kind, outcome, TRUE)
    PROVE  RefusalInv'
<1>1. Dated' /\ Known' /\ SessionKnows'
  BY DEF RefusalInv, storeVars, Dated, Known, FreshRowsAreKnown, WithinRecheck,
         SessionKnows, HasStore
<1>2. \/ last' = last
      \/ HasStore /\ last'.sent
  BY DEF Record, Transmission
<1>3. LastInv'
  BY <1>2 DEF RefusalInv, LastInv, SkipIsJustified, HasStore, Transmission
<1> QED
  BY <1>1, <1>3 DEF RefusalInv

LEMMA BeginRefusals ==
    ASSUME TypeInv, RefusalInv, NEW d, NEW D \in DeviceSets, Begin(d, D)
    PROVE  RefusalInv'
<1> USE DEF TypeInv, TypeOK, LoopInv, StoreTypeOK, RefusalInv
<1>1. /\ UNCHANGED <<memory, rows, writes, today, loaded, refusedOn, mode>>
      /\ devices' = D /\ D \subseteq Serials
      /\ refused' = [s \in Serials |-> IF HasStore /\ s \in D THEN memory[s] ELSE {}]
      /\ HasStore' = HasStore
  BY CollectorAssumption
  DEF Begin, LoadRefusals, Unsupported, storeVars, HasStore
<1>2. Dated' /\ Known' /\ SessionKnows'
  BY <1>1 DEF Dated, Known, FreshRowsAreKnown, WithinRecheck, SessionKnows
<1>3. \/ HasStore /\ last'.sent
      \/ ~HasStore /\ last' = last
  BY DEF Begin, Record, Transmission
<1>4. LastInv'
  BY <1>1, <1>3 DEF LastInv, SkipIsJustified, Transmission
<1> QED
  BY <1>2, <1>4

LEMMA WorldRefusals ==
    ASSUME TypeInv, RefusalInv, StoreStep \/ OperatorClears \/ Restart
    PROVE  RefusalInv'
<1> USE DEF TypeInv, TypeOK, LoopInv, StoreTypeOK, RefusalInv
<1>1. CASE StoreStep \/ OperatorClears
  <2>1. /\ UNCHANGED <<memory, loaded, refused, refusedOn, devices, mode, pc, last>>
        /\ rows' \subseteq rows \cup writes /\ writes' \subseteq writes
        /\ today' \in {today, today + 1}
    BY <1>1 DEF StoreStep, WriteLands, WriteFails, NextDay, OperatorClears,
                ClearQuerySupport, sessionVars
  <2>2. Dated' /\ SessionKnows' /\ LastInv'
    BY <2>1 DEF Dated, SessionKnows, LastInv, SkipIsJustified, HasStore,
                Transmission
  <2>3. Known'
    <3>1. ASSUME loaded, NEW r \in rows', WithinRecheck(r)'
          PROVE  r.query \in memory[r.serial]
      <4>1. CASE r \in rows
        <5>1. WithinRecheck(r)
          BY <2>1, <3>1, <4>1, StoreAssumption DEF WithinRecheck, Row
        <5> QED
          BY <3>1, <4>1, <5>1 DEF Known, FreshRowsAreKnown
      <4>2. CASE r \in writes
        BY <4>2 DEF Known
      <4> QED
        BY <2>1, <3>1, <4>1, <4>2
    <3> QED
      BY <2>1, <3>1 DEF Known, FreshRowsAreKnown
  <2> QED
    BY <2>2, <2>3
<1>2. CASE Restart
  <2>1. /\ UNCHANGED <<rows, today, refusedOn>> /\ writes' = {}
        /\ refused' = [s \in Serials |-> {}]
        /\ pc' = "idle"
        /\ last' = Transmission("end", "ok", TRUE)
        /\ memory' = IF loaded' THEN Load ELSE NothingRefused
    BY <1>2 DEF Restart, StoreRestart
  <2>2. \A s \in Serials : \A k \in memory'[s] : \E r \in rows : r.serial = s /\ r.query = k
    BY <2>1 DEF Load, NothingRefused
  <2>3. Dated'
    <3>1. \A s \in Serials : \A k \in memory'[s] : refusedOn[s][k] > 0
      <4> SUFFICES ASSUME NEW s \in Serials, NEW k \in memory'[s]
                   PROVE  refusedOn[s][k] > 0
        OBVIOUS
      <4>1. PICK r \in rows : r.serial = s /\ r.query = k
        BY <2>2
      <4> QED
        BY <4>1 DEF Dated
    <3>2. \A s \in Serials : refused'[s] = {}
      BY <2>1
    <3> QED
      BY <2>1, <3>1, <3>2 DEF Dated
  <2>4. Known'
    BY <2>1 DEF Known, FreshRowsAreKnown, Load, WithinRecheck, Row
  <2>5. SessionKnows' /\ LastInv'
    BY <2>1 DEF SessionKnows, LastInv, SkipIsJustified, Transmission
  <2> QED
    BY <2>3, <2>4, <2>5
<1> QED
  BY <1>1, <1>2

LEMMA InitRefusals == Init => RefusalInv
<1> SUFFICES ASSUME Init PROVE RefusalInv
  OBVIOUS
<1>1. Dated /\ Known /\ SessionKnows
  BY DEF Init, StoreInit, NothingRefused, Dated, Known, FreshRowsAreKnown,
         SessionKnows
<1>2. LastInv
  BY DEF Init, LastInv, SkipIsJustified, Transmission
<1> QED
  BY <1>1, <1>2 DEF RefusalInv

LEMMA RefusalStep == TypeInv /\ RefusalInv /\ [Next]_vars => RefusalInv'
<1> SUFFICES ASSUME TypeInv, RefusalInv, [Next]_vars PROVE RefusalInv'
  OBVIOUS
<1>1. ASSUME NEW d \in BOOLEAN, BeginFails(d) PROVE RefusalInv'
  BY <1>1, QuietRefusals DEF BeginFails, Steps, Outcomes, storeVars
<1>2. ASSUME NEW d \in BOOLEAN, NEW D \in DeviceSets, Begin(d, D)
      PROVE  RefusalInv'
  BY <1>2, BeginRefusals
<1>3. CASE LoginFails \/ Login \/ ClockSync \/ End
  BY <1>3, QuietRefusals
  DEF LoginFails, Login, ClockSync, End, Steps, Outcomes, storeVars
<1>4. ASSUME NEW A \in SUBSET devices, SpotQuery(A) PROVE RefusalInv'
  <2>1. Sequence[at] \in Kinds
    BY <1>4, SequenceIsType DEF SpotQuery, TypeInv, TypeOK
  <2> QED
    BY <1>4, <2>1, RequestRefusals DEF SpotQuery, SpotUnchanged
<1>5. ASSUME NEW A \in SUBSET devices, NEW H, ETodayFallback(A, H)
      PROVE  RefusalInv'
  BY <1>5, RequestRefusals, SequenceType DEF ETodayFallback, SpotUnchanged
<1>6. CASE SpotNotWanted \/ NoETodayFallback
  BY <1>6, QuietRefusals
  DEF SpotNotWanted, NoETodayFallback, SpotUnchanged, KeepRefusals, storeVars
<1>7. ASSUME NEW A \in SUBSET devices, NEW H, ProbeMonthOffsets(A, H)
      PROVE  RefusalInv'
  BY <1>7, RequestRefusals, SequenceType
  DEF ProbeMonthOffsets, ArchiveUnchanged, ArchiveKinds
<1>8. ASSUME NEW A \in SUBSET devices, NEW H, FetchDay(A, H)
      PROVE  RefusalInv'
  <2>1. DayControl(A, H)
    BY <1>8, DayEffect
  <2> QED
    BY <2>1, RequestRefusals, SequenceType
    DEF DayControl, ArchiveUnchanged, ArchiveKinds
<1>9. ASSUME NEW A \in SUBSET devices, NEW H, FetchMonth(A, H)
      PROVE  RefusalInv'
  <2>1. MonthControl(A, H)
    BY <1>9, MonthEffect
  <2> QED
    BY <2>1, RequestRefusals, SequenceType
    DEF MonthControl, ArchiveUnchanged, ArchiveKinds
<1>10. ASSUME NEW A \in SUBSET devices, NEW E, FetchEvents(A, E)
       PROVE  RefusalInv'
  BY <1>10, RequestRefusals, SequenceType
  DEF FetchEvents, ArchiveUnchanged, ArchiveKinds
<1>11. CASE StoreStep \/ OperatorClears \/ Restart
  BY <1>11, WorldRefusals
<1>12. CASE UNCHANGED vars
  BY <1>12, QuietRefusals DEF vars
<1> QED
  BY <1>1, <1>2, <1>3, <1>4, <1>5, <1>6, <1>7, <1>8, <1>9, <1>10, <1>11,
     <1>12 DEF Next, SessionStep

LEMMA RefusalsInvariant == Spec => [](TypeInv /\ RefusalInv)
<1> QED
  BY InitTypes, InitRefusals, TypeStep, RefusalStep, PTL DEF Spec

(* A query is skipped only when every inverter of the session refused it.  *)
THEOREM SkipsAreJustified == Spec => []SkipIsJustified
<1>1. TypeInv /\ RefusalInv => SkipIsJustified
  BY DEF RefusalInv, LastInv
<1> QED
  BY <1>1, RefusalsInvariant, PTL

(* The process knows every refusal of the recheck window that is stored.   *)
THEOREM MemoryCoversTheTable == Spec => []FreshRowsAreKnown
<1>1. TypeInv /\ RefusalInv => FreshRowsAreKnown
  BY DEF RefusalInv, Known
<1> QED
  BY <1>1, RefusalsInvariant, PTL

(* The record of the last transmission is older than the query the loop    *)
(* has come to.                                                            *)
AskedBefore(n) ==
    \E j \in 1..Len(SpotQueries) : j < n /\ last.kind = SpotQueries[j]

OrderInv ==
    /\ HasStore /\ pc = "spot" =>
          last.kind \in {"clock", "ETodayFallback"} \/ AskedBefore(at)
    /\ pc = "etoday" => AskedBefore(at)

LEMMA PlaceType == \A i \in 1..Len(ProcessOrder) : Place(ProcessOrder[i]) \in Nat
<1> SUFFICES ASSUME NEW i \in 1..Len(ProcessOrder)
             PROVE  Place(ProcessOrder[i]) \in Nat
  OBVIOUS
<1>1. DOMAIN ProcessOrder = 1..18 /\ Len(ProcessOrder) = 18
  BY DEF ProcessOrder
<1>2. \E j \in DOMAIN ProcessOrder : ProcessOrder[j] = ProcessOrder[i]
  BY <1>1
<1>3. Place(ProcessOrder[i]) \in DOMAIN ProcessOrder
  BY <1>2 DEF Place
<1> QED
  BY <1>1, <1>3

(* A query sequence names every query once.                                *)
LEMMA SequenceDistinct ==
    \A i, j \in 1..Len(SpotQueries) : i < j => SpotQueries[i] # SpotQueries[j]
<1> SUFFICES ASSUME NEW i \in 1..Len(SpotQueries), NEW j \in 1..Len(SpotQueries),
                    i < j, SpotQueries[i] = SpotQueries[j]
             PROVE  FALSE
  OBVIOUS
<1>0. DOMAIN SpotQueries = 1..Len(SpotQueries)
  BY SequenceType
<1>1. Place(SpotQueries[i]) < Place(SpotQueries[j])
  BY <1>0, CollectorAssumption
<1>2. DOMAIN ProcessOrder = 1..Len(ProcessOrder)
  BY DEF ProcessOrder
<1>3. Place(SpotQueries[i]) \in Nat
  BY <1>0, <1>2, CollectorAssumption, PlaceType
<1> QED
  BY <1>1, <1>3

LEMMA SpotKinds ==
    \A i \in 1..Len(SpotQueries) :
        SpotQueries[i] \in {ProcessOrder[j] : j \in 1..18}
<1>1. DOMAIN SpotQueries = 1..Len(SpotQueries)
  BY SequenceType
<1>2. DOMAIN ProcessOrder = 1..18
  BY DEF ProcessOrder
<1> QED
  BY <1>1, <1>2, CollectorAssumption

LEMMA RequestRecorded ==
    ASSUME NEW kind, NEW A, Request(kind, A), HasStore
    PROVE  last'.kind = kind
BY DEF Request, Answered, Skipped, Failed, Record, Transmission

LEMMA OrderOfRecords ==
    TypeInv /\ SessionsInOrder /\ OrderInv /\ [Next]_vars => OrderInv'
<1> SUFFICES ASSUME TypeInv, SessionsInOrder, OrderInv, [Next]_vars
             PROVE  OrderInv'
  OBVIOUS
<1> USE DEF OrderInv, HasStore
<1>1. ASSUME NEW d \in BOOLEAN,
             BeginFails(d) \/ \E D \in DeviceSets : Begin(d, D)
      PROVE  OrderInv'
  BY <1>1 DEF BeginFails, Begin
<1>2. CASE LoginFails \/ Login \/ End
  BY <1>2 DEF LoginFails, Login, End
<1>3. CASE ClockSync
  <2>1. pc' = "spot" /\ (mode' = "cycle" => last'.kind = "clock")
    BY <1>3 DEF ClockSync, Record, Transmission
  <2> QED
    BY <2>1
<1>4. ASSUME NEW A, SpotQuery(A) PROVE OrderInv'
  <2>1. /\ at \in 1..Len(Sequence) /\ at' = at + 1 /\ mode' = mode
        /\ Request(Sequence[at], A)
        /\ pc' = "etoday" => HasStore
    BY <1>4, SequenceIsType DEF SpotQuery, SpotUnchanged, TypeInv, TypeOK, AfterSpot
  <2>2. CASE HasStore
    <3>1. last'.kind = SpotQueries[at]
      BY <2>1, <2>2, RequestRecorded DEF Sequence
    <3>2. AskedBefore(at)'
      BY <2>1, <2>2, <3>1 DEF AskedBefore, Sequence
    <3> QED
      BY <3>2
  <2>3. CASE ~HasStore
    BY <2>1, <2>3
  <2> QED
    BY <2>2, <2>3
<1>5. ASSUME NEW A, NEW H, ETodayFallback(A, H) PROVE OrderInv'
  <2>1. /\ mode' = mode /\ pc' # "etoday"
        /\ Request("ETodayFallback", A)
    BY <1>5 DEF ETodayFallback, SpotUnchanged, AfterSpot
  <2> QED
    BY <2>1, RequestRecorded
<1>6. CASE SpotNotWanted
  <2>1. /\ pc = "spot" /\ pc' # "etoday" /\ at' = at + 1 /\ at \in Nat
        /\ UNCHANGED <<mode, last>>
    BY <1>6 DEF SpotNotWanted, SpotUnchanged, AfterSpot, TypeInv, TypeOK
  <2>2. AskedBefore(at) => AskedBefore(at)'
    BY <2>1 DEF AskedBefore
  <2> QED
    BY <2>1, <2>2
<1>7. CASE NoETodayFallback
  BY <1>7 DEF NoETodayFallback, SpotUnchanged, AfterSpot, AskedBefore
<1>8. ASSUME NEW A, NEW H, ProbeMonthOffsets(A, H) PROVE OrderInv'
  BY <1>8 DEF ProbeMonthOffsets
<1>9. ASSUME NEW A, NEW H, FetchDay(A, H) PROVE OrderInv'
  BY <1>9, DayEffect DEF DayControl, AfterDay, AfterMonths
<1>10. ASSUME NEW A, NEW H, FetchMonth(A, H) PROVE OrderInv'
  BY <1>10, MonthEffect DEF MonthControl, AfterMonths
<1>11. ASSUME NEW A, NEW E, FetchEvents(A, E) PROVE OrderInv'
  BY <1>11 DEF FetchEvents
<1>12. CASE StoreStep \/ OperatorClears \/ UNCHANGED vars
  BY <1>12 DEF StoreStep, OperatorClears, sessionVars, vars, AskedBefore
<1>13. CASE Restart
  BY <1>13 DEF Restart
<1> QED
  BY <1>1, <1>2, <1>3, <1>4, <1>5, <1>6, <1>7, <1>8, <1>9, <1>10, <1>11,
     <1>12, <1>13 DEF Next, SessionStep

Invariants == TypeInv /\ RefusalInv /\ SessionsInOrder /\ OrderInv

LEMMA InvariantsHold == Spec => []Invariants
<1>1. Init => Invariants
  <2>1. Init => SessionsInOrder /\ OrderInv
    BY DEF Init, SessionsInOrder, OrderInv
  <2> QED
    BY <2>1, InitTypes, InitRefusals DEF Invariants
<1>2. Invariants /\ [Next]_vars => Invariants'
  BY TypeStep, RefusalStep, OrderStep, OrderOfRecords DEF Invariants
<1> QED
  BY <1>1, <1>2, PTL DEF Spec

(* What the step that moves the collector asked, and of whom.              *)
Asks == /\ <<pc, at, group>>' # <<pc, at, group>>
        /\ last'.kind = PendingKind /\ last'.sent
        /\ devices # {}

Unheard == \E s \in devices : PendingKind \notin memory[s]

LEMMA SpotIsNoStep ==
    ASSUME NEW i \in 1..Len(SpotQueries)
    PROVE  SpotQueries[i] \notin Steps \cup {"none", "ETodayFallback"}
<1>1. PICK j \in 1..18 : SpotQueries[i] = ProcessOrder[j]
  BY SpotKinds
<1>2. \A x \in 1..18 :
          ProcessOrder[x] \notin Steps \cup {"none", "ETodayFallback"}
  BY SMTT(30) DEF ProcessOrder, Steps
<1> QED
  BY <1>1, <1>2

LEMMA PendingIsNoStep == TypeInv => PendingKind \notin Steps
<1> SUFFICES ASSUME TypeInv PROVE PendingKind \notin Steps
  OBVIOUS
<1>1. CASE pc = "spot"
  <2>1. at \in 1..Len(Sequence) /\ PendingKind = Sequence[at]
    BY <1>1, SequenceIsType DEF TypeInv, TypeOK, LoopInv, PendingKind
  <2>2. CASE mode = "probe"
    BY <2>1, <2>2 DEF Sequence, ProbeOrder, Steps
  <2>3. CASE mode # "probe"
    BY <2>1, <2>3, SpotIsNoStep DEF Sequence
  <2> QED
    BY <2>2, <2>3
<1>2. CASE pc # "spot"
  BY <1>2 DEF PendingKind, Steps
<1> QED
  BY <1>1, <1>2

(* A request that was sent was not refused by all.                         *)
LEMMA SentIsUnheard ==
    ASSUME Invariants, NEW kind, NEW A, Request(kind, A), kind = PendingKind,
           pc # "idle", Asks
    PROVE  Unheard
<1>1. HasStore
  <2> SUFFICES ASSUME ~HasStore PROVE FALSE
    OBVIOUS
  <2>1. last' = Transmission("end", "ok", TRUE)
    BY DEF Request, Answered, Skipped, Failed, Record, Invariants, RefusalInv,
           LastInv
  <2> QED
    BY <2>1, PendingIsNoStep DEF Asks, Transmission, Steps, Invariants
<1>2. ~EveryDeviceRefused(kind)
  BY <1>1 DEF Request, Answered, Skipped, Failed, Record, Transmission, Asks
<1>3. PICK s \in devices : kind \notin refused[s]
  BY <1>1, <1>2 DEF EveryDeviceRefused, Asks
<1> QED
  BY <1>1, <1>3 DEF Unheard, Invariants, RefusalInv, SessionKnows

LEMMA AsksUnheard == Invariants /\ [Next]_vars => (Asks => Unheard)
<1> SUFFICES ASSUME Invariants, [Next]_vars, Asks PROVE Unheard
  OBVIOUS
<1>0. PendingKind \notin Steps
  BY PendingIsNoStep DEF Invariants
<1>1. ASSUME NEW d \in BOOLEAN,
             BeginFails(d) \/ \E D \in DeviceSets : Begin(d, D)
      PROVE  Unheard
  <2>1. PendingKind = "none"
    BY <1>1 DEF BeginFails, Begin, PendingKind
  <2>2. \E o \in Outcomes : Record("begin", o, TRUE)
    BY <1>1 DEF BeginFails, Begin, Outcomes
  <2>3. \/ last'.kind = "begin"
        \/ last' = last /\ ~HasStore
    BY <2>2 DEF Record, Transmission
  <2>4. last'.kind # "none"
    BY <2>3 DEF Invariants, RefusalInv, LastInv, Transmission
  <2> QED
    BY <2>1, <2>4 DEF Asks
<1>2. CASE LoginFails \/ Login \/ ClockSync \/ End
  <2>1. \/ last'.kind \in Steps
        \/ last' = last /\ ~HasStore
    BY <1>2 DEF LoginFails, Login, ClockSync, End, Record, Transmission, Steps
  <2>2. PendingKind = "none"
    BY <1>2 DEF LoginFails, Login, ClockSync, End, PendingKind
  <2> QED
    BY <1>0, <2>1, <2>2
    DEF Asks, Invariants, RefusalInv, LastInv, Transmission
<1>3. ASSUME NEW A, SpotQuery(A) PROVE Unheard
  BY <1>3, SentIsUnheard DEF SpotQuery, PendingKind
<1>4. ASSUME NEW A, NEW H, ETodayFallback(A, H) PROVE Unheard
  BY <1>4, SentIsUnheard DEF ETodayFallback, PendingKind
<1>5. CASE SpotNotWanted
  <2>1. /\ pc = "spot" /\ last' = last /\ PendingKind = Sequence[at]
        /\ at \in 1..Len(Sequence)
    BY <1>5, SequenceIsType
    DEF SpotNotWanted, PendingKind, Invariants, TypeInv, TypeOK
  <2>2. HasStore
    BY <1>0, <2>1 DEF Asks, Invariants, RefusalInv, LastInv, Transmission, Steps
  <2>3. Sequence = SpotQueries
    BY <2>2 DEF HasStore, Sequence
  <2>4. last.kind \in {"clock", "ETodayFallback"} \/ AskedBefore(at)
    BY <2>1, <2>2 DEF Invariants, OrderInv
  <2>5. last.kind = SpotQueries[at]
    BY <2>1, <2>3 DEF Asks
  <2>6. ~AskedBefore(at)
    BY <2>1, <2>3, <2>5, SequenceDistinct, SequenceType DEF AskedBefore
  <2> QED
    BY <2>1, <2>3, <2>4, <2>5, <2>6, SpotIsNoStep DEF Steps
<1>6. CASE NoETodayFallback
  <2>1. /\ last.kind = "ETodayFallback" /\ AskedBefore(at)
        /\ HasStore /\ at \in Nat \ {0}
    BY <1>6 DEF NoETodayFallback, PendingKind, Asks, Invariants, OrderInv,
                SessionsInOrder, HasStore, TypeInv, TypeOK
  <2>2. PICK j \in 1..Len(SpotQueries) : SpotQueries[j] = "ETodayFallback"
    BY <2>1 DEF AskedBefore
  <2> QED
    BY <2>2, SpotIsNoStep
<1>7. ASSUME NEW A, NEW H, ProbeMonthOffsets(A, H) PROVE Unheard
  BY <1>7, SentIsUnheard DEF ProbeMonthOffsets, PendingKind
<1>8. ASSUME NEW A, NEW H, FetchDay(A, H) PROVE Unheard
  BY <1>8, DayEffect, SentIsUnheard DEF DayControl, PendingKind
<1>9. ASSUME NEW A, NEW H, FetchMonth(A, H) PROVE Unheard
  BY <1>9, MonthEffect, SentIsUnheard DEF MonthControl, PendingKind
<1>10. ASSUME NEW A, NEW E, FetchEvents(A, E) PROVE Unheard
  BY <1>10, SentIsUnheard DEF FetchEvents, PendingKind
<1>11. CASE StoreStep \/ OperatorClears \/ UNCHANGED vars
  BY <1>11 DEF StoreStep, OperatorClears, sessionVars, vars, Asks
<1>12. CASE Restart
  BY <1>0, <1>12 DEF Restart, Asks, Transmission, Steps
<1> QED
  BY <1>1, <1>2, <1>3, <1>4, <1>5, <1>6, <1>7, <1>8, <1>9, <1>10, <1>11,
     <1>12 DEF Next, SessionStep

(* A query that every inverter of the session is known to have refused is  *)
(* not sent, whether it was refused in this cycle or in an earlier one.    *)
THEOREM AsksOnlyWhatSomeoneAnswers == Spec => NeverAsksWhatAllRefused
<1>1. Invariants /\ [Next]_vars =>
        [ /\ <<pc, at, group>>' # <<pc, at, group>>
          /\ last'.kind = PendingKind /\ last'.sent
          /\ devices # {}
          => \E s \in devices : PendingKind \notin memory[s] ]_vars
  BY AsksUnheard DEF Asks, Unheard
<1> QED
  BY <1>1, InvariantsHold, PTL DEF Spec, NeverAsksWhatAllRefused

-----------------------------------------------------------------------------
(* What a cycle decodes.                                                   *)

LEMMA WithDayFields ==
    ASSUME NEW s, inverters[s] \in InverterData, NEW b \in BOOLEAN
    PROVE  /\ WithDay(s, b).got = inverters[s].got
           /\ WithDay(s, b).month = inverters[s].month
           /\ WithDay(s, b).aligned = inverters[s].aligned
           /\ WithDay(s, b).events = inverters[s].events
           /\ WithDay(s, b).day = b
BY Zenon DEF InverterData, WithDay

LEMMA WithMonthFields ==
    ASSUME NEW s, inverters[s] \in InverterData, NEW n, NEW b \in BOOLEAN
    PROVE  /\ WithMonth(s, n, b).got = inverters[s].got
           /\ WithMonth(s, n, b).month = n
           /\ WithMonth(s, n, b).aligned = b
           /\ WithMonth(s, n, b).events = inverters[s].events
           /\ WithMonth(s, n, b).day = inverters[s].day
BY Zenon DEF InverterData, WithMonth

(* Decoding adds to what an answering inverter has, and changes no archive.*)
LEMMA DecodedFields ==
    ASSUME NEW A, NEW kinds, NEW events, Decode(A, kinds, events),
           NEW s \in DOMAIN inverters, inverters[s] \in InverterData
    PROVE  /\ DOMAIN inverters' = DOMAIN inverters
           /\ inverters'[s].got \subseteq
                  inverters[s].got \cup {k \in kinds : s \in A}
           /\ inverters'[s].events \subseteq
                  inverters[s].events \cup {e \in events : s \in A}
           /\ inverters'[s].day = inverters[s].day
           /\ inverters'[s].month = inverters[s].month
           /\ inverters'[s].aligned = inverters[s].aligned
<1>0. DOMAIN inverters' = DOMAIN inverters
  BY Zenon DEF Decode
<1>1. CASE s \notin A
  <2>1. inverters'[s] = inverters[s]
    BY <1>1, Zenon DEF Decode
  <2> QED
    BY <1>0, <2>1
<1>2. CASE s \in A
  <2>1. inverters'[s] = [inverters[s] EXCEPT !.got = @ \cup kinds,
                                             !.events = @ \cup events]
    BY <1>2, Zenon DEF Decode
  <2>2. /\ inverters'[s].got = inverters[s].got \cup kinds
        /\ inverters'[s].events = inverters[s].events \cup events
        /\ inverters'[s].day = inverters[s].day
        /\ inverters'[s].month = inverters[s].month
        /\ inverters'[s].aligned = inverters[s].aligned
    BY <2>1, Zenon DEF InverterData
  <2> QED
    BY <1>0, <1>2, <2>2
<1> QED
  BY <1>1, <1>2

(* FreshObservation at every point of a cycle, not only at its end.        *)
Heard(s) ==
    /\ \A k \in inverters[s].got : <<s, k, 0>> \in heard
    /\ inverters[s].day => <<s, "DayArchive", 0>> \in heard
    /\ inverters[s].month # 0 =>
           <<s, "MonthArchive", inverters[s].month>> \in heard
    /\ \A e \in inverters[s].events : <<s, "EventArchive", e[1]>> \in heard

FreshInv == \A s \in DOMAIN inverters : Heard(s)

LEMMA KeptHeard ==
    ASSUME NEW s, Heard(s), inverters'[s] = inverters[s], heard \subseteq heard'
    PROVE  Heard(s)'
BY DEF Heard

LEMMA DecodeHeard ==
    ASSUME TypeInv, FreshInv, NEW A, NEW kinds, NEW events,
           Decode(A, kinds, events), heard \subseteq heard',
           \A s \in A : \A k \in kinds : <<s, k, 0>> \in heard',
           \A s \in A : \A e \in events : <<s, "EventArchive", e[1]>> \in heard'
    PROVE  FreshInv'
<1>1. DOMAIN inverters' = DOMAIN inverters
  BY Zenon DEF Decode
<1> SUFFICES ASSUME NEW s \in DOMAIN inverters PROVE Heard(s)'
  BY <1>1 DEF FreshInv
<1>2. inverters[s] \in InverterData /\ Heard(s)
  BY DEF TypeInv, TypeOK, FreshInv
<1> QED
  BY <1>2, DecodedFields DEF Heard

LEMMA DayHeard ==
    ASSUME TypeInv, FreshInv, NEW A, NEW H, FetchDay(A, H)
    PROVE  FreshInv'
<1>1. DOMAIN inverters' = DOMAIN inverters /\ Hear(H, "DayArchive", 0)
  BY DayEffect DEF DayControl
<1> SUFFICES ASSUME NEW s \in DOMAIN inverters PROVE Heard(s)'
  BY <1>1 DEF FreshInv
<1>2. inverters[s] \in InverterData /\ Heard(s)
  BY DEF TypeInv, TypeOK, FreshInv
<1>3. CASE inverters'[s] = inverters[s]
  BY <1>1, <1>2, <1>3, KeptHeard DEF Hear
<1>4. ASSUME NEW b \in BOOLEAN, b => s \in H, inverters'[s] = WithDay(s, b)
      PROVE  Heard(s)'
  BY <1>1, <1>2, <1>4, WithDayFields DEF Hear, Heard
<1> QED
  BY <1>3, <1>4, DayDecoded

LEMMA MonthHeard ==
    ASSUME TypeInv, FreshInv, NEW A, NEW H, FetchMonth(A, H)
    PROVE  FreshInv'
<1>1. DOMAIN inverters' = DOMAIN inverters /\ Hear(H, "MonthArchive", at)
  BY MonthEffect DEF MonthControl
<1> SUFFICES ASSUME NEW s \in DOMAIN inverters PROVE Heard(s)'
  BY <1>1 DEF FreshInv
<1>2. inverters[s] \in InverterData /\ Heard(s)
  BY DEF TypeInv, TypeOK, FreshInv
<1>3. CASE inverters'[s] = inverters[s]
  BY <1>1, <1>2, <1>3, KeptHeard DEF Hear
<1>4. ASSUME NEW n, NEW b \in BOOLEAN, n = 0 \/ (n = at /\ s \in H),
             inverters'[s] = WithMonth(s, n, b)
      PROVE  Heard(s)'
  BY <1>1, <1>2, <1>4, WithMonthFields DEF Hear, Heard
<1> QED
  BY <1>3, <1>4, MonthDecoded

LEMMA FreshStep == TypeInv /\ FreshInv /\ [Next]_vars => FreshInv'
<1> SUFFICES ASSUME TypeInv, FreshInv, [Next]_vars PROVE FreshInv'
  OBVIOUS
<1>1. ASSUME UNCHANGED <<inverters, heard>> PROVE FreshInv'
  BY <1>1 DEF FreshInv, Heard
<1>2. ASSUME NEW d \in BOOLEAN, BeginFails(d) PROVE FreshInv'
  BY <1>1, <1>2 DEF BeginFails
<1>3. ASSUME NEW d \in BOOLEAN, NEW D \in DeviceSets, Begin(d, D)
      PROVE  FreshInv'
  BY <1>3 DEF Begin, RebuildInverters, Blank, FreshInv, Heard
<1>4. CASE LoginFails \/ Login \/ ClockSync \/ End
  BY <1>1, <1>4 DEF LoginFails, Login, ClockSync, End
<1>5. ASSUME NEW A, SpotQuery(A) PROVE FreshInv'
  <2>1. /\ Decode(A, {Sequence[at]}, {}) /\ Hear(A, Sequence[at], 0)
    BY <1>5 DEF SpotQuery
  <2> QED
    BY <2>1, DecodeHeard DEF Hear
<1>6. ASSUME NEW A, NEW H, ETodayFallback(A, H) PROVE FreshInv'
  <2>1. /\ Decode(H \cap NeedsEToday, {"ETodayFallback"}, {})
        /\ Hear(H, "ETodayFallback", 0)
    BY <1>6 DEF ETodayFallback
  <2> QED
    BY <2>1, DecodeHeard DEF Hear
<1>7. CASE SpotNotWanted \/ NoETodayFallback
  BY <1>1, <1>7 DEF SpotNotWanted, NoETodayFallback
<1>8. ASSUME NEW A, NEW H, ProbeMonthOffsets(A, H) PROVE FreshInv'
  BY <1>8 DEF ProbeMonthOffsets, Hear, FreshInv, Heard
<1>9. ASSUME NEW A, NEW E, FetchEvents(A, E) PROVE FreshInv'
  <2>1. Decode(A, {}, {<<at, group>>}) /\ Hear(A, "EventArchive", at)
    BY <1>9 DEF FetchEvents
  <2> QED
    BY <2>1, DecodeHeard DEF Hear
<1>10. CASE StoreStep \/ OperatorClears \/ UNCHANGED vars
  BY <1>1, <1>10 DEF StoreStep, OperatorClears, sessionVars, vars
<1>11. CASE Restart
  BY <1>11 DEF Restart, FreshInv
<1> QED
  BY <1>2, <1>3, <1>4, <1>5, <1>6, <1>7, <1>8, <1>9, <1>10, <1>11, DayHeard,
     MonthHeard DEF Next, SessionStep

(* A successful cycle returns only what was answered to its own requests.  *)
THEOREM ObservationsAreFresh == Spec => []FreshObservation
<1>1. Init => FreshInv
  BY DEF Init, FreshInv
<1>2. FreshInv => FreshObservation
  BY DEF FreshInv, FreshObservation, Heard
<1> QED
  BY <1>1, <1>2, InitTypes, TypeStep, FreshStep, PTL DEF Spec

-----------------------------------------------------------------------------
(* Corrected months.                                                       *)

(* The offsets are probed once, before any month is read.                  *)
ProbedInv ==
    /\ pc = "offsets" => ~probed
    /\ ~probed => wobbled = {}
    /\ \A s \in wobbled : s \in Wobbling /\ offsets[s] = "shift"

BeforeMonths == {"login", "clock", "spot", "etoday", "offsets", "day"}

NoMonthYet ==
    pc \in BeforeMonths => \A s \in DOMAIN inverters : inverters[s].month = 0

OffsetInv == ProbedInv /\ NoMonthYet /\ MonthIsCorrected

(* A step that leaves the offsets and the months alone.                    *)
LEMMA MonthsKept ==
    ASSUME OffsetInv, UNCHANGED <<offsets, probed, wobbled>>,
           pc' = "offsets" => ~probed, pc' \in BeforeMonths => pc \in BeforeMonths,
           DOMAIN inverters' = DOMAIN inverters,
           \A s \in DOMAIN inverters :
               /\ inverters'[s].month = inverters[s].month
               /\ inverters'[s].aligned = inverters[s].aligned
    PROVE  OffsetInv'
BY DEF OffsetInv, ProbedInv, NoMonthYet, MonthIsCorrected

LEMMA OffsetStep == TypeInv /\ OffsetInv /\ [Next]_vars => OffsetInv'
<1> SUFFICES ASSUME TypeInv, OffsetInv, [Next]_vars PROVE OffsetInv'
  OBVIOUS
<1>0. \A s \in DOMAIN inverters : inverters[s] \in InverterData
  BY DEF TypeInv, TypeOK
<1>1. ASSUME NEW A, NEW kinds, NEW events, Decode(A, kinds, events)
      PROVE  /\ DOMAIN inverters' = DOMAIN inverters
             /\ \A s \in DOMAIN inverters :
                   /\ inverters'[s].month = inverters[s].month
                   /\ inverters'[s].aligned = inverters[s].aligned
  <2>1. DOMAIN inverters' = DOMAIN inverters
    BY <1>1, Zenon DEF Decode
  <2> QED
    BY <1>0, <1>1, <2>1, DecodedFields
<1>2. ASSUME NEW d \in BOOLEAN, BeginFails(d) PROVE OffsetInv'
  BY <1>2, MonthsKept DEF BeginFails, OffsetInv, ProbedInv
<1>3. ASSUME NEW d \in BOOLEAN, NEW D \in DeviceSets, Begin(d, D)
      PROVE  OffsetInv'
  BY <1>3 DEF Begin, RebuildInverters, Blank, OffsetInv, ProbedInv, NoMonthYet,
              MonthIsCorrected
<1>4. CASE LoginFails \/ Login \/ ClockSync \/ End
  BY <1>4, MonthsKept
  DEF LoginFails, Login, ClockSync, End, BeforeMonths
<1>5. ASSUME NEW A, SpotQuery(A) PROVE OffsetInv'
  <2>1. /\ UNCHANGED <<offsets, probed, wobbled>> /\ pc = "spot"
        /\ pc' = "offsets" => ~probed
        /\ Decode(A, {Sequence[at]}, {})
    BY <1>5 DEF SpotQuery, SpotUnchanged, AfterSpot
  <2> QED
    BY <1>1, <2>1, MonthsKept DEF BeforeMonths
<1>6. ASSUME NEW A, NEW H, ETodayFallback(A, H) PROVE OffsetInv'
  <2>1. /\ UNCHANGED <<offsets, probed, wobbled>> /\ pc = "etoday"
        /\ pc' = "offsets" => ~probed
        /\ Decode(H \cap NeedsEToday, {"ETodayFallback"}, {})
    BY <1>6 DEF ETodayFallback, SpotUnchanged, AfterSpot
  <2> QED
    BY <1>1, <2>1, MonthsKept DEF BeforeMonths
<1>7. CASE SpotNotWanted \/ NoETodayFallback
  BY <1>7, MonthsKept
  DEF SpotNotWanted, NoETodayFallback, SpotUnchanged, AfterSpot, BeforeMonths
<1>8. ASSUME NEW A, NEW H \in SUBSET A, ProbeMonthOffsets(A, H)
      PROVE  OffsetInv'
  <2>1. /\ pc = "offsets" /\ pc' = "day" /\ inverters' = inverters
        /\ probed' = TRUE /\ wobbled = {} /\ wobbled' = H \cap Wobbling
        /\ \A s \in DOMAIN inverters : inverters[s].month = 0
        /\ H \cap Wobbling \subseteq Serials => \A s \in H \cap Wobbling : offsets'[s] = "shift"
    BY <1>8 DEF ProbeMonthOffsets, OffsetAfterProbe, OffsetInv, ProbedInv,
                NoMonthYet, BeforeMonths
  <2>2. Wobbling \subseteq Serials
    BY CollectorAssumption
  <2> QED
    BY <2>1, <2>2 DEF OffsetInv, ProbedInv, NoMonthYet, MonthIsCorrected
<1>9. ASSUME NEW A, NEW H, FetchDay(A, H) PROVE OffsetInv'
  <2>1. DayControl(A, H)
    BY <1>9, DayEffect
  <2>2. ASSUME NEW s \in DOMAIN inverters
        PROVE  /\ inverters'[s].month = inverters[s].month
               /\ inverters'[s].aligned = inverters[s].aligned
    BY <1>0, <1>9, DayDecoded, WithDayFields
  <2> QED
    BY <2>1, <2>2, MonthsKept
    DEF DayControl, AfterDay, AfterMonths, BeforeMonths
<1>10. ASSUME NEW A, NEW H, FetchMonth(A, H) PROVE OffsetInv'
  <2>1. /\ UNCHANGED <<offsets, probed, wobbled>>
        /\ pc' \in {"month", "event", "end"}
        /\ DOMAIN inverters' = DOMAIN inverters
    BY <1>10, MonthEffect DEF MonthControl, AfterMonths
  <2>2. ASSUME NEW s \in DOMAIN inverters, s \in wobbled,
               inverters'[s].month # 0
        PROVE  inverters'[s].aligned
    <3>1. s \in Wobbling /\ offsets[s] = "shift"
      BY <2>2 DEF OffsetInv, ProbedInv
    <3>2. CASE inverters'[s] = inverters[s]
      BY <2>2, <3>2 DEF OffsetInv, MonthIsCorrected
    <3>3. ASSUME NEW n, inverters'[s] = WithMonth(s, n, TRUE)
          PROVE  inverters'[s].aligned
      <4>1. inverters[s] \in InverterData /\ TRUE \in BOOLEAN
        BY <1>0, <2>2
      <4>2. WithMonth(s, n, TRUE).aligned = TRUE
        BY <4>1, WithMonthFields, Zenon
      <4> QED
        BY <3>3, <4>2, Zenon
    <3>4. \/ inverters'[s] = inverters[s]
          \/ \E b \in BOOLEAN :
                /\ s \in Wobbling /\ offsets[s] = "shift" => b
                /\ \/ inverters'[s] = WithMonth(s, at, b)
                   \/ inverters'[s] = WithMonth(s, 0, b)
      BY <1>10, <2>2, MonthDecoded, Zenon
    <3>5. ASSUME NEW b \in BOOLEAN, b PROVE b = TRUE
      BY <3>5
    <3> QED
      BY <3>1, <3>2, <3>3, <3>4, <3>5, Zenon
  <2> QED
    BY <2>1, <2>2
    DEF OffsetInv, ProbedInv, NoMonthYet, BeforeMonths, MonthIsCorrected
<1>11. ASSUME NEW A, NEW E, FetchEvents(A, E) PROVE OffsetInv'
  <2>1. /\ UNCHANGED <<offsets, probed, wobbled>>
        /\ pc' \in {"event", "end"}
        /\ Decode(A, {}, {<<at, group>>})
    BY <1>11 DEF FetchEvents
  <2> QED
    BY <1>1, <2>1, MonthsKept DEF BeforeMonths
<1>12. CASE StoreStep \/ OperatorClears \/ UNCHANGED vars
  BY <1>12, MonthsKept
  DEF StoreStep, OperatorClears, sessionVars, vars, OffsetInv, ProbedInv
<1>13. CASE Restart
  BY <1>13 DEF Restart, OffsetInv, ProbedInv, NoMonthYet, BeforeMonths,
               MonthIsCorrected
<1> QED
  BY <1>2, <1>3, <1>4, <1>5, <1>6, <1>7, <1>8, <1>9, <1>10, <1>11, <1>12,
     <1>13 DEF Next, SessionStep

(* Every month of an inverter that once stamped its days late is corrected,*)
(* whatever later cycles hear or miss.                                     *)
THEOREM MonthsAreCorrected == Spec => []MonthIsCorrected
<1>1. Init => OffsetInv
  BY DEF Init, OffsetInv, ProbedInv, NoMonthYet, BeforeMonths, MonthIsCorrected
<1>2. OffsetInv => MonthIsCorrected
  BY DEF OffsetInv
<1> QED
  BY <1>1, <1>2, InitTypes, TypeStep, OffsetStep, PTL DEF Spec

-----------------------------------------------------------------------------
(* The depth of the event log.                                             *)

ReadToDepth ==
    \/ \A m \in 1..EventMonths, g \in 1..Len(Groups) : <<m, g>> \in asked
    \/ DOMAIN inverters \subseteq eof

(* The loop over months and groups leaves none out, and a cycle ends only  *)
(* after it.                                                               *)
DepthInv ==
    /\ pc = "event" =>
          \A m \in 1..EventMonths, g \in 1..Len(Groups) :
              m < at \/ (m = at /\ g < group) => <<m, g>> \in asked
    /\ pc = "end" /\ result # "err" /\ daily /\ mode = "cycle" => ReadToDepth
    /\ EventsReadToDepth

LEMMA DepthStep == TypeInv /\ DepthInv /\ [Next]_vars => DepthInv'
<1> SUFFICES ASSUME TypeInv, DepthInv, [Next]_vars PROVE DepthInv'
  OBVIOUS
<1>0. Months \in Nat /\ EventMonths \in Nat
  BY CollectorAssumption
<1> USE DEF DepthInv, EventsReadToDepth, ReadToDepth
<1>1. ASSUME NEW d \in BOOLEAN,
             BeginFails(d) \/ \E D \in DeviceSets : Begin(d, D)
      PROVE  DepthInv'
  BY <1>1 DEF BeginFails, Begin
<1>2. CASE LoginFails \/ Login \/ ClockSync
  BY <1>2 DEF LoginFails, Login, ClockSync
<1>3. CASE End
  BY <1>3 DEF End
<1>4. ASSUME NEW A, SpotQuery(A) PROVE DepthInv'
  <2>1. /\ pc' \notin {"event", "idle"} /\ mode' = mode
        /\ pc' = "end" => mode # "cycle"
    BY <1>4 DEF SpotQuery, SpotUnchanged, AfterSpot
  <2> QED
    BY <2>1
<1>5. ASSUME NEW A, NEW H, ETodayFallback(A, H) PROVE DepthInv'
  <2>1. /\ pc' \notin {"event", "idle"} /\ mode' = mode
        /\ pc' = "end" => mode # "cycle"
    BY <1>5 DEF ETodayFallback, SpotUnchanged, AfterSpot
  <2> QED
    BY <2>1
<1>6. CASE SpotNotWanted \/ NoETodayFallback
  BY <1>6 DEF SpotNotWanted, NoETodayFallback, SpotUnchanged, AfterSpot
<1>7. ASSUME NEW A, NEW H, ProbeMonthOffsets(A, H) PROVE DepthInv'
  BY <1>7 DEF ProbeMonthOffsets
<1>8. ASSUME NEW A, NEW H, FetchDay(A, H) PROVE DepthInv'
  <2>1. /\ pc' \notin {"idle"} /\ at' = 1 /\ group' = 1
        /\ pc' = "end" => ~daily' \/ EventMonths = 0
    BY <1>0, <1>8, DayEffect
    DEF DayControl, ArchiveUnchanged, AfterDay, AfterMonths
  <2> QED
    BY <2>1
<1>9. ASSUME NEW A, NEW H, FetchMonth(A, H) PROVE DepthInv'
  <2>1. /\ pc' \in {"month", "event", "end"}
        /\ pc' = "event" => at' = 1 /\ group' = 1
        /\ pc' = "end" => EventMonths = 0
    BY <1>0, <1>9, MonthEffect
    DEF MonthControl, AfterMonths, TypeInv, LoopInv
  <2> QED
    BY <2>1
<1>10. ASSUME NEW A, NEW E, FetchEvents(A, E) PROVE DepthInv'
  <2>1. /\ pc = "event" /\ at \in 1..EventMonths /\ group \in 1..Len(Groups)
        /\ asked' = asked \cup {<<at, group>>}
        /\ \A m \in 1..EventMonths, g \in 1..Len(Groups) :
              m < at \/ (m = at /\ g <= group) => <<m, g>> \in asked'
    BY <1>0, <1>10, SequenceType DEF FetchEvents, TypeInv, TypeOK, LoopInv
  <2>2. CASE group < Len(Groups)
    <3>1. pc' = "event" /\ at' = at /\ group' = group + 1
      BY <1>10, <2>1, <2>2 DEF FetchEvents
    <3> QED
      BY <2>1, <3>1
  <2>3. CASE group = Len(Groups)
    <3>1. \A m \in 1..EventMonths, g \in 1..Len(Groups) :
              m <= at => <<m, g>> \in asked'
      BY <2>1, <2>3, SequenceType
    <3>2. \/ pc' = "event" /\ at' = at + 1 /\ group' = 1
          \/ pc' = "end" /\ at = EventMonths
          \/ pc' = "end" /\ LogsExhausted(eof')
      BY <1>10, <2>1, <2>3 DEF FetchEvents, PrevMonth
    <3>3. DOMAIN inverters' = DOMAIN inverters
      BY <1>10, Zenon DEF FetchEvents, Decode
    <3>4. CASE pc' = "event"
      BY <2>1, <3>1, <3>2, <3>4
    <3>5. CASE pc' = "end" /\ at = EventMonths
      BY <2>1, <3>1, <3>5
    <3>6. CASE pc' = "end" /\ LogsExhausted(eof')
      BY <3>3, <3>6 DEF LogsExhausted
    <3> QED
      BY <3>2, <3>4, <3>5, <3>6
  <2> QED
    BY <2>1, <2>2, <2>3, SequenceType
<1>11. CASE StoreStep \/ OperatorClears \/ UNCHANGED vars
  BY <1>11 DEF StoreStep, OperatorClears, sessionVars, vars
<1>12. CASE Restart
  BY <1>12 DEF Restart
<1> QED
  BY <1>1, <1>2, <1>3, <1>4, <1>5, <1>6, <1>7, <1>8, <1>9, <1>10, <1>11,
     <1>12 DEF Next, SessionStep

(* A daily cycle ends with every configured month of events asked for,     *)
(* unless every inverter has reported the first entry of its log.          *)
THEOREM EventsAreReadToDepth == Spec => []EventsReadToDepth
<1>1. Init => DepthInv
  BY DEF Init, DepthInv, EventsReadToDepth
<1>2. DepthInv => EventsReadToDepth
  BY DEF DepthInv
<1> QED
  BY <1>1, <1>2, InitTypes, TypeStep, DepthStep, PTL DEF Spec
=============================================================================
