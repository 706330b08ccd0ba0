-------------------------- MODULE Diagnostics_proofs --------------------------
(***************************************************************************)
(* Theorems about Diagnostics, for every queue capacity, batch size, ring  *)
(* bound and number of records: what the pipeline may lose, repeat or      *)
(* reorder, and that it implements TransmissionLog.                        *)
(***************************************************************************)
EXTENDS Diagnostics, SequenceTheorems, FiniteSetTheorems, TLAPS

(* Where the writer is tells what it holds; it flushes only after a stop,  *)
(* after which nothing is pushed any more.                                 *)
PhaseInv ==
    /\ writer \in {"write", "flushwrite"} <=> batch # <<>>
    /\ writer \in {"flush", "flushwrite", "done"} => stopped
    /\ stopped => main \notin {"running", "notifying"}

(* Everything stored was recorded before everything in the writer's hands, *)
(* and that before everything queued; each part is in order by itself.     *)
OrderInv ==
    /\ \A i \in 1..Len(pending) : pending[i].n <= pushed
    /\ \A i, j \in 1..Len(pending) : i < j => pending[i].n < pending[j].n
    /\ \A i \in 1..Len(batch) : batch[i].n <= pushed
    /\ \A i, j \in 1..Len(batch) : i < j => batch[i].n < batch[j].n
    /\ \A i \in 1..Len(batch) : \A j \in 1..Len(pending) :
           batch[i].n < pending[j].n
    /\ newest <= pushed
    /\ \A i \in 1..Len(pending) : newest < pending[i].n
    /\ \A i \in 1..Len(batch) : newest < batch[i].n

(* The rows carry increasing ids in the order of recording.                *)
RowInv ==
    /\ \A r \in db : r.n <= newest /\ r.id < nextId
    /\ \A r1, r2 \in db : r1.id < r2.id <=> r1.n < r2.n

PipelineInv ==
    PhaseInv /\ CleanFlush /\ QueueBounded /\ Conservation /\ OrderInv /\ RowInv

-----------------------------------------------------------------------------
(* What a push does to the queue, element by element.                      *)
LEMMA PushEffect ==
    ASSUME TypeOK, Push
    PROVE  /\ Overflow \in Nat /\ Overflow <= Len(pending)
           /\ pending' \in Seq(Record)
           /\ Len(pending') = Len(pending) - Overflow + 1
           /\ Len(pending) <= Capacity => Len(pending') <= Capacity
           /\ \A i \in 1..Len(pending') :
                  pending'[i] = IF i <= Len(pending) - Overflow
                                THEN pending[i + Overflow]
                                ELSE [n |-> pushed + 1, at |-> now]
<1> DEFINE kept == SubSeq(pending, Overflow + 1, Len(pending))
           new == [n |-> pushed + 1, at |-> now]
<1>1. pending \in Seq(Record) /\ Len(pending) \in Nat
  BY LenProperties DEF TypeOK
<1>2. Overflow \in Nat /\ Overflow <= Len(pending)
  BY <1>1, DiagnosticsAssumption DEF Overflow
<1>3. /\ kept \in Seq(Record)
      /\ Len(kept) = Len(pending) - Overflow
      /\ \A i \in 1..Len(kept) : kept[i] = pending[i + Overflow]
  <2>1. \A i \in (Overflow + 1)..Len(pending) : pending[i] \in Record
    BY <1>1, <1>2, ElementOfSeq
  <2> QED BY <1>1, <1>2, <2>1, SubSeqProperties
<1>4. new \in Record
  BY DiagnosticsAssumption DEF TypeOK, Push, Record
<1>5. pending' = Append(kept, new)
  BY DEF Push
<1> HIDE DEF kept, new
<1>6. /\ pending' \in Seq(Record)
      /\ Len(pending') = Len(kept) + 1
      /\ \A i \in 1..Len(pending') :
             pending'[i] = IF i <= Len(kept) THEN kept[i] ELSE new
  BY <1>3, <1>4, <1>5
<1>7. Len(pending) <= Capacity => Len(pending) - Overflow + 1 <= Capacity
  BY <1>1, DiagnosticsAssumption DEF Overflow
<1> QED BY <1>1, <1>2, <1>3, <1>6, <1>7 DEF new

(* What a drain does to the queue and the batch, element by element.       *)
LEMMA DrainEffect ==
    ASSUME TypeOK, Drain
    PROVE  /\ Take \in Nat /\ Take <= Len(pending) /\ Take <= MaxBatch
           /\ Take = 0 <=> pending = <<>>
           /\ batch' \in Seq(Record) /\ Len(batch') = Take
           /\ \A i \in 1..Take : batch'[i] = pending[i]
           /\ pending' \in Seq(Record)
           /\ Len(pending') = Len(pending) - Take
           /\ \A i \in 1..Len(pending') : pending'[i] = pending[i + Take]
<1>1. pending \in Seq(Record) /\ Len(pending) \in Nat
  BY LenProperties DEF TypeOK
<1>2. Take \in Nat /\ Take <= Len(pending) /\ Take <= MaxBatch
  BY <1>1, DiagnosticsAssumption DEF Take
<1>3. Take = 0 <=> pending = <<>>
  BY <1>1, EmptySeq, DiagnosticsAssumption DEF Take
<1>4. \A i \in 1..Len(pending) : pending[i] \in Record
  BY <1>1, ElementOfSeq
<1>5. /\ batch' = SubSeq(pending, 1, Take)
      /\ pending' = SubSeq(pending, Take + 1, Len(pending))
  BY DEF Drain
<1> HIDE DEF Take
<1>6. /\ SubSeq(pending, 1, Take) \in Seq(Record)
      /\ Len(SubSeq(pending, 1, Take)) = Take
      /\ \A i \in 1..Take : SubSeq(pending, 1, Take)[i] = pending[i]
  BY <1>1, <1>2, <1>4, SubSeqProperties
<1>7. /\ SubSeq(pending, Take + 1, Len(pending)) \in Seq(Record)
      /\ Len(SubSeq(pending, Take + 1, Len(pending))) = Len(pending) - Take
      /\ \A i \in 1..(Len(pending) - Take) :
             SubSeq(pending, Take + 1, Len(pending))[i] = pending[i + Take]
  BY <1>1, <1>2, <1>4, SubSeqProperties
<1> QED BY <1>2, <1>3, <1>5, <1>6, <1>7

(* The rows a written batch adds.                                          *)
LEMMA BatchRows ==
    ASSUME TypeOK, batch # <<>>
    PROVE  /\ Len(batch) \in Nat \ {0}
           /\ \A i \in 1..Len(batch) : batch[i] \in Record
           /\ NewRows \in SUBSET DbRow
           /\ batch[Len(batch)].n \in 1..MaxRecords
<1>1. Len(batch) \in Nat \ {0} /\ \A i \in 1..Len(batch) : batch[i] \in Record
  BY EmptySeq, ElementOfSeq DEF TypeOK
<1>2. \A i \in 1..Len(batch) :
          [id |-> nextId + i - 1, n |-> batch[i].n,
          at |-> batch[i].at] \in DbRow
  BY <1>1 DEF TypeOK, Record, DbRow
<1>3. batch[Len(batch)] \in Record
  BY <1>1
<1> QED BY <1>1, <1>2, <1>3 DEF Record, NewRows

(* Pruning only removes rows.                                              *)
LEMMA PruneRemoves ==
    ASSUME Prune \/ PruneFails
    PROVE  db' \subseteq db
BY DEF Prune, PruneFails, AfterAged, Oldest, Aged, OverCap

-----------------------------------------------------------------------------
(* The writer's position and what it holds stay in step.                   *)
LEMMA PhaseStep ==
    ASSUME TypeOK, PhaseInv, [Next]_vars
    PROVE  PhaseInv'
<1> USE DEF PhaseInv, queueVars, writerVars, dbVars, writerEnv,
            selectUnchanged
<1>1. CASE MainStep
  BY <1>1 DEF MainStep, Push, NotifyOne, Trigger, NotifyWaiters, Join, Timeout
<1>2. CASE Top \/ Woken
  BY <1>2 DEF Top, Woken
<1>3. CASE WorkCheck \/ WorkNotified \/ WorkSize \/ WorkSlept
  BY <1>3 DEF WorkCheck, WorkNotified, WorkSize, WorkSlept, Selecting
<1>4. CASE StopCheck \/ StopRegister
  BY <1>4 DEF StopCheck, StopRegister, Selecting
<1>5. CASE Drain
  <2>1. batch' # <<>> <=> pending # <<>>
    BY <1>5, DrainEffect, EmptySeq
  <2> QED BY <1>5, <2>1 DEF Drain
<1>6. CASE WriteBatch \/ WriteFails
  BY <1>6 DEF WriteBatch, WriteFails, AfterWrite
<1>7. CASE Prune \/ PruneFails
  BY <1>7 DEF Prune, PruneFails
<1>8. CASE Tick \/ Restart
  BY <1>8 DEF Tick, Restart
<1>9. CASE UNCHANGED vars
  BY <1>9 DEF vars
<1> QED
  BY <1>1, <1>2, <1>3, <1>4, <1>5, <1>6, <1>7, <1>8, <1>9
  DEF Next, WriterStep

(* Every variable keeps its type.                                          *)
LEMMA TypeStep ==
    ASSUME TypeOK, PhaseInv, [Next]_vars
    PROVE  TypeOK'
<1>a. /\ Len(pending) \in Nat /\ Len(batch) \in Nat
      /\ <<>> \in Seq(Record)
  BY LenProperties, EmptySeq DEF TypeOK
<1> USE DEF queueVars, writerVars, dbVars, writerEnv, selectUnchanged
<1>1. CASE Push
  <2>1. /\ pending' \in Seq(Record) /\ Overflow \in Nat
        /\ pushed' \in 0..MaxRecords
    BY <1>1, PushEffect, DiagnosticsAssumption DEF Push, TypeOK
  <2> QED BY <1>1, <2>1 DEF Push, TypeOK
<1>2. CASE NotifyOne
  <2>1. /\ main' = "running"
        /\ UNCHANGED <<now, pushed, pending, dropped, stopped, writer, stop,
                       batch, prunePending, dbVars, lost>>
    BY <1>2 DEF NotifyOne
  <2>2. permit' \in BOOLEAN
    BY <1>2 DEF NotifyOne, TypeOK
  <2>3. work' \in {"off", "check", "unregistered", "parked", "size", "sleeping"}
    BY <1>2 DEF NotifyOne, TypeOK
  <2> QED BY <2>1, <2>2, <2>3 DEF TypeOK
<1>3. CASE Trigger
  BY <1>3 DEF Trigger, TypeOK
<1>4. CASE NotifyWaiters
  BY <1>4 DEF NotifyWaiters, TypeOK
<1>5. CASE Join \/ Timeout
  BY <1>5 DEF Join, Timeout, TypeOK
<1>6. CASE Top \/ Woken
  BY <1>6 DEF Top, Woken, TypeOK
<1>7. CASE WorkCheck
  BY <1>7 DEF WorkCheck, TypeOK
<1>8. CASE WorkNotified
  <2>1. UNCHANGED <<selectUnchanged, writer, stop>>
    BY <1>8 DEF WorkNotified
  <2>2. permit' \in BOOLEAN /\ work' \in {"size", "parked"}
    BY <1>8 DEF WorkNotified
  <2> QED BY <2>1, <2>2 DEF TypeOK
<1>9. CASE WorkSize \/ WorkSlept
  BY <1>9 DEF WorkSize, WorkSlept, TypeOK
<1>10. CASE StopCheck \/ StopRegister
  BY <1>10 DEF StopCheck, StopRegister, TypeOK
<1>11. CASE Drain
  BY SMTT(30), <1>11, DrainEffect DEF Drain, TypeOK
<1>12. CASE WriteBatch
  <2>1. batch # <<>>
    BY <1>12 DEF WriteBatch, PhaseInv
  <2>2. /\ db' \in SUBSET DbRow /\ nextId' \in Nat \ {0}
        /\ newest' \in 0..MaxRecords /\ written' \in Nat
    BY <1>12, <2>1, <1>a, BatchRows DEF WriteBatch, TypeOK
  <2> QED BY <1>12, <2>2, <1>a DEF WriteBatch, AfterWrite, TypeOK
<1>13. CASE WriteFails
  BY <1>13, <1>a DEF WriteFails, AfterWrite, TypeOK
<1>14. CASE Prune \/ PruneFails
  <2>1. db' \in SUBSET DbRow
    BY <1>14, PruneRemoves DEF TypeOK
  <2>2. More \in BOOLEAN
    BY DEF More
  <2>3. prunePending' \in BOOLEAN /\ pruneFailed' \in BOOLEAN /\ writer' = "top"
    BY <1>14, <2>2 DEF Prune, PruneFails
  <2>4. UNCHANGED <<writerEnv, queueVars, work, stop, batch, nextId, newest,
                    written, failed>>
    BY <1>14 DEF Prune, PruneFails
  <2> QED BY <2>1, <2>3, <2>4 DEF TypeOK
<1>15. CASE Tick
  BY <1>15 DEF Tick, TypeOK
<1>16. CASE Restart
  <2>1. lost' \in Nat
    BY <1>16, <1>a DEF Restart, TypeOK
  <2>2. pending' \in Seq(Record) /\ batch' \in Seq(Record) /\ dropped' \in Nat
    BY <1>16, <1>a DEF Restart
  <2> QED BY <1>16, <2>1, <2>2 DEF Restart, TypeOK
<1>17. CASE UNCHANGED vars
  BY <1>17 DEF vars, TypeOK
<1> QED
  BY <1>1, <1>2, <1>3, <1>4, <1>5, <1>6, <1>7, <1>8, <1>9, <1>10, <1>11,
     <1>12, <1>13, <1>14, <1>15, <1>16, <1>17
  DEF Next, MainStep, WriterStep

(* The types and the writer's phases, in every reachable state.            *)
THEOREM TypeAndPhase == Spec => [](TypeOK /\ PhaseInv)
<1>1. Init => TypeOK /\ PhaseInv
  <2> SUFFICES ASSUME Init PROVE TypeOK /\ PhaseInv
    OBVIOUS
  <2>1. pending \in Seq(Record) /\ batch \in Seq(Record)
    BY EmptySeq DEF Init
  <2>2. /\ now \in 0..MaxTime /\ pushed \in 0..MaxRecords
        /\ newest \in 0..MaxRecords
    BY DiagnosticsAssumption DEF Init
  <2>3. /\ db \in SUBSET DbRow /\ nextId \in Nat \ {0}
        /\ dropped \in Nat /\ written \in Nat /\ failed \in Nat /\ lost \in Nat
    BY DEF Init
  <2>4. TypeOK
    <3> HIDE DEF Record, DbRow
    <3> QED BY <2>1, <2>2, <2>3 DEF Init, TypeOK
  <2>5. PhaseInv
    BY DEF Init, PhaseInv
  <2> QED BY <2>4, <2>5
<1> QED BY <1>1, TypeStep, PhaseStep, PTL DEF Spec

(* Every variable keeps its type, whatever the sizes and bounds.           *)
THEOREM TypeCorrect == Spec => []TypeOK
BY TypeAndPhase, PTL

-----------------------------------------------------------------------------
(* The steps that move no record: wakeups, flags, timers, the clock.       *)
dataVars == <<pushed, pending, dropped, batch, db, nextId, newest, written,
              failed, lost>>

Moving == \/ Push \/ Drain \/ WriteBatch \/ WriteFails
          \/ Prune \/ PruneFails \/ Restart

LEMMA QuietSteps ==
    ASSUME [Next]_vars, ~Moving
    PROVE  UNCHANGED dataVars
<1> USE DEF dataVars, queueVars, writerVars, dbVars, writerEnv, selectUnchanged
<1>1. CASE NotifyOne \/ Trigger \/ NotifyWaiters \/ Join \/ Timeout
  BY <1>1 DEF NotifyOne, Trigger, NotifyWaiters, Join, Timeout
<1>2. CASE Top \/ Woken \/ Tick
  BY <1>2 DEF Top, Woken, Tick
<1>3. CASE \/ WorkCheck \/ WorkNotified \/ WorkSize \/ WorkSlept
           \/ StopCheck \/ StopRegister
  BY <1>3 DEF WorkCheck, WorkNotified, WorkSize, WorkSlept, StopCheck,
              StopRegister
<1>4. CASE UNCHANGED vars
  BY <1>4 DEF vars
<1> QED BY <1>1, <1>2, <1>3, <1>4 DEF Next, MainStep, WriterStep, Moving

(* Records are moved or accounted for, and the queue keeps its bound.      *)
LEMMA CountStep ==
    ASSUME TypeOK, PhaseInv, QueueBounded, Conservation, [Next]_vars
    PROVE  QueueBounded' /\ Conservation'
<1>a. /\ Len(pending) \in Nat /\ Len(batch) \in Nat
      /\ pushed \in Nat /\ dropped \in Nat
      /\ written \in Nat /\ failed \in Nat /\ lost \in Nat
      /\ Len(<<>>) = 0
  BY LenProperties, EmptySeq, DiagnosticsAssumption DEF TypeOK
<1>b. 0 <= Capacity /\ 0 <= MaxBatch
  BY DiagnosticsAssumption
<1> USE DEF queueVars, writerVars, dbVars, writerEnv
<1>1. CASE Push
  <2>1. /\ Overflow \in Nat
        /\ Len(pending') = Len(pending) - Overflow + 1
        /\ Len(pending') <= Capacity
    BY <1>1, PushEffect DEF QueueBounded
  <2>2. /\ UNCHANGED <<batch, written, failed, lost>>
        /\ pushed' = pushed + 1 /\ dropped' = dropped + Overflow
    BY <1>1 DEF Push
  <2> HIDE DEF Overflow
  <2> QED BY <2>1, <2>2, <1>a DEF QueueBounded, Conservation
<1>2. CASE Drain
  <2>1. /\ Take \in Nat /\ Take <= MaxBatch
        /\ Len(batch') = Take /\ Len(pending') = Len(pending) - Take
    BY <1>2, DrainEffect
  <2>2. Len(batch) = 0
    BY <1>2, <1>a DEF Drain, PhaseInv
  <2> HIDE DEF Take
  <2>3. Len(pending') <= Capacity /\ Len(batch') <= MaxBatch
    BY <2>1, <1>a, DiagnosticsAssumption DEF QueueBounded
  <2>4. UNCHANGED <<pushed, dropped, written, failed, lost>>
    BY <1>2 DEF Drain
  <2> QED BY <2>1, <2>2, <2>3, <2>4, <1>a DEF QueueBounded, Conservation
<1>3. CASE WriteBatch
  BY <1>3, <1>a, <1>b DEF WriteBatch, QueueBounded, Conservation
<1>4. CASE WriteFails
  BY <1>4, <1>a, <1>b DEF WriteFails, QueueBounded, Conservation
<1>5. CASE Prune \/ PruneFails
  BY <1>5 DEF Prune, PruneFails, QueueBounded, Conservation
<1>6. CASE Restart
  BY <1>6, <1>a, <1>b DEF Restart, QueueBounded, Conservation
<1>7. CASE ~Moving
  BY <1>7, QuietSteps DEF dataVars, QueueBounded, Conservation
<1> QED BY <1>1, <1>2, <1>3, <1>4, <1>5, <1>6, <1>7 DEF Moving

(* The writer's last drain found nothing, and nothing is pushed after it.  *)
LEMMA FlushStep ==
    ASSUME TypeOK, PhaseInv, CleanFlush, [Next]_vars
    PROVE  CleanFlush'
<1> USE DEF CleanFlush, queueVars, writerVars, dbVars, writerEnv
<1>1. CASE Push
  BY <1>1 DEF Push, PhaseInv
<1>2. CASE Drain
  <2>1. CASE pending = <<>>
    <3>1. Len(pending') = 0 /\ Len(batch') = 0
      BY <1>2, <2>1, DrainEffect, EmptySeq
    <3>2. pending' \in Seq(Record) /\ batch' \in Seq(Record)
      BY <1>2, DrainEffect
    <3> QED BY <3>1, <3>2, EmptySeq
  <2>2. CASE pending # <<>>
    BY <1>2, <2>2 DEF Drain
  <2> QED BY <2>1, <2>2
<1>3. CASE WriteBatch \/ WriteFails
  BY <1>3 DEF WriteBatch, WriteFails, AfterWrite
<1>4. CASE Prune \/ PruneFails
  BY <1>4 DEF Prune, PruneFails
<1>5. CASE Restart
  BY <1>5 DEF Restart
<1>6. CASE ~Moving
  <2>1. UNCHANGED <<pending, batch>>
    BY <1>6, QuietSteps DEF dataVars
  <2>2. writer' = "done" => writer = "done"
    <3>1. CASE NotifyOne \/ Trigger \/ NotifyWaiters \/ Join \/ Timeout \/ Tick
      BY <3>1 DEF NotifyOne, Trigger, NotifyWaiters, Join, Timeout, Tick
    <3>2. CASE Top \/ Woken
      BY <3>2 DEF Top, Woken
    <3>3. CASE \/ WorkCheck \/ WorkNotified \/ WorkSize \/ WorkSlept
               \/ StopCheck \/ StopRegister
      BY <3>3 DEF WorkCheck, WorkNotified, WorkSize, WorkSlept, StopCheck,
                  StopRegister
    <3>4. CASE UNCHANGED vars
      BY <3>4 DEF vars
    <3> QED
      BY <1>6, <3>1, <3>2, <3>3, <3>4 DEF Next, MainStep, WriterStep, Moving
  <2> QED BY <2>1, <2>2
<1> QED BY <1>1, <1>2, <1>3, <1>4, <1>5, <1>6 DEF Moving

(* Both hands of the pipeline stay in the order of recording.              *)
LEMMA OrderStep ==
    ASSUME TypeOK, PhaseInv, OrderInv, [Next]_vars
    PROVE  OrderInv'
<1>a. /\ Len(pending) \in Nat /\ Len(batch) \in Nat
      /\ pushed \in Nat /\ newest \in Nat
      /\ Len(<<>>) = 0
  BY LenProperties, EmptySeq, DiagnosticsAssumption DEF TypeOK
<1>b. /\ \A i \in 1..Len(pending) : pending[i].n \in Nat
      /\ \A i \in 1..Len(batch) : batch[i].n \in Nat
  <2>1. /\ \A i \in 1..Len(pending) : pending[i] \in Record
        /\ \A i \in 1..Len(batch) : batch[i] \in Record
    BY ElementOfSeq DEF TypeOK
  <2> QED BY SMTT(30), <2>1, DiagnosticsAssumption DEF Record
<1> USE DEF queueVars, writerVars, dbVars, writerEnv
<1>1. CASE Push
  <2>1. /\ Overflow \in Nat /\ Overflow <= Len(pending)
        /\ Len(pending') = Len(pending) - Overflow + 1
        /\ \A i \in 1..Len(pending') :
               pending'[i] = IF i <= Len(pending) - Overflow
                             THEN pending[i + Overflow]
                             ELSE [n |-> pushed + 1, at |-> now]
    BY <1>1, PushEffect
  <2>2. UNCHANGED <<batch, newest>> /\ pushed' = pushed + 1
    BY <1>1 DEF Push
  <2> HIDE DEF Overflow
  <2>3. \A i \in 1..Len(pending') :
            \/ /\ i <= Len(pending) - Overflow
               /\ i + Overflow \in 1..Len(pending)
               /\ pending'[i].n = pending[i + Overflow].n
            \/ i = Len(pending') /\ pending'[i].n = pushed + 1
    BY <2>1, <1>a
  <2>4. /\ \A i \in 1..Len(pending') :
               pending'[i].n <= pushed' /\ newest' < pending'[i].n
        /\ newest' <= pushed'
    BY SMTT(30), <2>2, <2>3, <1>a, <1>b DEF OrderInv
  <2>5. \A i, j \in 1..Len(pending') : i < j => pending'[i].n < pending'[j].n
    <3> SUFFICES ASSUME NEW i \in 1..Len(pending'), NEW j \in 1..Len(pending'),
                        i < j
                 PROVE  pending'[i].n < pending'[j].n
      OBVIOUS
    <3>1. Len(pending') \in Nat
      BY <2>1, <1>a
    <3>2. /\ i + Overflow \in 1..Len(pending)
          /\ pending'[i].n = pending[i + Overflow].n
      BY <2>3, <3>1
    <3>3. CASE /\ j + Overflow \in 1..Len(pending)
               /\ pending'[j].n = pending[j + Overflow].n
      BY <3>2, <3>3, <2>1, <3>1 DEF OrderInv
    <3>4. CASE pending'[j].n = pushed + 1
      BY <3>2, <3>4, <1>a, <1>b DEF OrderInv
    <3> QED BY <2>3, <3>3, <3>4
  <2>6. \A i \in 1..Len(batch') : \A j \in 1..Len(pending') :
            batch'[i].n < pending'[j].n
    <3> SUFFICES ASSUME NEW i \in 1..Len(batch), NEW j \in 1..Len(pending')
                 PROVE  batch[i].n < pending'[j].n
      BY <2>2
    <3>1. CASE /\ j + Overflow \in 1..Len(pending)
               /\ pending'[j].n = pending[j + Overflow].n
      BY <3>1 DEF OrderInv
    <3>2. CASE pending'[j].n = pushed + 1
      BY <3>2, <1>a, <1>b DEF OrderInv
    <3> QED BY <2>3, <3>1, <3>2
  <2>7. \A i \in 1..Len(batch') :
            /\ batch'[i].n <= pushed' /\ newest' < batch'[i].n
            /\ \A j \in 1..Len(batch') : i < j => batch'[i].n < batch'[j].n
    BY <2>2, <1>a, <1>b DEF OrderInv
  <2> QED BY <2>4, <2>5, <2>6, <2>7 DEF OrderInv
<1>2. CASE Drain
  <2>1. /\ Take \in Nat /\ Take <= Len(pending)
        /\ Len(batch') = Take
        /\ \A i \in 1..Take : batch'[i] = pending[i]
        /\ Len(pending') = Len(pending) - Take
        /\ \A i \in 1..Len(pending') : pending'[i] = pending[i + Take]
    BY <1>2, DrainEffect
  <2>2. UNCHANGED <<pushed, newest>>
    BY <1>2 DEF Drain
  <2> HIDE DEF Take
  <2>3. /\ \A i \in 1..Len(batch') :
               i \in 1..Len(pending) /\ batch'[i].n = pending[i].n
        /\ \A i \in 1..Len(pending') :
               /\ i + Take \in 1..Len(pending)
               /\ pending'[i].n = pending[i + Take].n
    BY <2>1, <1>a
  <2>4. \A i \in 1..Len(batch') : \A j \in 1..Len(pending') : i < j + Take
    BY <2>1, <1>a
  <2>5. \A i, j \in 1..Len(pending') : i < j => i + Take < j + Take
    BY <2>1, <1>a
  <2> QED BY <2>2, <2>3, <2>4, <2>5 DEF OrderInv
<1>3. CASE WriteBatch
  <2>1. batch # <<>> /\ Len(batch) \in 1..Len(batch)
    <3>1. batch # <<>>
      BY <1>3 DEF WriteBatch, PhaseInv
    <3> QED BY <3>1, EmptySeq, <1>a DEF TypeOK
  <2>2. /\ newest' = batch[Len(batch)].n
        /\ Len(batch') = 0 /\ UNCHANGED <<pending, pushed>>
    BY <1>3, <1>a DEF WriteBatch
  <2> QED BY <2>1, <2>2, <1>a, <1>b DEF OrderInv
<1>4. CASE WriteFails
  <2>1. Len(batch') = 0 /\ UNCHANGED <<pending, pushed, newest>>
    BY <1>4, <1>a DEF WriteFails
  <2> QED BY <2>1 DEF OrderInv
<1>5. CASE Prune \/ PruneFails
  <2>1. UNCHANGED <<pending, batch, pushed, newest>>
    BY <1>5 DEF Prune, PruneFails
  <2> QED BY <2>1 DEF OrderInv
<1>6. CASE Restart
  <2>1. Len(batch') = 0 /\ Len(pending') = 0 /\ UNCHANGED <<pushed, newest>>
    BY <1>6, <1>a DEF Restart
  <2> QED BY <2>1 DEF OrderInv
<1>7. CASE ~Moving
  <2>1. UNCHANGED <<pending, batch, pushed>>
    BY <1>7, QuietSteps DEF dataVars
  <2>2. UNCHANGED newest
    BY <1>7, QuietSteps DEF dataVars
  <2> QED BY <2>1, <2>2 DEF OrderInv
<1> QED BY <1>1, <1>2, <1>3, <1>4, <1>5, <1>6, <1>7 DEF Moving

(* A batch is numbered upwards from the ids in use, in its own order, which*)
(* is later than every stored row; pruning only removes rows.              *)
LEMMA RowStep ==
    ASSUME TypeOK, PhaseInv, OrderInv, RowInv, [Next]_vars
    PROVE  RowInv'
<1>1. CASE WriteBatch
  <2>1. batch # <<>>
    BY <1>1 DEF WriteBatch, PhaseInv
  <2>2. /\ Len(batch) \in Nat \ {0}
        /\ \A i \in 1..Len(batch) : batch[i].n \in Nat
    BY <2>1, BatchRows, DiagnosticsAssumption DEF Record
  <2>3. /\ db' = db \cup NewRows
        /\ nextId' = nextId + Len(batch)
        /\ newest' = batch[Len(batch)].n
    BY <1>1 DEF WriteBatch
  <2>4. \A r \in db : r.id \in Nat /\ r.n \in Nat
    BY DiagnosticsAssumption DEF TypeOK, DbRow
  <2>5. nextId \in Nat /\ newest \in Nat
    BY DiagnosticsAssumption DEF TypeOK
  <2>6. \A r \in NewRows : \E i \in 1..Len(batch) :
            r.id = nextId + i - 1 /\ r.n = batch[i].n
    BY DEF NewRows
  <2>7. \A r \in NewRows : /\ r.id \in Nat /\ r.n \in Nat
                       /\ r.n <= newest' /\ r.id < nextId'
                       /\ r.id >= nextId /\ r.n > newest
    BY <2>2, <2>3, <2>5, <2>6 DEF OrderInv
  <2>8. \A r1, r2 \in NewRows : r1.id < r2.id <=> r1.n < r2.n
    <3> SUFFICES ASSUME NEW r1 \in NewRows, NEW r2 \in NewRows
                 PROVE  r1.id < r2.id <=> r1.n < r2.n
      OBVIOUS
    <3>1. PICK i \in 1..Len(batch) : r1.id = nextId + i - 1 /\ r1.n = batch[i].n
      BY <2>6
    <3>2. PICK j \in 1..Len(batch) : r2.id = nextId + j - 1 /\ r2.n = batch[j].n
      BY <2>6
    <3>3. r1.id < r2.id <=> i < j
      BY <3>1, <3>2, <2>2, <2>5
    <3>4. i < j <=> batch[i].n < batch[j].n
      <4>1. /\ i < j => batch[i].n < batch[j].n
            /\ j < i => batch[j].n < batch[i].n
        BY DEF OrderInv
      <4>2. batch[i].n \in Nat /\ batch[j].n \in Nat /\ i \in Nat /\ j \in Nat
        BY <2>2
      <4> QED BY <4>1, <4>2
    <3> QED BY <3>1, <3>2, <3>3, <3>4
  <2>9. newest < newest'
    BY <2>2, <2>3, <2>5 DEF OrderInv
  <2>10. \A r \in db : r.n <= newest /\ r.id < nextId
    BY DEF RowInv
  <2>11. \A r \in db' : r.n <= newest' /\ r.id < nextId'
    <3>1. newest' \in Nat /\ nextId' \in Nat /\ nextId < nextId'
      BY <2>2, <2>3, <2>5
    <3> QED BY <2>3, <2>4, <2>5, <2>7, <2>9, <2>10, <3>1
  <2>12. \A r1, r2 \in db' : r1.id < r2.id <=> r1.n < r2.n
    <3> SUFFICES ASSUME NEW r1 \in db', NEW r2 \in db'
                 PROVE  r1.id < r2.id <=> r1.n < r2.n
      OBVIOUS
    <3>1. CASE r1 \in db /\ r2 \in db
      BY <3>1 DEF RowInv
    <3>2. CASE r1 \in NewRows /\ r2 \in NewRows
      BY <3>2, <2>8
    <3>3. CASE r1 \in db /\ r2 \in NewRows
      BY <3>3, <2>4, <2>5, <2>7, <2>10
    <3>4. CASE r1 \in NewRows /\ r2 \in db
      BY <3>4, <2>4, <2>5, <2>7, <2>10
    <3> QED BY <2>3, <3>1, <3>2, <3>3, <3>4
  <2> QED BY <2>11, <2>12 DEF RowInv
<1>2. CASE Prune \/ PruneFails
  <2>1. db' \subseteq db
    BY <1>2, PruneRemoves
  <2>2. UNCHANGED <<newest, nextId>>
    BY <1>2 DEF Prune, PruneFails
  <2> QED BY <2>1, <2>2 DEF RowInv
<1>3. CASE Push \/ Drain \/ WriteFails \/ Restart
  <2>1. UNCHANGED <<db, newest, nextId>>
    BY <1>3 DEF Push, Drain, WriteFails, Restart, dbVars
  <2> QED BY <2>1 DEF RowInv
<1>4. CASE ~Moving
  <2>1. UNCHANGED <<db, newest, nextId>>
    BY <1>4, QuietSteps DEF dataVars
  <2> QED BY <2>1 DEF RowInv
<1> QED BY <1>1, <1>2, <1>3, <1>4 DEF Moving

(* The inductive invariant of the pipeline.                                *)
THEOREM Invariance == Spec => []PipelineInv
<1>1. Init => PipelineInv
  <2> SUFFICES ASSUME Init PROVE PipelineInv
    OBVIOUS
  <2>1. Len(<<>>) = 0 /\ \A i \in 1..Len(<<>>) : FALSE
    BY EmptySeq
  <2>2. PhaseInv /\ CleanFlush
    BY DEF Init, PhaseInv, CleanFlush
  <2>3. QueueBounded /\ Conservation
    BY <2>1, DiagnosticsAssumption DEF Init, QueueBounded, Conservation
  <2>4. OrderInv /\ RowInv
    BY <2>1 DEF Init, OrderInv, RowInv
  <2> QED BY <2>2, <2>3, <2>4 DEF PipelineInv
<1>2. TypeOK /\ PipelineInv /\ [Next]_vars => PipelineInv'
  BY PhaseStep, CountStep, FlushStep, OrderStep, RowStep DEF PipelineInv
<1> QED BY <1>1, <1>2, TypeCorrect, PTL DEF Spec

(* Conservation: every record pushed by the poll cycle is queued, in the   *)
(* writer's hands, written, dropped, failed or lost with its process, and  *)
(* exactly one of these.                                                   *)
THEOREM RecordsConserved == Spec => []Conservation
BY Invariance, PTL DEF PipelineInv

(* QueueBounded: WriteQueue::push keeps the queue within its capacity and  *)
(* a drained batch within MAX_BATCH, whatever the writer's pace.           *)
THEOREM QueueStaysBounded == Spec => []QueueBounded
BY Invariance, PTL DEF PipelineInv

(* CleanFlush: the writer task returns only when nothing is left to write. *)
THEOREM FlushIsClean == Spec => []CleanFlush
BY Invariance, PTL DEF PipelineInv

(* StoredInOrder: transmission ids follow the order of recording, across   *)
(* drops, failed batches, pruning and restarts.                            *)
THEOREM StorageOrder == Spec => []StoredInOrder
<1>1. TypeOK /\ PipelineInv => StoredInOrder
  <2> SUFFICES ASSUME TypeOK, PipelineInv PROVE StoredInOrder
    OBVIOUS
  <2>1. /\ Len(pending) \in Nat /\ Len(batch) \in Nat
        /\ \A i \in 1..Len(pending) : pending[i] \in Record
        /\ \A i \in 1..Len(batch) : batch[i] \in Record
    BY LenProperties, ElementOfSeq DEF TypeOK
  <2>2. /\ \A i \in 1..Len(pending) : pending[i].n \in Nat
        /\ \A i \in 1..Len(batch) : batch[i].n \in Nat
        /\ \A r \in db : r.n \in Nat
        /\ newest \in Nat
    BY <2>1, DiagnosticsAssumption DEF TypeOK, Record, DbRow
  <2>3. \A r \in db : r.n <= newest
    BY DEF PipelineInv, RowInv
  <2>4. /\ \A i \in 1..Len(pending) : newest < pending[i].n
        /\ \A i \in 1..Len(batch) : newest < batch[i].n
    BY DEF PipelineInv, OrderInv
  <2>5. \A r1, r2 \in db : r1.id < r2.id <=> r1.n < r2.n
    BY DEF PipelineInv, RowInv
  <2> QED BY <2>2, <2>3, <2>4, <2>5 DEF StoredInOrder
<1> QED BY <1>1, Invariance, TypeCorrect, PTL

-----------------------------------------------------------------------------
(* The ring's bound.                                                       *)

(* transmission_id is a key of the table.                                  *)
KeyInv == \A r1, r2 \in db : r1.id = r2.id => r1 = r2

(* RingBounded, and also while the writer goes for the next batch.         *)
RestInv ==
    writer \in {"top", "select", "woken", "drain"}
    /\ ~prunePending /\ ~pruneFailed => Cardinality(db) <= MaxRows

LEMMA KeyStep ==
    ASSUME TypeOK, RowInv, KeyInv, [Next]_vars
    PROVE  KeyInv'
<1>1. CASE WriteBatch
  <2>1. db' = db \cup NewRows
    BY <1>1 DEF WriteBatch
  <2>2. nextId \in Nat /\ \A r \in db : r.id \in Nat /\ r.id < nextId
    BY DEF TypeOK, DbRow, RowInv
  <2>3. ASSUME NEW r \in NewRows
        PROVE  \E i \in 1..Len(batch) :
                  /\ r = [id |-> nextId + i - 1, n |-> batch[i].n,
                          at |-> batch[i].at]
                  /\ r.id = nextId + i - 1
    BY <2>3 DEF NewRows
  <2>4. Len(batch) \in Nat
    BY DEF TypeOK
  <2>5. \A r \in NewRows : r.id \in Nat /\ r.id >= nextId
    BY <2>2, <2>3, <2>4
  <2>6. ASSUME NEW r1 \in NewRows, NEW r2 \in NewRows, r1.id = r2.id
        PROVE  r1 = r2
    <3>1. PICK i \in 1..Len(batch) :
              /\ r1 = [id |-> nextId + i - 1, n |-> batch[i].n,
                       at |-> batch[i].at]
              /\ r1.id = nextId + i - 1
      BY <2>3
    <3>2. PICK j \in 1..Len(batch) :
              /\ r2 = [id |-> nextId + j - 1, n |-> batch[j].n,
                       at |-> batch[j].at]
              /\ r2.id = nextId + j - 1
      BY <2>3
    <3>3. i = j
      BY <2>2, <2>4, <2>6, <3>1, <3>2
    <3> QED
      BY <3>1, <3>2, <3>3
  <2> QED
    BY <2>1, <2>2, <2>5, <2>6 DEF KeyInv
<1>2. CASE Prune \/ PruneFails
  BY <1>2, PruneRemoves DEF KeyInv
<1>3. CASE Push \/ Drain \/ WriteFails \/ Restart
  BY <1>3 DEF Push, Drain, WriteFails, Restart, dbVars, KeyInv
<1>4. CASE ~Moving
  BY <1>4, QuietSteps DEF dataVars, KeyInv
<1> QED
  BY <1>1, <1>2, <1>3, <1>4 DEF Moving

(* The table is finite: its ids are different and below the next one.      *)
LEMMA TableIsFinite ==
    ASSUME TypeOK, RowInv, KeyInv
    PROVE  IsFiniteSet(db)
<1> DEFINE f == [r \in db |-> r.id]
<1>1. nextId \in Nat /\ \A r \in db : r.id \in 0..nextId
  BY DEF TypeOK, DbRow, RowInv
<1>2. f \in Injection(db, 0..nextId)
  BY <1>1 DEF KeyInv, Injection, IsInjective
<1>3. IsFiniteSet(0..nextId)
  BY <1>1, FS_Interval
<1> QED
  BY <1>2, <1>3, FS_Injection

(* A set of rows has a first one: intervals of ids are ordered by strict   *)
(* inclusion, which is well-founded.                                       *)
LEMMA FirstRow ==
    ASSUME NEW K, K # {}, \A r \in K : r.id \in Nat
    PROVE  \E r \in K : \A q \in K : r.id <= q.id
<1> DEFINE T == {0..r.id : r \in K}
<1>1. T \subseteq FiniteSubsetsOf(Nat)
  <2>1. \A r \in K : IsFiniteSet(0..r.id) /\ 0..r.id \subseteq Nat
    BY FS_Interval
  <2> QED
    BY <2>1 DEF FiniteSubsetsOf
<1>2. PICK U \in T : \A V \in T : ~(<<V, U>> \in StrictSubsetOrdering(Nat))
  <2>1. T # {}
    OBVIOUS
  <2>2. IsWellFoundedOn(StrictSubsetOrdering(Nat), FiniteSubsetsOf(Nat))
    BY FS_StrictSubsetOrderingWellFounded
  <2> HIDE DEF T
  <2> QED
    BY <1>1, <2>1, <2>2, WFMin
<1>3. PICK r \in K : U = 0..r.id
  OBVIOUS
<1>4. ASSUME NEW q \in K, q.id < r.id PROVE FALSE
  <2>1. 0..q.id \subseteq 0..r.id /\ r.id \in 0..r.id /\ r.id \notin 0..q.id
    BY <1>4
  <2>2. <<0..q.id, 0..r.id>> \in StrictSubsetOrdering(Nat)
    BY <2>1 DEF StrictSubsetOrdering
  <2> QED
    BY <1>2, <1>3, <2>2
<1> QED
  BY SMTT(30), <1>4

(* A chunk that was not filled has taken every row it may take.            *)
LEMMA ChunkTakesAll ==
    ASSUME NEW S, IsFiniteSet(S), NEW k \in Nat, Cardinality(S) < k,
           \A r \in S : r.id \in Nat
    PROVE  Oldest(S, k) = S
<1>1. ASSUME NEW r \in S
      PROVE  Cardinality({x \in S : x.id < r.id}) < k
  <2>1. {x \in S : x.id < r.id} \subseteq S
    OBVIOUS
  <2>2. Cardinality({x \in S : x.id < r.id}) <= Cardinality(S)
    BY <2>1, FS_Subset
  <2>3. /\ Cardinality(S) \in Nat
        /\ Cardinality({x \in S : x.id < r.id}) \in Nat
    BY <2>1, FS_Subset, FS_CardinalityType
  <2> QED
    BY <2>2, <2>3
<1> QED
  BY <1>1 DEF Oldest

(* What the row cap leaves is within it.                                   *)
LEMMA CapHolds ==
    ASSUME NEW A, IsFiniteSet(A), \A r \in A : r.id \in Nat,
           \A r1, r2 \in A : r1.id = r2.id => r1 = r2
    PROVE  Cardinality(A \ OverCap(A)) <= MaxRows
<1> DEFINE K == A \ OverCap(A)
<1>1. IsFiniteSet(K) /\ Cardinality(K) \in Nat /\ MaxRows \in Nat
  BY FS_Subset, FS_CardinalityType, DiagnosticsAssumption
<1>2. CASE K = {}
  BY <1>1, <1>2, FS_EmptySet
<1>3. CASE K # {}
  <2>1. PICK r \in K : \A q \in K : r.id <= q.id
    BY <1>3, FirstRow
  <2> DEFINE later == {x \in A : x.id > r.id}
  <2>2. IsFiniteSet(later) /\ Cardinality(later) \in Nat
    BY FS_Subset, FS_CardinalityType
  <2>3. Cardinality(later) < MaxRows
    BY <1>1, <2>2 DEF OverCap
  <2>4. K \ {r} \subseteq later
    BY <2>1
  <2>5. /\ Cardinality(K \ {r}) = Cardinality(K) - 1
        /\ Cardinality(K \ {r}) <= Cardinality(later)
    BY <1>1, <2>2, <2>4, FS_RemoveElement, FS_Subset
  <2> QED
    BY <1>1, <2>2, <2>3, <2>5
<1> QED
  BY <1>2, <1>3

LEMMA RestStep ==
    ASSUME TypeOK, RowInv, KeyInv, RestInv, [Next]_vars
    PROVE  RestInv'
<1>1. CASE Prune
  <2>1. SUFFICES ASSUME ~More PROVE Cardinality(db') <= MaxRows
    BY <1>1 DEF Prune, RestInv
  <2>2. IsFiniteSet(db) /\ \A r \in db : r.id \in Nat
    BY TableIsFinite DEF TypeOK, DbRow
  <2>3. AfterAged \subseteq db /\ IsFiniteSet(AfterAged)
    BY <2>2, FS_Subset DEF AfterAged
  <2>4. /\ IsFiniteSet(OverCap(AfterAged))
        /\ OverCap(AfterAged) \subseteq AfterAged
        /\ Cardinality(OverCap(AfterAged)) \in Nat
    BY <2>3, FS_Subset, FS_CardinalityType DEF OverCap
  <2>5. Cardinality(OverCap(AfterAged)) < PruneChunk /\ PruneChunk \in Nat
    BY <2>1, <2>4, DiagnosticsAssumption DEF More
  <2>6. Oldest(OverCap(AfterAged), PruneChunk) = OverCap(AfterAged)
    BY <2>2, <2>3, <2>4, <2>5, ChunkTakesAll
  <2>7. db' = AfterAged \ OverCap(AfterAged)
    BY <1>1, <2>6 DEF Prune
  <2> QED
    BY <2>2, <2>3, <2>7, CapHolds DEF KeyInv
<1>2. CASE PruneFails \/ Restart
  BY <1>2 DEF PruneFails, Restart, RestInv
<1>3. CASE WriteBatch \/ WriteFails
  BY <1>3 DEF WriteBatch, WriteFails, AfterWrite, RestInv
<1>4. CASE Top \/ Woken \/ Drain
  BY <1>4 DEF Top, Woken, Drain, dbVars, RestInv
<1>5. CASE WorkCheck \/ WorkNotified \/ WorkSize \/ WorkSlept
           \/ StopCheck \/ StopRegister
  BY <1>5 DEF WorkCheck, WorkNotified, WorkSize, WorkSlept, StopCheck,
              StopRegister, Selecting, selectUnchanged, dbVars, RestInv
<1>6. CASE MainStep \/ Tick \/ UNCHANGED vars
  <2>1. UNCHANGED <<writer, prunePending, dbVars>>
    BY <1>6 DEF MainStep, Push, NotifyOne, Trigger, NotifyWaiters, Join,
                Timeout, Tick, vars, writerVars
  <2> QED
    BY <2>1 DEF dbVars, RestInv
<1> QED
  BY <1>1, <1>2, <1>3, <1>4, <1>5, <1>6 DEF Next, WriterStep

(* RingBounded: whenever the writer rests after a prune that worked, the   *)
(* ring is within its cap, for every backlog, chunk and cap.               *)
THEOREM RingStaysBounded == Spec => []RingBounded
<1>1. Init => KeyInv /\ RestInv
  BY DEF Init, KeyInv, RestInv
<1>2. TypeOK /\ PipelineInv /\ KeyInv /\ RestInv /\ [Next]_vars
          => (KeyInv /\ RestInv)'
  BY KeyStep, RestStep DEF PipelineInv
<1>3. RestInv => RingBounded
  BY DEF RestInv, RingBounded
<1> QED
  BY <1>1, <1>2, <1>3, TypeCorrect, Invariance, PTL DEF Spec

-----------------------------------------------------------------------------
(* The refinement of TransmissionLog, one lemma per kind of step.          *)
BatchNs == {batch[i].n : i \in 1..Len(batch)}
PendingNs == {pending[i].n : i \in 1..Len(pending)}
StoredNs == {r.n : r \in db}

(* A push sends the next record and may lose the oldest ones waiting.      *)
LEMMA PushSends ==
    ASSUME TypeOK, Push
    PROVE  Log!Send
<1>1. /\ Overflow \in Nat /\ Overflow <= Len(pending)
      /\ Len(pending') = Len(pending) - Overflow + 1
      /\ \A i \in 1..Len(pending') :
             pending'[i] = IF i <= Len(pending) - Overflow
                           THEN pending[i + Overflow]
                           ELSE [n |-> pushed + 1, at |-> now]
  BY PushEffect
<1>2. Len(pending) \in Nat
  BY LenProperties DEF TypeOK
<1>3. UNCHANGED <<batch, db, newest>> /\ pushed' = pushed + 1
  BY DEF Push, writerVars, dbVars
<1> HIDE DEF Overflow
<1>4. \A i \in 1..Len(pending') :
          \/ i + Overflow \in 1..Len(pending)
             /\ pending'[i].n = pending[i + Overflow].n
          \/ pending'[i].n = pushed + 1
  BY <1>1, <1>2
<1>5. PendingNs' \subseteq PendingNs \cup {pushed + 1}
  BY <1>4 DEF PendingNs
<1>6. pushed + 1 \in PendingNs'
  <2>1. /\ Len(pending') \in 1..Len(pending')
        /\ pending'[Len(pending')].n = pushed + 1
    BY <1>1, <1>2
  <2> QED BY <2>1 DEF PendingNs
<1>7. BatchNs' = BatchNs
  BY <1>3 DEF BatchNs
<1>8. /\ InFlight = BatchNs \cup PendingNs
      /\ InFlight' = BatchNs' \cup PendingNs'
  BY DEF InFlight, BatchNs, PendingNs
<1>9. InFlight' = (InFlight \ (InFlight \ InFlight')) \cup {pushed + 1}
  BY <1>5, <1>6, <1>7, <1>8
<1>10. (InFlight \ InFlight') \in SUBSET InFlight
  OBVIOUS
<1> HIDE DEF InFlight
<1> QED BY <1>3, <1>9, <1>10 DEF Log!Send

(* A drain moves records from one hand to the other.                       *)
LEMMA DrainStutters ==
    ASSUME TypeOK, PhaseInv, Drain
    PROVE  UNCHANGED Log!vars
<1>1. /\ Take \in Nat /\ Take <= Len(pending)
      /\ Len(batch') = Take
      /\ \A i \in 1..Take : batch'[i] = pending[i]
      /\ Len(pending') = Len(pending) - Take
      /\ \A i \in 1..Len(pending') : pending'[i] = pending[i + Take]
  BY DrainEffect
<1>2. Len(pending) \in Nat /\ Len(batch) = 0
  BY LenProperties, EmptySeq DEF TypeOK, Drain, PhaseInv
<1>3. UNCHANGED <<pushed, db, newest>>
  BY DEF Drain, writerEnv, dbVars
<1> HIDE DEF Take
<1>4. BatchNs' \cup PendingNs' \subseteq PendingNs
  <2>1. \A i \in 1..Len(batch') :
            i \in 1..Len(pending) /\ batch'[i].n = pending[i].n
    BY <1>1, <1>2
  <2>2. \A i \in 1..Len(pending') :
            /\ i + Take \in 1..Len(pending)
            /\ pending'[i].n = pending[i + Take].n
    BY <1>1, <1>2
  <2> QED BY <2>1, <2>2 DEF BatchNs, PendingNs
<1>5. PendingNs \subseteq BatchNs' \cup PendingNs'
  <2> SUFFICES ASSUME NEW i \in 1..Len(pending)
               PROVE  pending[i].n \in BatchNs' \cup PendingNs'
    BY DEF PendingNs
  <2>1. CASE i <= Take
    <3>1. i \in 1..Len(batch') /\ batch'[i].n = pending[i].n
      BY <2>1, <1>1, <1>2
    <3> QED BY <3>1 DEF BatchNs
  <2>2. CASE ~(i <= Take)
    <3>1. i - Take \in 1..Len(pending') /\ (i - Take) + Take = i
      BY <2>2, <1>1, <1>2
    <3>2. pending'[i - Take].n = pending[i].n
      BY <3>1, <1>1
    <3> QED BY <3>1, <3>2 DEF PendingNs
  <2> QED BY <2>1, <2>2
<1>6. BatchNs = {}
  BY <1>2 DEF BatchNs
<1>7. InFlight = BatchNs \cup PendingNs /\ InFlight' = BatchNs' \cup PendingNs'
  BY DEF InFlight, BatchNs, PendingNs
<1>8. InFlight' = InFlight
  BY <1>4, <1>5, <1>6, <1>7
<1> HIDE DEF InFlight
<1> QED BY <1>3, <1>8 DEF Log!vars

(* A written batch is stored as a whole, after everything ever stored.     *)
LEMMA WriteStores ==
    ASSUME TypeOK, PhaseInv, OrderInv, WriteBatch
    PROVE  Log!Store
<1>1. batch # <<>>
  BY DEF WriteBatch, PhaseInv
<1>2. /\ Len(batch) \in Nat \ {0}
      /\ \A i \in 1..Len(batch) : batch[i].n \in Nat
  BY <1>1, BatchRows, DiagnosticsAssumption DEF Record
<1>3. \A i \in 1..Len(pending) : pending[i].n \in Nat
  <2>1. \A i \in 1..Len(pending) : pending[i] \in Record
    BY ElementOfSeq DEF TypeOK
  <2> QED BY <2>1, DiagnosticsAssumption DEF Record
<1>4. /\ newest' = batch[Len(batch)].n
      /\ batch' = <<>> /\ UNCHANGED <<pending, pushed>>
  BY DEF WriteBatch, writerEnv, queueVars
<1>5. /\ BatchNs \in SUBSET InFlight
      /\ InFlight = BatchNs \cup PendingNs
  BY DEF InFlight, BatchNs, PendingNs
<1>6. \A n \in BatchNs : n > newest
  <2>1. newest \in Nat
    BY DiagnosticsAssumption DEF TypeOK
  <2> QED BY <2>1, <1>2 DEF BatchNs, OrderInv
<1>7. newest' \in BatchNs
  BY <1>2, <1>4 DEF BatchNs
<1>8. \A n \in BatchNs : n <= newest'
  <2>1. \A i \in 1..Len(batch) : batch[i].n <= batch[Len(batch)].n
    BY <1>2 DEF OrderInv
  <2> QED BY <2>1, <1>4 DEF BatchNs
<1>9. InFlight' = InFlight \ BatchNs
  <2>1. \A n \in BatchNs : n \notin PendingNs
    BY <1>2, <1>3 DEF BatchNs, PendingNs, OrderInv
  <2>2. InFlight' = PendingNs
    <3>1. 1..Len(batch') = {}
      BY <1>4, EmptySeq
    <3> QED BY <1>4, <3>1 DEF InFlight, PendingNs
  <2> QED BY <2>1, <2>2, <1>5
<1>10. StoredNs' = StoredNs \cup BatchNs
  <2>1. db' = db \cup NewRows
    BY DEF WriteBatch
  <2>2. {r.n : r \in NewRows} = BatchNs
    <3>1. ASSUME NEW r \in NewRows PROVE r.n \in BatchNs
      <4>1. PICK i \in 1..Len(batch) :
                r = [id |-> nextId + i - 1, n |-> batch[i].n,
                     at |-> batch[i].at]
        BY DEF NewRows
      <4> QED BY <4>1 DEF BatchNs
    <3>2. ASSUME NEW i \in 1..Len(batch)
          PROVE  \E r \in NewRows : r.n = batch[i].n
      <4>1. [id |-> nextId + i - 1, n |-> batch[i].n, at |-> batch[i].at]
              \in NewRows
        BY DEF NewRows
      <4> QED BY <4>1
    <3> QED BY <3>1, <3>2 DEF BatchNs
  <2> QED BY <2>1, <2>2 DEF StoredNs
<1> HIDE DEF InFlight, BatchNs
<1> QED
  BY <1>4, <1>5, <1>6, <1>7, <1>8, <1>9, <1>10 DEF Log!Store, StoredNs

(* A failed batch and a new process lose what was on its way.              *)
LEMMA FailuresLose ==
    ASSUME TypeOK, WriteFails \/ Restart
    PROVE  Log!Lose
<1>1. UNCHANGED <<pushed, db, newest>>
  BY DEF WriteFails, Restart, writerEnv, dbVars
<1>2. Len(<<>>) = 0 /\ 1..Len(<<>>) = {}
  BY EmptySeq
<1>3. InFlight' \in SUBSET InFlight
  <2>1. CASE WriteFails
    <3>1. batch' = <<>> /\ pending' = pending
      BY <2>1 DEF WriteFails, queueVars
    <3> QED BY <3>1, <1>2 DEF InFlight
  <2>2. CASE Restart
    <3>1. batch' = <<>> /\ pending' = <<>>
      BY <2>2 DEF Restart
    <3> QED BY <3>1, <1>2 DEF InFlight
  <2> QED BY <2>1, <2>2
<1> HIDE DEF InFlight
<1> QED BY <1>1, <1>3 DEF Log!Lose

(* Pruning forgets.                                                        *)
LEMMA PruneForgets ==
    ASSUME Prune \/ PruneFails
    PROVE  Log!Forget
<1>1. db' \subseteq db
  BY PruneRemoves
<1>2. UNCHANGED <<pushed, newest, InFlight>>
  BY DEF Prune, PruneFails, writerEnv, queueVars, InFlight
<1> HIDE DEF InFlight
<1> QED BY <1>1, <1>2 DEF Log!Forget

(* LogSpec: queue, writer task, batches, failures, pruning and restarts    *)
(* together implement the lossy ordered log that readers rely on.          *)
THEOREM ImplementsLog == Spec => LogSpec
<1>1. Init => Log!Init
  <2> SUFFICES ASSUME Init PROVE Log!Init
    OBVIOUS
  <2>1. 1..Len(<<>>) = {}
    BY EmptySeq
  <2>2. InFlight = {} /\ StoredNs = {}
    BY <2>1 DEF Init, InFlight, StoredNs
  <2> HIDE DEF InFlight
  <2> QED BY <2>2 DEF Init, Log!Init, StoredNs
<1>2. TypeOK /\ PipelineInv /\ [Next]_vars => [Log!Next]_Log!vars
  <2> SUFFICES ASSUME TypeOK, PipelineInv, [Next]_vars
               PROVE  [Log!Next]_Log!vars
    OBVIOUS
  <2>1. PhaseInv /\ OrderInv
    BY DEF PipelineInv
  <2>2. CASE Push
    BY <2>2, PushSends DEF Log!Next
  <2>3. CASE Drain
    BY <2>3, <2>1, DrainStutters
  <2>4. CASE WriteBatch
    BY <2>4, <2>1, WriteStores DEF Log!Next
  <2>5. CASE WriteFails \/ Restart
    BY <2>5, FailuresLose DEF Log!Next
  <2>6. CASE Prune \/ PruneFails
    BY <2>6, PruneForgets DEF Log!Next
  <2>7. CASE ~Moving
    <3>1. UNCHANGED <<pushed, pending, batch, db, newest>>
      BY <2>7, QuietSteps DEF dataVars
    <3>2. UNCHANGED InFlight
      BY <3>1 DEF InFlight
    <3> HIDE DEF InFlight
    <3> QED BY <3>1, <3>2 DEF Log!vars
  <2> QED BY <2>2, <2>3, <2>4, <2>5, <2>6, <2>7 DEF Moving
<1> QED BY <1>1, <1>2, Invariance, TypeCorrect, PTL DEF Spec, LogSpec, Log!Spec
=============================================================================
