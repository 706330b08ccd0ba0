--------------------------- MODULE Migrator_proofs ---------------------------
(* Theorems about Migrator, for every finite source, batch size and number of     *)
(* failures: its types, that checkpoints tell the truth, that they advance, and   *)
(* that a run called completed holds its source.                                  *)
EXTENDS Migrator, FiniteSetTheorems, SequenceTheorems, WellFoundedInduction, TLAPS

(* The eight categories, as a set.                                              *)
LEMMA CategoriesSeq ==
    /\ Len(Categories) = 8
    /\ DOMAIN Categories = 1..8
    /\ CategoryNames = {"config", "inverters", "spot_data", "spot_data_x", "day_data",
                        "month_data", "event_data", "consumption"}
<1> DEFINE names == {Categories[i] : i \in 1..8}
<1>1. Categories = [i \in 1..8 |-> Categories[i]]
  BY DEF Categories
<1>2. Categories \in [1..8 -> names]
  BY <1>1
<1>3. Categories \in Seq(names)
  <2> HIDE DEF names
  <2> QED BY <1>2, SeqDef
<1>4. DOMAIN Categories = 1..8 /\ DOMAIN Categories = 1..Len(Categories) /\ Len(Categories) \in Nat
  <2> HIDE DEF names
  <2> QED BY <1>1, <1>3, LenProperties
<1>5. Len(Categories) = 8
  BY <1>4
<1>6. CategoryNames = {Categories[1], Categories[2], Categories[3], Categories[4],
                       Categories[5], Categories[6], Categories[7], Categories[8]}
  BY <1>4 DEF CategoryNames
<1> QED BY <1>4, <1>5, <1>6 DEF Categories

(* A finite set has an element at which an integer function is greatest.        *)
LEMMA HasGreatest ==
    ASSUME NEW S, IsFiniteSet(S), S # {}, NEW f \in [S -> Int]
    PROVE  \E top \in S : \A s \in S : f[s] <= f[top]
<1> DEFINE above(s) == {t \in S : f[t] > f[s]}
           T == {above(s) : s \in S}
<1>1. IsWellFoundedOn(StrictSubsetOrdering(S), FiniteSubsetsOf(S))
  BY FS_StrictSubsetOrderingWellFounded
<1>2. T \subseteq FiniteSubsetsOf(S)
  BY FS_FiniteSubsetsOfFinite
<1>3. PICK U \in T : \A V \in T : ~(<<V, U>> \in StrictSubsetOrdering(S))
  <2>1. T # {}
    <3>1. PICK s : s \in S OBVIOUS
    <3>2. above(s) \in T BY <3>1
    <3> QED BY <3>2
  <2> HIDE DEF T
  <2> QED BY <1>1, <1>2, <2>1, WFMin
<1>4. PICK top \in S : U = above(top)
  OBVIOUS
<1>5. ASSUME NEW s \in S, f[s] > f[top] PROVE FALSE
  <2>1. above(s) \in T OBVIOUS
  <2>2. above(s) \subseteq U /\ s \in U /\ s \notin above(s)
    BY <1>4, <1>5
  <2>3. U \subseteq S BY <1>4
  <2> HIDE DEF above, T
  <2> QED BY <1>3, <2>1, <2>2, <2>3 DEF StrictSubsetOrdering
<1> HIDE DEF above, T
<1> QED BY <1>5

(* LastKey is the key of a row, and no row has a greater one.                   *)
LEMMA HasLast ==
    ASSUME NEW rows, IsFiniteSet(rows), rows # {}, \A r \in rows : r.key \in Int
    PROVE  /\ \E r \in rows : r.key = LastKey(rows)
           /\ \A r \in rows : r.key <= LastKey(rows)
<1> DEFINE key == [r \in rows |-> r.key]
<1>1. key \in [rows -> Int] OBVIOUS
<1>2. PICK top \in rows : \A r \in rows : key[r] <= key[top]
  <2> HIDE DEF key
  <2> QED BY <1>1, HasGreatest
<1>3. top.key \in {r.key : r \in rows} /\ \A r \in rows : r.key <= top.key
  BY <1>2
<1> QED BY <1>3 DEF LastKey

(* Some row has the least key.                                                  *)
LEMMA HasFirst ==
    ASSUME NEW rows, IsFiniteSet(rows), rows # {}, \A r \in rows : r.key \in Int
    PROVE  \E first \in rows : \A r \in rows : first.key <= r.key
<1> DEFINE key == [r \in rows |-> -r.key]
<1>1. key \in [rows -> Int] OBVIOUS
<1>2. PICK first \in rows : \A r \in rows : key[r] <= key[first]
  <2> HIDE DEF key
  <2> QED BY <1>1, HasGreatest
<1> QED BY <1>2

(* What the sources are assumed to be, said of a table.                         *)
LEMMA RowsFinite ==
    ASSUME NEW source \in DOMAIN Sources, NEW cat \in CategoryNames
    PROVE  /\ IsFiniteSet(Rows(source, cat))
           /\ \A r \in Rows(source, cat) : r.key \in Int
BY SourcesAssumption DEF Rows

(* A batch is what a checkpoint at its last key covers beyond the one before it.  *)
LEMMA BatchExtends ==
    ASSUME NEW source \in DOMAIN Sources, NEW cat \in CategoryNames,
           NEW key \in Int, key >= InitialKey(cat), Batch(source, cat, key) # {}
    PROVE  LET batch == Batch(source, cat, key)
               upto(k) == {r \in ReadRows(source, cat) : r.key <= k}
           IN  /\ LastKey(batch) \in Int /\ LastKey(batch) > key
               /\ IsFiniteSet(batch) /\ IsFiniteSet(upto(key))
               /\ batch \cap upto(key) = {}
               /\ upto(LastKey(batch)) = upto(key) \cup batch
<1> DEFINE left == {r \in Rows(source, cat) : r.key > key}
           before(r) == {q \in left : q.key < r.key}
           batch == Batch(source, cat, key)
           upto(k) == {r \in ReadRows(source, cat) : r.key <= k}
<1>1. IsFiniteSet(Rows(source, cat)) /\ \A r \in Rows(source, cat) : r.key \in Int
  BY RowsFinite
<1>2. batch = {r \in left : Cardinality(before(r)) < BatchSize}
  BY DEF Batch
<1>3. IsFiniteSet(batch) /\ IsFiniteSet(left) /\ IsFiniteSet(upto(key))
  <2>1. batch \subseteq Rows(source, cat) /\ left \subseteq Rows(source, cat)
    BY <1>2
  <2>2. upto(key) \subseteq Rows(source, cat)
    BY DEF ReadRows
  <2> HIDE DEF batch, left, upto
  <2> QED BY <1>1, <2>1, <2>2, FS_Subset
<1>4. PICK last \in batch : last.key = LastKey(batch)
  <2>1. \A r \in batch : r.key \in Int
    BY <1>1, <1>2
  <2> HIDE DEF batch
  <2> QED BY <1>3, <2>1, HasLast DEF batch
<1>5. \A r \in batch : r.key <= LastKey(batch)
  <2>1. \A r \in batch : r.key \in Int
    BY <1>1, <1>2
  <2>2. batch # {} OBVIOUS
  <2> HIDE DEF batch
  <2> QED BY <1>3, <2>1, <2>2, HasLast
<1>6. LastKey(batch) \in Int /\ LastKey(batch) > key /\ last \in left
  BY <1>1, <1>2, <1>4
<1>7. ASSUME NEW r \in left, r.key <= LastKey(batch) PROVE r \in batch
  <2>1. before(r) \subseteq before(last)
    BY <1>1, <1>4, <1>6, <1>7
  <2>2. before(last) \subseteq left OBVIOUS
  <2>3. IsFiniteSet(before(last)) /\ Cardinality(before(r)) <= Cardinality(before(last))
    <3> HIDE DEF before, left
    <3> QED BY <1>3, <2>1, <2>2, FS_Subset
  <2>4. IsFiniteSet(before(r)) /\ Cardinality(before(r)) \in Nat /\ Cardinality(before(last)) \in Nat
    <3> HIDE DEF before, left
    <3> QED BY <1>3, <2>1, <2>2, <2>3, FS_Subset, FS_CardinalityType
  <2>5. Cardinality(before(last)) < BatchSize
    BY <1>2, <1>4
  <2> HIDE DEF before
  <2> QED BY <1>2, <2>3, <2>4, <2>5, SizesAssumption
<1>8. InitialKey(cat) \in Int
  BY DEF InitialKey, LowestKey
<1>9. batch \subseteq left
  BY <1>2
<1>10. batch \cap upto(key) = {}
  <2> HIDE DEF batch
  <2> QED BY <1>1, <1>9
<1>11. upto(LastKey(batch)) = upto(key) \cup batch
  <2> HIDE DEF batch
  <2>1. upto(LastKey(batch)) \subseteq upto(key) \cup batch
    BY <1>1, <1>7 DEF ReadRows
  <2>2. batch \subseteq upto(LastKey(batch))
    BY <1>1, <1>5, <1>8, <1>9 DEF ReadRows
  <2>3. upto(key) \subseteq upto(LastKey(batch))
    BY <1>1, <1>6 DEF ReadRows
  <2> QED BY <2>1, <2>2, <2>3
<1> QED BY <1>3, <1>6, <1>10, <1>11

(* An empty batch means that no row is left beyond the key.                     *)
LEMMA EmptyBatch ==
    ASSUME NEW source \in DOMAIN Sources, NEW cat \in CategoryNames,
           NEW key \in Int, Batch(source, cat, key) = {}
    PROVE  \A r \in Rows(source, cat) : r.key <= key
<1> DEFINE left == {r \in Rows(source, cat) : r.key > key}
<1>1. IsFiniteSet(Rows(source, cat)) /\ \A r \in Rows(source, cat) : r.key \in Int
  BY RowsFinite
<1>2. SUFFICES ASSUME left # {} PROVE FALSE
  BY <1>1
<1>3. IsFiniteSet(left) /\ \A r \in left : r.key \in Int
  <2>1. left \subseteq Rows(source, cat) OBVIOUS
  <2> HIDE DEF left
  <2> QED BY <1>1, <2>1, FS_Subset
<1>4. PICK first \in left : \A r \in left : first.key <= r.key
  <2> HIDE DEF left
  <2> QED BY <1>2, <1>3, HasFirst
<1>5. {q \in left : q.key < first.key} = {}
  BY <1>3, <1>4
<1>6. Cardinality({q \in left : q.key < first.key}) = 0
  BY <1>5, FS_EmptySet
<1>7. first \in Batch(source, cat, key)
  BY <1>6, SizesAssumption DEF Batch
<1> QED BY <1>7

(* A row writes cells of the target's tables only.                                *)
LEMMA TablesOfRow ==
    ASSUME NEW opt \in Options, NEW cat \in CategoryNames, NEW r,
           NEW c \in CellsOf(opt, cat, r)
    PROVE  c.table \in CanonicalTables \cup {"staged"}
BY CategoriesSeq DEF CellsOf, Cell, CanonicalTables, MeasurementParts

(* A row writes at least the cells it writes without the optional flags.        *)
LEMMA PlainCells ==
    ASSUME NEW opt \in Options, NEW cat \in CategoryNames, NEW r, cat # "month_data"
    PROVE  CellsOf([source |-> opt.source, extras |-> {}], cat, r) \subseteq CellsOf(opt, cat, r)
<1>1. CASE cat = "config"
  BY <1>1 DEF CellsOf
<1>2. CASE cat = "inverters"
  BY <1>2 DEF CellsOf
<1>3. CASE cat = "spot_data"
  BY <1>3 DEF CellsOf
<1>4. CASE cat = "spot_data_x"
  BY <1>4 DEF CellsOf
<1>5. CASE cat = "day_data"
  BY <1>5 DEF CellsOf, WantsFlag
<1>6. CASE cat = "event_data"
  BY <1>6 DEF CellsOf
<1>7. CASE cat = "consumption"
  BY <1>7 DEF CellsOf
<1> QED
  BY <1>1, <1>2, <1>3, <1>4, <1>5, <1>6, <1>7, CategoriesSeq

(* Config rows, and no others, write staged cells.                              *)
LEMMA StagedCells ==
    ASSUME NEW opt \in Options, NEW cat \in CategoryNames, NEW r
    PROVE  /\ cat = "config" => CellsOf(opt, cat, r) = {Cell("staged", Site, r.key)}
           /\ cat # "config" => \A c \in CellsOf(opt, cat, r) : c.table # "staged"
<1>1. cat = "config" => CellsOf(opt, cat, r) = {Cell("staged", Site, r.key)}
  BY DEF CellsOf
<1>2. ASSUME cat # "config", NEW c \in CellsOf(opt, cat, r) PROVE c.table # "staged"
  BY <1>2, CategoriesSeq DEF CellsOf, Cell, MeasurementParts
<1> QED BY <1>1, <1>2

(* A batch adds the cells of its rows and removes none.                         *)
LEMMA WrittenCells ==
    ASSUME NEW cells, NEW opt, NEW today, NEW cat, NEW rows
    PROVE  \A c : c \in DOMAIN Written(cells, opt, today, cat, rows) <=>
                  \/ c \in DOMAIN cells
                  \/ \E r \in rows : c \in CellsOf(opt, cat, r)
BY DEF Written

-----------------------------------------------------------------------------
JobFields == {"at", "mode", "opt", "today", "category", "key", "todo"}
Phases == {"initialize", "open", "category", "batch", "commit", "yields", "statistics",
           "verify", "complete", "fail", "interrupt"}

(* The shape of a run and of an invocation.                                       *)
ShapeInv ==
    /\ run # NoRun => /\ DOMAIN run = {"status", "source", "zone"}
                      /\ run.source \in DOMAIN Sources
    /\ job # Idle => /\ DOMAIN job = JobFields
                     /\ job.at \in Phases
                     /\ job.opt \in Options
                     /\ job.category \in 1..9

(* What holds at a place of the invocation.                                       *)
PhaseInv ==
    /\ job # Idle /\ job.at \notin {"initialize", "open"} =>
          run # NoRun /\ run.source = job.opt.source
    /\ job.at \in {"batch", "commit"} =>
          /\ job.category <= 8
          /\ ~checkpoints[Cat].completed
          /\ checkpoints[Cat].key = job.key
    /\ job.at = "commit" =>
          /\ NextRows # {}
          /\ tx = [cells |-> Written(target, job.opt, job.today, Cat, NextRows),
                   checkpoint |-> [key |-> LastKey(NextRows),
                                   rows |-> checkpoints[Cat].rows + Cardinality(NextRows),
                                   completed |-> FALSE]]
    /\ job.at = "yields" => \A day \in job.todo : day.table = "yields"
    /\ job.at = "statistics" => \A day \in job.todo : day.table = "statistics"

(* Before the first run nothing was imported.                                     *)
FreshInv ==
    run = NoRun => /\ target = NoCells
                   /\ checkpoints = [cat \in CategoryNames |-> NewCheckpoint(cat)]

KeyInv == \A cat \in CategoryNames : checkpoints[cat].key >= InitialKey(cat)

MigratorInv == TypeOK /\ ShapeInv /\ PhaseInv /\ FreshInv /\ KeyInv /\ CheckpointCovers

(* The category an invocation is at is one.                                     *)
LEMMA CatIsCategory ==
    ASSUME job.category \in 1..8
    PROVE  Cat \in CategoryNames
BY CategoriesSeq DEF Cat, CategoryNames

(* The invariant holds before the first invocation.                             *)
LEMMA StartsInv == Init => MigratorInv
<1> SUFFICES ASSUME Init PROVE MigratorInv
  OBVIOUS
<1>1. \A cat \in CategoryNames : InitialKey(cat) \in Int
  BY DEF InitialKey, LowestKey
<1>2. TypeOK
  BY <1>1, SizesAssumption DEF Init, TypeOK, NoCells, NoRun, Idle, NoTx, At, NewCheckpoint
<1>3. ShapeInv /\ PhaseInv /\ FreshInv
  BY DEF Init, ShapeInv, PhaseInv, FreshInv, Idle
<1>4. KeyInv
  BY <1>1 DEF Init, KeyInv, NewCheckpoint
<1>5. CheckpointCovers
  BY DEF Init, CheckpointCovers
<1> QED BY <1>2, <1>3, <1>4, <1>5 DEF MigratorInv

(* A run and an invocation keep their shape.                                    *)
LEMMA ShapeKept == MigratorInv /\ [Next]_vars => ShapeInv'
<1> SUFFICES ASSUME MigratorInv, [Next]_vars PROVE ShapeInv'
  OBVIOUS
<1> USE DEF MigratorInv, ShapeInv
<1>1. CASE Tick
  BY <1>1 DEF Tick, durable
<1>2. ASSUME NEW mode, NEW opt \in Options, Start(mode, opt) PROVE ShapeInv'
  BY <1>2 DEF Start, durable, JobFields, Phases
<1>3. CASE BeginSchema \/ ApplySchema \/ ReplaceTarget \/ EnableExtra
  BY <1>3 DEF BeginSchema, ApplySchema, ReplaceTarget, LeftHalfMade, EnableExtra, At, Goto
<1>4. CASE Initialized
  BY <1>4 DEF Initialized, durable, At, Goto, Idle, Phases
<1>5. CASE CreateRun
  BY <1>5, SourcesAssumption DEF CreateRun, At, Goto, Idle, Phases
<1>6. CASE ReopenRun
  BY <1>6 DEF ReopenRun, At, Goto, Idle, Phases
<1>7. CASE RefuseRun
  BY <1>7 DEF RefuseRun, Leave, durable
<1>8. CASE SkipCategory
  BY <1>8, CategoriesSeq DEF SkipCategory, NextCategory, At, Idle, Phases, durable
<1>9. CASE EnterCategory
  BY <1>9 DEF EnterCategory, At, Idle, Phases, durable
<1>10. CASE CompleteCheckpoint
  BY <1>10 DEF CompleteCheckpoint, NextCategory, At, Idle, Phases, PhaseInv
<1>11. CASE WriteBatch
  BY <1>11 DEF WriteBatch, At, Goto, Idle, Phases, durable
<1>12. CASE BatchRefused
  BY <1>12 DEF BatchRefused, At, Goto, Idle, Phases, durable
<1>13. CASE BatchFails
  BY <1>13 DEF BatchFails, At, Goto, Idle, Phases, durable
<1>14. CASE Commit
  BY <1>14 DEF Commit, At, Idle, Phases
<1>15. CASE CommitFails
  BY <1>15 DEF CommitFails, At, Goto, Idle, Phases
<1>16. CASE CategoriesDone
  BY <1>16 DEF CategoriesDone, At, Idle, Phases, durable
<1>17. CASE RebuildDay
  BY <1>17 DEF RebuildDay, At, Idle
<1>18. CASE YieldsDone
  <2>1. job # Idle /\ job.at = "yields" /\ UNCHANGED run
    BY <1>18 DEF YieldsDone, At, Idle, durable
  <2>2. CASE CopiedDates(job.opt) \subseteq DOMAIN target
    <3>1. job' = [job EXCEPT !.at = "statistics", !.todo = StatisticsDays(target, job.opt)]
      BY <1>18, <2>2 DEF YieldsDone
    <3> QED BY <2>1, <3>1 DEF Idle, Phases
  <2>3. CASE ~(CopiedDates(job.opt) \subseteq DOMAIN target)
    <3>1. job' = [job EXCEPT !.at = "interrupt"]
      BY <1>18, <2>3 DEF YieldsDone, Goto
    <3> QED BY <2>1, <3>1 DEF Idle, Phases
  <2> QED BY <2>2, <2>3
<1>19. CASE RebuildStatistics
  BY <1>19 DEF RebuildStatistics, At, Idle
<1>20. CASE StatisticsDone
  BY <1>20 DEF StatisticsDone, At, Goto, Idle, Phases, durable
<1>21. CASE AccessFails
  BY <1>21 DEF AccessFails, Goto, Idle, Phases, durable
<1>22. ASSUME NEW phase \in {"complete", "fail"}, Decide(phase) PROVE ShapeInv'
  BY <1>22 DEF Decide, At, Goto, Idle, Phases, durable
<1>23. CASE CloseRun
  BY <1>23 DEF CloseRun, Leave, Outcome, NoRun, PhaseInv, Idle
<1>24. CASE Crash
  BY <1>24 DEF Crash, Leave, durable
<1>25. CASE UNCHANGED vars
  BY <1>25 DEF vars, durable
<1> QED
  BY <1>1, <1>2, <1>3, <1>4, <1>5, <1>6, <1>7, <1>8, <1>9, <1>10, <1>11, <1>12, <1>13,
     <1>14, <1>15, <1>16, <1>17, <1>18, <1>19, <1>20, <1>21, <1>22, <1>23, <1>24, <1>25
  DEF Next, Execute, Resume, JobStep, Verify, VerifyFails

(* An invocation that leaves its categories, or has not come to them.             *)
LEMMA ElsewherePhase ==
    ASSUME job' = Idle \/ /\ job'.at \notin {"batch", "commit", "yields", "statistics"}
                          /\ job'.at \notin {"initialize", "open"} =>
                                run' # NoRun /\ run'.source = job'.opt.source
    PROVE  PhaseInv'
BY DEF PhaseInv, Idle

(* What holds at a place of the invocation holds when it comes there.           *)
LEMMA PhaseKept == MigratorInv /\ [Next]_vars => PhaseInv'
<1> SUFFICES ASSUME MigratorInv, [Next]_vars PROVE PhaseInv'
  OBVIOUS
<1> USE DEF MigratorInv, ShapeInv
<1>1. CASE Tick
  BY <1>1 DEF Tick, durable, PhaseInv, Cat, NextRows
<1>2. ASSUME NEW mode, NEW opt \in Options, Start(mode, opt) PROVE PhaseInv'
  BY <1>2, ElsewherePhase DEF Start
<1>3. CASE BeginSchema \/ ApplySchema \/ ReplaceTarget \/ EnableExtra
  BY <1>3, ElsewherePhase
  DEF BeginSchema, ApplySchema, ReplaceTarget, LeftHalfMade, EnableExtra, At, Idle
<1>4. CASE Initialized
  BY <1>4, ElsewherePhase DEF Initialized, At, Goto, Idle, JobFields
<1>5. CASE CreateRun
  BY <1>5, ElsewherePhase DEF CreateRun, At, Goto, Idle, JobFields, NoRun
<1>6. CASE ReopenRun
  BY <1>6, ElsewherePhase DEF ReopenRun, At, Goto, Idle, JobFields, NoRun
<1>7. CASE RefuseRun
  BY <1>7, ElsewherePhase DEF RefuseRun, Leave
<1>8. CASE SkipCategory
  BY <1>8, ElsewherePhase DEF SkipCategory, NextCategory, At, Idle, JobFields, durable, PhaseInv
<1>9. CASE EnterCategory
  BY <1>9, CategoriesSeq DEF EnterCategory, At, Idle, JobFields, durable, PhaseInv, Cat
<1>10. CASE CompleteCheckpoint
  BY <1>10, ElsewherePhase DEF CompleteCheckpoint, NextCategory, At, Idle, JobFields, PhaseInv
<1>11. CASE WriteBatch
  BY <1>11 DEF WriteBatch, At, Goto, Idle, JobFields, durable, PhaseInv, Cat, NextRows
<1>12. CASE BatchRefused
  BY <1>12, ElsewherePhase DEF BatchRefused, At, Goto, Idle, JobFields, durable, PhaseInv
<1>13. CASE BatchFails
  BY <1>13, ElsewherePhase DEF BatchFails, At, Goto, Idle, JobFields, durable, PhaseInv
<1>14. CASE Commit
  <2>1. job # Idle /\ job.at = "commit" /\ job' = [job EXCEPT !.at = "batch", !.key = tx.checkpoint.key]
    BY <1>14 DEF Commit, At, Idle
  <2>2. job.category \in 1..8 /\ Cat \in CategoryNames /\ Cat' = Cat
    BY <2>1, CatIsCategory DEF PhaseInv, Cat, JobFields
  <2>3. checkpoints'[Cat] = tx.checkpoint
    BY <1>14, <2>2 DEF Commit, Apply, TypeOK
  <2>4. ~tx.checkpoint.completed
    BY <2>1 DEF PhaseInv
  <2>5. UNCHANGED run
    BY <1>14 DEF Commit
  <2> QED BY <2>1, <2>2, <2>3, <2>4, <2>5 DEF PhaseInv, JobFields, Idle
<1>15. CASE CommitFails
  BY <1>15, ElsewherePhase DEF CommitFails, At, Goto, Idle, JobFields, PhaseInv
<1>16. CASE CategoriesDone
  <2>1. \A day \in RebuildableDays(target, job.opt) : day.table = "yields"
    BY DEF RebuildableDays, Cell
  <2> QED BY <1>16, <2>1 DEF CategoriesDone, At, Idle, JobFields, durable, PhaseInv
<1>17. CASE RebuildDay
  BY <1>17 DEF RebuildDay, At, Idle, JobFields, PhaseInv
<1>18. CASE YieldsDone
  <2>1. job # Idle /\ job.at = "yields" /\ UNCHANGED run
    BY <1>18 DEF YieldsDone, At, Idle, durable
  <2>2. CASE CopiedDates(job.opt) \subseteq DOMAIN target
    <3>1. job' = [job EXCEPT !.at = "statistics", !.todo = StatisticsDays(target, job.opt)]
      BY <1>18, <2>2 DEF YieldsDone
    <3>2. \A day \in StatisticsDays(target, job.opt) : day.table = "statistics"
      BY DEF StatisticsDays, Cell
    <3> QED BY <2>1, <3>1, <3>2 DEF Idle, JobFields, PhaseInv
  <2>3. CASE ~(CopiedDates(job.opt) \subseteq DOMAIN target)
    <3>1. job' = [job EXCEPT !.at = "interrupt"]
      BY <1>18, <2>3 DEF YieldsDone, Goto
    <3> QED BY <2>1, <3>1, ElsewherePhase DEF JobFields, PhaseInv
  <2> QED BY <2>2, <2>3
<1>19. CASE RebuildStatistics
  BY <1>19 DEF RebuildStatistics, At, Idle, JobFields, PhaseInv
<1>20. CASE StatisticsDone
  BY <1>20, ElsewherePhase DEF StatisticsDone, At, Goto, Idle, JobFields, durable, PhaseInv
<1>21. CASE AccessFails
  BY <1>21, ElsewherePhase DEF AccessFails, Goto, Idle, JobFields, durable, PhaseInv
<1>22. ASSUME NEW phase \in {"complete", "fail"}, Decide(phase) PROVE PhaseInv'
  BY <1>22, ElsewherePhase DEF Decide, At, Goto, Idle, JobFields, durable, PhaseInv
<1>23. CASE CloseRun
  BY <1>23, ElsewherePhase DEF CloseRun, Leave
<1>24. CASE Crash
  BY <1>24, ElsewherePhase DEF Crash, Leave
<1>25. CASE UNCHANGED vars
  BY <1>25 DEF vars, durable, PhaseInv, Cat, NextRows
<1> QED
  BY <1>1, <1>2, <1>3, <1>4, <1>5, <1>6, <1>7, <1>8, <1>9, <1>10, <1>11, <1>12, <1>13,
     <1>14, <1>15, <1>16, <1>17, <1>18, <1>19, <1>20, <1>21, <1>22, <1>23, <1>24, <1>25
  DEF Next, Execute, Resume, JobStep, Verify, VerifyFails

(* What an import has written is only written while there is a run, and a run is  *)
(* never forgotten.                                                               *)
LEMMA RunStays == MigratorInv /\ [Next]_vars /\ run # NoRun => run' # NoRun /\ run'.source = run.source
<1> SUFFICES ASSUME MigratorInv, [Next]_vars, run # NoRun
             PROVE  run' # NoRun /\ run'.source = run.source
  OBVIOUS
<1> USE DEF MigratorInv, ShapeInv
<1>1. CASE ReopenRun
  BY <1>1 DEF ReopenRun, NoRun
<1>2. CASE CloseRun
  BY <1>2 DEF CloseRun, NoRun
<1>3. CASE CreateRun
  BY <1>3 DEF CreateRun
<1>4. CASE UNCHANGED run
  BY <1>4
<1> QED
  BY <1>1, <1>2, <1>3, <1>4
  DEF Next, JobStep, Execute, Resume, Tick, Start, BeginSchema, ApplySchema, ReplaceTarget,
      EnableExtra, Initialized, RefuseRun,
      SkipCategory, EnterCategory, CompleteCheckpoint, WriteBatch, BatchRefused, BatchFails,
      Commit, CommitFails, CategoriesDone, RebuildDay, YieldsDone, RebuildStatistics,
      StatisticsDone, AccessFails, Decide, Verify, VerifyFails, Crash, durable, vars

(* The three ways an invocation with a run changes target and checkpoints.        *)
Completes == CompleteCheckpoint
Commits == At("commit") /\ Apply
Rebuilds ==
    /\ \E day \in job.todo : /\ day.table \in {"yields", "statistics"}
                             /\ DOMAIN target' = DOMAIN target \cup {day}
    /\ UNCHANGED checkpoints

(* Every step either leaves target and checkpoints alone or is one of the three.*)
LEMMA Effects ==
    MigratorInv /\ [Next]_vars =>
        \/ UNCHANGED <<target, checkpoints>>
        \/ run # NoRun /\ UNCHANGED run /\ (Completes \/ Commits \/ Rebuilds)
<1> SUFFICES ASSUME MigratorInv, [Next]_vars, ~UNCHANGED <<target, checkpoints>>
             PROVE  run # NoRun /\ UNCHANGED run /\ (Completes \/ Commits \/ Rebuilds)
  OBVIOUS
<1> USE DEF MigratorInv, ShapeInv, PhaseInv, Completes, Commits, Rebuilds
<1>1. CASE CompleteCheckpoint
  BY <1>1 DEF CompleteCheckpoint, At, Idle
<1>2. CASE Commit \/ CommitFails
  BY <1>2 DEF Commit, CommitFails, At, Idle
<1>3. CASE RebuildDay
  <2>1. job # Idle /\ job.at = "yields" /\ UNCHANGED <<run, checkpoints>>
    BY <1>3 DEF RebuildDay, At, Idle
  <2>2. PICK day \in job.todo :
            target' = Filled(target, {day},
                             LAMBDA d : RebuiltYield(target, job.opt, job.today, d))
    BY <1>3 DEF RebuildDay
  <2>3. DOMAIN target' = DOMAIN target \cup {day}
    BY <2>2 DEF Filled
  <2> QED BY <2>1, <2>3
<1>4. CASE RebuildStatistics
  <2>1. job # Idle /\ job.at = "statistics" /\ UNCHANGED <<run, checkpoints>>
    BY <1>4 DEF RebuildStatistics, At, Idle
  <2>2. PICK day \in job.todo :
            target' = Filled(target, {day},
                             LAMBDA d : Statistics(target, job.opt, job.today, d))
    BY <1>4 DEF RebuildStatistics
  <2>3. DOMAIN target' = DOMAIN target \cup {day}
    BY <2>2 DEF Filled
  <2> QED BY <2>1, <2>3
<1> QED
  BY <1>1, <1>2, <1>3, <1>4
  DEF Next, JobStep, Execute, Resume, Tick, Start, BeginSchema, ApplySchema, ReplaceTarget,
      EnableExtra, Initialized, CreateRun,
      ReopenRun, RefuseRun, SkipCategory, EnterCategory, WriteBatch, BatchRefused,
      BatchFails, CategoriesDone, YieldsDone, StatisticsDone, AccessFails, Decide,
      Verify, VerifyFails, CloseRun, Crash, durable, vars

(* While there is no run, nothing is written.                                   *)
LEMMA FreshKept == MigratorInv /\ [Next]_vars => FreshInv'
<1> SUFFICES ASSUME MigratorInv, [Next]_vars, run' = NoRun PROVE FreshInv'
  BY DEF FreshInv
<1>1. run = NoRun
  BY RunStays
<1> QED
  BY <1>1, Effects DEF FreshInv, MigratorInv

(* What a commit does, said of the run instead of the invocation.                 *)
LEMMA CommitEffect ==
    ASSUME MigratorInv, Commits
    PROVE  LET key == checkpoints[Cat].key
               batch == Batch(run.source, Cat, key)
           IN  /\ job.opt \in Options /\ job.opt.source = run.source
               /\ run.source \in DOMAIN Sources
               /\ Cat \in CategoryNames /\ ~checkpoints[Cat].completed
               /\ key \in Int /\ key >= InitialKey(Cat) /\ batch # {}
               /\ target' = Written(target, job.opt, job.today, Cat, batch)
               /\ checkpoints' =
                     [checkpoints EXCEPT ![Cat] =
                         [key |-> LastKey(batch),
                          rows |-> checkpoints[Cat].rows + Cardinality(batch),
                          completed |-> FALSE]]
<1> USE DEF MigratorInv
<1>1. job # Idle /\ job.at = "commit"
  BY DEF Commits, At, Idle
<1>2. Cat \in CategoryNames
  BY <1>1, CatIsCategory DEF ShapeInv, PhaseInv
<1>3. /\ run.source = job.opt.source /\ run.source \in DOMAIN Sources
      /\ job.opt \in Options
      /\ ~checkpoints[Cat].completed /\ checkpoints[Cat].key = job.key
  BY <1>1 DEF ShapeInv, PhaseInv
<1>4. NextRows = Batch(run.source, Cat, checkpoints[Cat].key)
  BY <1>3 DEF NextRows
<1>5. /\ NextRows # {}
      /\ tx.cells = Written(target, job.opt, job.today, Cat, NextRows)
      /\ tx.checkpoint = [key |-> LastKey(NextRows),
                          rows |-> checkpoints[Cat].rows + Cardinality(NextRows),
                          completed |-> FALSE]
  BY <1>1 DEF PhaseInv
<1>6. target' = tx.cells /\ checkpoints' = [checkpoints EXCEPT ![Cat] = tx.checkpoint]
  BY DEF Commits, Apply
<1>7. checkpoints[Cat].key \in Int /\ checkpoints[Cat].key >= InitialKey(Cat)
  BY <1>2 DEF TypeOK, KeyInv
<1> QED BY <1>2, <1>3, <1>4, <1>5, <1>6, <1>7

CheckpointType == [key : Int, rows : Nat, completed : BOOLEAN]

(* Checkpoints keep their type: the last key of a batch is an integer.          *)
LEMMA CheckpointsTyped ==
    MigratorInv /\ [Next]_vars => checkpoints' \in [CategoryNames -> CheckpointType]
<1> SUFFICES ASSUME MigratorInv, [Next]_vars
             PROVE  checkpoints' \in [CategoryNames -> CheckpointType]
  OBVIOUS
<1>1. checkpoints \in [CategoryNames -> CheckpointType]
  BY DEF MigratorInv, TypeOK, CheckpointType
<1>2. CASE Completes
  BY <1>1, <1>2 DEF Completes, CompleteCheckpoint, CheckpointType
<1>3. CASE Commits
  <2> DEFINE batch == Batch(run.source, Cat, checkpoints[Cat].key)
  <2>1. LastKey(batch) \in Int /\ Cardinality(batch) \in Nat
    BY <1>3, CommitEffect, BatchExtends, FS_CardinalityType
  <2>2. checkpoints[Cat].rows \in Nat
    BY <1>1, <1>3, CommitEffect DEF CheckpointType
  <2>3. [key |-> LastKey(batch), rows |-> checkpoints[Cat].rows + Cardinality(batch),
         completed |-> FALSE] \in CheckpointType
    <3> HIDE DEF batch
    <3> QED BY <2>1, <2>2 DEF CheckpointType
  <2> QED BY <1>1, <1>3, <2>3, CommitEffect
<1>4. CASE Rebuilds
  BY <1>1, <1>4 DEF Rebuilds
<1> QED BY <1>1, <1>2, <1>3, <1>4, Effects

(* Only tables of the target are written.                                       *)
LEMMA TablesKept ==
    MigratorInv /\ [Next]_vars =>
        \A c \in DOMAIN target' : c.table \in CanonicalTables \cup {"staged", "statistics"}
<1> SUFFICES ASSUME MigratorInv, [Next]_vars, NEW c \in DOMAIN target'
             PROVE  c.table \in CanonicalTables \cup {"staged", "statistics"}
  OBVIOUS
<1>1. \A d \in DOMAIN target : d.table \in CanonicalTables \cup {"staged", "statistics"}
  BY DEF MigratorInv, TypeOK
<1>2. CASE Completes
  BY <1>1, <1>2 DEF Completes, CompleteCheckpoint
<1>3. CASE Commits
  <2> DEFINE batch == Batch(run.source, Cat, checkpoints[Cat].key)
  <2>1. target' = Written(target, job.opt, job.today, Cat, batch)
    BY <1>3, CommitEffect
  <2>2. CASE c \in DOMAIN target
    BY <1>1, <2>2
  <2>3. CASE c \notin DOMAIN target
    <3>1. PICK r \in batch : c \in CellsOf(job.opt, Cat, r)
      <4> HIDE DEF batch
      <4> QED BY <2>1, <2>3, WrittenCells
    <3> QED BY <1>3, <3>1, CommitEffect, TablesOfRow
  <2> QED BY <2>2, <2>3
<1>4. CASE Rebuilds
  BY <1>1, <1>4 DEF Rebuilds, CanonicalTables
<1> QED BY <1>1, <1>2, <1>3, <1>4, Effects

(* Every step keeps the types.                                                  *)
LEMMA TypeKept == MigratorInv /\ [Next]_vars => TypeOK'
<1> SUFFICES ASSUME MigratorInv, [Next]_vars PROVE TypeOK'
  OBVIOUS
<1> USE DEF MigratorInv
<1>1. now' \in 0..MaxNow
  <2>1. CASE Tick
    BY <2>1, SizesAssumption DEF Tick, TypeOK
  <2>2. CASE UNCHANGED now
    BY <2>2 DEF TypeOK
  <2> QED
    BY <2>1, <2>2
    DEF Next, JobStep, Execute, Resume, Start, BeginSchema, ApplySchema, ReplaceTarget,
      EnableExtra, Initialized,
        CreateRun, ReopenRun, RefuseRun, SkipCategory, EnterCategory, CompleteCheckpoint,
        WriteBatch, BatchRefused, BatchFails, CommitFails, Commit, CategoriesDone, RebuildDay,
        YieldsDone, RebuildStatistics, StatisticsDone, AccessFails, Decide, Verify,
        VerifyFails, CloseRun, Crash, vars
<1>2. faults' \in 0..MaxFaults
  <2>1. CASE faults < MaxFaults /\ faults' = faults + 1
    BY <2>1, SizesAssumption DEF TypeOK
  <2>2. CASE UNCHANGED faults
    BY <2>2 DEF TypeOK
  <2> QED
    BY <2>1, <2>2
    DEF Next, JobStep, Execute, Resume, Tick, Start, BeginSchema, ApplySchema, ReplaceTarget,
      EnableExtra, Initialized,
        CreateRun, ReopenRun, RefuseRun, SkipCategory, EnterCategory, CompleteCheckpoint,
        WriteBatch, BatchRefused, BatchFails, CommitFails, Commit, CategoriesDone, RebuildDay,
        YieldsDone, RebuildStatistics, StatisticsDone, AccessFails, Decide, Verify,
        VerifyFails, CloseRun, Crash, vars
<1>3. extras' \subseteq {"statistics", "pvoutput"}
  <2>1. CASE EnableExtra
    <3>1. job.opt \in Options
      BY <2>1 DEF EnableExtra, At, Idle, ShapeInv
    <3> QED BY <2>1, <3>1, SourcesAssumption DEF EnableExtra, TypeOK
  <2>2. CASE UNCHANGED extras
    BY <2>2 DEF TypeOK
  <2> QED
    BY <2>1, <2>2
    DEF Next, JobStep, Execute, Resume, Tick, Start, BeginSchema, ApplySchema, ReplaceTarget,
        Initialized, CreateRun, ReopenRun,
        RefuseRun, SkipCategory, EnterCategory, CompleteCheckpoint, WriteBatch,
        BatchRefused, BatchFails, Commit, CommitFails, CategoriesDone, RebuildDay,
        YieldsDone, RebuildStatistics, StatisticsDone, AccessFails, Decide, Verify,
        VerifyFails, CloseRun, Crash, durable, vars
<1>4. run' = NoRun \/ run'.status \in {"running", "interrupted", "failed", "completed"}
  <2>1. CASE CreateRun
    BY <2>1 DEF CreateRun
  <2>2. CASE ReopenRun
    BY <2>2 DEF ReopenRun, ShapeInv
  <2>3. CASE CloseRun
    BY <2>3 DEF CloseRun, ShapeInv, PhaseInv, Outcome, Idle
  <2>4. CASE UNCHANGED run
    BY <2>4 DEF TypeOK
  <2> QED
    BY <2>1, <2>2, <2>3, <2>4
    DEF Next, JobStep, Execute, Resume, Tick, Start, BeginSchema, ApplySchema, ReplaceTarget,
      EnableExtra, Initialized, RefuseRun,
        SkipCategory, EnterCategory, CompleteCheckpoint, WriteBatch, BatchRefused,
        BatchFails, Commit, CommitFails, CategoriesDone, RebuildDay, YieldsDone,
        RebuildStatistics, StatisticsDone, AccessFails, Decide, Verify, VerifyFails,
        Crash, durable, vars
<1>5. job' = Idle \/ job'.category \in 1 .. Len(Categories) + 1
  BY ShapeKept, CategoriesSeq DEF ShapeInv
<1>6. tx' # NoTx <=> job'.at = "commit"
  <2>1. CASE WriteBatch
    <3>1. tx'.checkpoint.completed = FALSE /\ DOMAIN tx' = {"cells", "checkpoint"}
      BY <2>1 DEF WriteBatch
    <3>2. job'.at = "commit"
      BY <2>1 DEF WriteBatch, At, Goto, ShapeInv, Idle, JobFields
    <3>3. DOMAIN NoTx = {"cells"}
      BY DEF NoTx
    <3> QED BY <3>1, <3>2, <3>3
  <2>2. CASE BatchFails \/ CommitFails
    BY <2>2 DEF BatchFails, CommitFails, At, Goto, Idle, ShapeInv, JobFields
  <2>3. CASE Commit
    BY <2>3 DEF Commit, At, Idle, ShapeInv, JobFields
  <2>4. CASE Crash
    BY <2>4 DEF Crash, Leave, Idle
  <2>5. CASE UNCHANGED vars
    BY <2>5 DEF vars, TypeOK, At
  <2>6. ASSUME NEW mode, NEW opt \in Options, Start(mode, opt) PROVE tx' # NoTx <=> job'.at = "commit"
    BY <2>6 DEF Start, TypeOK, At, Idle
  <2>7. CASE YieldsDone
    <3>1. UNCHANGED tx /\ tx = NoTx /\ job # Idle /\ job.at = "yields"
      BY <2>7 DEF YieldsDone, TypeOK, At, Idle
    <3>2. CASE CopiedDates(job.opt) \subseteq DOMAIN target
      BY <2>7, <3>1, <3>2 DEF YieldsDone, ShapeInv, JobFields
    <3>3. CASE ~(CopiedDates(job.opt) \subseteq DOMAIN target)
      BY <2>7, <3>1, <3>3 DEF YieldsDone, Goto, ShapeInv, JobFields
    <3> QED BY <3>2, <3>3
  <2>8. CASE Tick \/ BeginSchema \/ ApplySchema \/ ReplaceTarget \/ EnableExtra
    BY <2>8
    DEF Tick, BeginSchema, ApplySchema, ReplaceTarget, LeftHalfMade, EnableExtra, At, TypeOK
  <2>9. CASE RebuildDay
    BY <2>9 DEF RebuildDay, At, Idle, ShapeInv, JobFields, TypeOK
  <2>10. CASE RebuildStatistics
    BY <2>10 DEF RebuildStatistics, At, Idle, ShapeInv, JobFields, TypeOK
  <2>11. CASE Initialized \/ CreateRun \/ ReopenRun \/ RefuseRun
    BY <2>11
    DEF Initialized, CreateRun, ReopenRun, RefuseRun, At, Goto, Leave, Idle, ShapeInv,
        JobFields, TypeOK
  <2>12. CASE SkipCategory \/ EnterCategory \/ CompleteCheckpoint \/ BatchRefused
    BY <2>12
    DEF SkipCategory, EnterCategory, CompleteCheckpoint, BatchRefused, NextCategory, At,
        Goto, Idle, ShapeInv, JobFields, TypeOK
  <2>13. CASE CategoriesDone
    BY <2>13 DEF CategoriesDone, At, Idle, ShapeInv, JobFields, TypeOK
  <2>14. CASE StatisticsDone
    BY <2>14 DEF StatisticsDone, At, Goto, Idle, ShapeInv, JobFields, TypeOK
  <2>15. CASE AccessFails
    BY <2>15 DEF AccessFails, At, Goto, Idle, ShapeInv, JobFields, TypeOK
  <2>16. CASE CloseRun
    BY <2>16 DEF CloseRun, At, Leave, Idle, TypeOK
  <2>17. ASSUME NEW phase \in {"complete", "fail"}, Decide(phase) PROVE tx' # NoTx <=> job'.at = "commit"
    BY <2>17 DEF Decide, At, Goto, Idle, ShapeInv, JobFields, TypeOK
  <2> QED
    BY <2>1, <2>2, <2>5, <2>6, <2>7, <2>8, <2>9, <2>10, <2>17, <2>11, <2>12,
       <2>13, <2>14, <2>15, <2>16, <2>3, <2>4
    DEF Next, JobStep, Execute, Resume, Verify, VerifyFails
<1>7. schema' \in {"none", "begun", "whole"}
  BY DEF Next, JobStep, Execute, Resume, Tick, Start, BeginSchema, ApplySchema, ReplaceTarget,
         EnableExtra, Initialized, CreateRun, ReopenRun, RefuseRun, SkipCategory, EnterCategory,
         CompleteCheckpoint, WriteBatch, BatchRefused, BatchFails, Commit, CommitFails,
         CategoriesDone, RebuildDay, YieldsDone, RebuildStatistics, StatisticsDone,
         AccessFails, Decide, Verify, VerifyFails, CloseRun, Crash, durable, vars, TypeOK
<1> QED
  BY <1>1, <1>2, <1>3, <1>4, <1>5, <1>6, <1>7, TablesKept, CheckpointsTyped
  DEF TypeOK, CheckpointType, At

(* No checkpoint goes back.                                                       *)
LEMMA Advances ==
    MigratorInv /\ [Next]_vars =>
        \A cat \in CategoryNames :
            /\ checkpoints'[cat].key >= checkpoints[cat].key
            /\ checkpoints'[cat].rows >= checkpoints[cat].rows
            /\ checkpoints[cat].completed => checkpoints'[cat].completed
<1> SUFFICES ASSUME MigratorInv, [Next]_vars, NEW cat \in CategoryNames
             PROVE  /\ checkpoints'[cat].key >= checkpoints[cat].key
                    /\ checkpoints'[cat].rows >= checkpoints[cat].rows
                    /\ checkpoints[cat].completed => checkpoints'[cat].completed
  OBVIOUS
<1>1. checkpoints \in [CategoryNames -> CheckpointType]
  BY DEF MigratorInv, TypeOK, CheckpointType
<1>2. CASE checkpoints'[cat] = checkpoints[cat]
  BY <1>1, <1>2 DEF CheckpointType
<1>3. CASE Completes
  BY <1>1, <1>3 DEF Completes, CompleteCheckpoint, CheckpointType
<1>4. CASE Commits /\ cat = Cat
  <2> DEFINE batch == Batch(run.source, Cat, checkpoints[Cat].key)
  <2>1. /\ LastKey(batch) \in Int /\ LastKey(batch) > checkpoints[Cat].key
        /\ Cardinality(batch) \in Nat
    BY <1>4, CommitEffect, BatchExtends, FS_CardinalityType
  <2>2. checkpoints'[cat] = [key |-> LastKey(batch),
                             rows |-> checkpoints[Cat].rows + Cardinality(batch),
                             completed |-> FALSE]
    BY <1>1, <1>4, CommitEffect
  <2>3. ~checkpoints[cat].completed
    BY <1>4, CommitEffect
  <2>4. checkpoints[cat].rows \in Nat /\ checkpoints[cat].key \in Int
    BY <1>1 DEF CheckpointType
  <2> HIDE DEF batch
  <2> QED BY <1>4, <2>1, <2>2, <2>3, <2>4
<1>5. CASE Commits /\ cat # Cat
  <2>1. checkpoints'[cat] = checkpoints[cat]
    BY <1>1, <1>5, CommitEffect
  <2> QED BY <2>1, <1>2
<1>6. CASE Rebuilds
  BY <1>2, <1>6 DEF Rebuilds
<1> QED BY <1>2, <1>3, <1>4, <1>5, <1>6, Effects

(* A key is never below the one its category begins with.                       *)
LEMMA KeyKept == MigratorInv /\ [Next]_vars => KeyInv'
<1> SUFFICES ASSUME MigratorInv, [Next]_vars, NEW cat \in CategoryNames
             PROVE  checkpoints'[cat].key >= InitialKey(cat)
  BY DEF KeyInv
<1>1. checkpoints[cat].key \in Int /\ checkpoints'[cat].key \in Int /\ InitialKey(cat) \in Int
  BY CheckpointsTyped DEF MigratorInv, TypeOK, CheckpointType, InitialKey, LowestKey
<1>2. checkpoints[cat].key >= InitialKey(cat)
  BY DEF MigratorInv, KeyInv
<1> QED BY <1>1, <1>2, Advances

-----------------------------------------------------------------------------
(* CheckpointCovers, taken apart by category.                                     *)
CountedRows(cat) ==
    /\ checkpoints[cat].rows = Cardinality(Covered(cat))
    /\ checkpoints[cat].completed => Covered(cat) = ReadRows(run.source, cat)

StagedRows(cat) ==
    cat = "config" =>
        InTable(target, "staged") = {Cell("staged", Site, r.key) : r \in Covered(cat)}

WrittenRows(cat) ==
    cat # "month_data" =>
        \A r \in Covered(cat) :
            CellsOf([source |-> run.source, extras |-> {}], cat, r) \subseteq DOMAIN target

(* CheckpointCovers is its three parts for every category.                      *)
LEMMA CoversByCategory ==
    CheckpointCovers <=>
        (run # NoRun => \A cat \in CategoryNames :
                            CountedRows(cat) /\ StagedRows(cat) /\ WrittenRows(cat))
BY DEF CheckpointCovers, CountedRows, StagedRows, WrittenRows

(* A commit lets the checkpoint cover its batch.                                  *)
LEMMA CommitCovers ==
    ASSUME MigratorInv, Commits, UNCHANGED run, run # NoRun
    PROVE  LET batch == Batch(run.source, Cat, checkpoints[Cat].key)
           IN  /\ IsFiniteSet(batch) /\ IsFiniteSet(Covered(Cat))
               /\ Covered(Cat) \cap batch = {}
               /\ \A cat \in CategoryNames :
                     Covered(cat)' = IF cat = Cat THEN Covered(cat) \cup batch ELSE Covered(cat)
<1> DEFINE batch == Batch(run.source, Cat, checkpoints[Cat].key)
           upto(k) == {r \in ReadRows(run.source, Cat) : r.key <= k}
<1>1. checkpoints \in [CategoryNames -> CheckpointType]
  BY DEF MigratorInv, TypeOK, CheckpointType
<1>2. checkpoints'[Cat].key = LastKey(batch)
  BY <1>1, CommitEffect
<1>3. upto(LastKey(batch)) = upto(checkpoints[Cat].key) \cup batch
  BY CommitEffect, BatchExtends
<1>4. /\ IsFiniteSet(batch) /\ IsFiniteSet(upto(checkpoints[Cat].key))
      /\ batch \cap upto(checkpoints[Cat].key) = {}
  BY CommitEffect, BatchExtends
<1>5. Covered(Cat) = upto(checkpoints[Cat].key)
  BY DEF Covered
<1>6. ASSUME NEW cat \in CategoryNames
      PROVE  Covered(cat)' = {r \in ReadRows(run.source, cat) : r.key <= checkpoints'[cat].key}
  BY DEF Covered
<1>7. ASSUME NEW cat \in CategoryNames, cat # Cat PROVE Covered(cat)' = Covered(cat)
  <2>1. checkpoints'[cat] = checkpoints[cat]
    BY <1>1, <1>7, CommitEffect
  <2> QED BY <1>6, <2>1 DEF Covered
<1>8. ASSUME NEW cat \in CategoryNames, cat = Cat PROVE Covered(cat)' = Covered(cat) \cup batch
  <2>1. Covered(cat)' = upto(LastKey(batch))
    BY <1>2, <1>6, <1>8
  <2> HIDE DEF batch, upto
  <2> QED BY <1>3, <1>5, <1>8, <2>1
<1> HIDE DEF upto
<1> QED BY <1>4, <1>5, <1>7, <1>8

(* A checkpoint goes on counting what it covers, each row once.                 *)
LEMMA CountedKept ==
    ASSUME MigratorInv, [Next]_vars, run # NoRun, NEW cat \in CategoryNames
    PROVE  CountedRows(cat)'
<1>1. CountedRows(cat)
  BY CoversByCategory DEF MigratorInv
<1>2. checkpoints \in [CategoryNames -> CheckpointType] /\ run'.source = run.source
  BY RunStays DEF MigratorInv, TypeOK, CheckpointType
<1>3. CASE checkpoints'[cat] = checkpoints[cat]
  <2>1. Covered(cat)' = Covered(cat)
    BY <1>2, <1>3 DEF Covered
  <2> QED BY <1>1, <1>2, <1>3, <2>1 DEF CountedRows
<1>4. CASE Completes /\ cat = Cat
  <2>1. job # Idle /\ job.at = "batch" /\ NextRows = {}
    BY <1>4 DEF Completes, CompleteCheckpoint, At, Idle
  <2>2. /\ NextRows = Batch(run.source, cat, checkpoints[cat].key)
        /\ run.source \in DOMAIN Sources /\ checkpoints[cat].key \in Int
    BY <1>2, <1>4, <2>1 DEF NextRows, MigratorInv, ShapeInv, PhaseInv, CheckpointType
  <2>3. \A r \in Rows(run.source, cat) : r.key <= checkpoints[cat].key
    BY <2>1, <2>2, EmptyBatch
  <2>4. Covered(cat) = ReadRows(run.source, cat)
    BY <2>3 DEF Covered, ReadRows
  <2>5. checkpoints'[cat] = [checkpoints[cat] EXCEPT !.completed = TRUE]
    BY <1>2, <1>4 DEF Completes, CompleteCheckpoint
  <2>6. checkpoints'[cat].key = checkpoints[cat].key /\ checkpoints'[cat].rows = checkpoints[cat].rows
    BY <1>2, <2>5 DEF CheckpointType
  <2>7. Covered(cat)' = Covered(cat)
    BY <1>2, <2>6 DEF Covered
  <2> QED BY <1>1, <1>2, <2>4, <2>6, <2>7 DEF CountedRows
<1>5. CASE Completes /\ cat # Cat
  BY <1>2, <1>3, <1>5 DEF Completes, CompleteCheckpoint
<1>6. CASE Commits /\ cat = Cat /\ UNCHANGED run
  <2> DEFINE batch == Batch(run.source, Cat, checkpoints[Cat].key)
  <2>1. /\ Covered(cat)' = Covered(cat) \cup batch
        /\ Covered(cat) \cap batch = {}
        /\ IsFiniteSet(batch) /\ IsFiniteSet(Covered(cat))
    BY <1>6, CommitCovers
  <2>2. /\ checkpoints'[cat].rows = checkpoints[cat].rows + Cardinality(batch)
        /\ ~checkpoints'[cat].completed
    BY <1>2, <1>6, CommitEffect
  <2>3. checkpoints[cat].rows = Cardinality(Covered(cat))
    BY <1>1 DEF CountedRows
  <2>4. Cardinality(Covered(cat) \cup batch) = Cardinality(Covered(cat)) + Cardinality(batch)
    <3>1. Cardinality(Covered(cat) \cap batch) = 0
      BY <2>1, FS_EmptySet
    <3>2. /\ Cardinality(Covered(cat)) \in Nat /\ Cardinality(batch) \in Nat
      BY <2>1, FS_CardinalityType
    <3> HIDE DEF batch
    <3>3. Cardinality(Covered(cat) \cup batch)
             = Cardinality(Covered(cat)) + Cardinality(batch) - Cardinality(Covered(cat) \cap batch)
      BY <2>1, FS_Union
    <3> QED BY <3>1, <3>2, <3>3
  <2> QED BY <2>1, <2>2, <2>3, <2>4 DEF CountedRows
<1>7. CASE Commits /\ cat # Cat
  BY <1>2, <1>3, <1>7, CommitEffect
<1> QED BY <1>3, <1>4, <1>5, <1>6, <1>7, Effects DEF Rebuilds

(* What a checkpoint covers stays in the target, and commits bring the rest.    *)
LEMMA TargetKept ==
    ASSUME MigratorInv, [Next]_vars, run # NoRun, NEW cat \in CategoryNames
    PROVE  StagedRows(cat)' /\ WrittenRows(cat)'
<1>1. StagedRows(cat) /\ WrittenRows(cat)
  BY CoversByCategory DEF MigratorInv
<1>2. checkpoints \in [CategoryNames -> CheckpointType] /\ run'.source = run.source
  BY RunStays DEF MigratorInv, TypeOK, CheckpointType
<1>3. CASE /\ checkpoints'[cat].key = checkpoints[cat].key
           /\ DOMAIN target \subseteq DOMAIN target'
           /\ InTable(target, "staged")' = InTable(target, "staged")
  <2>1. Covered(cat)' = Covered(cat)
    BY <1>2, <1>3 DEF Covered
  <2> QED BY <1>1, <1>2, <1>3, <2>1 DEF StagedRows, WrittenRows
<1>4. CASE UNCHANGED <<target, checkpoints>>
  BY <1>3, <1>4 DEF InTable
<1>5. CASE Completes
  <2>1. checkpoints'[cat].key = checkpoints[cat].key /\ UNCHANGED target
    BY <1>2, <1>5 DEF Completes, CompleteCheckpoint, CheckpointType
  <2> QED BY <1>3, <2>1 DEF InTable
<1>6. CASE Rebuilds
  <2>1. InTable(target, "staged")' = InTable(target, "staged")
    BY <1>6 DEF Rebuilds, InTable
  <2> QED BY <1>3, <1>6, <2>1 DEF Rebuilds
<1>7. CASE Commits /\ UNCHANGED run
  <2> DEFINE batch == Batch(run.source, Cat, checkpoints[Cat].key)
  <2>1. \A c : c \in DOMAIN target' <=> \/ c \in DOMAIN target
                                      \/ \E r \in batch : c \in CellsOf(job.opt, Cat, r)
    <3>1. target' = Written(target, job.opt, job.today, Cat, batch)
      BY <1>7, CommitEffect
    <3> HIDE DEF batch
    <3> QED BY <3>1, WrittenCells
  <2>2. /\ job.opt \in Options /\ job.opt.source = run.source
        /\ Cat \in CategoryNames
    BY <1>7, CommitEffect
  <2>3. Covered(cat)' = IF cat = Cat THEN Covered(cat) \cup batch ELSE Covered(cat)
    BY <1>7, CommitCovers
  <2>4. WrittenRows(cat)'
    <3>1. SUFFICES ASSUME cat # "month_data", NEW r \in Covered(cat)',
                          NEW c \in CellsOf([source |-> run.source, extras |-> {}], cat, r)
                   PROVE  c \in DOMAIN target'
      BY <1>2 DEF WrittenRows
    <3>2. CASE r \in Covered(cat)
      BY <1>1, <2>1, <3>1, <3>2 DEF WrittenRows
    <3>3. CASE cat = Cat /\ r \in batch
      <4>1. c \in CellsOf(job.opt, Cat, r)
        BY <2>2, <3>1, <3>3, PlainCells
      <4> HIDE DEF batch
      <4> QED BY <2>1, <3>3, <4>1
    <3> HIDE DEF batch
    <3> QED BY <2>3, <3>2, <3>3
  <2>5. StagedRows(cat)'
    <3>1. SUFFICES ASSUME cat = "config"
                   PROVE  InTable(target, "staged")'
                             = {Cell("staged", Site, r.key) : r \in Covered(cat)'}
      BY DEF StagedRows
    <3>2. InTable(target, "staged") = {Cell("staged", Site, r.key) : r \in Covered(cat)}
      BY <1>1, <3>1 DEF StagedRows
    <3>3. InTable(target, "staged")' = {c \in DOMAIN target' : c.table = "staged"}
      BY DEF InTable
    <3>4. CASE cat = Cat
      <4>1. \A r : CellsOf(job.opt, Cat, r) = {Cell("staged", Site, r.key)}
        BY <2>2, <3>1, <3>4, StagedCells
      <4>2. \A r : Cell("staged", Site, r.key).table = "staged"
        BY DEF Cell
      <4> HIDE DEF batch
      <4> QED BY <2>1, <2>3, <3>2, <3>3, <3>4, <4>1, <4>2 DEF InTable
    <3>5. CASE cat # Cat
      <4>1. \A r : \A c \in CellsOf(job.opt, Cat, r) : c.table # "staged"
        BY <2>2, <3>1, <3>5, StagedCells
      <4> HIDE DEF batch
      <4> QED BY <2>1, <2>3, <3>2, <3>3, <3>5, <4>1 DEF InTable
    <3> QED BY <3>4, <3>5
  <2> QED BY <2>4, <2>5
<1> QED BY <1>4, <1>5, <1>6, <1>7, Effects

(* CheckpointCovers is kept by every step, also when the first run is made.     *)
LEMMA CoversKept == MigratorInv /\ [Next]_vars => CheckpointCovers'
<1> SUFFICES ASSUME MigratorInv, [Next]_vars, run' # NoRun PROVE CheckpointCovers'
  BY DEF CheckpointCovers
<1>1. CASE run # NoRun
  <2>1. \A cat \in CategoryNames : CountedRows(cat)' /\ StagedRows(cat)' /\ WrittenRows(cat)'
    BY <1>1, CountedKept, TargetKept
  <2> QED BY <2>1 DEF CheckpointCovers, CountedRows, StagedRows, WrittenRows
<1>2. CASE run = NoRun
  <2>1. /\ target' = NoCells
        /\ checkpoints' = [cat \in CategoryNames |-> NewCheckpoint(cat)]
    BY <1>2, Effects DEF MigratorInv, FreshInv
  <2>2. ASSUME NEW cat \in CategoryNames PROVE Covered(cat)' = {}
    <3>1. checkpoints'[cat].key = InitialKey(cat)
      BY <2>1 DEF NewCheckpoint
    <3>2. InitialKey(cat) \in Int
      BY DEF InitialKey, LowestKey
    <3>3. run'.source \in DOMAIN Sources
      BY ShapeKept DEF ShapeInv
    <3> QED BY <3>1, <3>2, <3>3, RowsFinite DEF Covered, ReadRows
  <2>3. ASSUME NEW cat \in CategoryNames
        PROVE  checkpoints'[cat].rows = 0 /\ ~checkpoints'[cat].completed
    BY <2>1 DEF NewCheckpoint
  <2>4. InTable(target, "staged")' = {}
    BY <2>1 DEF InTable, NoCells
  <2>5. Cardinality({}) = 0
    BY FS_EmptySet
  <2>6. ASSUME NEW cat \in CategoryNames
        PROVE  CountedRows(cat)' /\ StagedRows(cat)' /\ WrittenRows(cat)'
    BY <2>2, <2>3, <2>4, <2>5 DEF CountedRows, StagedRows, WrittenRows
  <2> QED BY <2>6 DEF CheckpointCovers, CountedRows, StagedRows, WrittenRows
<1> QED BY <1>1, <1>2

(* MigratorInv is inductive.                                                      *)
LEMMA InvHolds == Spec => []MigratorInv
<1>1. Init => MigratorInv
  BY StartsInv
<1>2. MigratorInv /\ [Next]_vars => MigratorInv'
  <2> SUFFICES ASSUME MigratorInv, [Next]_vars PROVE MigratorInv'
    OBVIOUS
  <2> QED BY TypeKept, ShapeKept, PhaseKept, FreshKept, KeyKept, CoversKept DEF MigratorInv
<1> QED BY <1>1, <1>2, PTL DEF Spec

(* Every variable of the migrator keeps its type, for any source and batch size.  *)
THEOREM TypeCorrect == Spec => []TypeOK
<1>1. MigratorInv => TypeOK
  BY DEF MigratorInv
<1> QED BY <1>1, InvHolds, PTL

(* A checkpoint tells the truth: the rows up to its key are in the target, it      *)
(* counted each of them once, and it is completed only when no row is left;       *)
(* whatever was interrupted, crashed, refused and resumed, with batches of any     *)
(* size and any finite source.                                                    *)
THEOREM CheckpointsTellTheTruth == Spec => []CheckpointCovers
<1>1. MigratorInv => CheckpointCovers
  BY DEF MigratorInv
<1> QED BY <1>1, InvHolds, PTL

(* No step takes a checkpoint back.                                               *)
THEOREM CheckpointsAdvance == Spec => CheckpointsOnlyAdvance
<1>1. MigratorInv /\ [Next]_vars =>
        [\A cat \in CategoryNames :
            /\ checkpoints'[cat].key >= checkpoints[cat].key
            /\ checkpoints'[cat].rows >= checkpoints[cat].rows
            /\ checkpoints[cat].completed => checkpoints'[cat].completed]_vars
  BY Advances
<1> QED BY <1>1, InvHolds, PTL DEF Spec, CheckpointsOnlyAdvance

-----------------------------------------------------------------------------
(* What a second import holds.  The rows of a category that write a cell, and     *)
(* the one of them that counts.                                                   *)
Writers(opt, cat, c) == {r \in ReadRows(opt.source, cat) : c \in CellsOf(opt, cat, r)}

IsLast(r, rows) == r \in rows /\ \A q \in rows : q.key <= r.key

(* The rows that are read are finitely many, and their keys tell them apart.      *)
LEMMA ReadFinite ==
    ASSUME NEW source \in DOMAIN Sources, NEW cat \in CategoryNames,
           NEW rows \in SUBSET ReadRows(source, cat)
    PROVE  /\ IsFiniteSet(rows) /\ \A r \in rows : r.key \in Int
           /\ \A q, r \in rows : q.key = r.key => q = r
           /\ rows # {} => \E r : IsLast(r, rows)
<1>1. /\ rows \subseteq Rows(source, cat)
      /\ IsFiniteSet(Rows(source, cat)) /\ \A r \in Rows(source, cat) : r.key \in Int
  BY RowsFinite DEF ReadRows
<1>2. IsFiniteSet(rows) /\ \A r \in rows : r.key \in Int
  BY <1>1, FS_Subset
<1>3. \A q, r \in rows : q.key = r.key => q = r
  BY <1>1, RowsAssumption DEF Rows
<1>4. ASSUME rows # {} PROVE \E r : IsLast(r, rows)
  BY <1>2, <1>4, HasLast DEF IsLast
<1> QED BY <1>2, <1>3, <1>4

(* The last of some rows is the one there is.                                     *)
LEMMA LastOfIs ==
    ASSUME NEW source \in DOMAIN Sources, NEW cat \in CategoryNames,
           NEW rows \in SUBSET ReadRows(source, cat), NEW r, IsLast(r, rows)
    PROVE  LastOf(rows) = r.value
<1>1. /\ \A q \in rows : q.key \in Int
      /\ \A p, q \in rows : p.key = q.key => p = q
  BY ReadFinite
<1>2. \A x \in rows : (\A q \in rows : q.key <= x.key) => x = r
  BY <1>1 DEF IsLast
<1>3. (CHOOSE x \in rows : \A q \in rows : q.key <= x.key) = r
  BY <1>2 DEF IsLast
<1> QED BY <1>3 DEF LastOf

(* A cell that holds what the last of some rows says.                             *)
Holds(cells, today, c, rows) ==
    /\ c \in DOMAIN cells
    /\ \E r : IsLast(r, rows) /\ cells[c] = ValueOf(today, c, r)

(* A category copied changes the cells its rows write, and no others.             *)
LEMMA CopyStep ==
    ASSUME NEW opt \in Options, NEW today, NEW c, NEW cells, NEW cat \in CategoryNames
    PROVE  LET after == Copied(cells, opt, today, cat)
               rows == Writers(opt, cat, c)
           IN  /\ rows = {} => /\ c \in DOMAIN after <=> c \in DOMAIN cells
                               /\ c \in DOMAIN cells => after[c] = cells[c]
                               /\ \A said : Holds(cells, today, c, said) =>
                                            Holds(after, today, c, said)
               /\ rows # {} => c \in DOMAIN after
               /\ rows # {} /\ ~EnsuresOnly(cat, c) => Holds(after, today, c, rows)
               /\ rows # {} /\ EnsuresOnly(cat, c) =>
                     after[c] = IF c \in DOMAIN cells THEN cells[c] ELSE None
<1> DEFINE all == ReadRows(opt.source, cat)
           after == Copied(cells, opt, today, cat)
           rows == Writers(opt, cat, c)
           touched == UNION {CellsOf(opt, cat, r) : r \in all}
           last(d) == LastWriter(opt, cat, all, d)
<1>1. /\ DOMAIN after = DOMAIN cells \cup touched
      /\ c \in DOMAIN after =>
            after[c] = CASE c \notin touched -> cells[c]
                         [] EnsuresOnly(cat, c) -> IF c \in DOMAIN cells THEN cells[c] ELSE None
                         [] OTHER -> ValueOf(today, c, last(c))
  <2>1. after = Written(cells, opt, today, cat, all)
    BY DEF Copied
  <2> HIDE DEF all, after
  <2>2. after = [d \in DOMAIN cells \cup touched |->
                    CASE d \notin touched -> cells[d]
                      [] EnsuresOnly(cat, d) -> IF d \in DOMAIN cells THEN cells[d] ELSE None
                      [] OTHER -> ValueOf(today, d, last(d))]
    BY <2>1, Zenon DEF Written
  <2> HIDE DEF touched, last
  <2> QED BY <2>2
<1>2. c \in touched <=> rows # {}
  BY DEF Writers
<1>3. ASSUME rows # {}
      PROVE  IsLast(last(c), rows)
  <2>1. opt.source \in DOMAIN Sources /\ rows \subseteq all
    BY SourcesAssumption DEF Writers
  <2>2. PICK r : IsLast(r, rows)
    BY <1>3, <2>1, ReadFinite
  <2>3. \E r2 \in all : /\ c \in CellsOf(opt, cat, r2)
                       /\ \A q \in all : c \in CellsOf(opt, cat, q) => q.key <= r2.key
    BY <2>2 DEF IsLast, Writers
  <2>4. /\ last(c) \in all /\ c \in CellsOf(opt, cat, last(c))
        /\ \A q \in all : c \in CellsOf(opt, cat, q) => q.key <= last(c).key
    <3> HIDE DEF all
    <3> QED BY <2>3 DEF LastWriter
  <2> QED BY <2>4 DEF IsLast, Writers
<1> HIDE DEF after, rows, touched, last
<1>4. rows = {} => /\ c \in DOMAIN after <=> c \in DOMAIN cells
                   /\ c \in DOMAIN cells => after[c] = cells[c]
  BY <1>1, <1>2
<1>5. rows # {} => c \in DOMAIN after
  BY <1>1, <1>2
<1>6. rows # {} /\ EnsuresOnly(cat, c) =>
         after[c] = IF c \in DOMAIN cells THEN cells[c] ELSE None
  BY <1>1, <1>2
<1>7. rows # {} /\ ~EnsuresOnly(cat, c) => after[c] = ValueOf(today, c, last(c))
  BY <1>1, <1>2
<1>8. rows = {} => \A said : Holds(cells, today, c, said) => Holds(after, today, c, said)
  BY <1>4 DEF Holds
<1>9. rows # {} /\ ~EnsuresOnly(cat, c) => Holds(after, today, c, rows)
  BY <1>3, <1>5, <1>7 DEF Holds
<1> QED BY <1>4, <1>5, <1>6, <1>8, <1>9 DEF after, rows

-----------------------------------------------------------------------------
(* Which rows write a cell of a table: read off CellsOf.                          *)
WritesTo(opt, cat, r, c) ==
    CASE c.table = "energy" -> cat = "day_data"
      [] c.table = "events" -> cat = "event_data"
      [] c.table = "mppt" -> cat \in {"spot_data", "spot_data_x"} /\ r.part = "mppt"
      [] c.table = "measurements" ->
            \/ cat = "inverters" /\ SyntheticLatest(opt.source, r)
            \/ cat = "spot_data"
            \/ cat = "spot_data_x" /\ r.part \in MeasurementParts
      [] OTHER -> FALSE

InstantTables == {"energy", "events", "mppt", "measurements"}

(* Rows write cells of their own serial and instant there.                        *)
LEMMA InstantCells ==
    ASSUME NEW opt \in Options, NEW cat \in CategoryNames, NEW r, NEW c,
           c.table \in InstantTables
    PROVE  c \in CellsOf(opt, cat, r) <=>
              WritesTo(opt, cat, r, c) /\ c = Cell(c.table, r.serial, r.at)
<1> USE DEF InstantTables
<1>1. CASE cat = "config"
  BY <1>1 DEF CellsOf, WritesTo, Cell
<1>2. CASE cat = "inverters"
  BY <1>2 DEF CellsOf, WritesTo, Cell
<1>3. CASE cat = "spot_data"
  BY <1>3 DEF CellsOf, WritesTo, Cell
<1>4. CASE cat = "spot_data_x"
  BY <1>4 DEF CellsOf, WritesTo, Cell, MeasurementParts
<1>5. CASE cat = "day_data"
  BY <1>5 DEF CellsOf, WritesTo, Cell
<1>6. CASE cat = "month_data"
  BY <1>6 DEF CellsOf, WritesTo, Cell
<1>7. CASE cat = "event_data"
  BY <1>7 DEF CellsOf, WritesTo, Cell
<1>8. CASE cat = "consumption"
  BY <1>8 DEF CellsOf, WritesTo, Cell
<1> QED BY <1>1, <1>2, <1>3, <1>4, <1>5, <1>6, <1>7, <1>8, CategoriesSeq

(* A yield is only copied from MonthData.                                         *)
LEMMA YieldCells ==
    ASSUME NEW opt \in Options, NEW cat \in CategoryNames, NEW r, NEW c, c.table = "yields"
    PROVE  c \in CellsOf(opt, cat, r) <=>
              cat = "month_data" /\ c = Cell("yields", r.serial, LocalDate(r.at, opt.zone))
<1>1. CASE cat = "config"
  BY <1>1 DEF CellsOf, Cell
<1>2. CASE cat = "inverters"
  BY <1>2 DEF CellsOf, Cell
<1>3. CASE cat = "spot_data"
  BY <1>3 DEF CellsOf, Cell
<1>4. CASE cat = "spot_data_x"
  BY <1>4 DEF CellsOf, Cell, MeasurementParts
<1>5. CASE cat = "day_data"
  BY <1>5 DEF CellsOf, Cell
<1>6. CASE cat = "month_data"
  BY <1>6 DEF CellsOf
<1>7. CASE cat = "event_data"
  BY <1>7 DEF CellsOf, Cell
<1>8. CASE cat = "consumption"
  BY <1>8 DEF CellsOf, Cell
<1> QED BY <1>1, <1>2, <1>3, <1>4, <1>5, <1>6, <1>7, <1>8, CategoriesSeq

(* A cell that one category writes holds what that category's last row says.      *)
LEMMA SoleWriter ==
    ASSUME NEW opt \in Options, NEW today, NEW c, NEW cat \in CategoryNames \ {"spot_data_x"},
           \A other \in CategoryNames : other # cat => Writers(opt, other, c) = {}
    PROVE  /\ c \in DOMAIN Imported(opt, today) <=> Writers(opt, cat, c) # {}
           /\ Writers(opt, cat, c) # {} =>
                 Holds(Imported(opt, today), today, c, Writers(opt, cat, c))
<1> DEFINE Copy(cells, k) == Copied(cells, opt, today, k)
           rows == Writers(opt, cat, c)
           In(cells) == c \in DOMAIN cells
           Good(cells) == Holds(cells, today, c, rows)
<1>1. \A cells : \A other \in CategoryNames :
         other # cat => /\ In(Copy(cells, other)) => In(cells)
                        /\ Good(cells) => Good(Copy(cells, other))
  BY CopyStep
<1>2. \A cells : rows # {} => Good(Copy(cells, cat))
  BY CopyStep DEF EnsuresOnly
<1>3. \A cells : rows = {} => (In(Copy(cells, cat)) => In(cells))
  BY CopyStep
<1>4. /\ CategoryNames = {"config", "inverters", "spot_data", "spot_data_x", "day_data",
                        "month_data", "event_data", "consumption"}
  BY CategoriesSeq
<1>5. ~In(NoCells)
  BY DEF NoCells
<1>6. Imported(opt, today) =
        Copy(Copy(Copy(Copy(Copy(Copy(Copy(Copy(NoCells, "config"), "inverters"), "spot_data"),
             "spot_data_x"), "day_data"), "month_data"), "event_data"), "consumption")
  BY DEF Imported
<1>7. \A cells : Good(cells) => In(cells)
  BY DEF Holds
<1> HIDE DEF Copy, In, Good, rows
<1>8. rows = {} => ~In(Imported(opt, today))
  BY <1>1, <1>3, <1>4, <1>5, <1>6
<1>9. rows # {} => Good(Imported(opt, today))
  <2> SUFFICES ASSUME rows # {} PROVE Good(Imported(opt, today))
    OBVIOUS
  <2>1. \A cells : \A k \in CategoryNames : Good(cells) => Good(Copy(cells, k))
    BY <1>1, <1>2
  <2>2. \A cells : Good(Copy(cells, cat))
    BY <1>2
  <2> QED BY <1>4, <1>6, <2>1, <2>2
<1> QED BY <1>7, <1>8, <1>9 DEF In, Good, rows

(* A measurement: SpotData writes after the inverters' latest values, SpotDataX   *)
(* only sees to it that there is one.                                             *)
LEMMA MeasuredCell ==
    ASSUME NEW opt \in Options, NEW today, NEW c, c.table = "measurements"
    PROVE  LET whole == Imported(opt, today)
               latest == Writers(opt, "inverters", c)
               spot == Writers(opt, "spot_data", c)
               spotX == Writers(opt, "spot_data_x", c)
           IN  /\ c \in DOMAIN whole <=> latest # {} \/ spot # {} \/ spotX # {}
               /\ spot # {} => Holds(whole, today, c, spot)
               /\ spot = {} /\ latest # {} => Holds(whole, today, c, latest)
               /\ spot = {} /\ latest = {} /\ spotX # {} => whole[c] = None
<1> DEFINE Copy(cells, k) == Copied(cells, opt, today, k)
           whole == Imported(opt, today)
           latest == Writers(opt, "inverters", c)
           spot == Writers(opt, "spot_data", c)
           spotX == Writers(opt, "spot_data_x", c)
           In(cells) == c \in DOMAIN cells
           Good(cells, rows) == Holds(cells, today, c, rows)
           Empty(cells) == In(cells) /\ cells[c] = None
           before == Copy(Copy(NoCells, "config"), "inverters")
           after == Copy(Copy(before, "spot_data"), "spot_data_x")
<1>1. CategoryNames = {"config", "inverters", "spot_data", "spot_data_x", "day_data",
                       "month_data", "event_data", "consumption"}
  BY CategoriesSeq
<1>2. \A k \in CategoryNames : k \notin {"inverters", "spot_data", "spot_data_x"} =>
         Writers(opt, k, c) = {}
  BY InstantCells DEF Writers, WritesTo, InstantTables
<1>3. \A cells : \A k \in CategoryNames : k \notin {"inverters", "spot_data", "spot_data_x"} =>
         /\ In(Copy(cells, k)) <=> In(cells)
         /\ \A rows : Good(cells, rows) => Good(Copy(cells, k), rows)
         /\ Empty(cells) => Empty(Copy(cells, k))
  <2> SUFFICES ASSUME NEW cells, NEW k \in CategoryNames, Writers(opt, k, c) = {}
               PROVE  /\ In(Copy(cells, k)) <=> In(cells)
                      /\ \A rows : Good(cells, rows) => Good(Copy(cells, k), rows)
                      /\ Empty(cells) => Empty(Copy(cells, k))
    BY <1>2
  <2> DEFINE then == Copy(cells, k)
  <2>1. /\ c \in DOMAIN then <=> c \in DOMAIN cells
        /\ c \in DOMAIN cells => then[c] = cells[c]
        /\ \A said : Holds(cells, today, c, said) => Holds(then, today, c, said)
    BY CopyStep
  <2> HIDE DEF then
  <2> QED BY <2>1 DEF then
<1>4. \A cells : /\ latest = {} => (In(Copy(cells, "inverters")) <=> In(cells))
                 /\ latest # {} => Good(Copy(cells, "inverters"), latest)
  BY <1>1, CopyStep DEF EnsuresOnly
<1>5. \A cells : /\ spot = {} => /\ In(Copy(cells, "spot_data")) <=> In(cells)
                                 /\ \A rows : Good(cells, rows) =>
                                              Good(Copy(cells, "spot_data"), rows)
                 /\ spot # {} => Good(Copy(cells, "spot_data"), spot)
  BY <1>1, CopyStep DEF EnsuresOnly
<1>6. \A cells : /\ spotX = {} => (In(Copy(cells, "spot_data_x")) <=> In(cells))
                 /\ spotX # {} => In(Copy(cells, "spot_data_x"))
                 /\ spotX # {} /\ ~In(cells) => Empty(Copy(cells, "spot_data_x"))
                 /\ \A rows : Good(cells, rows) => Good(Copy(cells, "spot_data_x"), rows)
  <2> SUFFICES ASSUME NEW cells
               PROVE  /\ spotX = {} => (In(Copy(cells, "spot_data_x")) <=> In(cells))
                      /\ spotX # {} => In(Copy(cells, "spot_data_x"))
                      /\ spotX # {} /\ ~In(cells) => Empty(Copy(cells, "spot_data_x"))
                      /\ \A rows : Good(cells, rows) => Good(Copy(cells, "spot_data_x"), rows)
    OBVIOUS
  <2>1. EnsuresOnly("spot_data_x", c) /\ "spot_data_x" \in CategoryNames
    BY <1>1 DEF EnsuresOnly
  <2>2. CASE spotX = {}
    BY <2>1, <2>2, CopyStep
  <2>3. CASE spotX # {}
    <3> DEFINE then == Copy(cells, "spot_data_x")
    <3>1. In(then) /\ then[c] = IF In(cells) THEN cells[c] ELSE None
      BY <2>1, <2>3, CopyStep
    <3> HIDE DEF then
    <3> QED BY <2>3, <3>1 DEF Holds, then
  <2> QED BY <2>2, <2>3
<1>7. ~In(NoCells)
  BY DEF NoCells
<1>8. whole = Copy(Copy(Copy(Copy(after, "day_data"), "month_data"), "event_data"), "consumption")
  BY DEF Imported
<1>9. \A cells, rows : Good(cells, rows) => In(cells)
  BY DEF Holds
<1>10. \A cells : Empty(cells) => In(cells) /\ cells[c] = None
  OBVIOUS
<1> HIDE DEF Copy, In, Good, Empty, latest, spot, spotX
<1>11. /\ In(before) <=> latest # {}
       /\ latest # {} => Good(before, latest)
  BY <1>1, <1>3, <1>4, <1>7, <1>9
<1>12. /\ In(after) <=> latest # {} \/ spot # {} \/ spotX # {}
       /\ spot # {} => Good(after, spot)
       /\ spot = {} /\ latest # {} => Good(after, latest)
       /\ spot = {} /\ latest = {} /\ spotX # {} => Empty(after)
  <2> HIDE DEF before
  <2> QED BY <1>5, <1>6, <1>9, <1>11
<1>13. /\ In(whole) <=> In(after)
       /\ \A rows : Good(after, rows) => Good(whole, rows)
       /\ Empty(after) => Empty(whole)
  <2> HIDE DEF after
  <2> QED BY <1>1, <1>3, <1>8
<1> HIDE DEF after, whole
<1> QED BY <1>10, <1>12, <1>13 DEF In, Good, whole, latest, spot, spotX

(* A tracker's value: SpotDataX writes after SpotData.                            *)
LEMMA TrackerCell ==
    ASSUME NEW opt \in Options, NEW today, NEW c, c.table = "mppt"
    PROVE  LET whole == Imported(opt, today)
               spot == Writers(opt, "spot_data", c)
               spotX == Writers(opt, "spot_data_x", c)
           IN  /\ c \in DOMAIN whole <=> spot # {} \/ spotX # {}
               /\ spotX # {} => Holds(whole, today, c, spotX)
               /\ spotX = {} /\ spot # {} => Holds(whole, today, c, spot)
<1> DEFINE Copy(cells, k) == Copied(cells, opt, today, k)
           whole == Imported(opt, today)
           spot == Writers(opt, "spot_data", c)
           spotX == Writers(opt, "spot_data_x", c)
           In(cells) == c \in DOMAIN cells
           Good(cells, rows) == Holds(cells, today, c, rows)
           before == Copy(Copy(NoCells, "config"), "inverters")
           after == Copy(Copy(before, "spot_data"), "spot_data_x")
<1>1. CategoryNames = {"config", "inverters", "spot_data", "spot_data_x", "day_data",
                       "month_data", "event_data", "consumption"}
  BY CategoriesSeq
<1>2. \A k \in CategoryNames : k \notin {"spot_data", "spot_data_x"} => Writers(opt, k, c) = {}
  BY InstantCells DEF Writers, WritesTo, InstantTables
<1>3. \A k : ~EnsuresOnly(k, c)
  BY DEF EnsuresOnly
<1>4. \A cells : \A k \in CategoryNames : Writers(opt, k, c) = {} =>
         /\ In(Copy(cells, k)) <=> In(cells)
         /\ \A rows : Good(cells, rows) => Good(Copy(cells, k), rows)
  BY CopyStep
<1>5. \A cells : \A k \in CategoryNames : Writers(opt, k, c) # {} =>
         Good(Copy(cells, k), Writers(opt, k, c))
  BY <1>3, CopyStep
<1>6. ~In(NoCells)
  BY DEF NoCells
<1>7. whole = Copy(Copy(Copy(Copy(after, "day_data"), "month_data"), "event_data"), "consumption")
  BY DEF Imported
<1>8. \A cells, rows : Good(cells, rows) => In(cells)
  BY DEF Holds
<1> HIDE DEF Copy, In, Good
<1>9. ~In(before)
  BY <1>1, <1>2, <1>4, <1>6
<1>10. /\ In(after) <=> spot # {} \/ spotX # {}
       /\ spotX # {} => Good(after, spotX)
       /\ spotX = {} /\ spot # {} => Good(after, spot)
  <2> HIDE DEF before
  <2>1. {"spot_data", "spot_data_x"} \subseteq CategoryNames
    BY <1>1
  <2> QED BY <1>4, <1>5, <1>8, <1>9, <2>1
<1>11. /\ In(whole) <=> In(after)
       /\ \A rows : Good(after, rows) => Good(whole, rows)
  <2> HIDE DEF after
  <2> QED BY <1>1, <1>2, <1>4, <1>7
<1> HIDE DEF after, whole
<1> QED BY <1>10, <1>11 DEF In, Good, whole

(* The value of such a cell, where it is a row's value.                           *)
LEMMA HoldsLast ==
    ASSUME NEW opt \in Options, NEW today, NEW cat \in CategoryNames, NEW c, NEW cells,
           c.table \notin {"yields", "pvoutput"},
           Holds(cells, today, c, Writers(opt, cat, c))
    PROVE  cells[c] = LastOf(Writers(opt, cat, c))
<1>1. PICK r : IsLast(r, Writers(opt, cat, c)) /\ cells[c] = ValueOf(today, c, r)
  BY DEF Holds
<1>2. cells[c] = r.value
  BY <1>1 DEF ValueOf
<1>3. opt.source \in DOMAIN Sources /\ Writers(opt, cat, c) \in SUBSET ReadRows(opt.source, cat)
  BY SourcesAssumption DEF Writers
<1> QED BY <1>1, <1>2, <1>3, LastOfIs

(* Cells of these tables are named by a serial and an instant.                    *)
LEMMA ImportedShape ==
    ASSUME NEW opt \in Options, NEW today, NEW c \in DOMAIN Imported(opt, today),
           c.table \in InstantTables
    PROVE  c = Cell(c.table, c.serial, c.at)
<1> DEFINE Copy(cells, k) == Copied(cells, opt, today, k)
           In(cells) == c \in DOMAIN cells
<1>1. CategoryNames = {"config", "inverters", "spot_data", "spot_data_x", "day_data",
                       "month_data", "event_data", "consumption"}
  BY CategoriesSeq
<1>2. \A k \in CategoryNames : Writers(opt, k, c) = {} =>
         \A cells : In(Copy(cells, k)) => In(cells)
  BY CopyStep
<1>3. ~In(NoCells)
  BY DEF NoCells
<1>4. Imported(opt, today) =
        Copy(Copy(Copy(Copy(Copy(Copy(Copy(Copy(NoCells, "config"), "inverters"), "spot_data"),
             "spot_data_x"), "day_data"), "month_data"), "event_data"), "consumption")
  BY DEF Imported
<1>5. In(Imported(opt, today))
  OBVIOUS
<1> HIDE DEF Copy, In
<1>6. PICK k \in CategoryNames : Writers(opt, k, c) # {}
  BY <1>1, <1>2, <1>3, <1>4, <1>5
<1>7. PICK r : c \in CellsOf(opt, k, r)
  BY <1>6 DEF Writers
<1>8. c = Cell(c.table, r.serial, r.at)
  BY <1>7, InstantCells
<1>9. Cell(c.table, r.serial, r.at).serial = r.serial /\ Cell(c.table, r.serial, r.at).at = r.at
  BY DEF Cell
<1> QED BY <1>8, <1>9

(* The rows that write the cell of a serial and an instant.                       *)
LEMMA InstantWriters ==
    ASSUME NEW opt \in Options, NEW cat \in CategoryNames, NEW table \in InstantTables,
           NEW serial, NEW at
    PROVE  Writers(opt, cat, Cell(table, serial, at)) =
              {r \in Said(opt.source, cat, serial, at) :
                  WritesTo(opt, cat, r, Cell(table, serial, at))}
<1> DEFINE c == Cell(table, serial, at)
<1>1. c.table = table /\ \A s, t : Cell(table, s, t) = c <=> s = serial /\ t = at
  BY DEF Cell
<1> HIDE DEF c
<1>2. ASSUME NEW r
      PROVE  c \in CellsOf(opt, cat, r) <=>
                WritesTo(opt, cat, r, c) /\ r.serial = serial /\ r.at = at
  BY <1>1, InstantCells
<1> QED BY <1>2 DEF Writers, Said, c

(* A database holds what the last row of a category for an instant says.          *)
HoldsSaid(cells, opt, today, table, cat, serial, at) ==
    LET c == Cell(table, serial, at)
        said == Said(opt.source, cat, serial, at)
    IN  /\ c \in DOMAIN cells <=> said # {}
        /\ said # {} => Holds(cells, today, c, said) /\ cells[c] = LastOf(said)

(* Energy totals and events hold the last row of their instant.                   *)
LEMMA ArchiveCell ==
    ASSUME NEW opt \in Options, NEW today, NEW serial, NEW at,
           NEW table, NEW cat,
           \/ table = "energy" /\ cat = "day_data"
           \/ table = "events" /\ cat = "event_data"
    PROVE  HoldsSaid(Imported(opt, today), opt, today, table, cat, serial, at)
<1> DEFINE c == Cell(table, serial, at)
           whole == Imported(opt, today)
           said == Said(opt.source, cat, serial, at)
<1>1. /\ cat \in CategoryNames \ {"spot_data_x"} /\ table \in InstantTables
      /\ table \notin {"yields", "pvoutput"}
  BY CategoriesSeq DEF InstantTables
<1>2. c.table = table
  BY DEF Cell
<1> HIDE DEF c
<1>3. \A k \in CategoryNames : \A r : WritesTo(opt, k, r, c) <=> k = cat
  BY <1>2 DEF WritesTo
<1>4. \A k \in CategoryNames : Writers(opt, k, c) = IF k = cat THEN said ELSE {}
  <2> SUFFICES ASSUME NEW k \in CategoryNames
               PROVE  Writers(opt, k, c) = IF k = cat THEN said ELSE {}
    OBVIOUS
  <2>1. Writers(opt, k, c) = {r \in Said(opt.source, k, serial, at) : WritesTo(opt, k, r, c)}
    BY <1>1, InstantWriters DEF c
  <2> QED BY <1>3, <2>1
<1> HIDE DEF said
<1>5. /\ c \in DOMAIN whole <=> said # {}
      /\ said # {} => Holds(whole, today, c, said)
  BY <1>1, <1>4, SoleWriter
<1>6. said # {} => whole[c] = LastOf(said)
  BY <1>1, <1>2, <1>4, <1>5, HoldsLast
<1> QED BY <1>5, <1>6 DEF HoldsSaid, c, said

(* Trackers hold the last SpotDataX value, or else the last of SpotData.          *)
LEMMA TrackerIsTheSources ==
    ASSUME NEW opt \in Options, NEW today, NEW serial, NEW at,
           Cell("mppt", serial, at) \in DOMAIN Imported(opt, today)
    PROVE  Imported(opt, today)[Cell("mppt", serial, at)]
              = SourceTracker(opt.source, serial, at)
<1> DEFINE c == Cell("mppt", serial, at)
           whole == Imported(opt, today)
           Mppt(cat) == {r \in Said(opt.source, cat, serial, at) : r.part = "mppt"}
<1>1. {"spot_data", "spot_data_x"} \subseteq CategoryNames /\ "mppt" \in InstantTables
  BY CategoriesSeq DEF InstantTables
<1>2. c.table = "mppt"
  BY DEF Cell
<1> HIDE DEF c
<1>3. ASSUME NEW cat \in {"spot_data", "spot_data_x"} PROVE Writers(opt, cat, c) = Mppt(cat)
  <2>1. Writers(opt, cat, c) = {r \in Said(opt.source, cat, serial, at) : WritesTo(opt, cat, r, c)}
    BY <1>1, InstantWriters DEF c
  <2>2. \A r : WritesTo(opt, cat, r, c) <=> r.part = "mppt"
    BY <1>2, <1>3 DEF WritesTo
  <2> QED BY <2>1, <2>2
<1> HIDE DEF Mppt
<1>4. /\ Mppt("spot_data") # {} \/ Mppt("spot_data_x") # {}
      /\ Mppt("spot_data_x") # {} => Holds(whole, today, c, Mppt("spot_data_x"))
      /\ Mppt("spot_data_x") = {} => Holds(whole, today, c, Mppt("spot_data"))
  BY <1>2, <1>3, TrackerCell DEF c
<1>5. ASSUME NEW cat \in {"spot_data", "spot_data_x"}, Holds(whole, today, c, Mppt(cat))
      PROVE  whole[c] = LastOf(Mppt(cat))
  <2>1. cat \in CategoryNames /\ Mppt(cat) = Writers(opt, cat, c)
    BY <1>1, <1>3
  <2> QED BY <1>2, <1>5, <2>1, HoldsLast
<1> HIDE DEF whole
<1>6. whole[c] = Preferred(Mppt("spot_data_x"), Mppt("spot_data"))
  BY <1>4, <1>5 DEF Preferred
<1> QED BY <1>6 DEF SourceTracker, whole, c, Mppt

(* Measurements, if every row of SpotData is read, are those of the source.       *)
LEMMA MeasurementIsTheSources ==
    ASSUME NEW opt \in Options, NEW today, NEW serial, NEW at,
           ReadRows(opt.source, "spot_data") = Rows(opt.source, "spot_data")
    PROVE  LET c == Cell("measurements", serial, at)
               whole == Imported(opt, today)
           IN  /\ c \in DOMAIN whole <=> <<serial, at>> \in SourceMeasured(opt.source)
               /\ c \in DOMAIN whole => whole[c] = SourceMeasurement(opt.source, serial, at)
<1> DEFINE c == Cell("measurements", serial, at)
           whole == Imported(opt, today)
           W(cat) == Writers(opt, cat, c)
           Spot == Said(opt.source, "spot_data", serial, at)
           SpotX == {r \in Said(opt.source, "spot_data_x", serial, at) : r.part \in MeasurementParts}
           Values == {r \in Latest(opt.source) : r.serial = serial /\ r.at = at}
<1>1. /\ {"inverters", "spot_data", "spot_data_x"} \subseteq CategoryNames
      /\ "measurements" \in InstantTables
  BY CategoriesSeq DEF InstantTables
<1>2. c.table = "measurements"
  BY DEF Cell
<1> HIDE DEF c
<1>3. \A cat \in {"inverters", "spot_data", "spot_data_x"} :
         W(cat) = {r \in Said(opt.source, cat, serial, at) : WritesTo(opt, cat, r, c)}
  BY <1>1, InstantWriters DEF c
<1>4. \A r : /\ WritesTo(opt, "spot_data", r, c)
             /\ WritesTo(opt, "inverters", r, c) <=> SyntheticLatest(opt.source, r)
             /\ WritesTo(opt, "spot_data_x", r, c) <=> r.part \in MeasurementParts
  BY <1>2 DEF WritesTo
<1> HIDE DEF W
<1>5. W("spot_data") = Spot /\ W("spot_data_x") = SpotX
  BY <1>3, <1>4
<1>6. W("inverters") = IF Spot = {} THEN Values ELSE {}
  <2>1. W("inverters") = {r \in Said(opt.source, "inverters", serial, at) :
                             SyntheticLatest(opt.source, r)}
    BY <1>3, <1>4
  <2>2. \A r \in Said(opt.source, "inverters", serial, at) :
           SyntheticLatest(opt.source, r) <=> r.at # None /\ r.value # None /\ Spot = {}
    BY DEF SyntheticLatest, Said
  <2>3. Values = {r \in Said(opt.source, "inverters", serial, at) : r.at # None /\ r.value # None}
    BY DEF Said, Latest
  <2> HIDE DEF Spot, Values
  <2> QED BY <2>1, <2>2, <2>3
<1>7. <<serial, at>> \in SourceMeasured(opt.source) <=> Values # {} \/ Spot # {} \/ SpotX # {}
  BY DEF SourceMeasured, Said
<1>8. SourceMeasurement(opt.source, serial, at) = Preferred(Spot, Values)
  BY DEF SourceMeasurement
<1> HIDE DEF Spot, SpotX, Values
<1>9. /\ c \in DOMAIN whole <=> W("inverters") # {} \/ W("spot_data") # {} \/ W("spot_data_x") # {}
      /\ W("spot_data") # {} => Holds(whole, today, c, W("spot_data"))
      /\ W("spot_data") = {} /\ W("inverters") # {} => Holds(whole, today, c, W("inverters"))
      /\ W("spot_data") = {} /\ W("inverters") = {} /\ W("spot_data_x") # {} => whole[c] = None
  BY <1>2, MeasuredCell DEF W
<1>10. ASSUME NEW cat \in {"inverters", "spot_data"}, Holds(whole, today, c, W(cat))
       PROVE  whole[c] = LastOf(W(cat))
  BY <1>1, <1>2, <1>10, HoldsLast DEF W
<1> HIDE DEF whole
<1>11. c \in DOMAIN whole <=> <<serial, at>> \in SourceMeasured(opt.source)
  BY <1>5, <1>6, <1>7, <1>9
<1>12. c \in DOMAIN whole => whole[c] = Preferred(Spot, Values)
  BY <1>5, <1>6, <1>9, <1>10 DEF Preferred
<1> QED BY <1>8, <1>11, <1>12 DEF c, whole

(* Later instants are not of earlier days.                                        *)
LEMMA DatesInOrder ==
    ASSUME NEW a \in Int, NEW b \in Int, NEW zone \in Int
    PROVE  /\ LocalDate(a, zone) \in Int
           /\ a <= b => LocalDate(a, zone) <= LocalDate(b, zone)
<1> DEFINE x == a + zone
           y == b + zone
<1>1. x \in Int /\ y \in Int /\ (a <= b => x <= y)
  OBVIOUS
<1> HIDE DEF x, y
<1>2. x \div DayLength \in Int /\ (x <= y => x \div DayLength <= y \div DayLength)
  BY <1>1, SizesAssumption
<1> QED BY <1>1, <1>2 DEF LocalDate, x, y

(* The energy samples of an import are the totals of the source.                  *)
LEMMA SamplesAreTotals ==
    ASSUME NEW opt \in Options, NEW today, NEW serial
    PROVE  LET whole == Imported(opt, today)
               samples == ValidSamples(whole, serial)
               totals == Totals(opt.source, serial)
           IN  /\ IsFiniteSet(samples)
               /\ \A d \in samples : \E r \in totals : r.at = d.at /\ r.value = whole[d]
               /\ \A r \in totals : \E d \in samples : d.at = r.at /\ whole[d] = r.value
               /\ \A r \in totals : r.at \in Int /\ r.value \in Int
<1> DEFINE whole == Imported(opt, today)
           samples == ValidSamples(whole, serial)
           totals == Totals(opt.source, serial)
           all == ReadRows(opt.source, "day_data")
           Of(at) == Said(opt.source, "day_data", serial, at)
<1>1. opt.source \in DOMAIN Sources /\ "day_data" \in CategoryNames /\ "energy" \in InstantTables
  BY SourcesAssumption, CategoriesSeq DEF InstantTables
<1>2. /\ IsFiniteSet(all)
      /\ \A r \in all : r.at \in Int /\ r.value \in Int
  BY <1>1, RowsAssumption, ReadFinite DEF ReadRows, Rows
<1>3. \A r \in totals : r \in all /\ r.serial = serial /\ r.value >= 0 /\ IsLast(r, Of(r.at))
  BY DEF Totals, IsLast, Said
<1>4. \A d \in samples : d \in DOMAIN whole /\ d.table = "energy" /\ d.serial = serial /\ whole[d] >= 0
  BY DEF ValidSamples, InTable
<1>5. \A d \in samples : d = Cell("energy", serial, d.at)
  BY <1>1, <1>4, ImportedShape
<1>6. \A at : /\ Cell("energy", serial, at) \in DOMAIN whole <=> Of(at) # {}
              /\ Of(at) # {} => /\ Holds(whole, today, Cell("energy", serial, at), Of(at))
                                /\ whole[Cell("energy", serial, at)] = LastOf(Of(at))
  <2> SUFFICES ASSUME NEW at
               PROVE  LET c == Cell("energy", serial, at)
                      IN  /\ c \in DOMAIN whole <=> Of(at) # {}
                          /\ Of(at) # {} => /\ Holds(whole, today, c, Of(at))
                                            /\ whole[c] = LastOf(Of(at))
    OBVIOUS
  <2>1. HoldsSaid(whole, opt, today, "energy", "day_data", serial, at)
    BY ArchiveCell
  <2> QED BY <2>1 DEF HoldsSaid
<1>7. ASSUME NEW d \in samples PROVE \E r \in totals : r.at = d.at /\ r.value = whole[d]
  <2>1. Holds(whole, today, d, Of(d.at))
    BY <1>4, <1>5, <1>6
  <2>2. PICK r : IsLast(r, Of(d.at)) /\ whole[d] = ValueOf(today, d, r)
    BY <2>1 DEF Holds
  <2>3. whole[d] = r.value
    BY <1>4, <2>2 DEF ValueOf
  <2>4. /\ r \in all /\ r.serial = serial /\ r.at = d.at /\ r.value >= 0
        /\ \A q \in Of(r.at) : q.key <= r.key
    BY <1>4, <2>2, <2>3 DEF IsLast, Said
  <2>5. r \in totals
    BY <2>4 DEF Totals
  <2> QED BY <2>3, <2>4, <2>5
<1>8. ASSUME NEW r \in totals PROVE \E d \in samples : d.at = r.at /\ whole[d] = r.value
  <2> DEFINE d == Cell("energy", serial, r.at)
  <2>1. IsLast(r, Of(r.at)) /\ r.value >= 0
    BY <1>3
  <2>2. Of(r.at) \in SUBSET all /\ Of(r.at) # {}
    BY <2>1 DEF IsLast, Said
  <2>3. LastOf(Of(r.at)) = r.value
    BY <1>1, <2>1, <2>2, LastOfIs
  <2>4. d \in DOMAIN whole /\ whole[d] = r.value
    BY <1>6, <2>2, <2>3
  <2>5. d.table = "energy" /\ d.serial = serial /\ d.at = r.at
    BY DEF Cell
  <2> HIDE DEF d, whole, totals
  <2>6. d \in ValidSamples(whole, serial)
    BY <2>1, <2>4, <2>5 DEF ValidSamples, InTable
  <2> QED BY <2>4, <2>5, <2>6 DEF whole, totals
<1>9. IsFiniteSet(samples)
  <2> DEFINE cells == {Cell("energy", serial, r.at) : r \in all}
  <2>1. IsFiniteSet(cells)
    <3> DEFINE name == [r \in all |-> Cell("energy", serial, r.at)]
    <3>1. name \in Surjection(all, cells)
      <4> HIDE DEF all
      <4> QED BY DEF Surjection
    <3> HIDE DEF all, cells, name
    <3> QED BY <1>2, <3>1, FS_Surjection
  <2>2. samples \subseteq cells
    <3> SUFFICES ASSUME NEW d \in samples PROVE d \in cells
      OBVIOUS
    <3>1. PICK r \in totals : r.at = d.at
      BY <1>7
    <3>2. r \in all
      BY <1>3, <3>1
    <3>3. d = Cell("energy", serial, r.at)
      BY <1>5, <3>1
    <3> HIDE DEF samples, totals, all
    <3> QED BY <3>2, <3>3
  <2> HIDE DEF samples, cells
  <2> QED BY <2>1, <2>2, FS_Subset
<1>10. \A r \in totals : r.at \in Int /\ r.value \in Int
  BY <1>2, <1>3
<1> QED BY <1>7, <1>8, <1>9, <1>10

(* The total of the latest of some samples is that of a row at its instant.       *)
LEMMA LatestTotalIs ==
    ASSUME NEW opt \in Options, NEW today, NEW serial,
           NEW some \in SUBSET ValidSamples(Imported(opt, today), serial), some # {}
    PROVE  \E r \in Totals(opt.source, serial) :
              /\ LatestTotal(Imported(opt, today), some) = r.value
              /\ \E d \in some : d.at = r.at /\ Imported(opt, today)[d] = r.value
              /\ \A d \in some : d.at <= r.at
<1> DEFINE whole == Imported(opt, today)
           samples == ValidSamples(whole, serial)
           totals == Totals(opt.source, serial)
           at == [d \in some |-> d.at]
           top == CHOOSE c \in some : \A d \in some : d.at <= c.at
<1>1. /\ IsFiniteSet(samples)
      /\ \A d \in samples : \E r \in totals : r.at = d.at /\ r.value = whole[d]
      /\ \A r \in totals : r.at \in Int
  BY SamplesAreTotals
<1>2. IsFiniteSet(some)
  BY <1>1, FS_Subset
<1>3. at \in [some -> Int]
  BY <1>1
<1>4. \E c \in some : \A d \in some : at[d] <= at[c]
  <2> HIDE DEF at
  <2> QED BY <1>2, <1>3, HasGreatest
<1>5. \E c \in some : \A d \in some : d.at <= c.at
  BY <1>4
<1>6. top \in some /\ \A d \in some : d.at <= top.at
  BY <1>5
<1>7. LatestTotal(whole, some) = whole[top]
  BY DEF LatestTotal
<1> HIDE DEF top
<1>8. PICK r \in totals : r.at = top.at /\ r.value = whole[top]
  BY <1>1, <1>6
<1> QED BY <1>6, <1>7, <1>8

(* A rebuilt yield is the one the source says there is.                           *)
LEMMA RebuiltIsTheSources ==
    ASSUME NEW opt \in Options, NEW today,
           NEW day \in RebuildableDays(Imported(opt, today), opt)
    PROVE  SourceYield(opt.source, opt.zone, day,
                       RebuiltYield(Imported(opt, today), opt, today, day))
<1> DEFINE whole == Imported(opt, today)
           samples == ValidSamples(whole, day.serial)
           totals == Totals(opt.source, day.serial)
           Date(at) == LocalDate(at, opt.zone)
           earlier == {c \in samples : Date(c.at) < day.at}
           baseline == Baseline(whole, opt, day)
           accepted == {c \in samples : Date(c.at) = day.at /\ whole[c] >= baseline}
           total == AcceptedTotal(whole, opt, day)
           y == RebuiltYield(whole, opt, today, day)
<1>1. opt.zone \in Int
  BY RowsAssumption
<1>2. /\ \A d \in samples : \E r \in totals : r.at = d.at /\ r.value = whole[d]
      /\ \A r \in totals : \E d \in samples : d.at = r.at /\ whole[d] = r.value
      /\ \A r \in totals : r.at \in Int /\ r.value \in Int
  BY SamplesAreTotals
<1>3. /\ day \notin CopiedDates(opt)
      /\ baseline # None /\ total # None
      /\ \E c \in InTable(whole, "energy") : day = Cell("yields", c.serial, Date(c.at))
  BY DEF RebuildableDays
<1>4. baseline = LatestTotal(whole, earlier) /\ total = LatestTotal(whole, accepted)
  BY DEF Baseline, AcceptedTotal
<1>5. earlier # {} /\ accepted # {}
  BY <1>3, <1>4 DEF LatestTotal
<1>6. PICK before \in totals : /\ baseline = before.value
                               /\ \E d \in earlier : d.at = before.at /\ whole[d] = before.value
                               /\ \A d \in earlier : d.at <= before.at
  <2>1. earlier \in SUBSET samples
    OBVIOUS
  <2> HIDE DEF earlier
  <2> QED BY <1>4, <1>5, <2>1, LatestTotalIs
<1>7. PICK after \in totals : /\ total = after.value
                              /\ \E d \in accepted : d.at = after.at /\ whole[d] = after.value
                              /\ \A d \in accepted : d.at <= after.at
  <2>1. accepted \in SUBSET samples
    OBVIOUS
  <2> HIDE DEF accepted
  <2> QED BY <1>4, <1>5, <2>1, LatestTotalIs
<1>8. Date(before.at) < day.at /\ Date(after.at) = day.at /\ after.value >= before.value
  BY <1>6, <1>7
<1>9. \A r \in totals : Date(r.at) \in Int
  BY <1>1, <1>2, DatesInOrder
<1>10. ASSUME NEW r \in totals PROVE r.at <= before.at \/ Date(r.at) >= day.at
  <2>1. PICK d \in samples : d.at = r.at
    BY <1>2
  <2>2. Date(r.at) < day.at => r.at <= before.at
    BY <1>6, <2>1
  <2> HIDE DEF Date, totals
  <2> QED BY <1>8, <1>9, <2>2
<1>11. ASSUME NEW r \in totals
       PROVE  r.at <= after.at \/ r.value < before.value \/ Date(r.at) > day.at
  <2>1. PICK d \in samples : d.at = r.at /\ whole[d] = r.value
    BY <1>2
  <2>2. Date(r.at) = day.at /\ r.value >= before.value => r.at <= after.at
    BY <1>6, <1>7, <2>1
  <2>3. after.at <= r.at => Date(after.at) <= Date(r.at)
    BY <1>1, <1>2, DatesInOrder
  <2>4. {r.at, after.at, r.value, before.value} \subseteq Int
    BY <1>2
  <2> HIDE DEF Date, totals
  <2> QED BY <1>8, <1>9, <2>2, <2>3, <2>4
<1>12. y.total = after.value /\ y.daily = after.value - before.value
  BY <1>6, <1>7 DEF RebuiltYield, Yield
<1>13. y.daily >= 0
  BY <1>2, <1>8, <1>12
<1>14. {r \in ReadRows(opt.source, "month_data") :
           r.serial = day.serial /\ LocalDate(r.at, opt.zone) = day.at} = {}
  <2> SUFFICES ASSUME NEW r \in ReadRows(opt.source, "month_data"),
                      r.serial = day.serial, Date(r.at) = day.at
               PROVE  FALSE
    OBVIOUS
  <2>1. day = Cell("yields", r.serial, Date(r.at))
    BY <1>3 DEF Cell
  <2> QED BY <1>3, <2>1 DEF CopiedDates
<1>15. \E b \in totals, a \in totals :
          /\ Date(b.at) < day.at /\ Date(a.at) = day.at
          /\ \A r \in totals : r.at <= b.at \/ Date(r.at) >= day.at
          /\ \A r \in totals : r.at <= a.at \/ r.value < b.value \/ Date(r.at) > day.at
          /\ y.total = a.value /\ y.daily = a.value - b.value
          /\ y.daily >= 0
  <2> HIDE DEF Date, totals, y
  <2> QED BY <1>8, <1>10, <1>11, <1>12, <1>13
<1> HIDE DEF y
<1>16. SourceYield(opt.source, opt.zone, day, y)
  BY <1>14, <1>15 DEF SourceYield
<1> QED BY <1>16 DEF y

(* The fields of a yield.                                                         *)
LEMMA YieldFields ==
    ASSUME NEW y, NEW total, NEW daily, NEW complete, y = Yield(total, daily, complete)
    PROVE  y.total = total /\ y.daily = daily /\ (y.complete <=> complete)
<1>1. y.total = total /\ y.daily = daily
  BY DEF Yield
<1>2. y.complete = complete
  BY Zenon DEF Yield
<1> QED BY <1>1, <1>2, Zenon

(* A yield that MonthData has is copied.                                          *)
LEMMA CopiedIsTheSources ==
    ASSUME NEW opt \in Options, NEW today, NEW c \in DOMAIN Imported(opt, today),
           c.table = "yields"
    PROVE  /\ SourceYield(opt.source, opt.zone, c, Imported(opt, today)[c])
           /\ Imported(opt, today)[c].complete => c.at < today
<1> DEFINE whole == Imported(opt, today)
           rows == Writers(opt, "month_data", c)
           monthly == {r \in ReadRows(opt.source, "month_data") :
                          r.serial = c.serial /\ LocalDate(r.at, opt.zone) = c.at}
<1>1. opt.source \in DOMAIN Sources /\ "month_data" \in CategoryNames \ {"spot_data_x"}
  BY SourcesAssumption, CategoriesSeq
<1>2. \A other \in CategoryNames : other # "month_data" => Writers(opt, other, c) = {}
  BY YieldCells DEF Writers
<1>3. rows # {} /\ Holds(whole, today, c, rows)
  BY <1>1, <1>2, SoleWriter
<1>4. PICK r : IsLast(r, rows) /\ whole[c] = ValueOf(today, c, r)
  BY <1>3 DEF Holds
<1>5. \A q : q \in rows <=> /\ q \in ReadRows(opt.source, "month_data")
                           /\ c = Cell("yields", q.serial, LocalDate(q.at, opt.zone))
  BY <1>1, YieldCells DEF Writers
<1>6. rows = monthly
  <2>1. PICK q : c = Cell("yields", q.serial, LocalDate(q.at, opt.zone))
    BY <1>3, <1>5
  <2>2. \A p : c = Cell("yields", p.serial, LocalDate(p.at, opt.zone)) <=>
                  p.serial = c.serial /\ LocalDate(p.at, opt.zone) = c.at
    BY <2>1 DEF Cell
  <2> HIDE DEF rows
  <2> QED BY <1>5, <2>2
<1>7. whole[c] = Yield(r.value, r.second, c.at < today)
  BY <1>4 DEF ValueOf
<1>8. whole[c].total = r.value
  BY <1>7 DEF Yield
<1>9. whole[c].complete => c.at < today
  <2> DEFINE ended == c.at < today
  <2>1. whole[c] = Yield(r.value, r.second, ended)
    BY <1>7
  <2> HIDE DEF ended, whole
  <2>2. whole[c].complete <=> ended
    BY <2>1, YieldFields
  <2> QED BY <2>2 DEF ended
<1>10. LastOf(rows) = r.value
  <2>1. rows \in SUBSET ReadRows(opt.source, "month_data")
    BY DEF Writers
  <2> QED BY <1>1, <1>4, <2>1, LastOfIs
<1> HIDE DEF whole, rows, monthly
<1>11. SourceYield(opt.source, opt.zone, c, whole[c])
  <2>1. monthly # {} /\ whole[c].total = LastOf(monthly)
    BY <1>3, <1>6, <1>8, <1>10
  <2> QED BY <2>1 DEF SourceYield, monthly
<1> QED BY <1>9, <1>11 DEF whole

(* Rebuilding adds yields and statistics, and changes nothing else.               *)
LEMMA ExpectedCell ==
    ASSUME NEW opt \in Options, NEW today, NEW c
    PROVE  LET whole == Imported(opt, today)
               days == RebuildableDays(whole, opt)
               all == Expected(opt, today)
           IN  /\ c.table \in InstantTables =>
                     /\ c \in DOMAIN all <=> c \in DOMAIN whole
                     /\ c \in DOMAIN whole => all[c] = whole[c]
               /\ c.table = "yields" =>
                     /\ c \in DOMAIN all <=> c \in DOMAIN whole \/ c \in days
                     /\ c \in days => all[c] = RebuiltYield(whole, opt, today, c)
                     /\ c \in DOMAIN whole /\ c \notin days => all[c] = whole[c]
<1> DEFINE whole == Imported(opt, today)
           days == RebuildableDays(whole, opt)
           Rebuilt(day) == RebuiltYield(whole, opt, today, day)
           withYields == Filled(whole, days, LAMBDA day : Rebuilt(day))
           stats == StatisticsDays(withYields, opt)
           Summed(day) == Statistics(withYields, opt, today, day)
           all == Expected(opt, today)
<1>1. withYields = [d \in DOMAIN whole \cup days |-> IF d \in days THEN Rebuilt(d) ELSE whole[d]]
  BY DEF Filled
<1>2. all = [d \in DOMAIN withYields \cup stats |-> IF d \in stats THEN Summed(d) ELSE withYields[d]]
  BY DEF Expected, Filled
<1>3. \A day \in days : day.table = "yields"
  BY DEF RebuildableDays, Cell
<1>4. \A day \in stats : day.table = "statistics"
  <2> HIDE DEF withYields
  <2> QED BY DEF StatisticsDays, Cell
<1> HIDE DEF whole, days, Rebuilt, withYields, stats, Summed, all
<1>5. c.table \in InstantTables => c \notin days /\ c \notin stats
  BY <1>3, <1>4 DEF InstantTables
<1>6. c.table = "yields" => c \notin stats
  BY <1>4
<1>7. /\ c \in DOMAIN withYields <=> c \in DOMAIN whole \/ c \in days
      /\ c \in days => withYields[c] = Rebuilt(c)
      /\ c \in DOMAIN whole /\ c \notin days => withYields[c] = whole[c]
  BY <1>1
<1>8. c \notin stats => /\ c \in DOMAIN all <=> c \in DOMAIN withYields
                        /\ c \in DOMAIN withYields => all[c] = withYields[c]
  BY <1>2
<1>9. c.table \in InstantTables =>
         /\ c \in DOMAIN all <=> c \in DOMAIN whole
         /\ c \in DOMAIN whole => all[c] = whole[c]
  BY <1>5, <1>7, <1>8
<1>10. c.table = "yields" =>
         /\ c \in DOMAIN all <=> c \in DOMAIN whole \/ c \in days
         /\ c \in days => all[c] = Rebuilt(c)
         /\ c \in DOMAIN whole /\ c \notin days => all[c] = whole[c]
  BY <1>6, <1>7, <1>8
<1> QED BY <1>9, <1>10 DEF whole, days, all, Rebuilt

(* The yields of a complete import are those of the source.                       *)
LEMMA ExpectedYields ==
    ASSUME NEW opt \in Options, NEW today, NEW c \in DOMAIN Expected(opt, today),
           c.table = "yields"
    PROVE  /\ SourceYield(opt.source, opt.zone, c, Expected(opt, today)[c])
           /\ Expected(opt, today)[c].complete => c.at < today
<1> DEFINE whole == Imported(opt, today)
           days == RebuildableDays(whole, opt)
           all == Expected(opt, today)
<1>1. /\ c \in DOMAIN whole \/ c \in days
      /\ c \in days => all[c] = RebuiltYield(whole, opt, today, c)
      /\ c \in DOMAIN whole /\ c \notin days => all[c] = whole[c]
  BY ExpectedCell
<1>2. CASE c \in days
  <2> DEFINE ended == c.at < today
             total == AcceptedTotal(whole, opt, c)
             daily == total - Baseline(whole, opt, c)
  <2>1. SourceYield(opt.source, opt.zone, c, all[c])
    BY <1>1, <1>2, RebuiltIsTheSources
  <2>2. all[c] = Yield(total, daily, ended)
    BY <1>1, <1>2, Zenon DEF RebuiltYield
  <2> HIDE DEF ended, total, daily, all
  <2>3. all[c].complete <=> ended
    BY <2>2, YieldFields
  <2> QED BY <2>1, <2>3, Zenon DEF ended, all
<1>3. CASE c \notin days
  BY <1>1, <1>3, CopiedIsTheSources
<1> QED BY <1>2, <1>3

(* Every date of MonthData is in it.                                              *)
LEMMA ExpectedDates ==
    ASSUME NEW opt \in Options, NEW today, NEW r \in ReadRows(opt.source, "month_data")
    PROVE  Cell("yields", r.serial, LocalDate(r.at, opt.zone)) \in DOMAIN Expected(opt, today)
<1> DEFINE c == Cell("yields", r.serial, LocalDate(r.at, opt.zone))
<1>1. "month_data" \in CategoryNames \ {"spot_data_x"}
  BY CategoriesSeq
<1>2. c.table = "yields"
  BY DEF Cell
<1> HIDE DEF c
<1>3. \A other \in CategoryNames : other # "month_data" => Writers(opt, other, c) = {}
  BY <1>2, YieldCells DEF Writers
<1>4. Writers(opt, "month_data", c) # {}
  <2>1. c \in CellsOf(opt, "month_data", r)
    BY <1>1, <1>2, YieldCells DEF c
  <2> QED BY <2>1 DEF Writers
<1>5. c \in DOMAIN Imported(opt, today)
  BY <1>1, <1>3, <1>4, SoleWriter
<1> QED BY <1>2, <1>5, ExpectedCell DEF c

-----------------------------------------------------------------------------
(* A target that agrees with a complete import on the compared tables.            *)
AgreesWith(all) ==
    \A c : c.table \in CanonicalTables =>
        /\ c \in DOMAIN target <=> c \in DOMAIN all
        /\ c \in DOMAIN target => target[c] = all[c]

LEMMA ComparedAgree ==
    ASSUME NEW all, Compared(target) = Compared(all)
    PROVE  AgreesWith(all)
<1> SUFFICES ASSUME NEW c, c.table \in CanonicalTables
             PROVE  /\ c \in DOMAIN target <=> c \in DOMAIN all
                    /\ c \in DOMAIN target => target[c] = all[c]
  BY DEF AgreesWith
<1>1. \A cells : /\ c \in DOMAIN Compared(cells) <=> c \in DOMAIN cells
                 /\ c \in DOMAIN cells => Compared(cells)[c] = cells[c]
  BY DEF Compared
<1> QED BY <1>1

(* On the tables of instants it agrees with the import before the rebuilding.     *)
LEMMA AgreeAtInstants ==
    ASSUME NEW opt \in Options, NEW today, AgreesWith(Expected(opt, today)),
           NEW c, c.table \in InstantTables
    PROVE  /\ c \in DOMAIN target <=> c \in DOMAIN Imported(opt, today)
           /\ c \in DOMAIN target => target[c] = Imported(opt, today)[c]
<1>1. c.table \in CanonicalTables
  BY DEF InstantTables, CanonicalTables, MeasurementParts
<1> QED BY <1>1, ExpectedCell DEF AgreesWith

(* The tables that hold the last row of an instant.                               *)
LEMMA ArchiveTable ==
    ASSUME NEW opt \in Options, NEW today, AgreesWith(Expected(opt, today)),
           NEW table, NEW cat,
           \/ table = "energy" /\ cat = "day_data"
           \/ table = "events" /\ cat = "event_data"
    PROVE  LET keys == {<<r.serial, r.at>> : r \in ReadRows(opt.source, cat)}
           IN  /\ InTable(target, table) = {Cell(table, k[1], k[2]) : k \in keys}
               /\ \A k \in keys :
                     target[Cell(table, k[1], k[2])] = LastOf(Said(opt.source, cat, k[1], k[2]))
<1> DEFINE whole == Imported(opt, today)
           all == ReadRows(opt.source, cat)
           keys == {<<r.serial, r.at>> : r \in all}
<1>1. table \in InstantTables
  BY DEF InstantTables
<1>2. \A serial, at : /\ Cell(table, serial, at).table = table
                      /\ Cell(table, serial, at).serial = serial
                      /\ Cell(table, serial, at).at = at
  BY DEF Cell
<1>3. ASSUME NEW serial, NEW at
      PROVE  LET c == Cell(table, serial, at)
                 said == Said(opt.source, cat, serial, at)
             IN  /\ c \in DOMAIN target <=> said # {}
                 /\ said # {} => target[c] = LastOf(said)
  <2> DEFINE c == Cell(table, serial, at)
             said == Said(opt.source, cat, serial, at)
  <2>1. HoldsSaid(whole, opt, today, table, cat, serial, at)
    BY ArchiveCell
  <2>2. /\ c \in DOMAIN whole <=> said # {}
        /\ said # {} => whole[c] = LastOf(said)
    BY <2>1 DEF HoldsSaid
  <2>3. c.table \in InstantTables
    BY <1>1, <1>2
  <2> HIDE DEF c, said
  <2> QED BY <2>2, <2>3, AgreeAtInstants DEF c, said
<1>4. ASSUME NEW c \in InTable(target, table) PROVE c = Cell(table, c.serial, c.at)
  BY <1>1, <1>4, AgreeAtInstants, ImportedShape DEF InTable
<1>5. \A serial, at : Said(opt.source, cat, serial, at) # {} <=>
                         \E r \in all : r.serial = serial /\ r.at = at
  BY DEF Said
<1>6. InTable(target, table) = {Cell(table, k[1], k[2]) : k \in keys}
  <2>1. ASSUME NEW c \in InTable(target, table)
        PROVE  \E k \in keys : c = Cell(table, k[1], k[2])
    <3>1. Said(opt.source, cat, c.serial, c.at) # {}
      BY <1>3, <1>4, <2>1 DEF InTable
    <3>2. <<c.serial, c.at>> \in keys
      BY <1>5, <3>1
    <3> HIDE DEF keys
    <3> QED BY <1>4, <2>1, <3>2
  <2>2. ASSUME NEW k \in keys PROVE Cell(table, k[1], k[2]) \in InTable(target, table)
    <3>1. PICK r \in all : k = <<r.serial, r.at>>
      BY <2>2
    <3>2. Said(opt.source, cat, k[1], k[2]) # {}
      BY <1>5, <3>1
    <3> HIDE DEF keys
    <3> QED BY <1>2, <1>3, <3>2 DEF InTable
  <2> HIDE DEF keys
  <2> QED BY <2>1, <2>2
<1>7. \A k \in keys : target[Cell(table, k[1], k[2])] = LastOf(Said(opt.source, cat, k[1], k[2]))
  <2> SUFFICES ASSUME NEW k \in keys
               PROVE  target[Cell(table, k[1], k[2])] = LastOf(Said(opt.source, cat, k[1], k[2]))
    OBVIOUS
  <2>1. PICK r \in all : k = <<r.serial, r.at>>
    OBVIOUS
  <2>2. Said(opt.source, cat, k[1], k[2]) # {}
    BY <1>5, <2>1
  <2> HIDE DEF keys
  <2> QED BY <1>3, <2>2
<1> HIDE DEF keys
<1> QED BY <1>6, <1>7 DEF keys, all

(* The measurements and their trackers.                                           *)
LEMMA MeasurementTables ==
    ASSUME NEW opt \in Options, NEW today, AgreesWith(Expected(opt, today)),
           ReadRows(opt.source, "spot_data") = Rows(opt.source, "spot_data")
    PROVE  MeasurementsAreTheSources(opt.source)
<1> DEFINE whole == Imported(opt, today)
           keys == SourceMeasured(opt.source)
           M(serial, at) == Cell("measurements", serial, at)
<1>1. "measurements" \in InstantTables /\ "mppt" \in InstantTables
  BY DEF InstantTables
<1>2. \A table, serial, at : /\ Cell(table, serial, at).table = table
                             /\ Cell(table, serial, at).serial = serial
                             /\ Cell(table, serial, at).at = at
  BY DEF Cell
<1>3. ASSUME NEW serial, NEW at
      PROVE  /\ M(serial, at) \in DOMAIN target <=> <<serial, at>> \in keys
             /\ M(serial, at) \in DOMAIN target =>
                   target[M(serial, at)] = SourceMeasurement(opt.source, serial, at)
  <2> DEFINE c == M(serial, at)
  <2>1. c.table \in InstantTables
    BY <1>1, <1>2
  <2>2. /\ c \in DOMAIN whole <=> <<serial, at>> \in keys
        /\ c \in DOMAIN whole => whole[c] = SourceMeasurement(opt.source, serial, at)
    BY MeasurementIsTheSources
  <2> HIDE DEF c, keys
  <2> QED BY <2>1, <2>2, AgreeAtInstants DEF c
<1>4. ASSUME NEW c \in DOMAIN target, c.table \in {"measurements", "mppt"}
      PROVE  c = Cell(c.table, c.serial, c.at)
  BY <1>1, <1>4, AgreeAtInstants, ImportedShape
<1>5. \A k \in keys : k = <<k[1], k[2]>>
  BY DEF SourceMeasured
<1> HIDE DEF keys
<1>6. InTable(target, "measurements") = {M(k[1], k[2]) : k \in keys}
  <2>1. ASSUME NEW c \in InTable(target, "measurements")
        PROVE  \E k \in keys : c = M(k[1], k[2])
    <3>1. c \in DOMAIN target /\ c = M(c.serial, c.at)
      BY <1>4, <2>1 DEF InTable
    <3>2. <<c.serial, c.at>> \in keys
      BY <1>3, <3>1
    <3> QED BY <3>1, <3>2
  <2>2. ASSUME NEW k \in keys PROVE M(k[1], k[2]) \in InTable(target, "measurements")
    BY <1>2, <1>3, <1>5 DEF InTable
  <2> QED BY <2>1, <2>2
<1>7. \A k \in keys : target[M(k[1], k[2])] = SourceMeasurement(opt.source, k[1], k[2])
  BY <1>3, <1>5
<1>8. ASSUME NEW c \in InTable(target, "mppt")
      PROVE  target[c] = SourceTracker(opt.source, c.serial, c.at)
  <2>1. c \in DOMAIN target /\ c.table = "mppt"
    BY <1>8 DEF InTable
  <2>2. c \in DOMAIN whole /\ target[c] = whole[c] /\ c = Cell("mppt", c.serial, c.at)
    BY <1>1, <1>4, <2>1, AgreeAtInstants
  <2> QED BY <2>2, TrackerIsTheSources
<1>9. TableHolds("measurements", keys,
                 LAMBDA serial, at : SourceMeasurement(opt.source, serial, at))
  BY <1>6, <1>7 DEF TableHolds
<1> QED BY <1>8, <1>9 DEF MeasurementsAreTheSources, keys

(* The daily yields.                                                              *)
LEMMA YieldTable ==
    ASSUME NEW opt \in Options, AgreesWith(Expected(opt, LocalDate(now, opt.zone)))
    PROVE  YieldsAreTheSources(opt.source, opt.zone)
<1> DEFINE today == LocalDate(now, opt.zone)
           all == Expected(opt, today)
<1>1. \A c : c.table = "yields" => /\ c \in DOMAIN target <=> c \in DOMAIN all
                                   /\ c \in DOMAIN target => target[c] = all[c]
  BY DEF AgreesWith, CanonicalTables
<1>2. ASSUME NEW c \in InTable(target, "yields")
      PROVE  /\ SourceYield(opt.source, opt.zone, c, target[c])
             /\ target[c].complete => c.at < today
  <2>1. c.table = "yields" /\ c \in DOMAIN all /\ target[c] = all[c]
    BY <1>1, <1>2 DEF InTable
  <2>2. /\ SourceYield(opt.source, opt.zone, c, all[c])
        /\ all[c].complete => c.at < today
    BY <2>1, ExpectedYields
  <2> HIDE DEF all, today
  <2> QED BY <2>1, <2>2
<1>3. ASSUME NEW r \in ReadRows(opt.source, "month_data")
      PROVE  Cell("yields", r.serial, LocalDate(r.at, opt.zone)) \in DOMAIN target
  <2>1. Cell("yields", r.serial, LocalDate(r.at, opt.zone)).table = "yields"
    BY DEF Cell
  <2> QED BY <1>1, <1>3, <2>1, ExpectedDates
<1> QED BY <1>2, <1>3 DEF YieldsAreTheSources

-----------------------------------------------------------------------------
AreTheSources ==
    /\ MeasurementsAreTheSources(run.source)
    /\ ArchiveIsTheSources(run.source)
    /\ YieldsAreTheSources(run.source, run.zone)

(* A run is called running while rows are written, and what verification saw      *)
(* stays so until the run is reopened.                                            *)
FaithInv ==
    /\ run # NoRun => run.zone \in Int
    /\ job # Idle /\ job.at \notin {"initialize", "open"} => run.status = "running"
    /\ job.at = "complete" \/ (run # NoRun /\ run.status = "completed") => AreTheSources

(* Every row of a category that is counted was read, if all are counted.          *)
LEMMA AllAreRead ==
    ASSUME MigratorInv, run # NoRun, NEW cat \in CategoryNames,
           checkpoints[cat].completed,
           checkpoints[cat].rows = Cardinality(Rows(run.source, cat))
    PROVE  ReadRows(run.source, cat) = Rows(run.source, cat)
<1>1. run.source \in DOMAIN Sources
  BY DEF MigratorInv, ShapeInv
<1>2. IsFiniteSet(Rows(run.source, cat)) /\ ReadRows(run.source, cat) \subseteq Rows(run.source, cat)
  BY <1>1, RowsFinite DEF ReadRows
<1>3. Cardinality(ReadRows(run.source, cat)) = Cardinality(Rows(run.source, cat))
  BY DEF MigratorInv, CheckpointCovers
<1> QED BY <1>2, <1>3, FS_Subset

(* What verification finds.                                                       *)
LEMMA VerifiedIsFaithful ==
    ASSUME MigratorInv, At("verify"),
           VerificationPasses(job.opt, LocalDate(now, job.opt.zone))
    PROVE  AreTheSources
<1> DEFINE opt == job.opt
           today == LocalDate(now, opt.zone)
<1>1. job # Idle /\ job.at \notin {"initialize", "open"}
  BY DEF At, Idle
<1>2. opt \in Options /\ run # NoRun
  BY <1>1 DEF MigratorInv, ShapeInv, PhaseInv
<1>3. /\ run.source = opt.source /\ run.zone = opt.zone
      /\ Compared(target) = Compared(Expected(opt, today))
  BY DEF VerificationPasses
<1>4. "spot_data" \in CategoryNames
  BY CategoriesSeq
<1>5. ReadRows(opt.source, "spot_data") = Rows(opt.source, "spot_data")
  BY <1>2, <1>3, <1>4, AllAreRead DEF VerificationPasses
<1>6. AgreesWith(Expected(opt, today))
  BY <1>3, ComparedAgree
<1> HIDE DEF opt
<1>7. MeasurementsAreTheSources(opt.source)
  BY <1>2, <1>5, <1>6, MeasurementTables
<1>8. ArchiveIsTheSources(opt.source)
  <2> DEFINE days == {<<r.serial, r.at>> : r \in ReadRows(opt.source, "day_data")}
             events == {<<r.serial, r.at>> : r \in ReadRows(opt.source, "event_data")}
  <2>1. /\ InTable(target, "energy") = {Cell("energy", k[1], k[2]) : k \in days}
        /\ \A k \in days : target[Cell("energy", k[1], k[2])]
                            = LastOf(Said(opt.source, "day_data", k[1], k[2]))
    BY <1>2, <1>6, ArchiveTable
  <2>2. /\ InTable(target, "events") = {Cell("events", k[1], k[2]) : k \in events}
        /\ \A k \in events : target[Cell("events", k[1], k[2])]
                              = LastOf(Said(opt.source, "event_data", k[1], k[2]))
    BY <1>2, <1>6, ArchiveTable
  <2> QED BY <2>1, <2>2 DEF ArchiveIsTheSources, TableHolds
<1>9. YieldsAreTheSources(opt.source, opt.zone)
  BY <1>2, <1>6, YieldTable
<1> QED BY <1>3, <1>7, <1>8, <1>9 DEF AreTheSources, opt

(* A day with a yield is one of the calendar.                                     *)
LEMMA YieldDate ==
    ASSUME NEW source \in DOMAIN Sources, NEW zone \in Int, NEW c, NEW y,
           SourceYield(source, zone, c, y)
    PROVE  c.at \in Int
<1> DEFINE monthly == {r \in ReadRows(source, "month_data") :
                          r.serial = c.serial /\ LocalDate(r.at, zone) = c.at}
<1>1. \A r \in ReadRows(source, "month_data") \cup Totals(source, c.serial) : r.at \in Int
  BY RowsAssumption DEF ReadRows, Rows, Totals
<1>2. \A r \in ReadRows(source, "month_data") \cup Totals(source, c.serial) :
         LocalDate(r.at, zone) \in Int
  BY <1>1, DatesInOrder
<1>3. CASE monthly # {}
  BY <1>2, <1>3
<1>4. CASE monthly = {}
  <2>1. \E after \in Totals(source, c.serial) : LocalDate(after.at, zone) = c.at
    BY <1>4 DEF SourceYield
  <2> QED BY <1>2, <2>1
<1> QED BY <1>3, <1>4

(* Time goes by, and what the target holds stays true of the source.              *)
LEMMA FaithfulStays ==
    ASSUME MigratorInv, [Next]_vars, AreTheSources, run # NoRun, run.zone \in Int,
           UNCHANGED target, run'.source = run.source, run'.zone = run.zone
    PROVE  AreTheSources'
<1>1. now \in Int /\ now' \in Int /\ now <= now'
  <2>1. now \in Int /\ now' \in Int
    BY TypeKept, SizesAssumption DEF MigratorInv, TypeOK
  <2>2. now' = now \/ now' = now + 1
    BY DEF Next, JobStep, Execute, Resume, Tick, Start, BeginSchema, ApplySchema, ReplaceTarget,
      EnableExtra, Initialized, CreateRun,
      ReopenRun, RefuseRun, SkipCategory, EnterCategory, CompleteCheckpoint, WriteBatch,
      BatchRefused, BatchFails, Commit, CommitFails, CategoriesDone, RebuildDay, YieldsDone,
      RebuildStatistics, StatisticsDone, AccessFails, Decide, Verify, VerifyFails, CloseRun,
      Crash, durable, vars
  <2> QED BY <2>1, <2>2
<1>2. /\ LocalDate(now, run.zone) <= LocalDate(now', run.zone)
      /\ LocalDate(now, run.zone) \in Int /\ LocalDate(now', run.zone) \in Int
  BY <1>1, DatesInOrder
<1>3. MeasurementsAreTheSources(run.source)'
  BY DEF AreTheSources, MeasurementsAreTheSources, TableHolds, InTable
<1>4. ArchiveIsTheSources(run.source)'
  BY DEF AreTheSources, ArchiveIsTheSources, TableHolds, InTable
<1>5. run.source \in DOMAIN Sources
  BY DEF MigratorInv, ShapeInv
<1>6. ASSUME NEW c \in InTable(target, "yields")
      PROVE  /\ SourceYield(run.source, run.zone, c, target[c])
             /\ target[c].complete => c.at < LocalDate(now', run.zone)
  <2>1. /\ SourceYield(run.source, run.zone, c, target[c])
        /\ target[c].complete => c.at < LocalDate(now, run.zone)
    BY <1>6 DEF AreTheSources, YieldsAreTheSources
  <2>2. c.at \in Int
    BY <1>5, <2>1, YieldDate
  <2> DEFINE before == LocalDate(now, run.zone)
             after == LocalDate(now', run.zone)
  <2>3. c.at < before => c.at < after
    <3> HIDE DEF before, after
    <3> QED BY <1>2, <2>2 DEF before, after
  <2> QED BY <2>1, <2>3, Zenon
<1>7. YieldsAreTheSources(run.source, run.zone)'
  <2>1. {Cell("yields", r.serial, LocalDate(r.at, run.zone)) :
            r \in ReadRows(run.source, "month_data")} \subseteq DOMAIN target
    BY DEF AreTheSources, YieldsAreTheSources
  <2>2. InTable(target, "yields")' = InTable(target, "yields")
    BY DEF InTable
  <2> QED BY <1>6, <2>1, <2>2, Zenon DEF YieldsAreTheSources
<1> QED BY <1>3, <1>4, <1>7 DEF AreTheSources

Early == {"initialize", "open"}

(* The steps that verify nothing and write no row.                                *)
Quiet ==
    /\ UNCHANGED <<target, run>>
    /\ job'.at = "complete" => job.at = "complete"
    /\ job' # Idle /\ job'.at \notin Early => job # Idle /\ job.at \notin Early

(* The steps of an invocation that write rows.                                    *)
Writes ==
    /\ job # Idle /\ job.at \notin Early
    /\ UNCHANGED run
    /\ job'.at # "complete"

(* Those that open a run.                                                         *)
Opens == /\ run' # NoRun /\ run'.status = "running" /\ run'.zone \in Int
         /\ job'.at = "category"

LEMMA StepKinds ==
    MigratorInv /\ FaithInv /\ [Next]_vars =>
        Quiet \/ Writes \/ Opens \/ CloseRun \/ Verify
<1> SUFFICES ASSUME MigratorInv, FaithInv, [Next]_vars
             PROVE  Quiet \/ Writes \/ Opens \/ CloseRun \/ Verify
  OBVIOUS
<1> USE DEF MigratorInv, ShapeInv, Quiet, Writes, Early
<1>1. CASE Tick
  BY <1>1 DEF Tick, durable
<1>2. ASSUME NEW mode, NEW opt \in Options, Start(mode, opt) PROVE Quiet
  BY <1>2 DEF Start, durable, Idle
<1>3. CASE BeginSchema \/ ApplySchema \/ ReplaceTarget \/ EnableExtra
  BY <1>3 DEF BeginSchema, ApplySchema, ReplaceTarget, LeftHalfMade, EnableExtra, At, Goto
<1>4. CASE Initialized
  BY <1>4 DEF Initialized, durable, At, Goto, Idle
<1>5. CASE CreateRun
  BY <1>5, RowsAssumption DEF CreateRun, At, Goto, Idle, Opens, NoRun
<1>6. CASE ReopenRun
  <2>1. run # NoRun /\ job # Idle /\ job.at = "open"
    BY <1>6 DEF ReopenRun, At, Idle
  <2>2. run' = [run EXCEPT !.status = "running"] /\ job'.at = "category"
    BY <1>6, <2>1 DEF ReopenRun, Goto, Idle
  <2> QED BY <2>1, <2>2 DEF Opens, FaithInv, NoRun
<1>7. CASE RefuseRun
  BY <1>7 DEF RefuseRun, Leave, durable, Idle
<1>8. CASE SkipCategory
  BY <1>8 DEF SkipCategory, NextCategory, At, Idle, durable
<1>9. CASE EnterCategory
  BY <1>9 DEF EnterCategory, At, Idle, durable
<1>10. CASE CompleteCheckpoint
  BY <1>10 DEF CompleteCheckpoint, NextCategory, At, Idle
<1>11. CASE WriteBatch
  BY <1>11 DEF WriteBatch, At, Goto, Idle, durable
<1>12. CASE BatchRefused
  BY <1>12 DEF BatchRefused, At, Goto, Idle, durable
<1>13. CASE BatchFails
  BY <1>13 DEF BatchFails, At, Goto, Idle, durable
<1>14. CASE Commit
  BY <1>14 DEF Commit, At, Idle
<1>15. CASE CommitFails
  BY <1>15 DEF CommitFails, At, Goto, Idle
<1>16. CASE CategoriesDone
  BY <1>16 DEF CategoriesDone, At, Idle, durable
<1>17. CASE RebuildDay
  BY <1>17 DEF RebuildDay, At, Idle
<1>18. CASE YieldsDone
  <2>1. job # Idle /\ job.at = "yields" /\ UNCHANGED <<target, run>>
    BY <1>18 DEF YieldsDone, At, Idle, durable
  <2>2. CASE CopiedDates(job.opt) \subseteq DOMAIN target
    <3>1. job' = [job EXCEPT !.at = "statistics", !.todo = StatisticsDays(target, job.opt)]
      BY <1>18, <2>2 DEF YieldsDone
    <3> QED BY <2>1, <3>1 DEF Idle
  <2>3. CASE ~(CopiedDates(job.opt) \subseteq DOMAIN target)
    <3>1. job' = [job EXCEPT !.at = "interrupt"]
      BY <1>18, <2>3 DEF YieldsDone, Goto
    <3> QED BY <2>1, <3>1 DEF Idle
  <2> QED BY <2>2, <2>3
<1>19. CASE RebuildStatistics
  BY <1>19 DEF RebuildStatistics, At, Idle
<1>20. CASE StatisticsDone
  BY <1>20 DEF StatisticsDone, At, Goto, Idle, durable
<1>21. CASE AccessFails
  BY <1>21 DEF AccessFails, Goto, Idle, durable
<1>22. CASE VerifyFails
  BY <1>22 DEF VerifyFails, Decide, At, Goto, Idle, durable
<1>23. CASE Crash
  BY <1>23 DEF Crash, Leave, durable, Idle
<1>24. CASE UNCHANGED vars
  BY <1>24 DEF vars, durable
<1> QED
  BY <1>1, <1>2, <1>3, <1>4, <1>5, <1>6, <1>7, <1>8, <1>9, <1>10, <1>11, <1>12, <1>13,
     <1>14, <1>15, <1>16, <1>17, <1>18, <1>19, <1>20, <1>21, <1>22, <1>23, <1>24
  DEF Next, Execute, Resume, JobStep

(* FaithInv is kept by each kind of step.                                         *)
LEMMA FaithKept == MigratorInv /\ FaithInv /\ [Next]_vars => FaithInv'
<1> SUFFICES ASSUME MigratorInv, FaithInv, [Next]_vars PROVE FaithInv'
  OBVIOUS
<1>1. ASSUME AreTheSources, run # NoRun, UNCHANGED target,
             run'.source = run.source, run'.zone = run.zone
      PROVE  AreTheSources'
  BY <1>1, FaithfulStays DEF FaithInv
<1>2. job.at = "complete" => job # Idle /\ job.at \notin Early /\ run # NoRun
  BY DEF MigratorInv, PhaseInv, Idle, Early
<1>3. CASE Quiet
  <2>1. job'.at = "complete" \/ (run' # NoRun /\ run'.status = "completed") => AreTheSources'
    BY <1>1, <1>2, <1>3 DEF FaithInv, Quiet
  <2>2. /\ run' # NoRun => run'.zone \in Int
        /\ job' # Idle /\ job'.at \notin Early => run'.status = "running"
    BY <1>3 DEF FaithInv, Quiet, Early
  <2> QED BY <2>1, <2>2 DEF FaithInv, Early
<1>4. CASE Writes
  BY <1>4 DEF FaithInv, Writes, Early
<1>5. CASE Opens
  BY <1>5 DEF FaithInv, Opens
<1>6. CASE CloseRun
  <2>1. /\ job.at \in {"complete", "fail", "interrupt"} /\ job' = Idle /\ UNCHANGED target
        /\ run' = [run EXCEPT !.status = Outcome(job.at)]
    BY <1>6 DEF CloseRun, Leave
  <2>2. run # NoRun /\ DOMAIN run = {"status", "source", "zone"}
    BY <2>1 DEF MigratorInv, ShapeInv, PhaseInv, Idle
  <2>3. /\ run'.source = run.source /\ run'.zone = run.zone
        /\ run'.status = Outcome(job.at)
    BY <2>1, <2>2
  <2>4. run'.status = "completed" => job.at = "complete"
    BY <2>1, <2>3 DEF Outcome
  <2>5. run'.status = "completed" => AreTheSources'
    BY <1>1, <2>1, <2>2, <2>3, <2>4 DEF FaithInv
  <2> QED BY <2>1, <2>2, <2>3, <2>5 DEF FaithInv, Idle
<1>7. CASE Verify
  <2>1. /\ At("verify") /\ job # Idle /\ UNCHANGED <<target, run>>
        /\ job' = [job EXCEPT !.at = IF VerificationPasses(job.opt, LocalDate(now, job.opt.zone))
                                     THEN "complete" ELSE "fail"]
    BY <1>7 DEF Verify, Decide, Goto, At, Idle, durable
  <2>2. job.at = "verify" /\ run # NoRun /\ run.status = "running" /\ DOMAIN job = JobFields
    BY <2>1 DEF At, MigratorInv, ShapeInv, PhaseInv, FaithInv
  <2>3. job'.at = "complete" => VerificationPasses(job.opt, LocalDate(now, job.opt.zone))
    BY <2>1, <2>2 DEF JobFields
  <2>4. job'.at = "complete" => AreTheSources'
    BY <1>1, <2>1, <2>2, <2>3, VerifiedIsFaithful
  <2> QED BY <2>1, <2>2, <2>4 DEF FaithInv
<1> QED BY <1>3, <1>4, <1>5, <1>6, <1>7, StepKinds

(* A run that is called completed holds its source: the target has the            *)
(* measurements, energy totals and events the source names and no others, every   *)
(* daily yield in it is the one the source gives in the run's timezone, every     *)
(* date of MonthData has one, and none is marked complete before its day has      *)
(* ended; however the run was interrupted, refused, crashed and resumed, for      *)
(* every finite source and batch size.                                            *)
THEOREM CompletedRunsAreFaithful == Spec => []CompletedIsFaithful
<1>1. Init => FaithInv
  BY DEF Init, FaithInv, Idle, NoRun
<1>2. MigratorInv /\ FaithInv /\ [Next]_vars => FaithInv'
  BY FaithKept
<1>3. FaithInv => CompletedIsFaithful
  BY DEF FaithInv, AreTheSources, CompletedIsFaithful
<1> QED BY <1>1, <1>2, <1>3, InvHolds, PTL DEF Spec
=============================================================================
