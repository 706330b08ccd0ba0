-------------------------- MODULE Dashboard_proofs --------------------------
(***************************************************************************)
(* Proofs about the dashboard's API: SystemView and History.               *)
(*                                                                         *)
(* SystemView, for any ring, page and list sizes, any number of polls in   *)
(* flight and any order of answers: the list shows what its filter admits, *)
(* has no hole, and says truthfully that it is at the oldest entry, as     *)
(* long as nothing has disturbed it.                                       *)
(*                                                                         *)
(* History, for any devices, times of day, powers and years and any writes *)
(* between the queries of a response: a newest measurement is not older    *)
(* than the rows beside it, periods are compared over the days at the same *)
(* place, and the plant's rows are the sums of its inverters'.             *)
(***************************************************************************)
EXTENDS SystemView, History, FiniteSetTheorems, FunctionTheorems, SequenceTheorems,
        WellFoundedInduction, TLAPS

-----------------------------------------------------------------------------
(* Finite sets of entries and of records.                                  *)

(* A finite set has an element at which an integer function is greatest.   *)
LEMMA Greatest ==
    ASSUME NEW S, IsFiniteSet(S), S # {}, NEW f \in [S -> Int]
    PROVE  \E top \in S : \A s \in S : f[s] <= f[top]
<1> DEFINE above(s) == {t \in S : f[t] > f[s]}
           T == {above(s) : s \in S}
<1>1. IsWellFoundedOn(StrictSubsetOrdering(S), FiniteSubsetsOf(S))
  BY FS_StrictSubsetOrderingWellFounded
<1>2. T \subseteq FiniteSubsetsOf(S)
  BY FS_FiniteSubsetsOfFinite
<1>3. PICK U \in T : \A V \in T : ~(<<V, U>> \in StrictSubsetOrdering(S))
  <2>1. T # {}
    <3>1. PICK s : s \in S
      OBVIOUS
    <3>2. above(s) \in T
      BY <3>1
    <3> QED
      BY <3>2
  <2> HIDE DEF T
  <2> QED
    BY <1>1, <1>2, <2>1, WFMin
<1>4. PICK top \in S : U = above(top)
  OBVIOUS
<1>5. ASSUME NEW s \in S, f[s] > f[top] PROVE FALSE
  <2>1. above(s) \in T
    OBVIOUS
  <2>2. above(s) \subseteq U /\ s \in U /\ s \notin above(s)
    BY <1>4, <1>5
  <2>3. U \subseteq S
    BY <1>4
  <2> HIDE DEF above, T
  <2> QED
    BY <1>3, <2>1, <2>2, <2>3 DEF StrictSubsetOrdering
<1> HIDE DEF above, T
<1> QED
  BY <1>5

(* Max and Min of a finite set of integers are what they are meant to be.  *)
LEMMA MaxMin ==
    ASSUME NEW S \in SUBSET Int, IsFiniteSet(S), S # {}
    PROVE  /\ Max(S) \in S /\ \A x \in S : x <= Max(S)
           /\ Min(S) \in S /\ \A x \in S : Min(S) <= x
<1> DEFINE f == [x \in S |-> x]
           g == [x \in S |-> -x]
<1>1. PICK top \in S : \A x \in S : f[x] <= f[top]
  <2>1. f \in [S -> Int]
    OBVIOUS
  <2> HIDE DEF f
  <2> QED
    BY <2>1, Greatest
<1>2. PICK bottom \in S : \A x \in S : g[x] <= g[bottom]
  <2>1. g \in [S -> Int]
    OBVIOUS
  <2> HIDE DEF g
  <2> QED
    BY <2>1, Greatest
<1>3. top \in S /\ \A x \in S : top >= x
  BY <1>1
<1>4. bottom \in S /\ \A x \in S : bottom <= x
  BY <1>2
<1>5. Max(S) \in S /\ \A x \in S : Max(S) >= x
  BY <1>3 DEF Max
<1>6. Min(S) \in S /\ \A x \in S : Min(S) <= x
  BY <1>4 DEF Min
<1> QED
  BY <1>5, <1>6

(* The image of a finite set under a function is finite.                   *)
LEMMA ImageIsFinite ==
    ASSUME NEW S, IsFiniteSet(S), NEW f, DOMAIN f = S
    PROVE  IsFiniteSet({f[x] : x \in S})
<1> DEFINE T == {f[x] : x \in S}
           g == [x \in S |-> f[x]]
<1>1. g \in Surjection(S, T)
  BY DEF Surjection
<1> HIDE DEF g, T
<1>2. IsFiniteSet(T)
  BY <1>1, FS_Surjection
<1> QED
  BY <1>2 DEF T

(* The newest and the oldest cursor are those of entries.                  *)
LEMMA Ends ==
    ASSUME NEW S, IsFiniteSet(S), S # {}, \A e \in S : e.seq \in Nat \ {0}
    PROVE  /\ Newest(S) \in Nat \ {0} /\ Oldest(S) \in Nat \ {0}
           /\ \A e \in S : Oldest(S) <= e.seq /\ e.seq <= Newest(S)
           /\ \E e \in S : e.seq = Newest(S)
           /\ \E e \in S : e.seq = Oldest(S)
<1> DEFINE f == [e \in S |-> e.seq]
           C == {e.seq : e \in S}
<1>1. IsFiniteSet(C)
  <2>1. C = {f[e] : e \in S} /\ DOMAIN f = S
    OBVIOUS
  <2> HIDE DEF f, C
  <2> QED
    BY <2>1, ImageIsFinite
<1>2. C \in SUBSET Int /\ C # {}
  OBVIOUS
<1>3. Newest(S) = Max(C) /\ Oldest(S) = Min(C)
  BY DEF Newest, Oldest
<1>4. /\ Max(C) \in C /\ \A x \in C : x <= Max(C)
      /\ Min(C) \in C /\ \A x \in C : Min(C) <= x
  <2> HIDE DEF C
  <2> QED
    BY <1>1, <1>2, MaxMin
<1>5. \A e \in S : Min(C) <= e.seq /\ e.seq <= Max(C)
  BY <1>4
<1>6. \E e \in S : e.seq = Max(C)
  BY <1>4
<1>7. \E e \in S : e.seq = Min(C)
  BY <1>4
<1>8. Max(C) \in Nat \ {0} /\ Min(C) \in Nat \ {0}
  BY <1>4
<1> HIDE DEF C
<1> QED
  BY <1>3, <1>5, <1>6, <1>7, <1>8

(* No cursor stands for an empty list.                                     *)
LEMMA NoEnds == Newest({}) = 0 /\ Oldest({}) = 0
  BY DEF Newest, Oldest, None

(* The n with the highest cursors are an upper part, not empty if it can be. *)
LEMMA TopIsUpper ==
    ASSUME NEW S, IsFiniteSet(S), \A e \in S : e.seq \in Nat \ {0}, NEW n \in Nat \ {0}
    PROVE  /\ Top(S, n) \subseteq S /\ IsFiniteSet(Top(S, n))
           /\ \A e \in Top(S, n), f \in S : e.seq <= f.seq => f \in Top(S, n)
           /\ S # {} => Top(S, n) # {}
<1> DEFINE above(r) == {q \in S : q.seq > r.seq}
<1>1. Top(S, n) = {r \in S : Cardinality(above(r)) < n}
  BY DEF Top
<1>2. \A r \in S : IsFiniteSet(above(r)) /\ Cardinality(above(r)) \in Nat
  <2> TAKE r \in S
  <2>1. above(r) \in SUBSET S
    OBVIOUS
  <2> HIDE DEF above
  <2> QED
    BY <2>1, FS_Subset, FS_CardinalityType
<1>3. ASSUME NEW e \in Top(S, n), NEW f \in S, e.seq <= f.seq
      PROVE  f \in Top(S, n)
  <2>1. e \in S /\ Cardinality(above(e)) < n
    BY <1>1
  <2>2. above(f) \in SUBSET above(e)
    BY <1>3, <2>1
  <2> HIDE DEF above
  <2>3. Cardinality(above(f)) <= Cardinality(above(e))
    BY <1>2, <2>1, <2>2, FS_Subset
  <2> QED
    BY <1>1, <1>2, <2>1, <2>3
<1>4. ASSUME S # {} PROVE Top(S, n) # {}
  <2>1. PICK e \in S : e.seq = Newest(S) /\ \A f \in S : f.seq <= Newest(S)
    BY <1>4, Ends
  <2>2. above(e) = {}
    BY <2>1
  <2>3. Cardinality(above(e)) = 0
    BY <2>2, FS_EmptySet
  <2> HIDE DEF above
  <2> QED
    BY <1>1, <2>1, <2>3
<1>5. Top(S, n) \in SUBSET S
  BY <1>1
<1> HIDE DEF above
<1> QED
  BY <1>3, <1>4, <1>5, FS_Subset

(* A merged list has the cursors of both, and is finite like them.         *)
LEMMA Merged ==
    ASSUME NEW S, NEW T, IsFiniteSet(S), IsFiniteSet(T)
    PROVE  /\ IsFiniteSet(Merge(S, T))
           /\ S \subseteq Merge(S, T)
           /\ Merge(S, T) \subseteq S \cup T
           /\ \A e \in S \cup T : \E f \in Merge(S, T) : f.seq = e.seq
           /\ \A e \in T : e \in Merge(S, T) \/ \E f \in S : f.seq = e.seq
<1>1. {e \in T : \A f \in S : f.seq # e.seq} \in SUBSET T
  OBVIOUS
<1>2. IsFiniteSet(Merge(S, T))
  BY <1>1, FS_Subset, FS_Union DEF Merge
<1> QED
  BY <1>2 DEF Merge

-----------------------------------------------------------------------------
(* The inductive invariant.                                                *)

(* Entries that call themselves of this run are what the ring numbered.    *)
Genuine(entries) ==
    \A e \in entries :
        /\ e.run <= run
        /\ e.run = run => /\ e.seq < nextSeq
                          /\ \A r \in ring : r.seq = e.seq => EntryOf(r) = e

(* The records a query asks for, by its cursors.                           *)
Asked(r, since, before) == r.seq > since /\ (before = None \/ r.seq < before)

(* What is known of a page from the time it is read to that of delivery:   *)
(* everything the query asked for and the ring of that run still holds,    *)
(* down to where the page was cut off.                                     *)
PageInv(query, since, before) ==
    LET page == query.page
    IN  page # NoPage =>
          /\ IsFiniteSet(page.entries) /\ Genuine(page.entries)
          /\ page.run <= run /\ (page.run = run => page.last < nextSeq)
          /\ \A e \in page.entries :
                /\ e.run = page.run /\ e.level <= query.level
                /\ e.seq <= page.last /\ Asked(e, since, before)
          /\ page.more => page.entries # {}
          /\ page.run = run =>
                \A r \in ring :
                    /\ r.level <= query.level /\ r.seq <= page.last
                    /\ Asked(r, since, before)
                    /\ page.more => Oldest(page.entries) <= r.seq
                    => EntryOf(r) \in page.entries

(* Where a poll's page begins: a reset ignores the cursor.                 *)
Since(query) == IF query.page.reset THEN None ELSE query.cursor

PollInv ==
    \A i \in DOMAIN polls :
        /\ polls[i].level = level
        /\ PageInv(polls[i], Since(polls[i]), None)
        /\ polls[i].page # NoPage =>
              (polls[i].page.reset <=> polls[i].cursor > polls[i].page.last)

(* The request for an older page starts where the list ends, until it is   *)
(* overtaken; read in the list's run, it starts within that run's records. *)
OlderInv ==
    older # NoRequest =>
        /\ older.cursor # None
        /\ PageInv(older, None, older.cursor)
        /\ ~older.late =>
              /\ shown.entries # {} /\ older.cursor = Oldest(shown.entries)
              /\ older.level = level
              /\ (/\ spoiled = {} /\ older.page # NoPage
                  /\ \A e \in shown.entries : e.run = older.page.run)
                 => older.cursor <= older.page.last

RingInv ==
    /\ IsFiniteSet(ring)
    /\ \A r \in ring : r.run = run /\ r.seq < nextSeq
    /\ \A r, q \in ring : r.seq = q.seq => r = q

ListInv ==
    /\ IsFiniteSet(shown.entries) /\ Genuine(shown.entries)
    /\ ShownAsFiltered /\ NoHole /\ AtOldestIsHonest

ViewInv == ViewTypeOK /\ RingInv /\ PollInv /\ OlderInv /\ ListInv

(* What a step may do to the ring: nothing, a new record at its head and   *)
(* perhaps fewer old ones, or a new run that starts empty.                 *)
NewRecord ==
    /\ run' = run /\ nextSeq' = nextSeq + 1
    /\ \A r \in ring' : r.seq = nextSeq \/ \E q \in ring : EntryOf(q) = EntryOf(r)
NewRun == run' = run + 1 /\ nextSeq' = 1 /\ ring' = {}

LEMMA Sizes ==
    /\ Page \in Nat \ {0} /\ Keep \in Nat \ {0} /\ MaxRecords \in Nat \ {0}
    /\ Levels \subseteq Nat \ {0} /\ AllLevels \in Levels
    /\ MaxRestarts \in Nat /\ MaxPushes \in Nat /\ MaxEvents \in Nat
<1>1. /\ Levels \subseteq Nat \ {0} /\ Levels # {} /\ IsFiniteSet(Levels)
      /\ MaxRecords \in Nat \ {0} /\ MaxRestarts \in Nat /\ MaxPushes \in Nat
  BY LogRingAssumption
<1>2. AllLevels \in Levels
  BY <1>1, MaxMin DEF AllLevels
<1> QED
  BY <1>1, <1>2, SystemViewAssumption

(* A record and the entry a page makes of it have the same cursor, level   *)
(* and run.                                                                *)
LEMMA EntryFields ==
    /\ \A r \in Record : /\ EntryOf(r) \in Entry
                         /\ EntryOf(r).seq = r.seq /\ EntryOf(r).level = r.level
                         /\ EntryOf(r).run = r.run
    /\ \A r, q \in Record : EntryOf(r) = EntryOf(q) =>
          r.seq = q.seq /\ r.level = q.level /\ r.run = q.run
    /\ \A r \in Record : r.seq \in Nat \ {0} /\ r.run \in Nat /\ r.level \in Nat
    /\ \A e \in Entry : e.seq \in Nat \ {0} /\ e.run \in Nat /\ e.level \in Nat
<1>1. \A r \in Record : EntryOf(r).seq = r.seq /\ EntryOf(r).level = r.level
                         /\ EntryOf(r).run = r.run
  BY DEF EntryOf
<1>2. Levels \subseteq Nat
  BY Sizes
<1>3. \A r \in Record : EntryOf(r) \in Entry
  BY DEF Record, Entry, EntryOf
<1>4. /\ \A r \in Record : r.seq \in Nat \ {0} /\ r.run \in Nat /\ r.level \in Nat
      /\ \A e \in Entry : e.seq \in Nat \ {0} /\ e.run \in Nat /\ e.level \in Nat
  <2>1. \A r \in Record : r.seq \in Nat \ {0} /\ r.run \in 0 .. MaxRestarts
                         /\ r.level \in Levels
    BY DEF Record
  <2>2. \A e \in Entry : e.seq \in Nat \ {0} /\ e.run \in 0 .. MaxRestarts
                        /\ e.level \in Levels
    BY DEF Entry
  <2>3. 0 .. MaxRestarts \subseteq Nat
    BY Sizes
  <2> QED
    BY <1>2, <2>1, <2>2, <2>3
<1>5. \A r, q \in Record : EntryOf(r) = EntryOf(q) =>
          r.seq = q.seq /\ r.level = q.level /\ r.run = q.run
  BY <1>1
<1> QED
  BY <1>1, <1>3, <1>4, <1>5

LEMMA RingTypes ==
    ASSUME ViewTypeOK
    PROVE  /\ ring \subseteq Record /\ nextSeq \in Nat \ {0}
           /\ run \in 0 .. MaxRestarts /\ run \in Nat
           /\ pushes \in 0 .. MaxPushes /\ level \in Levels /\ level \in Nat
<1>1. /\ ring \subseteq Record /\ nextSeq \in Nat \ {0} /\ run \in 0 .. MaxRestarts
      /\ pushes \in 0 .. MaxPushes /\ level \in Levels
  BY DEF ViewTypeOK
<1>2. run \in Nat /\ level \in Nat
  BY <1>1, Sizes
<1> QED
  BY <1>1, <1>2

(* A pushed record has the next cursor; the others only get older.         *)
LEMMA PushStep ==
    ASSUME ViewTypeOK, RingInv, NEW step \in Steps, NEW l \in Levels, Push(step, l),
           run' = run
    PROVE  NewRecord /\ RingInv' /\ ring' \subseteq Record
<1> DEFINE record == [run |-> run, seq |-> nextSeq, age |-> 0, level |-> l]
           older1(r) == [r EXCEPT !.age = @ + step]
           aged == {older1(r) : r \in ring}
           grown == aged \cup {record}
<1>1. /\ ring \subseteq Record /\ nextSeq \in Nat \ {0} /\ run \in 0 .. MaxRestarts
      /\ step \in Int
  BY LogRingAssumption DEF ViewTypeOK
<1>2. record \in Record /\ record.seq = nextSeq /\ record.run = run
  BY <1>1 DEF Record
<1>3. \A r \in ring : /\ older1(r) \in Record /\ EntryOf(older1(r)) = EntryOf(r)
                      /\ older1(r).seq = r.seq /\ older1(r).run = r.run
  BY <1>1 DEF Record, EntryOf
<1>4. IsFiniteSet(grown)
  <2> DEFINE f == [r \in ring |-> older1(r)]
  <2>1. aged = {f[r] : r \in ring} /\ DOMAIN f = ring
    OBVIOUS
  <2> HIDE DEF f, older1
  <2>2. IsFiniteSet(aged)
    BY <2>1, ImageIsFinite DEF RingInv
  <2> HIDE DEF aged
  <2> QED
    BY <2>2, FS_AddElement
<1>5. InWindow(grown) \in SUBSET grown
  BY DEF InWindow
<1>6. \A r \in grown : r = record \/ \E q \in ring : r = older1(q)
  OBVIOUS
<1>7. ring' = Top(InWindow(grown), MaxRecords) /\ nextSeq' = nextSeq + 1
  BY DEF Push
<1> HIDE DEF record, older1, aged, grown
<1>8. \A r \in grown : r \in Record
  BY <1>2, <1>3, <1>6
<1>9. IsFiniteSet(InWindow(grown)) /\ \A r \in InWindow(grown) : r.seq \in Nat \ {0}
  BY <1>4, <1>5, <1>8, FS_Subset, EntryFields
<1>10. ring' \subseteq grown /\ IsFiniteSet(ring')
  BY <1>5, <1>7, <1>9, Sizes, TopIsUpper
<1>11. \A r \in ring' : r = record \/ \E q \in ring : r = older1(q)
  BY <1>6, <1>10
<1>12. NewRecord
  BY <1>2, <1>3, <1>7, <1>11 DEF NewRecord
<1>13. \A r \in ring' : r.run = run' /\ r.seq < nextSeq'
  BY <1>1, <1>2, <1>3, <1>7, <1>11, EntryFields DEF RingInv
<1>14. ASSUME NEW r \in ring', NEW q \in ring', r.seq = q.seq PROVE r = q
  <2>1. CASE r = record /\ q = record
    BY <2>1
  <2>2. CASE r = record /\ q # record
    BY <1>1, <1>2, <1>3, <1>11, <1>14, <2>2, EntryFields DEF RingInv
  <2>3. CASE r # record /\ q = record
    BY <1>1, <1>2, <1>3, <1>11, <1>14, <2>3, EntryFields DEF RingInv
  <2>4. CASE r # record /\ q # record
    <3>1. PICK r0 \in ring, q0 \in ring : r = older1(r0) /\ q = older1(q0)
      BY <1>11, <2>4
    <3> QED
      BY <1>3, <1>14, <3>1 DEF RingInv
  <2> QED
    BY <2>1, <2>2, <2>3, <2>4
<1> QED
  BY <1>8, <1>10, <1>12, <1>13, <1>14 DEF RingInv

LEMMA ServiceStep ==
    ASSUME ViewTypeOK, RingInv, Capture \/ Restart
    PROVE  /\ NewRecord \/ NewRun
           /\ RingInv'
           /\ ring' \subseteq Record /\ nextSeq' \in Nat \ {0}
           /\ run' \in 0 .. MaxRestarts /\ pushes' \in 0 .. MaxPushes
<1>1. CASE Capture
  <2>1. PICK step \in Steps, l \in Levels : Push(step, l)
    BY <1>1 DEF Capture
  <2>2. run' = run /\ pushes' = pushes + 1 /\ pushes < MaxPushes
    BY <1>1 DEF Capture
  <2>3. NewRecord /\ RingInv' /\ ring' \subseteq Record
    BY <2>1, <2>2, PushStep
  <2> QED
    BY <2>2, <2>3, RingTypes, Sizes DEF NewRecord
<1>2. CASE Restart
  <2>1. NewRun /\ pushes' = pushes /\ run < MaxRestarts
    BY <1>2 DEF Restart, NewRun
  <2> QED
    BY <2>1, RingTypes, Sizes, FS_EmptySet DEF NewRun, RingInv
<1> QED
  BY <1>1, <1>2

(* What the ring numbered stays so: a record keeps its cursor until it is  *)
(* evicted, and a cursor is given once in a run.                           *)
LEMMA RealKept ==
    ASSUME ViewTypeOK, RingInv, NewRecord \/ NewRun, ring' \subseteq Record,
           NEW e \in Entry, e.run <= run,
           e.run = run => /\ e.seq < nextSeq
                          /\ \A r \in ring : r.seq = e.seq => EntryOf(r) = e
    PROVE  /\ e.run <= run'
           /\ e.run = run' => /\ e.seq < nextSeq'
                              /\ \A r \in ring' : r.seq = e.seq => EntryOf(r) = e
<1>1. run \in Nat /\ nextSeq \in Nat /\ ring \subseteq Record
  BY RingTypes
<1>2. CASE NewRecord
  <2>1. ASSUME e.run = run, NEW r \in ring', r.seq = e.seq PROVE EntryOf(r) = e
    <3>1. PICK q \in ring : EntryOf(q) = EntryOf(r)
      BY <1>1, <1>2, <2>1, EntryFields DEF NewRecord
    <3>2. q.seq = e.seq
      BY <1>1, <2>1, <3>1, EntryFields
    <3> QED
      BY <2>1, <3>1, <3>2
  <2> QED
    BY <1>1, <1>2, <2>1, EntryFields DEF NewRecord
<1>3. CASE NewRun
  BY <1>1, <1>3, EntryFields DEF NewRun
<1> QED
  BY <1>2, <1>3

LEMMA PageKept ==
    ASSUME ViewTypeOK, RingInv, NewRecord \/ NewRun, ring' \subseteq Record,
           NEW q \in RequestType, NEW s, NEW b, PageInv(q, s, b)
    PROVE  PageInv(q, s, b)'
<1> SUFFICES ASSUME q.page # NoPage
             PROVE  PageInv(q, s, b)'
  BY DEF PageInv
<1> DEFINE p == q.page
<1>1. run \in Nat /\ nextSeq \in Nat /\ ring \subseteq Record
  BY RingTypes
<1>2. p.entries \subseteq Entry /\ p.run \in Nat /\ p.last \in Nat
  BY Sizes DEF RequestType, PageType
<1>3. Genuine(p.entries)'
  <2>1. ASSUME NEW e \in p.entries
        PROVE  /\ e.run <= run'
               /\ e.run = run' => /\ e.seq < nextSeq'
                                  /\ \A r \in ring' : r.seq = e.seq => EntryOf(r) = e
    BY <1>2, RealKept DEF PageInv, Genuine
  <2> QED
    BY <2>1 DEF Genuine
<1>4. p.run <= run' /\ (p.run = run' => p.last < nextSeq' /\ NewRecord)
  BY <1>1, <1>2 DEF PageInv, NewRecord, NewRun
<1>5. ASSUME p.run = run', NEW r \in ring', r.level <= q.level, r.seq <= p.last,
             Asked(r, s, b), p.more => Oldest(p.entries) <= r.seq
      PROVE  EntryOf(r) \in p.entries
  <2>1. NewRecord /\ run' = run /\ p.last < nextSeq
    BY <1>4, <1>5 DEF NewRecord, PageInv
  <2>2. r.seq # nextSeq
    BY <1>1, <1>2, <1>5, <2>1, EntryFields
  <2>3. PICK r0 \in ring : EntryOf(r0) = EntryOf(r)
    BY <2>1, <2>2 DEF NewRecord
  <2>4. r0.seq = r.seq /\ r0.level = r.level
    BY <1>1, <2>3, EntryFields
  <2>5. Asked(r0, s, b)
    BY <1>5, <2>4 DEF Asked
  <2>6. EntryOf(r0) \in p.entries
    BY <1>5, <2>1, <2>4, <2>5 DEF PageInv
  <2> QED
    BY <2>3, <2>6
<1> QED
  BY <1>3, <1>4, <1>5 DEF PageInv, Asked

(* What LogBuffer::read answers: the newest of what is asked for, in the   *)
(* filter, and everything of it unless the page says that there is more.   *)
LEMMA PageRead ==
    ASSUME ViewTypeOK, RingInv, NEW s \in Nat, NEW b \in Nat, NEW l \in Levels,
           NEW q, q.level = l, q.page = ReadPage(s, b, l, Page)
    PROVE  /\ q.page \in PageType /\ q.page # NoPage
           /\ q.page.reset <=> s > q.page.last
           /\ q.page.run = run /\ q.page.last = nextSeq - 1
           /\ PageInv(q, IF q.page.reset THEN None ELSE s, b)
<1> DEFINE p == q.page
           t == IF s > nextSeq - 1 THEN None ELSE s
           found == {r \in ring : Asked(r, t, b) /\ r.level <= l}
           all == Matching(t, b, l)
<1>1. p = [entries |-> Top(all, Page), reset |-> s > nextSeq - 1,
           more |-> Top(all, Page) # all, run |-> run, last |-> nextSeq - 1]
  BY DEF ReadPage
<1>2. /\ p.entries = Top(all, Page) /\ p.more = (Top(all, Page) # all)
      /\ p.more \in BOOLEAN /\ p.reset \in BOOLEAN
      /\ p.run = run /\ p.last = nextSeq - 1 /\ p.reset = (s > nextSeq - 1)
      /\ p = [entries |-> p.entries, reset |-> p.reset, more |-> p.more,
              run |-> run, last |-> nextSeq - 1]
  <2> HIDE DEF p, all
  <2> QED
    BY <1>1
<1>3. all = {EntryOf(r) : r \in found}
  BY DEF Matching, Asked
<1>4. IsFiniteSet(all)
  <2> DEFINE f == [r \in found |-> EntryOf(r)]
  <2>1. all = {f[r] : r \in found} /\ DOMAIN f = found
    BY <1>3
  <2>2. found \in SUBSET ring
    OBVIOUS
  <2> HIDE DEF f, found, all
  <2>3. IsFiniteSet(found)
    BY <2>2, FS_Subset DEF RingInv
  <2> QED
    BY <2>1, <2>3, ImageIsFinite
<1>5. found \subseteq ring
  OBVIOUS
<1>6. \A e \in all : \E r \in found : e = EntryOf(r)
  BY <1>3
<1>7. \A r \in found : EntryOf(r) \in all
  BY <1>3
<1>8. t \in Nat /\ t = IF p.reset THEN None ELSE s
  BY <1>2 DEF None
<1>9. \A r \in found : Asked(r, t, b) /\ r.level <= l
  OBVIOUS
<1>10. \A r \in ring : Asked(r, t, b) /\ r.level <= l => r \in found
  OBVIOUS
<1> HIDE DEF found, all, t, p
<1>11. \A e \in all : e.seq \in Nat \ {0} /\ e \in Entry
  BY <1>5, <1>6, RingTypes, EntryFields
<1>12. /\ p.entries \subseteq all /\ IsFiniteSet(p.entries)
       /\ \A e \in p.entries, f \in all : e.seq <= f.seq => f \in p.entries
       /\ p.more => p.entries # {}
  <2>1. Page \in Nat \ {0} /\ \A e \in all : e.seq \in Nat \ {0}
    BY <1>11, Sizes
  <2>2. /\ Top(all, Page) \subseteq all /\ IsFiniteSet(Top(all, Page))
        /\ \A e \in Top(all, Page), f \in all : e.seq <= f.seq => f \in Top(all, Page)
        /\ all # {} => Top(all, Page) # {}
    BY <1>4, <2>1, TopIsUpper
  <2>3. p.more => p.entries # {}
    BY <1>2, <2>2
  <2> QED
    BY <1>2, <2>2, <2>3
<1>13. p.entries \subseteq Entry
  BY <1>11, <1>12
<1>14. p \in PageType /\ p # NoPage
  <2>1. run \in 0 .. MaxRestarts /\ nextSeq - 1 \in Nat /\ run # -1
    BY RingTypes, Sizes
  <2>2. p \in [entries : SUBSET Entry, reset : BOOLEAN, more : BOOLEAN,
               run : 0 .. MaxRestarts, last : Nat]
    BY <1>2, <1>13, <2>1
  <2>3. NoPage.run = -1
    BY DEF NoPage
  <2> QED
    BY <1>2, <2>1, <2>2, <2>3 DEF PageType
<1>15. \A e \in p.entries :
          \E r \in ring : e = EntryOf(r) /\ Asked(r, t, b) /\ r.level <= l
  BY <1>5, <1>6, <1>9, <1>12
<1>16. ASSUME NEW e \in p.entries
       PROVE  /\ e.run = run /\ e.level <= l /\ e.seq <= p.last /\ Asked(e, t, b)
              /\ e.seq < nextSeq
              /\ \A r \in ring : r.seq = e.seq => EntryOf(r) = e
  <2>1. PICK r \in ring : e = EntryOf(r) /\ Asked(r, t, b) /\ r.level <= l
    BY <1>15
  <2>2. r \in Record /\ e.seq = r.seq /\ e.level = r.level /\ e.run = r.run
    BY <2>1, RingTypes, EntryFields
  <2>3. r.seq < nextSeq /\ r.run = run /\ r.seq \in Nat
    BY <2>2, EntryFields DEF RingInv
  <2>4. \A q1 \in ring : q1.seq = e.seq => q1 = r
    BY <2>2 DEF RingInv
  <2> QED
    BY <1>2, <2>1, <2>2, <2>3, <2>4, RingTypes DEF Asked
<1>17. Genuine(p.entries)
  BY <1>16, RingTypes DEF Genuine
<1>18. ASSUME NEW r \in ring, r.level <= l, Asked(r, t, b),
              p.more => Oldest(p.entries) <= r.seq
       PROVE  EntryOf(r) \in p.entries
  <2>1. EntryOf(r) \in all /\ EntryOf(r).seq = r.seq
    BY <1>7, <1>10, <1>18, RingTypes, EntryFields
  <2>2. CASE ~p.more
    BY <1>2, <2>1, <2>2
  <2>3. CASE p.more
    <3>1. \A e \in p.entries : e.seq \in Nat \ {0}
      BY <1>11, <1>12
    <3>2. PICK e \in p.entries : e.seq = Oldest(p.entries)
      BY <1>12, <2>3, <3>1, Ends
    <3> QED
      BY <1>12, <1>18, <2>1, <2>3, <3>2
  <2> QED
    BY <1>2, <2>2, <2>3
<1>19. PageInv(q, t, b)
  <2>1. p.run <= run /\ p.last < nextSeq
    BY <1>2, RingTypes
  <2> QED
    BY <1>2, <1>12, <1>16, <1>17, <1>18, <2>1 DEF PageInv, p
<1> QED
  BY <1>2, <1>8, <1>14, <1>19 DEF p

-----------------------------------------------------------------------------
(* Types.                                                                  *)

LEMMA OneRequest ==
    ASSUME NEW R, NEW x \in R
    PROVE  <<x>> \in Seq(R) /\ DOMAIN <<x>> = 1 .. 1 /\ <<x>>[1] = x
<1>1. <<x>> \in [1 .. 1 -> R]
  OBVIOUS
<1>2. <<x>> \in Seq(R)
  <2>1. 1 \in Nat
    OBVIOUS
  <2> QED
    BY <1>1, <2>1, SeqDef
<1> QED
  BY <1>1, <1>2

LEMMA WithOneMore ==
    ASSUME NEW R, NEW s \in Seq(R), NEW x \in R
    PROVE  /\ Append(s, x) \in Seq(R)
           /\ \A j \in DOMAIN Append(s, x) :
                 Append(s, x)[j] = x \/ (j \in DOMAIN s /\ Append(s, x)[j] = s[j])
<1>1. Len(s) \in Nat /\ DOMAIN s = 1 .. Len(s)
  BY LenProperties
<1>2. /\ Append(s, x) \in Seq(R) /\ Len(Append(s, x)) = Len(s) + 1
      /\ \A i \in 1 .. Len(s) : Append(s, x)[i] = s[i]
      /\ Append(s, x)[Len(s) + 1] = x
  BY AppendProperties
<1>3. DOMAIN Append(s, x) = 1 .. Len(s) + 1
  BY <1>2, LenProperties
<1> QED
  BY <1>1, <1>2, <1>3

LEMMA WithoutOne ==
    ASSUME NEW R, NEW s \in Seq(R), NEW i \in DOMAIN s
    PROVE  /\ Without(s, i) \in Seq(R)
           /\ \A j \in DOMAIN Without(s, i) :
                 \E k \in DOMAIN s : Without(s, i)[j] = s[k]
<1> DEFINE w == Without(s, i)
<1>1. Len(s) \in Nat /\ i \in 1 .. Len(s) /\ DOMAIN s = 1 .. Len(s)
  OBVIOUS
<1>2. Len(s) - 1 \in Nat /\ DOMAIN w = 1 .. Len(s) - 1
  BY <1>1 DEF Without
<1>3. ASSUME NEW j \in 1 .. Len(s) - 1
      PROVE  \E k \in DOMAIN s : w[j] = s[k]
  BY <1>1, <1>3 DEF Without
<1>4. \A k \in DOMAIN s : s[k] \in R
  BY <1>1
<1>5. w = [j \in 1 .. Len(s) - 1 |-> s[IF j < i THEN j ELSE j + 1]]
  BY DEF Without
<1>6. \A j \in 1 .. Len(s) - 1 : w[j] \in R
  BY <1>3, <1>4
<1>7. w \in [1 .. Len(s) - 1 -> R]
  BY <1>5, <1>6
<1>8. w \in Seq(R)
  BY <1>2, <1>7
<1> QED
  BY <1>2, <1>3, <1>8

LEMMA RequestTypes ==
    ASSUME ViewTypeOK
    PROVE  /\ \A i \in DOMAIN polls : polls[i] \in RequestType
           /\ older # NoRequest => older \in RequestType
           /\ \A q \in RequestType :
                 /\ q.cursor \in Nat /\ q.level \in Levels /\ q.page \in PageType
                 /\ q.page.entries \subseteq Entry /\ q.page.last \in Nat
                 /\ q.page.run \in Int /\ q # NoRequest
                 /\ q.page # NoPage => q.page.run \in 0 .. MaxRestarts
           /\ shown.entries \subseteq Entry /\ shown.atOldest \in BOOLEAN
<1>1. polls \in Seq(RequestType) /\ older \in RequestType \cup {NoRequest}
      /\ shown \in [entries : SUBSET Entry, atOldest : BOOLEAN]
  BY DEF ViewTypeOK
<1>2. ASSUME NEW q \in RequestType
      PROVE  /\ q.cursor \in Nat /\ q.level \in Levels /\ q.page \in PageType
             /\ q # NoRequest
  <2>1. q.cursor \in Nat /\ q.level \in Levels /\ q.page \in PageType
    BY DEF RequestType
  <2>2. NoRequest.cursor = -1
    BY DEF NoRequest, Query
  <2> QED
    BY <2>1, <2>2
<1>3. ASSUME NEW p \in PageType
      PROVE  /\ p.entries \subseteq Entry /\ p.last \in Nat /\ p.run \in Int
             /\ p # NoPage => p.run \in 0 .. MaxRestarts
  <2>1. CASE p = NoPage
    BY <2>1 DEF NoPage
  <2>2. CASE p # NoPage
    BY <2>2 DEF PageType
  <2> QED
    BY <2>1, <2>2
<1>4. \A i \in DOMAIN polls : polls[i] \in RequestType
  BY <1>1
<1>5. older # NoRequest => older \in RequestType
  BY <1>1
<1>6. shown.entries \subseteq Entry /\ shown.atOldest \in BOOLEAN
  BY <1>1
<1> QED
  BY <1>2, <1>3, <1>4, <1>5, <1>6

(* The cursors the view asks with.                                         *)
LEMMA CursorTypes ==
    ASSUME NEW S, IsFiniteSet(S), S \subseteq Entry
    PROVE  /\ Newest(S) \in Nat /\ Oldest(S) \in Nat
           /\ S # {} => Oldest(S) # None /\ Newest(S) # None
<1>1. \A e \in S : e.seq \in Nat \ {0}
  BY EntryFields
<1> QED
  BY <1>1, Ends, NoEnds DEF None

LEMMA QueryType ==
    ASSUME NEW c \in Nat, NEW l \in Levels
    PROVE  /\ Query(c, l) \in RequestType
           /\ Query(c, l).page = NoPage /\ Query(c, l).level = l
           /\ Query(c, l).cursor = c /\ Query(c, l).late = FALSE
<1>1. NoPage \in PageType
  BY DEF PageType
<1> QED
  BY <1>1 DEF Query, RequestType

(* What a delivered poll makes of the list.                                *)
LEMMA PollDelivered ==
    ASSUME ViewTypeOK, PollInv, ListInv, NEW i \in DOMAIN polls, DeliverPoll(i),
           NEW q, q = polls[i], NEW M, M = Merge(q.page.entries, shown.entries)
    PROVE  /\ q \in RequestType /\ q.page # NoPage
           /\ IsFiniteSet(q.page.entries) /\ IsFiniteSet(M) /\ M \subseteq Entry
           /\ shown'.entries \subseteq Entry /\ IsFiniteSet(shown'.entries)
           /\ shown' = [entries |-> shown'.entries, atOldest |-> shown'.atOldest]
           /\ shown'.atOldest \in BOOLEAN
           /\ (shown.entries = {} \/ q.page.reset) =>
                 /\ shown'.entries = q.page.entries
                 /\ shown'.atOldest = (q.page.entries = {})
                 /\ spoiled' = {}
           /\ ~(shown.entries = {} \/ q.page.reset) =>
                 /\ shown'.entries = Top(M, Keep)
                 /\ shown'.atOldest = (shown.atOldest /\ Top(M, Keep) = M)
                 /\ spoiled' = spoiled \cup PollSpoils(q)
<1>1. q \in RequestType /\ q.page # NoPage /\ q.page.entries \subseteq Entry
  BY RequestTypes DEF DeliverPoll
<1>2. IsFiniteSet(q.page.entries) /\ IsFiniteSet(shown.entries)
  BY <1>1 DEF PollInv, PageInv, ListInv
<1>3. shown.entries \subseteq Entry /\ shown.atOldest \in BOOLEAN
  BY RequestTypes
<1>4. IsFiniteSet(M) /\ M \subseteq Entry
  BY <1>1, <1>2, <1>3, Merged
<1>5. Top(M, Keep) \subseteq M /\ IsFiniteSet(Top(M, Keep))
  <2>1. \A e \in M : e.seq \in Nat \ {0}
    BY <1>4, EntryFields
  <2> QED
    BY <1>4, <2>1, Sizes, TopIsUpper
<1>6. /\ shown' = IF shown.entries = {} THEN StartOver(q.page) ELSE MergeNewer(shown, q.page)
      /\ spoiled' = IF shown.entries = {} \/ q.page.reset THEN {}
                    ELSE spoiled \cup PollSpoils(q)
  BY DEF DeliverPoll
<1>7. CASE shown.entries = {} \/ q.page.reset
  <2>1. shown' = [entries |-> q.page.entries, atOldest |-> q.page.entries = {}]
        /\ spoiled' = {}
    BY <1>6, <1>7 DEF MergeNewer, StartOver
  <2> QED
    BY <1>1, <1>2, <1>4, <1>7, <2>1
<1>8. CASE ~(shown.entries = {} \/ q.page.reset)
  <2>1. /\ shown' = [entries |-> Top(M, Keep),
                     atOldest |-> shown.atOldest /\ Top(M, Keep) = M]
        /\ spoiled' = spoiled \cup PollSpoils(q)
    BY <1>6, <1>8 DEF MergeNewer
  <2>2. shown'.entries \subseteq Entry /\ IsFiniteSet(shown'.entries)
    BY <1>4, <1>5, <2>1
  <2> QED
    BY <1>1, <1>2, <1>3, <1>4, <1>8, <2>1, <2>2
<1> QED
  BY <1>7, <1>8

(* What a delivered older page makes of it.                                *)
LEMMA OlderDelivered ==
    ASSUME ViewTypeOK, OlderInv, ListInv, DeliverOlder,
           NEW q, q = older, NEW M, M = Merge(shown.entries, q.page.entries)
    PROVE  /\ q \in RequestType /\ q.page # NoPage /\ q # NoRequest
           /\ IsFiniteSet(q.page.entries)
           /\ shown'.entries \subseteq Entry /\ IsFiniteSet(shown'.entries)
           /\ shown' = [entries |-> shown'.entries, atOldest |-> shown'.atOldest]
           /\ shown'.atOldest \in BOOLEAN
           /\ shown'.entries = IF q.page.entries = {} THEN shown.entries ELSE M
           /\ shown'.atOldest = (q.page.entries = {})
           /\ spoiled' = spoiled \cup OlderSpoils
<1>1. q \in RequestType /\ q.page # NoPage /\ q # NoRequest /\ q.page.entries \subseteq Entry
  BY RequestTypes DEF DeliverOlder
<1>2. IsFiniteSet(q.page.entries) /\ IsFiniteSet(shown.entries)
  BY <1>1 DEF OlderInv, PageInv, ListInv
<1>3. /\ shown.entries \subseteq Entry
      /\ shown = [entries |-> shown.entries, atOldest |-> shown.atOldest]
  BY DEF ViewTypeOK
<1>4. IsFiniteSet(M) /\ M \subseteq Entry
  BY <1>1, <1>2, <1>3, Merged
<1>5. shown' = AppendOlder(shown, q.page) /\ spoiled' = spoiled \cup OlderSpoils
  BY DEF DeliverOlder
<1>6. shown' = [entries |-> IF q.page.entries = {} THEN shown.entries ELSE M,
                atOldest |-> q.page.entries = {}]
  BY <1>3, <1>5 DEF AppendOlder
<1>7. shown'.entries \subseteq Entry /\ IsFiniteSet(shown'.entries)
  BY <1>2, <1>3, <1>4, <1>6
<1> QED
  BY <1>1, <1>2, <1>5, <1>6, <1>7

(* Every action leaves the requests typed; the rest is easier.             *)
LEMMA TypeStep ==
    ASSUME ViewInv, [ViewNext]_viewVars
    PROVE  ViewTypeOK'
<1>a. ViewTypeOK /\ RingInv /\ PollInv /\ OlderInv /\ ListInv
  BY DEF ViewInv
<1>b. /\ Newest(shown.entries) \in Nat /\ Oldest(shown.entries) \in Nat
      /\ shown.entries \subseteq Entry
  BY <1>a, RequestTypes, CursorTypes DEF ListInv
<1>c. /\ shown \in [entries : SUBSET Entry, atOldest : BOOLEAN]
      /\ level \in Levels /\ active \in BOOLEAN /\ paused \in BOOLEAN
      /\ polls \in Seq(RequestType) /\ older \in RequestType \cup {NoRequest}
      /\ events \in 0 .. MaxEvents
      /\ spoiled \subseteq {"polls out of step", "unnoticed restart", "late older page"}
  BY <1>a DEF ViewTypeOK
<1>d. /\ ring \subseteq Record /\ nextSeq \in Nat \ {0} /\ run \in 0 .. MaxRestarts
      /\ pushes \in 0 .. MaxPushes
  BY <1>a, RingTypes
<1>e. ASSUME NEW c \in Nat, NEW l \in Levels
      PROVE  <<Query(c, l)>> \in Seq(RequestType) /\ <<>> \in Seq(RequestType)
  BY QueryType, OneRequest, EmptySeq
<1>g. events < MaxEvents => events + 1 \in 0 .. MaxEvents
  <2>1. events \in 0 .. MaxEvents
    BY <1>c
  <2>2. MaxEvents \in Nat
    BY Sizes
  <2> QED
    BY <2>1, <2>2
<1>f. ASSUME NEW changed PROVE Overtaken(changed) \in RequestType \cup {NoRequest}
  <2>1. older # NoRequest => [older EXCEPT !.late = TRUE] \in RequestType
    BY <1>c DEF RequestType
  <2> QED
    BY <1>c, <2>1 DEF Overtaken
<1> USE DEF ringVars
<1>1. CASE Service
  <2>1. /\ ring' \subseteq Record /\ nextSeq' \in Nat \ {0}
        /\ run' \in 0 .. MaxRestarts /\ pushes' \in 0 .. MaxPushes
    BY <1>1, <1>a, ServiceStep DEF Service
  <2> QED
    BY <1>1, <1>c, <2>1 DEF Service, ViewTypeOK
<1>2. CASE Poll
  <2>1. Request(Newest(shown.entries)) \in RequestType
    BY <1>b, <1>c, QueryType DEF Request
  <2>2. polls' \in Seq(RequestType)
    BY <1>2, <1>c, <2>1, WithOneMore DEF Poll
  <2> QED
    BY <1>2, <1>c, <1>d, <2>2 DEF Poll, ViewTypeOK
<1>3. CASE LoadOlder
  <2>1. older' \in RequestType
    BY <1>3, <1>b, <1>c, QueryType DEF LoadOlder, Request
  <2> QED
    BY <1>3, <1>c, <1>d, <2>1 DEF LoadOlder, ViewTypeOK
<1>4. ASSUME NEW i \in 1 .. MaxPolls, ServePoll(i) PROVE ViewTypeOK'
  <2>1. i \in DOMAIN polls /\ polls[i] \in RequestType
    BY <1>4, <1>a, RequestTypes DEF ServePoll
  <2> DEFINE p == ReadPage(polls[i].cursor, None, polls[i].level, Page)
  <2>2. p \in PageType
    <3>1. /\ polls[i].cursor \in Nat /\ polls[i].level \in Levels /\ None \in Nat
      BY <1>a, <2>1, RequestTypes DEF None
    <3>2. [level |-> polls[i].level, page |-> p].level = polls[i].level
          /\ [level |-> polls[i].level, page |-> p].page = p
      OBVIOUS
    <3> HIDE DEF p
    <3> QED
      BY <1>a, <3>1, <3>2, PageRead DEF p
  <2>3. polls' = [polls EXCEPT ![i].page = p]
    BY <1>4 DEF ServePoll
  <2> HIDE DEF p
  <2>4. [polls[i] EXCEPT !.page = p] \in RequestType
    BY <2>1, <2>2 DEF RequestType
  <2>5. polls' \in Seq(RequestType)
    <3>1. polls' = [polls EXCEPT ![i] = [polls[i] EXCEPT !.page = p]]
      BY <2>3
    <3>2. i \in 1 .. Len(polls)
      BY <1>c, <2>1, LenProperties
    <3> QED
      BY <1>c, <2>4, <3>1, <3>2, ExceptSeq
  <2> QED
    BY <1>4, <1>c, <1>d, <2>5 DEF ServePoll, ViewTypeOK
<1>5. ASSUME NEW i \in 1 .. MaxPolls, DeliverPoll(i) PROVE ViewTypeOK'
  <2>1. i \in DOMAIN polls /\ polls' = Without(polls, i)
        /\ UNCHANGED <<ringVars, level, active, paused, events>>
    BY <1>5 DEF DeliverPoll
  <2>2. polls' \in Seq(RequestType)
    BY <1>c, <2>1, WithoutOne
  <2>3. /\ shown'.entries \subseteq Entry /\ shown'.atOldest \in BOOLEAN
        /\ shown' = [entries |-> shown'.entries, atOldest |-> shown'.atOldest]
        /\ spoiled' \in {{}, spoiled \cup PollSpoils(polls[i])}
    BY <1>5, <1>a, <2>1, PollDelivered
  <2>4. PollSpoils(polls[i]) \subseteq {"polls out of step", "unnoticed restart"}
    BY DEF PollSpoils
  <2>5. older' \in RequestType \cup {NoRequest}
    BY <1>5, <1>f DEF DeliverPoll
  <2>6. shown' \in [entries : SUBSET Entry, atOldest : BOOLEAN]
    BY <2>3
  <2>7. spoiled' \subseteq {"polls out of step", "unnoticed restart", "late older page"}
    BY <1>c, <2>3, <2>4
  <2> QED
    BY <1>c, <1>d, <2>1, <2>2, <2>5, <2>6, <2>7 DEF ViewTypeOK
<1>6. CASE ServeOlder
  <2>1. older \in RequestType
    BY <1>6, <1>c DEF ServeOlder
  <2> DEFINE p == ReadPage(None, older.cursor, older.level, Page)
  <2>2. p \in PageType
    <3>1. /\ older.cursor \in Nat /\ older.level \in Levels /\ None \in Nat
      BY <1>a, <2>1, RequestTypes DEF None
    <3>2. [level |-> older.level, page |-> p].level = older.level
          /\ [level |-> older.level, page |-> p].page = p
      OBVIOUS
    <3> HIDE DEF p
    <3> QED
      BY <1>a, <3>1, <3>2, PageRead DEF p
  <2>3. older' = [older EXCEPT !.page = p]
    BY <1>6 DEF ServeOlder
  <2> HIDE DEF p
  <2>4. older' \in RequestType
    BY <2>1, <2>2, <2>3 DEF RequestType
  <2> QED
    BY <1>6, <1>c, <1>d, <2>4 DEF ServeOlder, ViewTypeOK
<1>7. CASE DeliverOlder
  <2>1. /\ shown'.entries \subseteq Entry /\ shown'.atOldest \in BOOLEAN
        /\ shown' = [entries |-> shown'.entries, atOldest |-> shown'.atOldest]
        /\ spoiled' = spoiled \cup OlderSpoils
    BY <1>7, <1>a, OlderDelivered
  <2>2. OlderSpoils \subseteq {"late older page", "unnoticed restart"}
    BY DEF OlderSpoils
  <2>3. shown' \in [entries : SUBSET Entry, atOldest : BOOLEAN]
    BY <2>1
  <2>4. spoiled' \subseteq {"polls out of step", "unnoticed restart", "late older page"}
    BY <1>c, <2>1, <2>2
  <2> QED
    BY <1>7, <1>c, <1>d, <2>3, <2>4 DEF DeliverOlder, ViewTypeOK
<1>8. CASE RequestFails
  <2>1. polls' \in Seq(RequestType)
    <3>1. (\E i \in DOMAIN polls : polls' = Without(polls, i)) \/ UNCHANGED polls
      BY <1>8 DEF RequestFails
    <3>2. polls \in Seq(RequestType)
      BY <1>c
    <3>3. ASSUME NEW i \in DOMAIN polls PROVE Without(polls, i) \in Seq(RequestType)
      BY <3>2, WithoutOne
    <3> QED
      BY <3>1, <3>2, <3>3
  <2>2. older' \in RequestType \cup {NoRequest}
    BY <1>8, <1>c DEF RequestFails
  <2>3. events' \in 0 .. MaxEvents
    <3>1. events' = events + 1 /\ events < MaxEvents
      BY <1>8 DEF RequestFails
    <3> QED
      BY <1>g, <3>1
  <2>4. UNCHANGED <<ringVars, shown, level, active, paused, spoiled>>
    BY <1>8 DEF RequestFails
  <2> QED
    BY <1>c, <1>d, <2>1, <2>2, <2>3, <2>4 DEF ViewTypeOK
<1>9. CASE ChangeFilter
  <2>1. /\ level' \in Levels /\ active' = active /\ paused' = paused
        /\ events' \in 0 .. MaxEvents /\ spoiled' = {} /\ UNCHANGED ringVars
    <3>1. events' = events + 1 /\ events < MaxEvents
      BY <1>9 DEF ChangeFilter
    <3>2. events' \in 0 .. MaxEvents
      BY <1>g, <3>1
    <3> QED
      BY <1>9, <3>2 DEF ChangeFilter
  <2>2. shown' \in [entries : SUBSET Entry, atOldest : BOOLEAN]
    BY <1>9 DEF ChangeFilter, Blank
  <2>3. older' \in RequestType \cup {NoRequest}
    BY <1>9, <1>f DEF ChangeFilter
  <2>4. polls' \in Seq(RequestType)
    BY <1>9, <1>e, <2>1, NoEnds DEF ChangeFilter, RestartEffect
  <2> QED
    BY <1>c, <1>d, <2>1, <2>2, <2>3, <2>4 DEF ViewTypeOK
<1>10. CASE TogglePause \/ SwitchTab
  <2>1. /\ level' = level /\ active' \in BOOLEAN /\ paused' \in BOOLEAN
        /\ events' \in 0 .. MaxEvents
        /\ UNCHANGED <<ringVars, shown, older, spoiled>>
    <3>1. events' = events + 1 /\ events < MaxEvents
      BY <1>10 DEF TogglePause, SwitchTab
    <3>2. events' \in 0 .. MaxEvents
      BY <1>g, <3>1
    <3>3. active' \in BOOLEAN /\ paused' \in BOOLEAN
      BY <1>10, <1>c DEF TogglePause, SwitchTab
    <3> QED
      BY <1>10, <3>2, <3>3 DEF TogglePause, SwitchTab
  <2>2. polls' \in Seq(RequestType)
    BY <1>10, <1>b, <1>c, <1>e, <2>1 DEF TogglePause, SwitchTab, RestartEffect
  <2> QED
    BY <1>c, <1>d, <2>1, <2>2 DEF ViewTypeOK
<1>11. CASE UNCHANGED viewVars
  BY <1>11, <1>c, <1>d DEF viewVars, ViewTypeOK
<1> QED
  BY <1>1, <1>2, <1>3, <1>4, <1>5, <1>6, <1>7, <1>8, <1>9, <1>10, <1>11 DEF ViewNext

-----------------------------------------------------------------------------
(* The polls in flight.                                                    *)

RingMoves == \/ UNCHANGED ringVars
             \/ (NewRecord \/ NewRun) /\ ring' \subseteq Record

(* A page stays what it is, whatever the ring does.                        *)
LEMMA PageStays ==
    ASSUME ViewTypeOK, RingInv, RingMoves, NEW q, NEW s, NEW b, PageInv(q, s, b),
           q \in RequestType
    PROVE  PageInv(q, s, b)'
<1>1. CASE UNCHANGED ringVars
  BY <1>1 DEF ringVars, PageInv, Genuine
<1>2. CASE (NewRecord \/ NewRun) /\ ring' \subseteq Record
  BY <1>2, PageKept
<1> QED
  BY <1>1, <1>2 DEF RingMoves

Fine(q) ==
    /\ q.level = level /\ PageInv(q, Since(q), None)
    /\ q.page # NoPage => (q.page.reset <=> q.cursor > q.page.last)

LEMMA AllFine ==
    ASSUME \A j \in DOMAIN polls' : \E q : q = polls'[j] /\ Fine(q)'
    PROVE  PollInv'
<1> SUFFICES ASSUME NEW j \in DOMAIN polls'
             PROVE  /\ polls'[j].level = level'
                    /\ PageInv(polls[j], Since(polls[j]), None)'
                    /\ polls'[j].page # NoPage =>
                          (polls'[j].page.reset <=> polls'[j].cursor > polls'[j].page.last)
  BY DEF PollInv
<1>1. PICK q : q = polls'[j] /\ Fine(q)'
  OBVIOUS
<1>2. PageInv(polls[j], Since(polls[j]), None)'
  BY <1>1 DEF Fine, PageInv, Genuine, Since
<1> QED
  BY <1>1, <1>2 DEF Fine

LEMMA StaysFine ==
    ASSUME ViewTypeOK, RingInv, PollInv, RingMoves, level' = level,
           NEW k \in DOMAIN polls, NEW q, q = polls[k]
    PROVE  Fine(q)'
<1>1. q \in RequestType
  BY RequestTypes
<1>2. Fine(q)
  BY DEF PollInv, Fine
<1>3. PageInv(q, Since(q), None)'
  BY <1>1, <1>2, PageStays DEF Fine
<1> QED
  BY <1>2, <1>3 DEF Fine

LEMMA SentIsFine ==
    ASSUME NEW q, q.page = NoPage, q.level = level'
    PROVE  Fine(q)'
  BY DEF Fine, PageInv

LEMMA PollStep ==
    ASSUME ViewInv, [ViewNext]_viewVars
    PROVE  PollInv'
<1>a. ViewTypeOK /\ RingInv /\ PollInv /\ OlderInv /\ ListInv
  BY DEF ViewInv
<1>b. /\ Newest(shown.entries) \in Nat /\ level \in Levels /\ polls \in Seq(RequestType)
  BY <1>a, RequestTypes, RingTypes, CursorTypes DEF ListInv, ViewTypeOK
<1>c. ASSUME RingMoves, UNCHANGED <<polls, level>> PROVE PollInv'
  <2>1. \A j \in DOMAIN polls' : \E q : q = polls'[j] /\ Fine(q)'
    <3> TAKE j \in DOMAIN polls'
    <3>1. PICK q : q = polls[j]
      OBVIOUS
    <3>2. j \in DOMAIN polls /\ q = polls'[j] /\ level' = level
      BY <1>c, <3>1
    <3>3. Fine(q)'
      BY <1>a, <1>c, <3>1, <3>2, StaysFine
    <3> QED
      BY <3>2, <3>3
  <2> QED
    BY <2>1, AllFine
<1>d. ASSUME NEW i \in DOMAIN polls, polls' = Without(polls, i), UNCHANGED ringVars,
             level' = level
      PROVE  PollInv'
  <2>1. \A j \in DOMAIN polls' : \E q : q = polls'[j] /\ Fine(q)'
    <3> TAKE j \in DOMAIN polls'
    <3>1. PICK k \in DOMAIN polls : polls'[j] = polls[k]
      BY <1>b, <1>d, WithoutOne
    <3>2. PICK q : q = polls[k]
      OBVIOUS
    <3>3. Fine(q)'
      BY <1>a, <1>d, <3>2, StaysFine DEF RingMoves
    <3> QED
      BY <3>1, <3>2, <3>3
  <2> QED
    BY <2>1, AllFine
<1>e. ASSUME NEW c \in Nat, polls' = IF active' THEN <<Query(c, level')>> ELSE <<>>,
             level' \in Levels
      PROVE  PollInv'
  <2>1. CASE active'
    <3>1. PICK q : q = Query(c, level')
      OBVIOUS
    <3>2. q.page = NoPage /\ q.level = level'
      BY <1>e, <3>1, QueryType
    <3>3. Fine(q)'
      BY <3>2, SentIsFine
    <3>4. polls' = <<q>> /\ DOMAIN <<q>> = 1 .. 1 /\ <<q>>[1] = q
      BY <1>e, <2>1, <3>1, OneRequest
    <3>5. \A j \in DOMAIN polls' : polls'[j] = q
      BY <3>4
    <3> QED
      BY <3>3, <3>5, AllFine
  <2>2. CASE ~active'
    <3>1. DOMAIN polls' = {}
      BY <1>e, <2>2
    <3> QED
      BY <3>1, AllFine
  <2> QED
    BY <2>1, <2>2
<1>1. CASE Service
  <2>1. RingMoves /\ UNCHANGED <<polls, level>>
    BY <1>1, <1>a, ServiceStep DEF Service, RingMoves
  <2> QED
    BY <2>1, <1>c
<1>2. CASE Poll
  <2>1. PICK x : x = Request(Newest(shown.entries))
    OBVIOUS
  <2>2. x \in RequestType /\ x.page = NoPage /\ x.level = level /\ level' = level
    BY <1>2, <1>b, <2>1, QueryType DEF Request, Poll
  <2>3. polls' = Append(polls, x) /\ UNCHANGED ringVars
    BY <1>2, <2>1 DEF Poll
  <2>4. Fine(x)'
    BY <2>2, SentIsFine
  <2>5. \A j \in DOMAIN polls' : \E q : q = polls'[j] /\ Fine(q)'
    <3> TAKE j \in DOMAIN polls'
    <3>1. CASE polls'[j] = x
      BY <2>4, <3>1
    <3>2. CASE j \in DOMAIN polls /\ polls'[j] = polls[j]
      <4>1. PICK q : q = polls[j]
        OBVIOUS
      <4>2. Fine(q)'
        BY <1>a, <2>2, <2>3, <3>2, <4>1, StaysFine DEF RingMoves
      <4> QED
        BY <3>2, <4>1, <4>2
    <3> QED
      BY <1>b, <2>2, <2>3, <3>1, <3>2, WithOneMore
  <2> QED
    BY <2>5, AllFine
<1>3. CASE LoadOlder \/ ServeOlder \/ DeliverOlder
  BY <1>3, <1>c DEF LoadOlder, ServeOlder, DeliverOlder, RingMoves
<1>4. ASSUME NEW i \in 1 .. MaxPolls, ServePoll(i) PROVE PollInv'
  <2>1. /\ i \in DOMAIN polls /\ polls[i] \in RequestType
        /\ UNCHANGED ringVars /\ level' = level
    BY <1>4, <1>a, RequestTypes DEF ServePoll
  <2>2. PICK p : p = ReadPage(polls[i].cursor, None, polls[i].level, Page)
    OBVIOUS
  <2>3. PICK x : x = [polls[i] EXCEPT !.page = p]
    OBVIOUS
  <2>4. /\ x.page = p /\ x.cursor = polls[i].cursor /\ x.level = polls[i].level
    BY <2>1, <2>3 DEF RequestType
  <2>5. polls' = [polls EXCEPT ![i] = x]
    BY <1>4, <2>2, <2>3 DEF ServePoll
  <2>6. /\ x.page.reset <=> x.cursor > x.page.last
        /\ PageInv(x, Since(x), None)
    <3>1. polls[i].cursor \in Nat /\ polls[i].level \in Levels /\ None \in Nat
      BY <1>a, <2>1, RequestTypes DEF None
    <3> QED
      BY <1>a, <2>2, <2>4, <3>1, PageRead DEF Since
  <2>7. polls[i].level = level
    BY <1>a, <2>1 DEF PollInv
  <2>8. PageInv(x, Since(x), None)'
    BY <2>1, <2>6 DEF ringVars, PageInv, Genuine
  <2>9. Fine(x)'
    BY <2>1, <2>4, <2>6, <2>7, <2>8 DEF Fine
  <2>10. \A j \in DOMAIN polls' : \E q : q = polls'[j] /\ Fine(q)'
    <3> TAKE j \in DOMAIN polls'
    <3>1. j \in DOMAIN polls
      BY <2>5
    <3>2. CASE j = i
      BY <2>5, <2>9, <3>1, <3>2
    <3>3. CASE j # i
      <4>1. PICK q : q = polls[j]
        OBVIOUS
      <4>2. Fine(q)'
        BY <1>a, <2>1, <3>1, <4>1, StaysFine DEF RingMoves
      <4> QED
        BY <2>5, <3>1, <3>3, <4>1, <4>2
    <3> QED
      BY <3>2, <3>3
  <2> QED
    BY <2>10, AllFine
<1>5. ASSUME NEW i \in 1 .. MaxPolls, DeliverPoll(i) PROVE PollInv'
  BY <1>5, <1>d DEF DeliverPoll
<1>6. CASE RequestFails
  BY <1>6, <1>c, <1>d DEF RequestFails, RingMoves
<1>7. CASE ChangeFilter
  <2>1. Newest({}) \in Nat
    BY NoEnds
  <2> QED
    BY <1>7, <1>e, <2>1 DEF ChangeFilter, RestartEffect
<1>8. CASE TogglePause \/ SwitchTab
  BY <1>8, <1>b, <1>e DEF TogglePause, SwitchTab, RestartEffect
<1>9. CASE UNCHANGED viewVars
  BY <1>9, <1>c DEF viewVars, ringVars, RingMoves
<1> QED
  BY <1>1, <1>2, <1>3, <1>4, <1>5, <1>6, <1>7, <1>8, <1>9 DEF ViewNext

-----------------------------------------------------------------------------
(* The request for an older page.                                          *)

OlderFine(q) ==
    /\ q.cursor # None
    /\ PageInv(q, None, q.cursor)
    /\ ~q.late =>
          /\ shown.entries # {} /\ q.cursor = Oldest(shown.entries)
          /\ q.level = level
          /\ (/\ spoiled = {} /\ q.page # NoPage
              /\ \A e \in shown.entries : e.run = q.page.run)
             => q.cursor <= q.page.last

LEMMA OlderIsFine ==
    ASSUME NEW q, q = older', q # NoRequest => OlderFine(q)'
    PROVE  OlderInv'
<1> SUFFICES ASSUME older' # NoRequest
             PROVE  /\ older'.cursor # None
                    /\ PageInv(older, None, older.cursor)'
                    /\ ~older'.late =>
                          /\ shown'.entries # {} /\ older'.cursor = Oldest(shown'.entries)
                          /\ older'.level = level'
                          /\ (/\ spoiled' = {} /\ older'.page # NoPage
                              /\ \A e \in shown'.entries : e.run = older'.page.run)
                             => older'.cursor <= older'.page.last
  BY DEF OlderInv
<1>1. OlderFine(q)'
  OBVIOUS
<1>2. PageInv(older, None, older.cursor)'
  BY <1>1 DEF OlderFine, PageInv, Genuine, Asked
<1> QED
  BY <1>1, <1>2 DEF OlderFine

(* Overtaking a request only marks it as late.                             *)
LEMMA OvertakenIs ==
    ASSUME ViewTypeOK, NEW c \in BOOLEAN, NEW q, q = Overtaken(c), q # NoRequest
    PROVE  /\ older # NoRequest /\ older \in RequestType
           /\ q.cursor = older.cursor /\ q.page = older.page /\ q.level = older.level
           /\ q.late = (older.late \/ c) /\ q \in RequestType
<1>1. older # NoRequest
  BY DEF Overtaken
<1>2. older \in RequestType
  BY <1>1, RequestTypes
<1>3. CASE c
  BY <1>1, <1>2, <1>3 DEF Overtaken, RequestType
<1>4. CASE ~c
  BY <1>1, <1>2, <1>4 DEF Overtaken, RequestType
<1> QED
  BY <1>3, <1>4

(* A poll that has spoiled nothing meets the list and shares its run.      *)
LEMMA SpoilsNothing ==
    ASSUME NEW q, PollSpoils(q) = {}
    PROVE  /\ q.page.entries # {} =>
                 /\ Oldest(q.page.entries) > Newest(shown.entries) =>
                       ~q.page.more /\ ~(q.cursor > Newest(shown.entries))
                 /\ ~(Newest(q.page.entries) < Oldest(shown.entries))
           /\ q.cursor <= q.page.last => \A e \in shown.entries : e.run = q.page.run
<1> DEFINE gap == /\ q.page.entries # {}
                  /\ \/ /\ Oldest(q.page.entries) > Newest(shown.entries)
                        /\ q.page.more \/ q.cursor > Newest(shown.entries)
                     \/ Newest(q.page.entries) < Oldest(shown.entries)
           mixed == /\ q.cursor <= q.page.last
                    /\ \E e \in shown.entries : e.run # q.page.run
<1>1. PollSpoils(q) = (IF gap THEN {"polls out of step"} ELSE {})
                        \cup (IF mixed THEN {"unnoticed restart"} ELSE {})
  BY DEF PollSpoils
<1>2. ~gap /\ ~mixed
  <2> HIDE DEF gap, mixed
  <2>1. (IF gap THEN {"polls out of step"} ELSE {}) = {}
    BY <1>1
  <2>2. (IF mixed THEN {"unnoticed restart"} ELSE {}) = {}
    BY <1>1
  <2> QED
    BY <2>1, <2>2
<1>3. ~gap
  BY <1>2
<1>4. ~mixed
  BY <1>2
<1>5. q.cursor <= q.page.last => \A e \in shown.entries : e.run = q.page.run
  BY <1>4
<1>6. q.page.entries # {} =>
         /\ Oldest(q.page.entries) > Newest(shown.entries) =>
               ~q.page.more /\ ~(q.cursor > Newest(shown.entries))
         /\ ~(Newest(q.page.entries) < Oldest(shown.entries))
  BY <1>3
<1> QED
  BY <1>5, <1>6

(* The list is of one run after such a poll.                               *)
LEMMA NotMixed ==
    ASSUME ViewTypeOK, PollInv, NEW i \in DOMAIN polls, NEW q, q = polls[i],
           q.page # NoPage, ~q.page.reset, PollSpoils(q) = {}
    PROVE  \A e \in shown.entries \cup q.page.entries : e.run = q.page.run
<1>1. ~(q.cursor > q.page.last)
  BY DEF PollInv
<1>2. q.cursor \in Nat /\ q.page.last \in Nat
  BY RequestTypes
<1>3. \A e \in shown.entries : e.run = q.page.run
  BY <1>1, <1>2, SpoilsNothing
<1>4. \A e \in q.page.entries : e.run = q.page.run
  BY DEF PollInv, PageInv
<1> QED
  BY <1>3, <1>4

LEMMA OlderStep ==
    ASSUME ViewInv, [ViewNext]_viewVars
    PROVE  OlderInv'
<1>a. ViewTypeOK /\ RingInv /\ PollInv /\ OlderInv /\ ListInv
  BY DEF ViewInv
<1>q. PICK q : q = older'
  OBVIOUS
<1>b. older # NoRequest => OlderFine(older) /\ older \in RequestType
  <2>1. older # NoRequest => older \in RequestType
    BY <1>a, RequestTypes
  <2> QED
    BY <1>a, <2>1 DEF OlderInv, OlderFine
<1>c. ASSUME RingMoves, UNCHANGED <<older, shown, level, spoiled>> PROVE OlderInv'
  <2>1. q = older
    BY <1>c, <1>q
  <2>2. ASSUME q # NoRequest PROVE OlderFine(q)'
    <3>1. OlderFine(q) /\ q \in RequestType
      BY <1>b, <2>1, <2>2
    <3>2. PageInv(q, None, q.cursor)'
      BY <1>a, <1>c, <3>1, PageStays DEF OlderFine
    <3> QED
      BY <1>c, <3>1, <3>2 DEF OlderFine
  <2> QED
    BY <1>q, <2>2, OlderIsFine
<1>d. ASSUME older' = NoRequest PROVE OlderInv'
  BY <1>d DEF OlderInv
<1>e. ASSUME q # NoRequest, NEW c \in BOOLEAN, q = Overtaken(c), UNCHANGED ringVars
      PROVE  /\ q.cursor # None /\ PageInv(q, None, q.cursor)'
             /\ OlderFine(older)
             /\ q.cursor = older.cursor /\ q.page = older.page /\ q.level = older.level
             /\ q.late = (older.late \/ c)
  <2>1. /\ older # NoRequest /\ q.cursor = older.cursor /\ q.page = older.page
        /\ q.level = older.level /\ q.late = (older.late \/ c) /\ q \in RequestType
    BY <1>a, <1>e, OvertakenIs
  <2>2. OlderFine(older)
    BY <1>b, <2>1
  <2>3. PageInv(q, None, q.cursor)
    BY <2>1, <2>2 DEF OlderFine, PageInv
  <2>4. PageInv(q, None, q.cursor)'
    BY <1>a, <1>e, <2>1, <2>3, PageStays DEF RingMoves
  <2> QED
    BY <2>1, <2>2, <2>4 DEF OlderFine
<1>1. CASE Service
  <2>1. RingMoves /\ UNCHANGED <<older, shown, level, spoiled>>
    BY <1>1, <1>a, ServiceStep DEF Service, RingMoves
  <2> QED
    BY <2>1, <1>c
<1>2. CASE Poll \/ (\E i \in 1 .. MaxPolls : ServePoll(i)) \/ TogglePause \/ SwitchTab
  BY <1>2, <1>c DEF Poll, ServePoll, TogglePause, SwitchTab, RingMoves
<1>3. CASE LoadOlder
  <2>1. q = Query(Oldest(shown.entries), level) /\ shown.entries # {}
    BY <1>3, <1>q DEF LoadOlder, Request
  <2>2. Oldest(shown.entries) \in Nat /\ Oldest(shown.entries) # None
    BY <1>a, <2>1, RequestTypes, CursorTypes DEF ListInv
  <2>3. q.page = NoPage /\ q.cursor = Oldest(shown.entries) /\ q.level = level
    BY <2>1 DEF Query
  <2>4. UNCHANGED <<shown, level>>
    BY <1>3 DEF LoadOlder
  <2>5. PageInv(q, None, q.cursor)'
    BY <2>3 DEF PageInv
  <2>6. OlderFine(q)'
    BY <2>1, <2>2, <2>3, <2>4, <2>5 DEF OlderFine
  <2> QED
    BY <1>q, <2>6, OlderIsFine
<1>4. CASE ServeOlder
  <2>1. /\ older \in RequestType /\ OlderFine(older)
        /\ UNCHANGED <<ringVars, shown, level, spoiled>>
    BY <1>4, <1>b DEF ServeOlder
  <2>2. PICK p : p = ReadPage(None, older.cursor, older.level, Page)
    OBVIOUS
  <2>3. q = [older EXCEPT !.page = p]
    BY <1>4, <1>q, <2>2 DEF ServeOlder
  <2>4. /\ q.page = p /\ q.cursor = older.cursor /\ q.level = older.level
        /\ q.late = older.late
    BY <2>1, <2>3 DEF RequestType
  <2>5. /\ p.run = run /\ p.last = nextSeq - 1
        /\ PageInv(q, None, q.cursor)
    <3>1. older.cursor \in Nat /\ older.level \in Levels /\ None \in Nat
      BY <1>a, <2>1, RequestTypes DEF None
    <3> QED
      BY <1>a, <2>2, <2>4, <3>1, PageRead
  <2>6. PageInv(q, None, q.cursor)'
    BY <2>1, <2>5 DEF ringVars, PageInv, Genuine
  <2>7. ASSUME ~q.late, \A e \in shown.entries : e.run = run
        PROVE  q.cursor <= p.last
    <3>1. shown.entries # {} /\ q.cursor = Oldest(shown.entries)
      BY <2>1, <2>4, <2>7 DEF OlderFine
    <3>2. IsFiniteSet(shown.entries) /\ \A e \in shown.entries : e.seq \in Nat \ {0}
      BY <1>a, RequestTypes, EntryFields DEF ListInv
    <3>3. PICK e \in shown.entries : e.seq = q.cursor
      BY <3>1, <3>2, Ends
    <3>4. e.seq < nextSeq /\ e.seq \in Nat /\ nextSeq \in Nat
      BY <1>a, <2>7, <3>2, RingTypes DEF ListInv, Genuine
    <3> QED
      BY <2>5, <3>3, <3>4
  <2>8. OlderFine(q)'
    BY <2>1, <2>4, <2>5, <2>6, <2>7 DEF OlderFine
  <2> QED
    BY <1>q, <2>8, OlderIsFine
<1>5. ASSUME NEW i \in 1 .. MaxPolls, DeliverPoll(i) PROVE OlderInv'
  <2>1. /\ i \in DOMAIN polls /\ polls[i].page # NoPage
        /\ UNCHANGED <<ringVars, level>>
    BY <1>5 DEF DeliverPoll
  <2>2. PICK d : d = polls[i]
    OBVIOUS
  <2>3. PICK M : M = Merge(d.page.entries, shown.entries)
    OBVIOUS
  <2>4. PICK c \in BOOLEAN :
           c = \/ shown.entries = {} \/ d.page.reset
               \/ Oldest(shown'.entries) # Oldest(shown.entries)
    OBVIOUS
  <2>5. q = Overtaken(c)
    BY <1>5, <1>q, <2>2, <2>4 DEF DeliverPoll
  <2>6. ASSUME q # NoRequest PROVE OlderFine(q)'
    <3>1. /\ q.cursor # None /\ PageInv(q, None, q.cursor)' /\ OlderFine(older)
          /\ q.cursor = older.cursor /\ q.page = older.page /\ q.level = older.level
          /\ q.late = (older.late \/ c)
      BY <1>e, <2>1, <2>5, <2>6
    <3>2. ASSUME ~q.late
          PROVE  /\ shown'.entries # {} /\ q.cursor = Oldest(shown'.entries)
                 /\ q.level = level'
                 /\ (/\ spoiled' = {} /\ q.page # NoPage
                     /\ \A e \in shown'.entries : e.run = q.page.run)
                    => q.cursor <= q.page.last
      <4>1. /\ ~older.late /\ shown.entries # {} /\ ~d.page.reset
            /\ Oldest(shown'.entries) = Oldest(shown.entries)
        BY <2>4, <3>1, <3>2
      <4>2. /\ IsFiniteSet(d.page.entries) /\ IsFiniteSet(M) /\ M \subseteq Entry
            /\ shown'.entries = Top(M, Keep)
            /\ spoiled' = spoiled \cup PollSpoils(d)
        BY <1>5, <1>a, <2>1, <2>2, <2>3, <4>1, PollDelivered
      <4>3. M # {} /\ M \subseteq d.page.entries \cup shown.entries
        BY <1>a, <2>3, <4>1, <4>2, Merged DEF ListInv
      <4>4. \A e \in M : e.seq \in Nat \ {0}
        BY <4>2, EntryFields
      <4>5. shown'.entries # {} /\ shown'.entries \subseteq M
        BY <4>2, <4>3, <4>4, Sizes, TopIsUpper
      <4>6. q.cursor = Oldest(shown'.entries) /\ q.level = level'
        BY <2>1, <3>1, <4>1 DEF OlderFine
      <4>7. ASSUME spoiled' = {}, q.page # NoPage,
                   \A e \in shown'.entries : e.run = q.page.run
            PROVE  q.cursor <= q.page.last
        <5>1. spoiled = {} /\ PollSpoils(d) = {}
          BY <4>2, <4>7
        <5>2. \A e \in shown.entries \cup d.page.entries : e.run = d.page.run
          BY <1>a, <2>1, <2>2, <4>1, <5>1, NotMixed
        <5>3. \A e \in shown.entries : e.run = q.page.run
          BY <4>3, <4>5, <4>7, <5>2
        <5> QED
          BY <3>1, <4>1, <4>7, <5>1, <5>3 DEF OlderFine
      <4> QED
        BY <4>5, <4>6, <4>7
    <3> QED
      BY <3>1, <3>2 DEF OlderFine
  <2> QED
    BY <1>q, <2>6, OlderIsFine
<1>6. CASE DeliverOlder
  BY <1>6, <1>d DEF DeliverOlder
<1>7. CASE RequestFails
  BY <1>7, <1>c, <1>d DEF RequestFails, RingMoves
<1>8. CASE ChangeFilter
  <2>1. q = Overtaken(TRUE) /\ UNCHANGED ringVars
    BY <1>8, <1>q DEF ChangeFilter
  <2>2. ASSUME q # NoRequest PROVE OlderFine(q)'
    <3>1. q.cursor # None /\ PageInv(q, None, q.cursor)' /\ q.late = (older.late \/ TRUE)
      BY <1>e, <2>1, <2>2
    <3> QED
      BY <3>1 DEF OlderFine
  <2> QED
    BY <1>q, <2>2, OlderIsFine
<1>9. CASE UNCHANGED viewVars
  BY <1>9, <1>c DEF viewVars, ringVars, RingMoves
<1> QED
  BY <1>1, <1>2, <1>3, <1>4, <1>5, <1>6, <1>7, <1>8, <1>9 DEF ViewNext

-----------------------------------------------------------------------------
(* The list.  A list is whole if it holds every admitted record of the     *)
(* ring between its ends, and at the bottom if the ring has none older;    *)
(* both are claims only about a list that is of the present run.           *)

OneRun(S) == \A e, f \in S : e.run = f.run

NowOnly(S) == \A e \in S : e.run = run

Whole(S) ==
    \A r \in ring :
        /\ r.level <= level /\ NowOnly(S)
        /\ Oldest(S) <= r.seq /\ r.seq <= Newest(S)
        => EntryOf(r) \in S

Bottom(S) == \A r \in ring : r.level <= level /\ NowOnly(S) => r.seq >= Oldest(S)

LEMMA ListWas ==
    ASSUME ViewTypeOK, ListInv
    PROVE  /\ spoiled = {} => OneRun(shown.entries) /\ Whole(shown.entries)
           /\ spoiled = {} /\ shown.atOldest /\ shown.entries # {} => Bottom(shown.entries)
<1>1. \A r \in ring : EntryOf(r).seq = r.seq
  BY RingTypes, EntryFields
<1>2. \A r \in ring : r.level <= level => EntryOf(r) \in Wanted
  BY DEF Wanted
<1>3. spoiled = {} => OneRun(shown.entries) /\ Whole(shown.entries)
  BY <1>1, <1>2 DEF ListInv, NoHole, OneRun, Whole, NowOnly
<1>4. spoiled = {} /\ shown.atOldest /\ shown.entries # {} => Bottom(shown.entries)
  BY <1>1, <1>2 DEF ListInv, AtOldestIsHonest, Bottom, NowOnly
<1> QED
  BY <1>3, <1>4

LEMMA ListIsFine ==
    ASSUME NEW S, S = shown'.entries, ring' \subseteq Record,
           IsFiniteSet(S), Genuine(S)',
           "late older page" \notin spoiled' => \A e \in S : e.level <= level',
           spoiled' = {} => OneRun(S) /\ Whole(S)',
           spoiled' = {} /\ shown'.atOldest /\ S # {} => Bottom(S)'
    PROVE  ListInv'
<1>1. \A r \in ring' : EntryOf(r).seq = r.seq
  BY EntryFields
<1>2. \A w \in Wanted' : \E r \in ring' : w = EntryOf(r) /\ r.level <= level' /\ w.seq = r.seq
  BY <1>1 DEF Wanted
<1>3. Genuine(shown.entries)' /\ IsFiniteSet(shown'.entries) /\ ShownAsFiltered'
  BY DEF Genuine, ShownAsFiltered
<1>4. NoHole'
  <2> SUFFICES ASSUME spoiled' = {}
               PROVE  /\ \A e, f \in S : e.run = f.run
                      /\ \A w \in Wanted' :
                            (/\ \A e \in S : e.run = run'
                             /\ Oldest(S) <= w.seq /\ w.seq <= Newest(S)) => w \in S
    BY DEF NoHole, Oldest, Newest
  <2> QED
    BY <1>2 DEF OneRun, Whole, NowOnly
<1>5. AtOldestIsHonest'
  <2> SUFFICES ASSUME spoiled' = {}, shown'.atOldest, S # {}
               PROVE  \A w \in Wanted' : (\A e \in S : e.run = run') => w.seq >= Oldest(S)
    BY DEF AtOldestIsHonest, Oldest
  <2> QED
    BY <1>2 DEF Bottom, NowOnly
<1> QED
  BY <1>3, <1>4, <1>5 DEF ListInv

LEMMA ServiceKeepsList ==
    ASSUME ViewInv, NewRecord \/ NewRun, ring' \subseteq Record,
           UNCHANGED <<shown, level, spoiled>>
    PROVE  ListInv'
<1> DEFINE S == shown.entries
<1>a. ViewTypeOK /\ RingInv /\ ListInv
  BY DEF ViewInv
<1>b. /\ run \in Nat /\ nextSeq \in Nat /\ ring \subseteq Record /\ S \subseteq Entry
      /\ IsFiniteSet(S) /\ S = shown'.entries
  BY <1>a, RingTypes, RequestTypes DEF ListInv
<1>c. /\ "late older page" \notin spoiled => \A e \in S : e.level <= level
      /\ spoiled = {} => OneRun(S) /\ Whole(S)
      /\ spoiled = {} /\ shown.atOldest /\ S # {} => Bottom(S)
      /\ Genuine(S)
  BY <1>a, ListWas DEF ListInv, ShownAsFiltered
<1>d. \A e \in S : e.seq \in Nat \ {0}
  BY <1>b, EntryFields
<1> HIDE DEF S
<1>1. Genuine(S)'
  <2>1. ASSUME NEW e \in S
        PROVE  /\ e.run <= run'
               /\ e.run = run' => /\ e.seq < nextSeq'
                                  /\ \A r \in ring' : r.seq = e.seq => EntryOf(r) = e
    BY <1>a, <1>b, <1>c, RealKept DEF Genuine
  <2>2. \A e \in shown'.entries :
               /\ e.run <= run'
               /\ e.run = run' => /\ e.seq < nextSeq'
                                  /\ \A r \in ring' : r.seq = e.seq => EntryOf(r) = e
    BY <1>b, <2>1
  <2> QED
    BY <2>2 DEF Genuine, S
<1>2. ASSUME S # {}, \A e \in S : e.run = run', NEW r \in ring'
      PROVE  /\ run' = run
             /\ \/ r.seq = nextSeq /\ Newest(S) < nextSeq /\ Oldest(S) < nextSeq
                \/ \E q \in ring : /\ EntryOf(q) = EntryOf(r) /\ q.seq = r.seq
                                   /\ q.level = r.level
  <2>1. NewRecord
    <3>1. PICK e \in S : e.run = run'
      BY <1>2
    <3>2. e.run <= run
      BY <1>c DEF Genuine
    <3> QED
      BY <1>b, <3>1, <3>2 DEF NewRun
  <2>2. run' = run
    BY <2>1 DEF NewRecord
  <2>3. /\ \A e \in S : e.seq < nextSeq
        /\ \E e \in S : e.seq = Newest(S)
        /\ \E e \in S : e.seq = Oldest(S)
    BY <1>2, <1>b, <1>c, <1>d, <2>2, Ends DEF Genuine
  <2>4. CASE r.seq = nextSeq
    BY <2>2, <2>3, <2>4
  <2>5. CASE r.seq # nextSeq
    <3>1. PICK q \in ring : EntryOf(q) = EntryOf(r)
      BY <2>1, <2>5 DEF NewRecord
    <3>2. q.seq = r.seq /\ q.level = r.level
      BY <1>b, <3>1, EntryFields
    <3> QED
      BY <2>2, <3>1, <3>2
  <2> QED
    BY <2>4, <2>5
<1>3. \A r \in ring' : r.seq \in Nat \ {0}
  BY EntryFields
<1>4. S # {} => Newest(S) \in Nat /\ Oldest(S) \in Nat
  BY <1>b, <1>d, Ends
<1>5. ASSUME spoiled = {}, NEW r \in ring', r.level <= level,
             \A e \in S : e.run = run', Oldest(S) <= r.seq, r.seq <= Newest(S)
      PROVE  EntryOf(r) \in S
  <2>1. S # {}
    BY <1>3, <1>5, NoEnds
  <2>2. r.seq # nextSeq \/ ~(Newest(S) < nextSeq)
    BY <1>b, <1>4, <1>5, <2>1
  <2>3. PICK q \in ring : /\ EntryOf(q) = EntryOf(r) /\ q.seq = r.seq
                          /\ q.level = r.level
    BY <1>2, <1>5, <2>1, <2>2
  <2>4. NowOnly(S)
    BY <1>2, <1>5, <2>1 DEF NowOnly
  <2> QED
    BY <1>5, <1>c, <2>3, <2>4 DEF Whole
<1>6. ASSUME spoiled = {}, shown.atOldest, S # {}, NEW r \in ring', r.level <= level,
             \A e \in S : e.run = run'
      PROVE  r.seq >= Oldest(S)
  <2>1. CASE r.seq = nextSeq /\ Oldest(S) < nextSeq
    BY <1>b, <1>4, <1>6, <2>1
  <2>2. CASE \E q \in ring : /\ EntryOf(q) = EntryOf(r) /\ q.seq = r.seq
                             /\ q.level = r.level
    BY <1>2, <1>6, <1>c, <2>2 DEF Bottom, NowOnly
  <2> QED
    BY <1>2, <1>6, <2>1, <2>2
<1>p. PICK T : T = shown'.entries
  OBVIOUS
<1>7. Genuine(T)'
  BY <1>1, <1>p DEF Genuine, S
<1>8. spoiled' = {} => OneRun(T) /\ Whole(T)'
  BY <1>5, <1>b, <1>c, <1>p DEF Whole, NowOnly
<1>9. spoiled' = {} /\ shown'.atOldest /\ T # {} => Bottom(T)'
  BY <1>6, <1>b, <1>p DEF Bottom, NowOnly
<1>10. "late older page" \notin spoiled' => \A e \in T : e.level <= level'
  BY <1>b, <1>c, <1>p
<1> QED
  BY <1>b, <1>p, <1>7, <1>8, <1>9, <1>10, ListIsFine

(* A list filled anew from a poll's page is as good as the page.           *)
LEMMA FreshList ==
    ASSUME ViewTypeOK, PollInv, NEW i \in DOMAIN polls, NEW q, q = polls[i],
           q.page # NoPage
    PROVE  /\ Genuine(q.page.entries)
           /\ \A e \in q.page.entries : e.level <= level
           /\ OneRun(q.page.entries) /\ Whole(q.page.entries)
<1> DEFINE S == q.page.entries
<1>1. /\ q.level = level /\ PageInv(q, Since(q), None)
      /\ S \subseteq Entry /\ q.page.last \in Nat /\ q.cursor \in Nat
  BY RequestTypes DEF PollInv
<1>2. /\ IsFiniteSet(S) /\ Genuine(S)
      /\ \A e \in S : /\ e.run = q.page.run /\ e.level <= q.level
                      /\ e.seq <= q.page.last /\ e.seq > Since(q)
  BY <1>1 DEF PageInv, Asked
<1>3. \A e \in S : e.seq \in Nat \ {0}
  BY <1>1, EntryFields
<1>4. \A r \in ring : r.seq \in Nat \ {0}
  BY RingTypes, EntryFields
<1>5. Since(q) \in Nat
  BY <1>1 DEF Since, None
<1>6. ASSUME NEW r \in ring, r.level <= level, \A e \in S : e.run = run,
             Oldest(S) <= r.seq, r.seq <= Newest(S)
      PROVE  EntryOf(r) \in S
  <2>1. S # {}
    BY <1>4, <1>6, NoEnds
  <2>2. q.page.run = run
    BY <1>2, <1>6, <2>1
  <2>3. PICK e \in S, f \in S : e.seq = Newest(S) /\ f.seq = Oldest(S)
    BY <1>2, <1>3, <2>1, Ends
  <2>4. r.seq <= q.page.last /\ r.seq > Since(q)
    BY <1>1, <1>2, <1>3, <1>4, <1>5, <1>6, <2>3
  <2>5. Asked(r, Since(q), None)
    BY <2>4 DEF Asked
  <2> HIDE DEF S
  <2> QED
    BY <1>1, <1>6, <2>2, <2>4, <2>5 DEF PageInv, S
<1>7. Whole(S)
  BY <1>6 DEF Whole, NowOnly
<1>8. OneRun(S)
  BY <1>2 DEF OneRun
<1> QED
  BY <1>1, <1>2, <1>7, <1>8

(* A page merged into a whole list that it meets leaves a whole list, also *)
(* after its tail is trimmed; untrimmed, it ends no higher.                *)
LEMMA MergedList ==
    ASSUME ViewTypeOK, RingInv, PollInv, ListInv, NEW i \in DOMAIN polls, NEW q,
           q = polls[i], q.page # NoPage, ~q.page.reset, shown.entries # {},
           spoiled = {}, PollSpoils(q) = {},
           NEW M, M = Merge(q.page.entries, shown.entries),
           NEW S, S = Top(M, Keep)
    PROVE  /\ OneRun(S) /\ Whole(S)
           /\ shown.atOldest /\ S = M => Bottom(S)
<1> DEFINE P == q.page.entries
           L == shown.entries
<1>1. /\ q.level = level /\ PageInv(q, q.cursor, None)
      /\ P \subseteq Entry /\ q.page.last \in Nat /\ q.cursor \in Nat
      /\ L \subseteq Entry
  BY RequestTypes DEF PollInv, Since
<1>2. /\ IsFiniteSet(P) /\ Genuine(P)
      /\ \A e \in P : e.seq <= q.page.last /\ e.seq > q.cursor
  BY <1>1 DEF PageInv, Asked
<1>3. IsFiniteSet(L) /\ L # {} /\ OneRun(L) /\ Whole(L) /\ (shown.atOldest => Bottom(L))
  BY ListWas DEF ListInv
<1>4. \A e \in L \cup P : e.run = q.page.run
  BY NotMixed
<1>5. P # {} => /\ Oldest(P) > Newest(L) => ~q.page.more /\ ~(q.cursor > Newest(L))
                /\ ~(Newest(P) < Oldest(L))
  BY SpoilsNothing
<1>6. M = Merge(P, L)
  OBVIOUS
<1>7. \A e \in L \cup P : e.seq \in Nat \ {0}
  BY <1>1, EntryFields
<1>8. \A r \in ring : EntryOf(r).seq = r.seq /\ EntryOf(r).run = run /\ r.seq \in Nat \ {0}
  BY RingTypes, EntryFields DEF RingInv
<1> HIDE DEF P, L
<1>9. /\ IsFiniteSet(M) /\ M \subseteq P \cup L /\ P \subseteq M
      /\ \A e \in P \cup L : \E f \in M : f.seq = e.seq
      /\ \A e \in L : e \in M \/ \E f \in P : f.seq = e.seq
  BY <1>2, <1>3, <1>6, Merged
<1>10. \A e \in M : e.seq \in Nat \ {0} /\ e.run = q.page.run
  BY <1>4, <1>7, <1>9
<1>11. M # {}
  BY <1>3, <1>9
<1>12. /\ S \subseteq M /\ IsFiniteSet(S) /\ S # {}
       /\ \A e \in S, f \in M : e.seq <= f.seq => f \in S
  BY <1>9, <1>10, <1>11, Sizes, TopIsUpper
<1>13. OneRun(S)
  BY <1>10, <1>12 DEF OneRun
<1>14. /\ Newest(L) \in Nat /\ Oldest(L) \in Nat
       /\ \A e \in L : Oldest(L) <= e.seq /\ e.seq <= Newest(L)
       /\ \E e \in L : e.seq = Oldest(L)
  BY <1>3, <1>7, Ends
<1>15. P # {} => /\ Newest(P) \in Nat /\ Oldest(P) \in Nat
                 /\ \A e \in P : Oldest(P) <= e.seq /\ e.seq <= Newest(P)
                 /\ \E e \in P : e.seq = Newest(P)
  BY <1>2, <1>7, Ends
<1>16. /\ Newest(S) \in Nat /\ Oldest(S) \in Nat
       /\ \E e \in S : e.seq = Newest(S)
       /\ \E e \in S : e.seq = Oldest(S)
       /\ \A e \in S : Oldest(S) <= e.seq
  <2>1. \A e \in S : e.seq \in Nat \ {0}
    BY <1>10, <1>12
  <2> QED
    BY <1>12, <2>1, Ends
<1>17. ASSUME NowOnly(S) PROVE q.page.run = run /\ NowOnly(L)
  <2>1. q.page.run = run
    BY <1>10, <1>12, <1>17 DEF NowOnly
  <2> QED
    BY <1>4, <2>1 DEF NowOnly
<1>18. ASSUME NEW r \in ring, r.level <= level, NowOnly(S),
              Oldest(S) <= r.seq, r.seq <= Newest(S)
       PROVE  EntryOf(r) \in S
  <2>1. q.page.run = run /\ NowOnly(L)
    BY <1>17, <1>18
  <2>2. PICK low \in S, high \in S : low.seq <= r.seq /\ r.seq <= high.seq
    BY <1>8, <1>16, <1>18
  <2>3. low \in P \cup L /\ high \in P \cup L /\ low \in M
    BY <1>9, <1>12, <2>2
  <2>4. ASSUME r.seq > q.cursor, r.seq <= q.page.last, q.page.more => Oldest(P) <= r.seq
        PROVE  EntryOf(r) \in M
    <3>1. Asked(r, q.cursor, None)
      BY <2>4 DEF Asked
    <3>2. EntryOf(r) \in P
      BY <1>1, <1>18, <2>1, <2>4, <3>1 DEF PageInv, P
    <3> QED
      BY <1>9, <3>2
  <2>5. CASE Oldest(L) <= r.seq /\ r.seq <= Newest(L)
    <3>1. EntryOf(r) \in L
      BY <1>3, <1>18, <2>1, <2>5 DEF Whole
    <3>2. ASSUME NEW f \in P, f.seq = EntryOf(r).seq PROVE EntryOf(r) \in M
      <4>1. f.run = run
        BY <1>4, <2>1
      <4>2. EntryOf(r) = f
        BY <1>2, <1>8, <3>2, <4>1 DEF Genuine
      <4> QED
        BY <1>9, <4>2
    <3>3. EntryOf(r) \in M
      BY <1>9, <3>1, <3>2
    <3> QED
      BY <1>8, <1>12, <2>2, <3>3
  <2>6. CASE r.seq > Newest(L)
    <3>1. high \in P
      BY <1>7, <1>8, <1>14, <2>2, <2>3, <2>6
    <3>2. r.seq <= q.page.last
      BY <1>1, <1>2, <1>7, <1>8, <2>2, <3>1
    <3>3. ~(q.cursor > Newest(L))
      <4>1. ASSUME q.cursor > Newest(L) PROVE FALSE
        <5>1. Oldest(P) > q.cursor
          <6>1. PICK e \in P : e.seq = Oldest(P)
            BY <1>2, <1>7, <3>1, Ends
          <6> QED
            BY <1>2, <6>1
        <5> QED
          BY <1>1, <1>5, <1>14, <1>15, <3>1, <4>1, <5>1
      <4> QED
        BY <4>1
    <3>4. r.seq > q.cursor
      BY <1>1, <1>8, <1>14, <2>6, <3>3
    <3>5. q.page.more => Oldest(P) <= r.seq
      BY <1>5, <1>8, <1>14, <1>15, <2>6, <3>1
    <3> QED
      BY <1>8, <1>12, <2>2, <2>4, <3>2, <3>4, <3>5
  <2>7. CASE r.seq < Oldest(L)
    <3>1. low \in P
      BY <1>7, <1>8, <1>14, <2>2, <2>3, <2>7
    <3>2. r.seq > q.cursor /\ Oldest(P) <= r.seq
      BY <1>1, <1>2, <1>7, <1>8, <1>15, <2>2, <3>1
    <3>3. r.seq <= q.page.last
      <4>1. PICK e \in P : e.seq = Newest(P)
        BY <1>15, <3>1
      <4>2. Newest(P) <= q.page.last
        BY <1>2, <4>1
      <4>3. Newest(P) >= Oldest(L)
        BY <1>5, <1>14, <1>15, <3>1
      <4> QED
        BY <1>1, <1>8, <1>14, <1>15, <2>7, <3>1, <4>2, <4>3
    <3> QED
      BY <1>8, <1>12, <2>2, <2>4, <3>2, <3>3
  <2> QED
    BY <1>8, <1>14, <2>5, <2>6, <2>7
<1>19. ASSUME shown.atOldest, S = M, NEW r \in ring, r.level <= level, NowOnly(S)
       PROVE  r.seq >= Oldest(S)
  <2>1. r.seq >= Oldest(L)
    BY <1>3, <1>17, <1>19 DEF Bottom
  <2>2. PICK e \in L : e.seq = Oldest(L)
    BY <1>14
  <2>3. PICK f \in M : f.seq = e.seq
    BY <1>9
  <2> QED
    BY <1>8, <1>14, <1>16, <1>19, <2>1, <2>2, <2>3
<1> QED
  BY <1>13, <1>18, <1>19 DEF Whole, Bottom

LEMMA DeliverPollKeepsList ==
    ASSUME ViewInv, NEW i \in DOMAIN polls, DeliverPoll(i)
    PROVE  ListInv'
<1>a. ViewTypeOK /\ RingInv /\ PollInv /\ ListInv
  BY DEF ViewInv
<1>q. PICK q : q = polls[i]
  OBVIOUS
<1>m. PICK M : M = Merge(q.page.entries, shown.entries)
  OBVIOUS
<1>s. PICK S : S = shown'.entries
  OBVIOUS
<1>1. UNCHANGED <<ringVars, level>> /\ q.page # NoPage /\ ring' \subseteq Record
  BY <1>a, <1>q, RingTypes DEF DeliverPoll, ringVars
<1>2. IsFiniteSet(S)
  BY <1>a, <1>q, <1>m, <1>s, PollDelivered
<1>3. /\ Genuine(q.page.entries)
      /\ \A e \in q.page.entries : e.level <= level
      /\ OneRun(q.page.entries) /\ Whole(q.page.entries)
  BY <1>a, <1>q, <1>1, FreshList
<1>4. CASE shown.entries = {} \/ q.page.reset
  <2>1. S = q.page.entries /\ shown'.atOldest = (S = {}) /\ spoiled' = {}
    BY <1>a, <1>q, <1>m, <1>s, <1>4, PollDelivered
  <2>2. Genuine(S) /\ OneRun(S) /\ Whole(S) /\ \A e \in S : e.level <= level'
    BY <1>1, <1>3, <2>1
  <2>3. Genuine(S)' /\ Whole(S)'
    BY <1>1, <2>2 DEF ringVars, Genuine, Whole, NowOnly
  <2> QED
    BY <1>s, <1>1, <1>2, <2>1, <2>2, <2>3, ListIsFine
<1>5. CASE ~(shown.entries = {} \/ q.page.reset)
  <2>1. /\ S = Top(M, Keep) /\ shown'.atOldest = (shown.atOldest /\ S = M)
        /\ spoiled' = spoiled \cup PollSpoils(q) /\ IsFiniteSet(M) /\ M \subseteq Entry
    BY <1>a, <1>q, <1>m, <1>s, <1>5, PollDelivered
  <2>2. S \subseteq q.page.entries \cup shown.entries
    <3>1. \A e \in M : e.seq \in Nat \ {0}
      BY <2>1, EntryFields
    <3>2. S \subseteq M
      BY <2>1, <3>1, Sizes, TopIsUpper
    <3>3. M \subseteq q.page.entries \cup shown.entries
      BY <1>m DEF Merge
    <3> QED
      BY <3>2, <3>3
  <2>3. Genuine(S)
    BY <1>a, <1>3, <2>2 DEF ListInv, Genuine
  <2>4. "late older page" \notin spoiled' => \A e \in S : e.level <= level'
    BY <1>a, <1>1, <1>3, <2>1, <2>2 DEF ListInv, ShownAsFiltered
  <2>5. ASSUME spoiled' = {}
        PROVE  OneRun(S) /\ Whole(S) /\ (shown'.atOldest => Bottom(S))
    <3>1. spoiled = {} /\ PollSpoils(q) = {}
      BY <2>1, <2>5
    <3>2. OneRun(S) /\ Whole(S) /\ (shown.atOldest /\ S = M => Bottom(S))
      BY <1>a, <1>q, <1>m, <1>1, <1>5, <2>1, <3>1, MergedList
    <3> QED
      BY <2>1, <3>2
  <2>6. Genuine(S)' /\ (Whole(S) => Whole(S)') /\ (Bottom(S) => Bottom(S)')
    BY <1>1, <2>3 DEF ringVars, Genuine, Whole, Bottom, NowOnly
  <2> QED
    BY <1>s, <1>1, <1>2, <2>4, <2>5, <2>6, ListIsFine
<1> QED
  BY <1>4, <1>5

(* An older page put below a whole list it was asked for, by a query of    *)
(* the list's run, leaves a whole list.                                    *)
LEMMA ExtendedList ==
    ASSUME ViewTypeOK, RingInv, OlderInv, ListInv, NEW q, q = older,
           q # NoRequest, q.page # NoPage, ~q.late, spoiled = {},
           \A e \in shown.entries : e.run = q.page.run,
           NEW S, S = Merge(shown.entries, q.page.entries)
    PROVE  /\ OneRun(S) /\ Whole(S)
           /\ q.page.entries = {} => Bottom(shown.entries)
<1> DEFINE P == q.page.entries
           L == shown.entries
<1>1. /\ q.level = level /\ PageInv(q, None, q.cursor) /\ L # {}
      /\ P \subseteq Entry /\ q.page.last \in Nat /\ q.cursor \in Nat
      /\ L \subseteq Entry /\ q.cursor = Oldest(L) /\ q.cursor # None
      /\ q.cursor <= q.page.last
  BY RequestTypes DEF OlderInv
<1>2. /\ IsFiniteSet(P) /\ Genuine(P)
      /\ \A e \in P : e.run = q.page.run /\ e.seq < q.cursor
      /\ q.page.more => P # {}
  BY <1>1 DEF PageInv, Asked
<1>3. IsFiniteSet(L) /\ OneRun(L) /\ Whole(L)
  BY ListWas DEF ListInv
<1>4. \A e \in L \cup P : e.run = q.page.run
  BY <1>2
<1>5. \A e \in L \cup P : e.seq \in Nat \ {0}
  BY <1>1, EntryFields
<1>6. \A r \in ring : EntryOf(r).seq = r.seq /\ r.seq \in Nat \ {0}
  BY RingTypes, EntryFields
<1>7. S = Merge(L, P)
  OBVIOUS
<1>8. ASSUME NEW r \in ring, r.level <= level, q.page.run = run, r.seq < Oldest(L),
              q.page.more => Oldest(P) <= r.seq
       PROVE  EntryOf(r) \in P
  <2>1. Asked(r, None, q.cursor)
    BY <1>1, <1>6, <1>8 DEF Asked, None
  <2>2. r.seq <= q.page.last
    BY <1>1, <1>6, <1>8
  <2> QED
    BY <1>1, <1>8, <2>1, <2>2 DEF PageInv
<1> HIDE DEF P, L
<1>9. /\ IsFiniteSet(S) /\ L \subseteq S /\ S \subseteq L \cup P
      /\ \A e \in P : e \in S \/ \E f \in L : f.seq = e.seq
  BY <1>2, <1>3, <1>7, Merged
<1>10. S # {} /\ (\A e \in S : e.seq \in Nat \ {0} /\ e.run = q.page.run)
  BY <1>1, <1>4, <1>5, <1>9
<1>11. OneRun(S)
  BY <1>10 DEF OneRun
<1>12. /\ Newest(L) \in Nat /\ Oldest(L) \in Nat
       /\ \A e \in L : Oldest(L) <= e.seq /\ e.seq <= Newest(L)
  BY <1>1, <1>3, <1>5, Ends
<1>13. P # {} => Oldest(P) \in Nat /\ \A e \in P : Oldest(P) <= e.seq
  BY <1>2, <1>5, Ends
<1>14. ASSUME NEW r \in ring, r.level <= level, NowOnly(S),
              Oldest(S) <= r.seq, r.seq <= Newest(S)
       PROVE  EntryOf(r) \in S
  <2>1. q.page.run = run /\ NowOnly(L)
    BY <1>9, <1>10, <1>14 DEF NowOnly
  <2>2. PICK low \in S, high \in S : low.seq <= r.seq /\ r.seq <= high.seq
    BY <1>9, <1>10, <1>14, Ends
  <2>3. CASE r.seq >= Oldest(L)
    <3>1. high \in L
      BY <1>1, <1>2, <1>5, <1>6, <1>9, <1>12, <2>2, <2>3
    <3>2. r.seq <= Newest(L)
      BY <1>5, <1>6, <1>12, <2>2, <3>1
    <3> QED
      BY <1>3, <1>9, <1>14, <2>1, <2>3, <3>2 DEF Whole
  <2>4. CASE r.seq < Oldest(L)
    <3>1. low \in P
      BY <1>5, <1>6, <1>9, <1>12, <2>2, <2>4
    <3>2. Oldest(P) <= r.seq
      BY <1>5, <1>6, <1>13, <2>2, <3>1
    <3>3. EntryOf(r) \in P
      BY <1>14, <1>8, <2>1, <2>4, <3>2
    <3>4. \A f \in L : f.seq # EntryOf(r).seq
      BY <1>5, <1>6, <1>12, <2>4
    <3> QED
      BY <1>9, <3>3, <3>4
  <2> QED
    BY <1>6, <1>12, <2>3, <2>4
<1>15. ASSUME P = {}, NEW r \in ring, r.level <= level, NowOnly(L)
       PROVE  r.seq >= Oldest(L)
  <2>1. q.page.run = run
    BY <1>1, <1>4, <1>15 DEF NowOnly
  <2>2. ~(r.seq < Oldest(L))
    BY <1>2, <1>15, <1>8, <2>1
  <2> QED
    BY <1>6, <1>12, <2>2
<1> QED
  BY <1>11, <1>14, <1>15 DEF Whole, Bottom, P, L

LEMMA DeliverOlderKeepsList ==
    ASSUME ViewInv, DeliverOlder
    PROVE  ListInv'
<1>a. ViewTypeOK /\ RingInv /\ OlderInv /\ ListInv
  BY DEF ViewInv
<1>q. PICK q : q = older
  OBVIOUS
<1>m. PICK M : M = Merge(shown.entries, q.page.entries)
  OBVIOUS
<1>s. PICK S : S = shown'.entries
  OBVIOUS
<1>1. UNCHANGED <<ringVars, level>> /\ ring' \subseteq Record
  BY <1>a, RingTypes DEF DeliverOlder, ringVars
<1>2. /\ q # NoRequest /\ q.page # NoPage /\ IsFiniteSet(S)
      /\ S = (IF q.page.entries = {} THEN shown.entries ELSE M)
      /\ shown'.atOldest = (q.page.entries = {})
      /\ spoiled' = spoiled \cup OlderSpoils
  BY <1>a, <1>q, <1>m, <1>s, OlderDelivered
<1>3. PageInv(q, None, q.cursor) /\ (~q.late => q.level = level)
  BY <1>a, <1>q, <1>2 DEF OlderInv
<1>4. /\ Genuine(q.page.entries)
      /\ ~q.late => \A e \in q.page.entries : e.level <= level
  BY <1>2, <1>3 DEF PageInv
<1>5. S \subseteq shown.entries \cup q.page.entries
  BY <1>m, <1>2 DEF Merge
<1>6. Genuine(S)
  BY <1>a, <1>4, <1>5 DEF ListInv, Genuine
<1>7. "late older page" \notin spoiled' => ~q.late /\ "late older page" \notin spoiled
  BY <1>q, <1>2 DEF OlderSpoils
<1>8. "late older page" \notin spoiled' => \A e \in S : e.level <= level'
  BY <1>a, <1>1, <1>4, <1>5, <1>7 DEF ListInv, ShownAsFiltered
<1>9. ASSUME spoiled' = {}
      PROVE  OneRun(S) /\ Whole(S) /\ (shown'.atOldest => Bottom(S))
  <2>1. spoiled = {} /\ OlderSpoils = {} /\ ~q.late
    BY <1>2, <1>7, <1>9
  <2>2. \A e \in shown.entries : e.run = q.page.run
    <3> DEFINE mixed == \E e \in shown.entries : e.run # q.page.run
    <3>1. OlderSpoils = (IF q.late THEN {"late older page"} ELSE {})
                          \cup (IF mixed THEN {"unnoticed restart"} ELSE {})
      BY <1>q DEF OlderSpoils
    <3>2. ~mixed
      <4> HIDE DEF mixed
      <4>1. (IF mixed THEN {"unnoticed restart"} ELSE {}) = {}
        BY <2>1, <3>1
      <4> QED
        BY <4>1
    <3> QED
      BY <3>2
  <2>3. /\ OneRun(M) /\ Whole(M)
        /\ q.page.entries = {} => Bottom(shown.entries)
    BY <1>a, <1>q, <1>m, <1>2, <2>1, <2>2, ExtendedList
  <2>4. OneRun(shown.entries) /\ Whole(shown.entries)
    BY <1>a, <2>1, ListWas
  <2> QED
    BY <1>2, <2>3, <2>4
<1>10. Genuine(S)' /\ (Whole(S) => Whole(S)') /\ (Bottom(S) => Bottom(S)')
  BY <1>1, <1>6 DEF ringVars, Genuine, Whole, Bottom, NowOnly
<1> QED
  BY <1>s, <1>1, <1>2, <1>8, <1>9, <1>10, ListIsFine

(* Every action keeps the list filtered, whole and honest.                 *)
LEMMA ListStep ==
    ASSUME ViewInv, [ViewNext]_viewVars
    PROVE  ListInv'
<1>a. ViewTypeOK /\ RingInv /\ ListInv
  BY DEF ViewInv
<1>b. ASSUME UNCHANGED <<ringVars, shown, level, spoiled>> PROVE ListInv'
  BY <1>a, <1>b DEF ringVars, ListInv, Genuine, ShownAsFiltered, NoHole,
                    AtOldestIsHonest, Wanted
<1>1. CASE Service
  <2>1. /\ NewRecord \/ NewRun
        /\ ring' \subseteq Record /\ UNCHANGED <<shown, level, spoiled>>
    BY <1>1, <1>a, ServiceStep DEF Service
  <2> QED
    BY <2>1, ServiceKeepsList
<1>2. CASE Poll \/ LoadOlder \/ ServeOlder \/ RequestFails
  BY <1>2, <1>b DEF Poll, LoadOlder, ServeOlder, RequestFails
<1>3. ASSUME NEW i \in 1 .. MaxPolls, ServePoll(i) PROVE ListInv'
  BY <1>3, <1>b DEF ServePoll
<1>4. ASSUME NEW i \in 1 .. MaxPolls, DeliverPoll(i) PROVE ListInv'
  <2>1. i \in DOMAIN polls
    BY <1>4 DEF DeliverPoll
  <2> QED
    BY <1>4, <2>1, DeliverPollKeepsList
<1>5. CASE DeliverOlder
  BY <1>5, DeliverOlderKeepsList
<1>6. CASE ChangeFilter
  <2>1. UNCHANGED ringVars /\ shown'.entries = {} /\ ring' \subseteq Record
    BY <1>6, <1>a, RingTypes DEF ChangeFilter, Blank, ringVars
  <2>2. Genuine({})' /\ OneRun({}) /\ Whole({})'
    <3>1. \A r \in ring' : ~(r.seq <= 0)
      BY <2>1, EntryFields
    <3> QED
      BY <3>1, NoEnds DEF Genuine, OneRun, Whole
  <2> QED
    BY <2>1, <2>2, FS_EmptySet, ListIsFine
<1>7. CASE TogglePause \/ SwitchTab
  BY <1>7, <1>b DEF TogglePause, SwitchTab
<1>8. CASE UNCHANGED viewVars
  BY <1>8, <1>b DEF viewVars, ringVars
<1> QED
  BY <1>1, <1>2, <1>3, <1>4, <1>5, <1>6, <1>7, <1>8 DEF ViewNext

LEMMA RingStep ==
    ASSUME ViewInv, [ViewNext]_viewVars
    PROVE  RingInv'
<1>1. CASE Service
  BY <1>1, ServiceStep DEF Service, ViewInv
<1>2. CASE UNCHANGED ringVars
  BY <1>2 DEF ringVars, RingInv, ViewInv
<1>3. \/ Service
      \/ UNCHANGED ringVars
  BY DEF ViewNext, Poll, LoadOlder, ServePoll, DeliverPoll, ServeOlder, DeliverOlder,
         RequestFails, ChangeFilter, TogglePause, SwitchTab, viewVars, ringVars
<1> QED
  BY <1>1, <1>2, <1>3

LEMMA ViewStarts == ViewInit => ViewInv
<1> SUFFICES ASSUME ViewInit
             PROVE  ViewInv
  OBVIOUS
<1>1. /\ ring = {} /\ nextSeq = 1 /\ run = 0 /\ pushes = 0
      /\ shown = [entries |-> {}, atOldest |-> FALSE] /\ level = AllLevels
      /\ active = TRUE /\ paused = FALSE
      /\ older = NoRequest /\ events = 0 /\ spoiled = {}
  BY DEF ViewInit, RingInit, Blank
<1>2. PICK q : q = Query(None, AllLevels)
  OBVIOUS
<1>3. polls = <<q>>
  BY <1>2 DEF ViewInit
<1>4. q \in RequestType /\ q.page = NoPage /\ q.level = AllLevels
  BY <1>2, Sizes, QueryType DEF None
<1>5. polls \in Seq(RequestType) /\ DOMAIN polls = 1 .. 1 /\ polls[1] = q
  BY <1>3, <1>4, OneRequest
<1>6. ViewTypeOK
  <2>1. shown \in [entries : SUBSET Entry, atOldest : BOOLEAN]
    BY <1>1
  <2>2. run \in 0 .. MaxRestarts /\ pushes \in 0 .. MaxPushes /\ events \in 0 .. MaxEvents
    BY <1>1, Sizes
  <2>3. level \in Levels
    BY <1>1, Sizes
  <2>4. nextSeq \in Nat \ {0}
    BY <1>1
  <2>6. active \in BOOLEAN /\ paused \in BOOLEAN
    BY <1>1
  <2>5. ring \subseteq Record /\ older \in RequestType \cup {NoRequest} /\ spoiled = {}
    BY <1>1
  <2> QED
    BY <1>5, <2>1, <2>2, <2>3, <2>4, <2>5, <2>6 DEF ViewTypeOK
<1>7. RingInv
  BY <1>1, FS_EmptySet DEF RingInv
<1>8. PollInv
  BY <1>1, <1>4, <1>5 DEF PollInv, PageInv
<1>9. OlderInv
  BY <1>1 DEF OlderInv
<1>10. ListInv
  BY <1>1, FS_EmptySet DEF ListInv, Genuine, ShownAsFiltered, NoHole,
                           AtOldestIsHonest, Wanted
<1> QED
  BY <1>6, <1>7, <1>8, <1>9, <1>10 DEF ViewInv

LEMMA ViewSteps == ViewInv /\ [ViewNext]_viewVars => ViewInv'
  BY TypeStep, RingStep, PollStep, OlderStep, ListStep DEF ViewInv

(* The inductive invariant: what the ring numbered stays numbered so, each *)
(* request in flight still means what it asked for, and the list is what   *)
(* the pages merged into it say.                                           *)
LEMMA ViewInvariant == ViewSpec => []ViewInv
<1>1. ViewInit => ViewInv
  BY ViewStarts
<1>2. ViewInv /\ [ViewNext]_viewVars => ViewInv'
  BY ViewSteps
<1> QED
  BY <1>1, <1>2, PTL DEF ViewSpec

(* The state the ring, the HTTP handler and the hook useRing keep, with    *)
(* the requests in flight between them, has its types.                     *)
THEOREM ViewTypesCorrect == ViewSpec => []ViewTypeOK
<1>1. ViewInv => ViewTypeOK
  BY DEF ViewInv
<1> QED
  BY <1>1, ViewInvariant, PTL

(* Whatever polls are in flight when the filter changes, and however late  *)
(* their answers arrive, every entry of the list passes the filter the     *)
(* view shows, unless an older page asked for under another filter has     *)
(* arrived: the cleanup of useRing's effect cancels polls and not loadOlder *)
(* (SystemView.tsx:100-133).                                               *)
THEOREM ListMatchesFilter == ViewSpec => []ShownAsFiltered
<1>1. ViewInv => ShownAsFiltered
  BY DEF ViewInv, ListInv
<1> QED
  BY <1>1, ViewInvariant, PTL

(* With any number of polls answered in any order, records evicted and the *)
(* tail trimmed meanwhile, a list nothing has disturbed is of one process  *)
(* run and misses no admitted record that the ring still holds between its *)
(* ends (mergeNewer, appendOlder and LogBuffer::read).                     *)
THEOREM ListHasNoHole == ViewSpec => []NoHole
<1>1. ViewInv => NoHole
  BY DEF ViewInv, ListInv
<1> QED
  BY <1>1, ViewInvariant, PTL

(* When an undisturbed list says that it has reached the oldest entry, the *)
(* ring has no admitted record below it: trimming the tail takes the claim *)
(* back, and a list that shows anything gets it only from an older page    *)
(* that came back empty (systemLog.ts:73-110).                             *)
THEOREM OldestEntryIsOldest == ViewSpec => []AtOldestIsHonest
<1>1. ViewInv => AtOldestIsHonest
  BY DEF ViewInv, ListInv
<1> QED
  BY <1>1, ViewInvariant, PTL

-----------------------------------------------------------------------------
(* The calendar of the history handlers.                                  *)

(* The next year begins 365 or 366 days later.                             *)
LEMMA YearLength ==
    ASSUME NEW y \in Nat \ {0}
    PROVE  YearsUpTo(y) = YearsUpTo(y - 1) + (IF Leap(y) THEN 366 ELSE 365)
  BY DEF YearsUpTo, Leap

(* A later year begins later.                                              *)
LEMMA YearsGrow ==
    ASSUME NEW y \in Nat, NEW z \in Nat, y <= z
    PROVE  YearsUpTo(y) \in Nat /\ YearsUpTo(y) <= YearsUpTo(z)
  BY DEF YearsUpTo

(* A month begins where the one before it ends, and December ends the      *)
(* year.                                                                   *)
LEMMA MonthTable ==
    ASSUME NEW y \in Nat \ {0}, NEW m \in 1 .. 12
    PROVE  /\ Length(y, m) \in 28 .. 31
           /\ MonthsBefore(y, m) \in 0 .. 335
           /\ m = 1 => MonthsBefore(y, m) = 0
           /\ m = 12 => MonthsBefore(y, m) + Length(y, m)
                        = IF Leap(y) THEN 366 ELSE 365
           /\ m < 12 => MonthsBefore(y, m + 1) = MonthsBefore(y, m) + Length(y, m)
<1>1. Leap(y) \in BOOLEAN
  BY DEF Leap
<1> QED
  BY <1>1, SMTT(60) DEF Length, MonthsBefore

(* A month has ended when a later month of its year begins.                *)
LEMMA MonthOrder ==
    ASSUME NEW y \in Nat \ {0}, NEW m \in 1 .. 12, NEW n \in 1 .. 12, m < n
    PROVE  MonthsBefore(y, m) + Length(y, m) <= MonthsBefore(y, n)
<1>1. Leap(y) \in BOOLEAN
  BY DEF Leap
<1> QED
  BY <1>1, SMTT(60) DEF Length, MonthsBefore

(* The calendar's dates and their numbers.                                 *)
Ordinal(y, m, d) == DaysBefore(y, m) + d - 1

(* The order of dates.                                                     *)
Earlier(y, m, a, z, n, b) ==
    y < z \/ (y = z /\ m < n) \/ (y = z /\ m = n /\ a < b)

(* What a date of the calendar is.                                         *)
LEMMA DateFields ==
    ASSUME NEW d \in Dates
    PROVE  /\ d = <<d[1], d[2], d[3]>>
           /\ d[1] \in Nat \ {0} /\ d[1] \in FirstYear .. LastYear
           /\ d[2] \in 1 .. 12 /\ d[3] \in 1 .. 31
           /\ d[3] <= Length(d[1], d[2])
           /\ NumberOf[d] = Ordinal(d[1], d[2], d[3])
  BY HistoryAssumption DEF Dates, NumberOf, Ordinal

(* Every day of every month of the calendar is one of its dates.           *)
LEMMA IsDate ==
    ASSUME NEW y \in FirstYear .. LastYear, NEW m \in 1 .. 12, NEW d \in 1 .. 31,
           d <= Length(y, m)
    PROVE  /\ <<y, m, d>> \in Dates
           /\ Day(y, m, d) = NumberOf[<<y, m, d>>]
           /\ Day(y, m, d) = Ordinal(y, m, d)
  BY DEF Dates, NumberOf, Ordinal, Day

(* Within a month the numbers follow the days, and the next month goes on. *)
LEMMA OrdinalStep ==
    ASSUME NEW y \in FirstYear .. LastYear, NEW m \in 1 .. 12, NEW d \in Int
    PROVE  /\ DaysBefore(y, m) \in Nat /\ Ordinal(y, m, d) \in Int
           /\ Ordinal(y, m, d) = Ordinal(y, m, 1) + d - 1
           /\ m < 12 => Ordinal(y, m + 1, 1) = Ordinal(y, m, 1) + Length(y, m)
           /\ m = 12 => Ordinal(y + 1, 1, 1) = Ordinal(y, m, 1) + Length(y, m)
           /\ y = FirstYear /\ m = 1 => Ordinal(y, m, 1) = 0
<1>1. y \in Nat \ {0} /\ FirstYear \in Nat \ {0} /\ FirstYear <= y
  BY HistoryAssumption
<1>2. /\ YearsUpTo(FirstYear - 1) \in Nat /\ YearsUpTo(y - 1) \in Nat
      /\ YearsUpTo(FirstYear - 1) <= YearsUpTo(y - 1)
  BY <1>1, YearsGrow
<1>3. YearsUpTo(y) = YearsUpTo(y - 1) + (IF Leap(y) THEN 366 ELSE 365)
  BY <1>1, YearLength
<1>4. /\ Length(y, m) \in 28 .. 31
      /\ MonthsBefore(y, m) \in 0 .. 335
      /\ m = 1 => MonthsBefore(y, m) = 0
      /\ m = 12 => MonthsBefore(y, m) + Length(y, m)
                   = IF Leap(y) THEN 366 ELSE 365
      /\ m < 12 => MonthsBefore(y, m + 1) = MonthsBefore(y, m) + Length(y, m)
  BY <1>1, MonthTable
<1>5. MonthsBefore(y + 1, 1) = 0
  BY <1>1, MonthTable
<1>6. y + 1 - 1 = y /\ Leap(y) \in BOOLEAN
  BY <1>1 DEF Leap
<1> QED
  BY <1>1, <1>2, <1>3, <1>4, <1>5, <1>6 DEF Ordinal, DaysBefore

(* A month and a year are over before the next begins.                     *)
LEMMA OrdinalOrder ==
    ASSUME NEW y \in FirstYear .. LastYear, NEW m \in 1 .. 12, NEW a \in 1 .. 31,
           NEW z \in FirstYear .. LastYear, NEW n \in 1 .. 12, NEW b \in 1 .. 31,
           a <= Length(y, m), Earlier(y, m, a, z, n, b)
    PROVE  Ordinal(y, m, a) < Ordinal(z, n, b)
<1> DEFINE base == YearsUpTo(FirstYear - 1)
           Y == YearsUpTo(y - 1)
           Z == YearsUpTo(z - 1)
           M == MonthsBefore(y, m)
           N == MonthsBefore(z, n)
           len == Length(y, m)
           year == IF Leap(y) THEN 366 ELSE 365
<1>1. y \in Nat \ {0} /\ z \in Nat \ {0} /\ FirstYear \in Nat \ {0}
  BY HistoryAssumption
<1>2. base \in Int /\ Y \in Int /\ Z \in Int
  BY <1>1, YearsGrow
<1>3. len \in 28 .. 31 /\ M \in 0 .. 335 /\ N \in 0 .. 335 /\ year \in {365, 366}
  <2>1. len \in 28 .. 31 /\ M \in 0 .. 335
    BY <1>1, MonthTable
  <2>2. N \in 0 .. 335
    BY <1>1, MonthTable
  <2>3. year \in {365, 366}
    OBVIOUS
  <2> QED
    BY <2>1, <2>2, <2>3
<1>4. Ordinal(y, m, a) = Y - base + M + a - 1 /\ Ordinal(z, n, b) = Z - base + N + b - 1
  BY DEF Ordinal, DaysBefore
<1>5. a <= len
  OBVIOUS
<1>6. M + len <= year
  <2> DEFINE M12 == MonthsBefore(y, 12)
             len12 == Length(y, 12)
  <2>1. M12 + len12 = year /\ M12 \in 0 .. 335 /\ len12 \in 28 .. 31
    BY <1>1, MonthTable
  <2>2. m < 12 => M + len <= M12
    BY <1>1, MonthOrder
  <2>3. m = 12 => M = M12 /\ len = len12
    OBVIOUS
  <2> HIDE DEF M, M12, len, len12, year
  <2> QED
    BY <1>3, <2>1, <2>2, <2>3
<1>7. y < z => Y + year <= Z
  <2> SUFFICES ASSUME y < z PROVE Y + year <= Z
    OBVIOUS
  <2>1. YearsUpTo(y) = Y + year
    BY <1>1, YearLength
  <2>2. YearsUpTo(y) <= Z
    BY <1>1, YearsGrow
  <2> QED
    BY <2>1, <2>2
<1>8. y = z => Y = Z
  OBVIOUS
<1>9. y = z /\ m < n => M + len <= N
  BY <1>1, MonthOrder
<1>10. y = z /\ m = n => M = N
  OBVIOUS
<1> HIDE DEF base, Y, Z, M, N, len, year
<1> QED
  BY <1>1, <1>2, <1>3, <1>4, <1>5, <1>6, <1>7, <1>8, <1>9, <1>10 DEF Earlier

(* The days of the calendar are numbered from its first one on.            *)
LEMMA OrdinalIsNat ==
    ASSUME NEW y \in FirstYear .. LastYear, NEW m \in 1 .. 12, NEW d \in 1 .. 31
    PROVE  Ordinal(y, m, d) \in Nat
<1>1. 1 \in Int
  OBVIOUS
<1>2. DaysBefore(y, m) \in Nat
  BY <1>1, OrdinalStep
<1> QED
  BY <1>2 DEF Ordinal

(* Two dates have different numbers, so a number's date is the one it came *)
(* from.                                                                   *)
LEMMA DateOfNumber ==
    ASSUME NEW d \in Dates
    PROVE  NumberOf[d] \in Nat /\ DateOf[NumberOf[d]] = d
<1>1. ASSUME NEW e \in Dates, NumberOf[e] = NumberOf[d] PROVE e = d
  <2>1. PICK y \in FirstYear .. LastYear, m \in 1 .. 12, a \in 1 .. 31 :
           d = <<y, m, a>> /\ a <= Length(y, m) /\ NumberOf[d] = Ordinal(y, m, a)
    BY DateFields
  <2>2. PICK z \in FirstYear .. LastYear, n \in 1 .. 12, b \in 1 .. 31 :
           e = <<z, n, b>> /\ b <= Length(z, n) /\ NumberOf[e] = Ordinal(z, n, b)
    BY DateFields
  <2>3. Ordinal(y, m, a) \in Nat
    BY OrdinalIsNat
  <2>4. Ordinal(y, m, a) = Ordinal(z, n, b)
    BY <1>1, <2>1, <2>2
  <2>5. ~Earlier(y, m, a, z, n, b)
    <3> SUFFICES ASSUME Earlier(y, m, a, z, n, b) PROVE FALSE
      OBVIOUS
    <3>1. a <= Length(y, m)
      BY <2>1
    <3>2. Ordinal(y, m, a) < Ordinal(z, n, b)
      BY <3>1, OrdinalOrder
    <3> QED
      BY <2>3, <2>4, <3>2
  <2>6. ~Earlier(z, n, b, y, m, a)
    <3> SUFFICES ASSUME Earlier(z, n, b, y, m, a) PROVE FALSE
      OBVIOUS
    <3>1. b <= Length(z, n)
      BY <2>2
    <3>2. Ordinal(z, n, b) < Ordinal(y, m, a)
      BY <3>1, OrdinalOrder
    <3> QED
      BY <2>3, <2>4, <3>2
  <2>7. y = z /\ m = n /\ a = b
    BY <2>5, <2>6, HistoryAssumption DEF Earlier
  <2> QED
    BY <2>1, <2>2, <2>7
<1>2. NumberOf[d] \in Range(NumberOf)
  BY DEF Range, NumberOf
<1>3. NumberOf[d] \in Nat
  BY DateFields, OrdinalIsNat
<1>4. DateOf[NumberOf[d]] = CHOOSE e \in Dates : NumberOf[e] = NumberOf[d]
  BY <1>2 DEF DateOf
<1>5. \E e \in Dates : NumberOf[e] = NumberOf[d]
  OBVIOUS
<1> QED
  BY <1>1, <1>3, <1>4, <1>5

(* The calendar has an end.                                                *)
LEMMA DatesAreFinite == IsFiniteSet(Dates)
<1>1. FirstYear \in Int /\ LastYear \in Int
  BY HistoryAssumption
<1>2. IsFiniteSet(FirstYear .. LastYear) /\ IsFiniteSet(1 .. 12) /\ IsFiniteSet(1 .. 31)
  <2>1. IsFiniteSet(FirstYear .. LastYear)
    BY <1>1, FS_Interval
  <2>2. 1 \in Int /\ 12 \in Int /\ 31 \in Int
    OBVIOUS
  <2>3. IsFiniteSet(1 .. 12)
    BY <2>2, FS_Interval
  <2>4. IsFiniteSet(1 .. 31)
    BY <2>2, FS_Interval
  <2> QED
    BY <2>1, <2>3, <2>4
<1> DEFINE P == (FirstYear .. LastYear) \X ((1 .. 12) \X (1 .. 31))
           f == [p \in P |-> <<p[1], p[2][1], p[2][2]>>]
<1>3. IsFiniteSet(P)
  <2>1. IsFiniteSet((1 .. 12) \X (1 .. 31))
    BY <1>2, FS_Product
  <2> QED
    BY <1>2, <2>1, FS_Product
<1>4. IsFiniteSet({f[p] : p \in P})
  <2>1. DOMAIN f = P
    OBVIOUS
  <2> HIDE DEF f, P
  <2> QED
    BY <1>3, <2>1, ImageIsFinite
<1>5. Dates \subseteq {f[p] : p \in P}
  <2> SUFFICES ASSUME NEW d \in Dates PROVE d \in {f[p] : p \in P}
    OBVIOUS
  <2>1. /\ d[1] \in FirstYear .. LastYear /\ d[2] \in 1 .. 12 /\ d[3] \in 1 .. 31
        /\ d = <<d[1], d[2], d[3]>>
    BY DateFields
  <2> DEFINE p == <<d[1], <<d[2], d[3]>>>>
  <2>2. p \in P /\ f[p] = d
    BY <2>1
  <2> QED
    BY <2>2
<1> HIDE DEF f, P
<1> QED
  BY <1>4, <1>5, FS_Subset

(* The calendar has no hole: the day after a date has one, up to the last. *)
LEMMA EveryDayHasDate ==
    ASSUME NEW n \in Nat, n <= Day(LastYear, 12, 31)
    PROVE  /\ DateOf[n] \in Dates /\ NumberOf[DateOf[n]] = n
<1>1. 1 \in Int
  OBVIOUS
<1>2. FirstYear \in FirstYear .. LastYear /\ LastYear \in FirstYear .. LastYear
  BY HistoryAssumption
<1>3. \A y \in FirstYear .. LastYear, m \in 1 .. 12 : Length(y, m) \in 28 .. 31
  BY HistoryAssumption, MonthTable
<1>4. <<FirstYear, 1, 1>> \in Dates /\ NumberOf[<<FirstYear, 1, 1>>] = 0
  <2>1. 1 \in 1 .. 12 /\ 1 \in 1 .. 31 /\ 1 \in Int /\ 1 <= Length(FirstYear, 1)
    BY <1>2, <1>3
  <2>2. /\ <<FirstYear, 1, 1>> \in Dates
        /\ NumberOf[<<FirstYear, 1, 1>>] = Ordinal(FirstYear, 1, 1)
    BY <1>2, <2>1, IsDate
  <2>3. Ordinal(FirstYear, 1, 1) = 0
    BY <1>2, <2>1, OrdinalStep
  <2> QED
    BY <2>2, <2>3
<1> DEFINE S == {d \in Dates : NumberOf[d] <= n}
           f == [d \in S |-> NumberOf[d]]
<1>5. IsFiniteSet(S) /\ S # {} /\ f \in [S -> Int]
  BY <1>4, DatesAreFinite, FS_Subset, DateOfNumber
<1>6. PICK d \in S : \A e \in S : f[e] <= f[d]
  <2> HIDE DEF S, f
  <2> QED
    BY <1>5, Greatest
<1>7. d \in Dates /\ NumberOf[d] \in Nat /\ NumberOf[d] <= n
      /\ \A e \in Dates : NumberOf[e] <= n => NumberOf[e] <= NumberOf[d]
  BY <1>6, DateOfNumber
<1> HIDE DEF S, f
<1>8. PICK y \in FirstYear .. LastYear, m \in 1 .. 12, a \in 1 .. 31 :
         d = <<y, m, a>> /\ a <= Length(y, m) /\ NumberOf[d] = Ordinal(y, m, a)
  BY <1>7, DateFields
<1>9. NumberOf[d] = n
  <2> SUFFICES ASSUME NumberOf[d] < n PROVE FALSE
    BY <1>7
  <2>1. \A e \in Dates : NumberOf[e] # NumberOf[d] + 1
    BY <1>7
  <2>2. 1 \in 1 .. 12 /\ 1 \in 1 .. 31 /\ 1 \in Int /\ 12 \in 1 .. 12 /\ 31 \in 1 .. 31
    OBVIOUS
  <2>3. Ordinal(y, m, 1) \in Nat /\ Ordinal(y, m, a) = Ordinal(y, m, 1) + a - 1
    <3>1. a \in Int
      OBVIOUS
    <3>2. Ordinal(y, m, 1) \in Nat
      BY <2>2, OrdinalIsNat
    <3> QED
      BY <3>1, <3>2, OrdinalStep
  <2>4. CASE a < Length(y, m)
    <3>1. a + 1 \in 1 .. 31 /\ a + 1 <= Length(y, m) /\ a + 1 \in Int
      BY <1>3, <2>4
    <3>2. <<y, m, a + 1>> \in Dates /\ NumberOf[<<y, m, a + 1>>] = Ordinal(y, m, a + 1)
      BY <3>1, IsDate
    <3>3. Ordinal(y, m, a + 1) = Ordinal(y, m, 1) + (a + 1) - 1
      BY <3>1, OrdinalStep
    <3> QED
      BY <1>8, <2>1, <2>3, <3>2, <3>3
  <2>5. CASE a = Length(y, m) /\ m < 12
    <3>1. m + 1 \in 1 .. 12
      BY <2>5
    <3>2. 1 <= Length(y, m + 1)
      BY <1>3, <3>1
    <3>3. <<y, m + 1, 1>> \in Dates /\ NumberOf[<<y, m + 1, 1>>] = Ordinal(y, m + 1, 1)
      BY <2>2, <3>1, <3>2, IsDate
    <3>4. Ordinal(y, m + 1, 1) = Ordinal(y, m, 1) + Length(y, m)
      BY <1>1, <2>5, OrdinalStep
    <3> QED
      BY <1>8, <2>1, <2>3, <2>5, <3>3, <3>4
  <2>6. CASE a = Length(y, m) /\ m = 12 /\ y < LastYear
    <3>1. y + 1 \in FirstYear .. LastYear
      BY <2>6, HistoryAssumption
    <3>2. 1 <= Length(y + 1, 1)
      BY <1>3, <2>2, <3>1
    <3>3. <<y + 1, 1, 1>> \in Dates /\ NumberOf[<<y + 1, 1, 1>>] = Ordinal(y + 1, 1, 1)
      BY <2>2, <3>1, <3>2, IsDate
    <3>4. Ordinal(y + 1, 1, 1) = Ordinal(y, m, 1) + Length(y, m)
      BY <1>1, <2>6, OrdinalStep
    <3> QED
      BY <1>8, <2>1, <2>3, <2>6, <3>3, <3>4
  <2>7. CASE a = Length(y, m) /\ m = 12 /\ y = LastYear
    <3>1. Length(LastYear, 12) = 31
      BY DEF Length
    <3>2. Day(LastYear, 12, 31) = NumberOf[d]
      BY <1>8, <2>7, <3>1 DEF Day
    <3> QED
      BY <1>7, <3>2
  <2> QED
    BY <1>8, <1>3, <2>4, <2>5, <2>6, <2>7, HistoryAssumption
<1> QED
  BY <1>7, <1>9, DateOfNumber

(* Year, month and day of the month of a numbered day.                     *)
LEMMA DateParts ==
    ASSUME NEW n \in Nat, n <= Day(LastYear, 12, 31)
    PROVE  \E y \in FirstYear .. LastYear, m \in 1 .. 12, a \in 1 .. 31 :
              /\ a <= Length(y, m) /\ n = Ordinal(y, m, a)
              /\ DateOf[n] = <<y, m, a>> /\ <<y, m, a>> \in Dates
<1> DEFINE d == DateOf[n]
<1>1. d \in Dates /\ NumberOf[d] = n
  BY EveryDayHasDate
<1> HIDE DEF d
<1>2. /\ d = <<d[1], d[2], d[3]>>
      /\ d[1] \in FirstYear .. LastYear
      /\ d[2] \in 1 .. 12 /\ d[3] \in 1 .. 31
      /\ d[3] <= Length(d[1], d[2])
      /\ NumberOf[d] = Ordinal(d[1], d[2], d[3])
  BY <1>1, DateFields
<1> USE <1>2
<1> WITNESS d[1] \in FirstYear .. LastYear, d[2] \in 1 .. 12, d[3] \in 1 .. 31
<1> QED
  BY <1>1, <1>2 DEF d

(* A month has 28 to 31 days.                                              *)
LEMMA LengthType ==
    ASSUME NEW y \in FirstYear .. LastYear, NEW m \in 1 .. 12
    PROVE  Length(y, m) \in 28 .. 31
<1>1. y \in Nat \ {0}
  BY HistoryAssumption
<1> QED
  BY <1>1, MonthTable

(* The first day of a month.                                               *)
LEMMA FirstDays ==
    ASSUME NEW y \in FirstYear .. LastYear, NEW m \in 1 .. 12
    PROVE  /\ Day(y, m, 1) = Ordinal(y, m, 1) /\ Ordinal(y, m, 1) \in Nat
           /\ <<y, m, 1>> \in Dates /\ DateOf[Ordinal(y, m, 1)] = <<y, m, 1>>
<1>1. 1 \in 1 .. 31 /\ 1 <= Length(y, m)
  BY LengthType
<1>2. /\ <<y, m, 1>> \in Dates
      /\ Day(y, m, 1) = NumberOf[<<y, m, 1>>]
      /\ Day(y, m, 1) = Ordinal(y, m, 1)
  BY <1>1, IsDate
<1>3. NumberOf[<<y, m, 1>>] \in Nat /\ DateOf[NumberOf[<<y, m, 1>>]] = <<y, m, 1>>
  BY <1>2, DateOfNumber
<1> QED
  BY <1>2, <1>3

(* The days of a month are numbered in a row.                              *)
LEMMA InMonth ==
    ASSUME NEW y \in FirstYear .. LastYear, NEW m \in 1 .. 12, NEW a \in 1 .. Length(y, m)
    PROVE  /\ a \in 1 .. 31 /\ <<y, m, a>> \in Dates
           /\ Day(y, m, a) = Ordinal(y, m, 1) + a - 1
           /\ Ordinal(y, m, a) = Ordinal(y, m, 1) + a - 1
           /\ DateOf[Ordinal(y, m, 1) + a - 1] = <<y, m, a>>
<1>1. a \in 1 .. 31 /\ a <= Length(y, m) /\ a \in Int
  BY LengthType
<1>2. /\ <<y, m, a>> \in Dates
      /\ Day(y, m, a) = NumberOf[<<y, m, a>>]
      /\ Day(y, m, a) = Ordinal(y, m, a)
  BY <1>1, IsDate
<1>3. DateOf[NumberOf[<<y, m, a>>]] = <<y, m, a>>
  BY <1>2, DateOfNumber
<1>4. Ordinal(y, m, a) = Ordinal(y, m, 1) + a - 1
  BY <1>1, OrdinalStep
<1> QED
  BY <1>1, <1>2, <1>3, <1>4

(* A later day is not of an earlier year.                                  *)
LEMMA LaterYear ==
    ASSUME NEW y \in FirstYear .. LastYear, NEW m \in 1 .. 12, NEW a \in 1 .. 31,
           NEW z \in FirstYear .. LastYear, NEW n \in 1 .. 12, NEW b \in 1 .. 31,
           b <= Length(z, n), Ordinal(y, m, a) <= Ordinal(z, n, b)
    PROVE  y <= z
<1> SUFFICES ASSUME z < y PROVE FALSE
  BY HistoryAssumption
<1>1. Earlier(z, n, b, y, m, a)
  BY DEF Earlier
<1>2. Ordinal(z, n, b) < Ordinal(y, m, a)
  BY <1>1, OrdinalOrder
<1>3. Ordinal(z, n, b) \in Nat /\ Ordinal(y, m, a) \in Nat
  BY OrdinalIsNat
<1> QED
  BY <1>2, <1>3

(* What a view may be asked for: its year has one before and one after.    *)
LEMMA AskedDate ==
    ASSUME NEW n \in Askable
    PROVE  /\ n \in Nat /\ n >= 365 /\ n <= Day(LastYear, 12, 31)
           /\ \E y \in FirstYear + 1 .. LastYear - 1, m \in 1 .. 12, a \in 1 .. 31 :
                 /\ a <= Length(y, m) /\ n = Ordinal(y, m, a) /\ DateOf[n] = <<y, m, a>>
                 /\ <<y, m, a>> \in Dates
<1> DEFINE F == FirstYear + 1
           L == LastYear - 1
<1>1. FirstYear \in Nat \ {0} /\ LastYear \in Nat /\ FirstYear + 2 <= LastYear
  BY HistoryAssumption
<1>2. /\ F \in FirstYear .. LastYear /\ L \in FirstYear .. LastYear
      /\ LastYear \in FirstYear .. LastYear
      /\ FirstYear \in FirstYear .. LastYear
  BY <1>1
<1> HIDE DEF F, L
<1>3. /\ 1 \in 1 .. 12 /\ 12 \in 1 .. 12 /\ 8 \in 1 .. 31 /\ 31 \in 1 .. 31
      /\ 8 \in Int /\ 1 \in Int
      /\ 8 <= Length(F, 1) /\ 31 <= Length(L, 12) /\ 31 <= Length(LastYear, 12)
  <2>1. Length(F, 1) \in 28 .. 31
    BY <1>2, LengthType
  <2>2. Length(L, 12) = 31 /\ Length(LastYear, 12) = 31
    BY DEF Length
  <2> QED
    BY <2>1, <2>2
<1>4. Day(F, 1, 8) = Ordinal(F, 1, 8)
  BY <1>2, <1>3, IsDate
<1>5. Day(L, 12, 31) = Ordinal(L, 12, 31)
  BY <1>2, <1>3, IsDate
<1>6. Day(LastYear, 12, 31) = Ordinal(LastYear, 12, 31)
  BY <1>2, <1>3, IsDate
<1>7. /\ Ordinal(F, 1, 8) \in Nat /\ Ordinal(L, 12, 31) \in Nat
      /\ Ordinal(LastYear, 12, 31) \in Nat
  BY <1>2, <1>3, OrdinalIsNat
<1>8. Ordinal(F, 1, 8) >= 365
  <2>1. Ordinal(F, 1, 8) = Ordinal(F, 1, 1) + 8 - 1
    BY <1>2, <1>3, OrdinalStep
  <2>2. YearsUpTo(FirstYear)
          = YearsUpTo(FirstYear - 1) + (IF Leap(FirstYear) THEN 366 ELSE 365)
    BY <1>1, YearLength
  <2>3. YearsUpTo(FirstYear - 1) \in Nat
    BY <1>1, YearsGrow
  <2>4. MonthsBefore(F, 1) = 0
    BY <1>1, <1>3, MonthTable DEF F
  <2>5. F - 1 = FirstYear
    BY <1>1 DEF F
  <2>6. Ordinal(F, 1, 1) = YearsUpTo(FirstYear) - YearsUpTo(FirstYear - 1)
    BY <2>2, <2>3, <2>4, <2>5 DEF Ordinal, DaysBefore
  <2> QED
    BY <2>1, <2>2, <2>3, <2>6
<1>9. Ordinal(L, 12, 31) < Ordinal(LastYear, 12, 31)
  <2>1. Earlier(L, 12, 31, LastYear, 12, 31)
    BY <1>1 DEF Earlier, L
  <2> QED
    BY <1>2, <1>3, <2>1, OrdinalOrder
<1>10. n \in Nat /\ Ordinal(F, 1, 8) <= n /\ n <= Ordinal(L, 12, 31)
  BY <1>4, <1>5, <1>7 DEF Askable, F, L
<1>11. n <= Day(LastYear, 12, 31)
  BY <1>6, <1>7, <1>9, <1>10
<1>12. PICK y \in FirstYear .. LastYear, m \in 1 .. 12, a \in 1 .. 31 :
          /\ a <= Length(y, m) /\ n = Ordinal(y, m, a)
          /\ DateOf[n] = <<y, m, a>> /\ <<y, m, a>> \in Dates
  BY <1>10, <1>11, DateParts
<1>13. F <= y
  BY <1>2, <1>3, <1>10, <1>12, LaterYear
<1>14. y <= L
  BY <1>2, <1>3, <1>10, <1>12, LaterYear
<1>15. y \in FirstYear + 1 .. LastYear - 1
  BY <1>1, <1>13, <1>14 DEF F, L
<1>16. n >= 365
  BY <1>7, <1>8, <1>10
<1>17. \E z \in FirstYear + 1 .. LastYear - 1, k \in 1 .. 12, b \in 1 .. 31 :
          /\ b <= Length(z, k) /\ n = Ordinal(z, k, b) /\ DateOf[n] = <<z, k, b>>
          /\ <<z, k, b>> \in Dates
  <2> WITNESS y \in FirstYear + 1 .. LastYear - 1, m \in 1 .. 12, a \in 1 .. 31
  <2> QED
    BY <1>12
<1> QED
  BY <1>10, <1>11, <1>16, <1>17

(* Whether a day belongs to the part of the period before that a request   *)
(* of day n, taken on day t, compares.                                     *)
Comparable(view, n, t, k) ==
    \/ Selected(view, n) # Selected(view, t)
    \/ view = "week" /\ Weekday(k) <= Weekday(t)
    \/ view = "month" /\ DateOf[k][3] <= DateOf[t][3]
    \/ view = "year" /\ \/ DateOf[k][2] < DateOf[t][2]
                        \/ DateOf[k][2] = DateOf[t][2] /\ DateOf[k][3] <= DateOf[t][3]

(* What the periods of a request of day n, taken on day t, must be: the    *)
(* one before ends where the selected one begins, and exactly its          *)
(* comparable days are compared.                                           *)
Fits(view, n, t) ==
    LET this == Selected(view, n)
        before == Selected(view, this.from - 1)
        compared == Previous(view, n, t)
    IN  /\ this.from \in Nat /\ this.to \in Int /\ this.from <= n
        /\ before.from \in Nat /\ before.to = this.from
        /\ compared.from = before.from
        /\ compared.to \in Int /\ compared.to <= this.from
        /\ \A k \in before.from .. before.to - 1 :
              k < compared.to <=> Comparable(view, n, t, k)

(* Weeks of seven days are compared up to the same day of the week.        *)
LEMMA WeekFits ==
    ASSUME NEW n \in Askable, NEW t \in Askable
    PROVE  Fits("week", n, t)
<1> DEFINE s == WeekStart(n)
           w == Weekday(t)
<1>1. n \in Nat /\ n >= 365 /\ t \in Nat /\ t >= 365 /\ FirstWeekday \in 0 .. 6
  BY AskedDate, HistoryAssumption
<1>2. /\ s \in Int /\ s <= n /\ s >= n - 6 /\ (s + FirstWeekday) % 7 = 0
      /\ w \in 0 .. 6 /\ WeekStart(t) \in Int
  BY <1>1 DEF WeekStart, Weekday
<1>3. /\ Selected("week", n) = Window(s, s + 7)
      /\ Selected("week", t) = Window(WeekStart(t), WeekStart(t) + 7)
  BY DEF Selected
<1>4. WeekStart(s - 1) = s - 7
  BY <1>1, <1>2 DEF WeekStart, Weekday
<1>5. Selected("week", s - 1) = Window(s - 7, s)
  <2>1. Selected("week", s - 1) = Window(WeekStart(s - 1), WeekStart(s - 1) + 7)
    BY DEF Selected
  <2>2. s - 7 + 7 = s
    BY <1>2
  <2> QED
    BY <1>4, <2>1, <2>2
<1>6. Previous("week", n, t) = Window(s - 7, WeekEnd(s, t))
  BY <1>3 DEF Previous, Window
<1> DEFINE end == WeekEnd(s, t)
<1>7. end = IF s = WeekStart(t) THEN s - 7 + w + 1 ELSE s
  BY DEF WeekEnd
<1>8. end \in Int /\ end <= s
  BY <1>2, <1>7
<1>9. Selected("week", n) # Selected("week", t) <=> s # WeekStart(t)
  BY <1>3 DEF Window
<1> HIDE DEF s, w, end
<1>10. ASSUME NEW k \in s - 7 .. s - 1
       PROVE  k < end <=> Comparable("week", n, t, k)
  <2>1. Weekday(k) = k - (s - 7)
    BY <1>1, <1>2 DEF Weekday
  <2>2. CASE s # WeekStart(t)
    BY <1>2, <1>7, <1>9, <2>2 DEF Comparable
  <2>3. CASE s = WeekStart(t)
    <3>1. k < end <=> Weekday(k) <= w
      BY <1>2, <1>7, <2>1, <2>3
    <3>2. Comparable("week", n, t, k) <=> Weekday(k) <= w
      BY <1>9, <2>3 DEF Comparable, w
    <3> QED
      BY <3>1, <3>2
  <2> QED
    BY <2>2, <2>3
<1>11. s - 7 \in Nat /\ s \in Nat /\ s + 7 \in Int
  BY <1>1, <1>2
<1>12. /\ Selected("week", n).from = s /\ Selected("week", n).to = s + 7
       /\ Previous("week", n, t).from = s - 7 /\ Previous("week", n, t).to = end
       /\ Selected("week", s - 1).from = s - 7 /\ Selected("week", s - 1).to = s
  BY <1>3, <1>5, <1>6 DEF Window, end
<1> QED
  BY <1>2, <1>8, <1>10, <1>11, <1>12 DEF Fits

(* The month before a month of the calendar.                               *)
LEMMA MonthBefore ==
    ASSUME NEW y \in FirstYear + 1 .. LastYear - 1, NEW m \in 1 .. 12
    PROVE  \E py \in FirstYear .. LastYear, pm \in 1 .. 12 :
              /\ PreviousMonth(Ordinal(y, m, 1)) = Ordinal(py, pm, 1)
              /\ Ordinal(y, m, 1) = Ordinal(py, pm, 1) + Length(py, pm)
              /\ AddMonth(Ordinal(py, pm, 1)) = Ordinal(y, m, 1)
<1>1. y \in FirstYear .. LastYear /\ y - 1 \in FirstYear .. LastYear /\ 1 \in Int
      /\ 12 \in 1 .. 12 /\ 1 \in 1 .. 12 /\ y - 1 + 1 = y
  BY HistoryAssumption
<1>2. DateOf[Ordinal(y, m, 1)] = <<y, m, 1>>
  BY <1>1, FirstDays
<1>3. CASE m = 1
  <2>1. /\ Day(y - 1, 12, 1) = Ordinal(y - 1, 12, 1)
        /\ DateOf[Ordinal(y - 1, 12, 1)] = <<y - 1, 12, 1>>
    BY <1>1, FirstDays
  <2>2. Day(y, 1, 1) = Ordinal(y, 1, 1)
    BY <1>1, FirstDays
  <2>3. Ordinal(y - 1 + 1, 1, 1) = Ordinal(y - 1, 12, 1) + Length(y - 1, 12)
    BY <1>1, OrdinalStep
  <2>4. PreviousMonth(Ordinal(y, m, 1)) = Ordinal(y - 1, 12, 1)
    BY <1>2, <1>3, <2>1 DEF PreviousMonth
  <2>5. AddMonth(Ordinal(y - 1, 12, 1)) = Ordinal(y, m, 1)
    BY <1>1, <1>3, <2>1, <2>2 DEF AddMonth
  <2> USE <1>1
  <2> WITNESS y - 1 \in FirstYear .. LastYear, 12 \in 1 .. 12
  <2> QED
    BY <1>1, <1>3, <2>3, <2>4, <2>5
<1>4. CASE m # 1
  <2>1. m - 1 \in 1 .. 12 /\ m - 1 + 1 = m /\ m - 1 < 12 /\ m - 1 # 12
    BY <1>4
  <2>2. /\ Day(y, m - 1, 1) = Ordinal(y, m - 1, 1)
        /\ DateOf[Ordinal(y, m - 1, 1)] = <<y, m - 1, 1>>
    BY <1>1, <2>1, FirstDays
  <2>3. Day(y, m, 1) = Ordinal(y, m, 1)
    BY <1>1, FirstDays
  <2>4. Ordinal(y, m - 1 + 1, 1) = Ordinal(y, m - 1, 1) + Length(y, m - 1)
    BY <1>1, <2>1, OrdinalStep
  <2>5. PreviousMonth(Ordinal(y, m, 1)) = Ordinal(y, m - 1, 1)
    BY <1>2, <1>4, <2>2 DEF PreviousMonth
  <2>6. AddMonth(Ordinal(y, m - 1, 1)) = Ordinal(y, m, 1)
    BY <2>1, <2>2, <2>3 DEF AddMonth
  <2> USE <1>1, <2>1
  <2> WITNESS y \in FirstYear .. LastYear, m - 1 \in 1 .. 12
  <2> QED
    BY <2>1, <2>4, <2>5, <2>6
<1> QED
  BY <1>3, <1>4

(* Months are compared up to the same day of the month, whatever their     *)
(* lengths.                                                                *)
LEMMA MonthFits ==
    ASSUME NEW n \in Askable, NEW t \in Askable
    PROVE  Fits("month", n, t)
<1>1. PICK y \in FirstYear + 1 .. LastYear - 1, m \in 1 .. 12, a \in 1 .. 31 :
         /\ a <= Length(y, m) /\ n = Ordinal(y, m, a) /\ DateOf[n] = <<y, m, a>>
         /\ <<y, m, a>> \in Dates
  BY AskedDate
<1>2. PICK z \in FirstYear + 1 .. LastYear - 1, k \in 1 .. 12, b \in 1 .. 31 :
         /\ b <= Length(z, k) /\ t = Ordinal(z, k, b) /\ DateOf[t] = <<z, k, b>>
         /\ <<z, k, b>> \in Dates
  BY AskedDate
<1>3. y \in FirstYear .. LastYear /\ z \in FirstYear .. LastYear
  BY HistoryAssumption
<1> DEFINE s == Ordinal(y, m, 1)
           st == Ordinal(z, k, 1)
<1>4. /\ s \in Nat /\ st \in Nat /\ Day(y, m, 1) = s /\ Day(z, k, 1) = st
      /\ DateOf[s] = <<y, m, 1>>
  BY <1>3, FirstDays
<1>5. MonthStart(n) = s /\ MonthStart(t) = st
  BY <1>1, <1>2, <1>4 DEF MonthStart
<1>6. /\ Selected("month", n) = Window(s, AddMonth(s))
      /\ Selected("month", t) = Window(st, AddMonth(st))
  BY <1>5 DEF Selected
<1>7. PICK py \in FirstYear .. LastYear, pm \in 1 .. 12 :
         /\ PreviousMonth(s) = Ordinal(py, pm, 1)
         /\ s = Ordinal(py, pm, 1) + Length(py, pm)
         /\ AddMonth(Ordinal(py, pm, 1)) = s
  BY MonthBefore
<1> DEFINE p == Ordinal(py, pm, 1)
           len == Length(py, pm)
<1>8. p \in Nat /\ len \in 28 .. 31 /\ Day(py, pm, 1) = p
  BY FirstDays, LengthType
<1>9. \A j \in 1 .. len : DateOf[p + j - 1] = <<py, pm, j>>
  BY InMonth
<1>10. DateOf[s - 1] = <<py, pm, len>>
  <2>1. s - 1 = p + len - 1 /\ len \in 1 .. len
    BY <1>7, <1>8
  <2> QED
    BY <1>9, <2>1
<1>11. Selected("month", s - 1) = Window(p, s)
  <2>1. MonthStart(s - 1) = p
    BY <1>8, <1>10 DEF MonthStart
  <2> QED
    BY <1>7, <2>1 DEF Selected
<1> DEFINE end == MonthEnd(s, t)
<1>12. Previous("month", n, t) = Window(p, end)
  BY <1>6, <1>7 DEF Previous, Window
<1>13. end = IF s = st THEN p + (IF b <= len THEN b ELSE len) ELSE s
  <2> DEFINE cap == {b, len}
  <2>1. Min(cap) = IF b <= len THEN b ELSE len
    <3>1. cap \in SUBSET Int /\ IsFiniteSet(cap) /\ cap # {}
      <4>1. IsFiniteSet({b} \cup {len})
        BY FS_Singleton, FS_Union
      <4>2. cap = {b} \cup {len} /\ b \in Int /\ len \in Int
        BY <1>8
      <4> QED
        BY <4>1, <4>2
    <3>2. Min(cap) \in cap /\ \A x \in cap : Min(cap) <= x
      <4> HIDE DEF cap
      <4> QED
        BY <3>1, MaxMin
    <3> QED
      BY <1>8, <3>2
  <2>2. DateOf[t][3] = b /\ DateOf[s - 1][3] = len
    BY <1>2, <1>10
  <2> QED
    BY <1>5, <1>7, <2>1, <2>2 DEF MonthEnd
<1>14. Selected("month", n) # Selected("month", t) <=> s # st
  BY <1>6 DEF Window
<1>15. AddMonth(s) \in Int
  <2>1. m = 12 => y + 1 \in FirstYear .. LastYear /\ 1 \in 1 .. 12
    BY HistoryAssumption
  <2>2. m # 12 => m + 1 \in 1 .. 12
    OBVIOUS
  <2>3. ASSUME m = 12 PROVE Day(y + 1, 1, 1) \in Int
    <3>1. y + 1 \in FirstYear .. LastYear /\ 1 \in 1 .. 12
      BY <2>1, <2>3
    <3>2. Day(y + 1, 1, 1) = Ordinal(y + 1, 1, 1) /\ Ordinal(y + 1, 1, 1) \in Nat
      BY <3>1, FirstDays
    <3> QED
      BY <3>2
  <2>4. ASSUME m # 12 PROVE Day(y, m + 1, 1) \in Int
    <3>1. m + 1 \in 1 .. 12
      BY <2>2, <2>4
    <3>2. Day(y, m + 1, 1) = Ordinal(y, m + 1, 1) /\ Ordinal(y, m + 1, 1) \in Nat
      BY <1>3, <3>1, FirstDays
    <3> QED
      BY <3>2
  <2> QED
    BY <1>4, <2>3, <2>4 DEF AddMonth
<1> HIDE DEF s, st, p, len, end
<1>16. end \in Int /\ end <= s /\ s = p + len /\ s <= n
  <2>1. n = s + a - 1
    <3>1. a \in Int
      OBVIOUS
    <3> QED
      BY <1>1, <1>3, <3>1, OrdinalStep DEF s
  <2> QED
    BY <1>4, <1>7, <1>8, <1>13, <2>1 DEF p, len
<1>17. ASSUME NEW q \in p .. s - 1
       PROVE  q < end <=> Comparable("month", n, t, q)
  <2> DEFINE j == q - p + 1
  <2>1. j \in 1 .. len /\ q = p + j - 1
    BY <1>8, <1>16
  <2> HIDE DEF j
  <2>2. DateOf[q][3] = j /\ DateOf[t][3] = b
    BY <1>2, <1>9, <2>1
  <2>3. CASE s # st
    BY <1>4, <1>8, <1>13, <1>14, <2>3 DEF Comparable
  <2>4. CASE s = st
    <3>1. q < end <=> j <= b
      BY <1>8, <1>13, <2>1, <2>4
    <3>2. Comparable("month", n, t, q) <=> DateOf[q][3] <= DateOf[t][3]
      BY <1>14, <2>4 DEF Comparable
    <3> QED
      BY <2>2, <3>1, <3>2
  <2> QED
    BY <2>3, <2>4
<1>18. /\ Selected("month", n).from = s /\ Selected("month", n).to = AddMonth(s)
       /\ Previous("month", n, t).from = p /\ Previous("month", n, t).to = end
       /\ Selected("month", s - 1).from = p /\ Selected("month", s - 1).to = s
  BY <1>6, <1>11, <1>12 DEF Window
<1> QED
  BY <1>4, <1>8, <1>15, <1>16, <1>17, <1>18 DEF Fits

(* Within a year the days go by month and day of the month.                *)
LEMMA WithinYear ==
    ASSUME NEW y \in FirstYear .. LastYear,
           NEW m \in 1 .. 12, NEW a \in 1 .. Length(y, m),
           NEW k \in 1 .. 12, NEW c \in 1 .. Length(y, k)
    PROVE  Ordinal(y, m, a) <= Ordinal(y, k, c) <=> m < k \/ (m = k /\ a <= c)
<1>1. a \in 1 .. 31 /\ c \in 1 .. 31 /\ a <= Length(y, m) /\ c <= Length(y, k)
  BY LengthType
<1>2. Ordinal(y, m, a) \in Nat /\ Ordinal(y, k, c) \in Nat
  BY <1>1, OrdinalIsNat
<1>3. CASE m < k \/ (m = k /\ a < c)
  <2>1. Earlier(y, m, a, y, k, c)
    BY <1>3 DEF Earlier
  <2>2. Ordinal(y, m, a) < Ordinal(y, k, c)
    BY <1>1, <2>1, OrdinalOrder
  <2> QED
    BY <1>1, <1>2, <1>3, <2>2
<1>4. CASE k < m \/ (m = k /\ c < a)
  <2>1. Earlier(y, k, c, y, m, a)
    BY <1>4 DEF Earlier
  <2>2. Ordinal(y, k, c) < Ordinal(y, m, a)
    BY <1>1, <2>1, OrdinalOrder
  <2> QED
    BY <1>1, <1>2, <1>4, <2>2
<1>5. CASE m = k /\ a = c
  BY <1>1, <1>2, <1>5
<1> QED
  BY <1>1, <1>3, <1>4, <1>5

(* What previous_year_comparison_end makes of a day exists in its year, and *)
(* the days up to it are those up to the day itself.                       *)
LEMMA CappedDay ==
    ASSUME NEW y \in FirstYear + 1 .. LastYear,
           NEW k \in 1 .. 12, NEW b \in 1 .. Length(y, k),
           NEW c, c = IF <<y - 1, k, b>> \in Dates THEN b ELSE b - 1
    PROVE  /\ c \in 1 .. Length(y - 1, k)
           /\ \A m \in 1 .. 12 : \A a \in 1 .. Length(y - 1, m) :
                 (m < k \/ (m = k /\ a <= c)) <=> (m < k \/ (m = k /\ a <= b))
<1>1. /\ y \in FirstYear .. LastYear /\ y - 1 \in FirstYear .. LastYear
      /\ y \in Nat /\ y - 1 \in Nat
  BY HistoryAssumption
<1>2. Length(y, k) \in 28 .. 31 /\ Length(y - 1, k) \in 28 .. 31
  BY <1>1, LengthType
<1>3. b \in 1 .. 31
  BY <1>2
<1>4. CASE b <= Length(y - 1, k)
  <2>1. <<y - 1, k, b>> \in Dates
    BY <1>1, <1>3, <1>4, IsDate
  <2> QED
    BY <1>2, <1>3, <1>4, <2>1
<1>5. CASE b > Length(y - 1, k)
  <2>1. <<y - 1, k, b>> \notin Dates
    <3> SUFFICES ASSUME <<y - 1, k, b>> \in Dates PROVE FALSE
      OBVIOUS
    <3>1. b <= Length(y - 1, k)
      BY DEF Dates
    <3> QED
      BY <1>2, <1>3, <1>5, <3>1
  <2>2. Length(y, k) > Length(y - 1, k)
    BY <1>2, <1>3, <1>5
  <2>3. k = 2
    BY <1>2, <2>2 DEF Length
  <2>4. Length(y, k) <= 29 /\ Length(y - 1, k) = 28
    <3>1. Length(y, k) \in {28, 29} /\ Length(y - 1, k) \in {28, 29}
      BY <2>3 DEF Length
    <3> QED
      BY <2>2, <3>1
  <2>5. b = 29 /\ c = 28
    BY <1>2, <1>3, <1>5, <2>1, <2>4
  <2> QED
    BY <2>3, <2>4, <2>5
<1> QED
  BY <1>2, <1>3, <1>4, <1>5

(* Years are compared up to the same month and day, leap years or not.     *)
LEMMA YearFits ==
    ASSUME NEW n \in Askable, NEW t \in Askable
    PROVE  Fits("year", n, t)
<1>1. PICK y \in FirstYear + 1 .. LastYear - 1, m \in 1 .. 12, a \in 1 .. 31 :
         /\ a <= Length(y, m) /\ n = Ordinal(y, m, a) /\ DateOf[n] = <<y, m, a>>
         /\ <<y, m, a>> \in Dates
  BY AskedDate
<1>2. PICK z \in FirstYear + 1 .. LastYear - 1, k \in 1 .. 12, b \in 1 .. 31 :
         /\ b <= Length(z, k) /\ t = Ordinal(z, k, b) /\ DateOf[t] = <<z, k, b>>
         /\ <<z, k, b>> \in Dates
  BY AskedDate
<1>3. /\ y \in FirstYear .. LastYear /\ y - 1 \in FirstYear .. LastYear
      /\ y + 1 \in FirstYear .. LastYear /\ z \in FirstYear .. LastYear
      /\ z \in FirstYear + 1 .. LastYear
      /\ y \in Nat /\ z \in Nat /\ y - 1 + 1 = y
      /\ 1 \in 1 .. 12 /\ 12 \in 1 .. 12 /\ 1 \in Int
  BY HistoryAssumption
<1> DEFINE s == Ordinal(y, 1, 1)
           st == Ordinal(z, 1, 1)
           p == Ordinal(y - 1, 1, 1)
           next == Ordinal(y + 1, 1, 1)
<1>4. /\ s \in Nat /\ Day(y, 1, 1) = s /\ DateOf[s] = <<y, 1, 1>>
      /\ st \in Nat /\ Day(z, 1, 1) = st /\ DateOf[st] = <<z, 1, 1>>
      /\ p \in Nat /\ Day(y - 1, 1, 1) = p
      /\ next \in Nat /\ Day(y + 1, 1, 1) = next
  BY <1>3, FirstDays
<1>5. YearStart(n) = s /\ YearStart(t) = st
  BY <1>1, <1>2, <1>4 DEF YearStart
<1>6. Selected("year", n) = Window(s, next)
  BY <1>1, <1>4, <1>5 DEF Selected
<1>7. Selected("year", t) = Window(st, Day(z + 1, 1, 1))
  BY <1>2, <1>5 DEF Selected
<1>8. DateOf[s - 1] = <<y - 1, 12, 31>> /\ s - 1 = Ordinal(y - 1, 12, 31)
  <2>1. Length(y - 1, 12) = 31
    BY DEF Length
  <2>2. s = Ordinal(y - 1, 12, 1) + 31
    <3>1. Ordinal(y - 1 + 1, 1, 1) = Ordinal(y - 1, 12, 1) + Length(y - 1, 12)
      BY <1>3, OrdinalStep
    <3> QED
      BY <1>3, <2>1, <3>1
  <2>3. 31 \in 1 .. Length(y - 1, 12)
    BY <2>1
  <2>4. /\ Ordinal(y - 1, 12, 31) = Ordinal(y - 1, 12, 1) + 31 - 1
        /\ DateOf[Ordinal(y - 1, 12, 1) + 31 - 1] = <<y - 1, 12, 31>>
    BY <1>3, <2>3, InMonth
  <2>5. Ordinal(y - 1, 12, 1) \in Nat
    BY <1>3, FirstDays
  <2>6. s - 1 = Ordinal(y - 1, 12, 1) + 31 - 1
    BY <2>2, <2>5
  <2> HIDE DEF s
  <2> QED
    BY <2>4, <2>6
<1>9. YearStart(s - 1) = p
  BY <1>4, <1>8 DEF YearStart
<1>10. Selected("year", s - 1) = Window(p, s)
  BY <1>3, <1>4, <1>8, <1>9 DEF Selected
<1> DEFINE end == YearEnd(s, t)
<1>11. Previous("year", n, t) = Window(p, end)
  BY <1>6, <1>9 DEF Previous, Window
<1>12. s = st <=> y = z
  BY <1>4
<1>13. Selected("year", n) # Selected("year", t) <=> s # st
  BY <1>4, <1>6, <1>7, <1>12 DEF Window
<1>14. s # st => end = s
  BY <1>5 DEF YearEnd
<1> DEFINE c == IF <<y - 1, k, b>> \in Dates THEN b ELSE b - 1
<1>15. y = z => b \in 1 .. Length(y, k)
  BY <1>2
<1>16. ASSUME y = z
       PROVE  /\ c \in 1 .. Length(y - 1, k)
              /\ \A m1 \in 1 .. 12 : \A a1 \in 1 .. Length(y - 1, m1) :
                    (m1 < k \/ (m1 = k /\ a1 <= c)) <=> (m1 < k \/ (m1 = k /\ a1 <= b))
  <2>1. b \in 1 .. Length(y, k) /\ y \in FirstYear + 1 .. LastYear
    BY <1>3, <1>15, <1>16
  <2> HIDE DEF c
  <2>2. c = IF <<y - 1, k, b>> \in Dates THEN b ELSE b - 1
    BY DEF c
  <2> QED
    BY <2>1, <2>2, CappedDay
<1>17. s = st => end = Ordinal(y - 1, k, c) + 1
  <2> SUFFICES ASSUME s = st PROVE end = Ordinal(y - 1, k, c) + 1
    OBVIOUS
  <2>1. y = z
    BY <1>12
  <2>2. c \in 1 .. Length(y - 1, k)
    BY <1>16, <2>1
  <2>3. end = Day(y - 1, k, c) + 1
    BY <1>2, <1>5, <2>1 DEF YearEnd
  <2>4. Day(y - 1, k, c) = Ordinal(y - 1, k, c)
    <3> HIDE DEF c
    <3>1. /\ Day(y - 1, k, c) = Ordinal(y - 1, k, 1) + c - 1
          /\ Ordinal(y - 1, k, c) = Ordinal(y - 1, k, 1) + c - 1
      BY <1>3, <2>2, InMonth
    <3> QED
      BY <3>1
  <2> QED
    BY <2>3, <2>4
<1> HIDE DEF s, st, p, next, end, c
<1>18. ASSUME s = st
       PROVE  Ordinal(y - 1, k, c) \in Nat /\ Ordinal(y - 1, k, c) <= s - 1
  <2>1. c \in 1 .. Length(y - 1, k) /\ Length(y - 1, k) \in 28 .. 31
    BY <1>3, <1>12, <1>16, <1>18, LengthType
  <2>2. c \in 1 .. 31 /\ 31 \in 1 .. Length(y - 1, 12)
    <3>1. Length(y - 1, 12) = 31
      BY DEF Length
    <3> QED
      BY <2>1, <3>1
  <2>3. Ordinal(y - 1, k, c) <= Ordinal(y - 1, 12, 31)
        <=> k < 12 \/ (k = 12 /\ c <= 31)
    BY <1>3, <2>1, <2>2, WithinYear
  <2>4. Ordinal(y - 1, k, c) <= Ordinal(y - 1, 12, 31)
    BY <2>2, <2>3
  <2>5. Ordinal(y - 1, k, c) \in Nat
    BY <1>3, <2>2, OrdinalIsNat
  <2> QED
    BY <1>8, <2>4, <2>5
<1>19. end \in Int /\ end <= s
  BY <1>4, <1>14, <1>17, <1>18
<1>20. s <= n
  <2>1. 1 \in 1 .. Length(y, 1) /\ a \in 1 .. Length(y, m)
    BY <1>1, <1>3, LengthType
  <2>2. Ordinal(y, 1, 1) <= Ordinal(y, m, a) <=> 1 < m \/ (1 = m /\ 1 <= a)
    BY <1>3, <2>1, WithinYear
  <2> QED
    BY <1>1, <2>1, <2>2 DEF s
<1>21. ASSUME NEW q \in p .. s - 1
       PROVE  q < end <=> Comparable("year", n, t, q)
  <2>1. q \in Nat /\ q <= s - 1 /\ p <= q
    BY <1>4
  <2>2. CASE s # st
    BY <1>13, <1>14, <2>1, <2>2, <1>4 DEF Comparable
  <2>3. CASE s = st
    <3>1. q <= Day(LastYear, 12, 31)
      <4>1. n \in Nat /\ n <= Day(LastYear, 12, 31)
        BY AskedDate
      <4>2. 12 \in 1 .. 12 /\ 31 \in 1 .. 31 /\ LastYear \in FirstYear .. LastYear
            /\ 31 <= Length(LastYear, 12)
        BY HistoryAssumption DEF Length
      <4>3. Day(LastYear, 12, 31) \in Nat
        BY <4>2, IsDate, OrdinalIsNat
      <4> QED
        BY <1>4, <1>20, <2>1, <4>1, <4>3
    <3>2. PICK qy \in FirstYear .. LastYear, qm \in 1 .. 12, qa \in 1 .. 31 :
             /\ qa <= Length(qy, qm) /\ q = Ordinal(qy, qm, qa)
             /\ DateOf[q] = <<qy, qm, qa>> /\ <<qy, qm, qa>> \in Dates
      BY <2>1, <3>1, DateParts
    <3>3. qy = y - 1
      <4>1. 1 \in 1 .. 31 /\ 31 \in 1 .. 31 /\ 31 <= Length(y - 1, 12)
        BY DEF Length
      <4>2. y - 1 <= qy
        BY <1>3, <2>1, <3>2, <4>1, LaterYear DEF p
      <4>3. qy <= y - 1
        BY <1>3, <1>8, <2>1, <3>2, <4>1, LaterYear
      <4> QED
        BY <1>3, <4>2, <4>3
    <3>4. qa \in 1 .. Length(y - 1, qm) /\ c \in 1 .. Length(y - 1, k)
      BY <1>12, <1>16, <2>3, <3>2, <3>3
    <3>5. Ordinal(y - 1, qm, qa) <= Ordinal(y - 1, k, c)
          <=> qm < k \/ (qm = k /\ qa <= c)
      BY <1>3, <3>4, WithinYear
    <3>6. q < end <=> Ordinal(y - 1, qm, qa) <= Ordinal(y - 1, k, c)
      BY <1>17, <1>18, <2>1, <2>3, <3>2, <3>3
    <3>7. (qm < k \/ (qm = k /\ qa <= c)) <=> (qm < k \/ (qm = k /\ qa <= b))
      BY <1>12, <1>16, <2>3, <3>4
    <3>8. Comparable("year", n, t, q) <=> qm < k \/ (qm = k /\ qa <= b)
      BY <1>2, <1>13, <2>3, <3>2 DEF Comparable
    <3> QED
      BY <3>5, <3>6, <3>7, <3>8
  <2> QED
    BY <2>2, <2>3
<1>22. /\ Selected("year", n).from = s /\ Selected("year", n).to = next
       /\ Previous("year", n, t).from = p /\ Previous("year", n, t).to = end
       /\ Selected("year", s - 1).from = p /\ Selected("year", s - 1).to = s
  BY <1>6, <1>10, <1>11 DEF Window
<1>23. next \in Int
  BY <1>4
<1> QED
  BY <1>4, <1>19, <1>20, <1>21, <1>22, <1>23 DEF Fits

-----------------------------------------------------------------------------
(* Sums over finite sets of devices.                                       *)

(* A sum counts the units that lie below the values.                       *)
Units(f, T) == {p \in T \X Nat : p[2] < f[p[1]]}

(* Below the value of one point there are as many units as the value says. *)
LEMMA UnitsOfOne ==
    ASSUME NEW x, NEW n \in Nat
    PROVE  /\ IsFiniteSet({x} \X (0 .. n - 1))
           /\ Cardinality({x} \X (0 .. n - 1)) = n
<1>1. IsFiniteSet({x}) /\ Cardinality({x}) = 1
  BY FS_Singleton
<1>2. IsFiniteSet(0 .. n - 1) /\ Cardinality(0 .. n - 1) = n
  <2>1. 0 \in Int /\ n - 1 \in Int
    OBVIOUS
  <2>2. /\ IsFiniteSet(0 .. n - 1)
        /\ Cardinality(0 .. n - 1) = IF 0 > n - 1 THEN 0 ELSE n - 1 - 0 + 1
    BY <2>1, FS_Interval
  <2> QED
    BY <2>2
<1>3. /\ IsFiniteSet({x} \X (0 .. n - 1))
      /\ Cardinality({x} \X (0 .. n - 1)) = Cardinality({x}) * Cardinality(0 .. n - 1)
  BY <1>1, <1>2, FS_Product
<1> QED
  BY <1>1, <1>2, <1>3

(* The units below the values of a finite set of points are finitely many. *)
LEMMA UnitsAreFinite ==
    ASSUME NEW S, IsFiniteSet(S), NEW f \in [S -> Nat], NEW T \in SUBSET S
    PROVE  IsFiniteSet(Units(f, T))
<1>1. CASE T = {}
  <2>1. Units(f, T) = {}
    BY <1>1 DEF Units
  <2> QED
    BY <2>1, FS_EmptySet
<1>2. CASE T # {}
  <2> DEFINE g == [x \in T |-> f[x]]
  <2>1. IsFiniteSet(T)
    BY FS_Subset
  <2>2. g \in [T -> Int] /\ \A x \in T : g[x] = f[x] /\ f[x] \in Nat
    OBVIOUS
  <2>3. PICK top \in T : \A x \in T : g[x] <= g[top]
    <3> HIDE DEF g
    <3> QED
      BY <1>2, <2>1, <2>2, Greatest
  <2>4. IsFiniteSet(T \X (0 .. f[top]))
    <3>1. 0 \in Int /\ f[top] \in Int
      BY <2>2
    <3> QED
      BY <2>1, <3>1, FS_Interval, FS_Product
  <2>5. Units(f, T) \subseteq T \X (0 .. f[top])
    BY <2>2, <2>3 DEF Units
  <2> QED
    BY <2>4, <2>5, FS_Subset
<1> QED
  BY <1>1, <1>2

(* Taking a point away takes its value away.                               *)
LEMMA UnitsSplit ==
    ASSUME NEW S, IsFiniteSet(S), NEW f \in [S -> Nat], NEW T \in SUBSET S, NEW x \in T
    PROVE  Cardinality(Units(f, T)) = f[x] + Cardinality(Units(f, T \ {x}))
<1> DEFINE A == {x} \X (0 .. f[x] - 1)
           B == Units(f, T \ {x})
<1>1. f[x] \in Nat
  OBVIOUS
<1>2. IsFiniteSet(A) /\ Cardinality(A) = f[x]
  BY <1>1, UnitsOfOne
<1>3. IsFiniteSet(B) /\ Cardinality(B) \in Nat
  <2>1. T \ {x} \in SUBSET S
    OBVIOUS
  <2> QED
    BY <2>1, UnitsAreFinite, FS_CardinalityType
<1>4. A \cap B = {}
  BY DEF Units
<1>5. Units(f, T) = A \cup B
  <2>1. ASSUME NEW p \in Units(f, T) PROVE p \in A \cup B
    BY <1>1, <2>1 DEF Units
  <2>2. ASSUME NEW p \in A PROVE p \in Units(f, T)
    BY <1>1, <2>2 DEF Units
  <2>3. ASSUME NEW p \in B PROVE p \in Units(f, T)
    BY <2>3 DEF Units
  <2> QED
    BY <2>1, <2>2, <2>3
<1> HIDE DEF A, B
<1>6. Cardinality(A \cup B) = Cardinality(A) + Cardinality(B) - Cardinality(A \cap B)
  BY <1>2, <1>3, FS_Union
<1>7. Cardinality(A \cap B) = 0
  BY <1>4, FS_EmptySet
<1> QED
  BY <1>1, <1>2, <1>3, <1>5, <1>6, <1>7 DEF B

(* What the library's recursive sum of a function amounts to.              *)
LEMMA SumIsCount ==
    ASSUME NEW S, IsFiniteSet(S), NEW f \in [S -> Nat]
    PROVE  /\ SumFunction(f) = Cardinality(Units(f, S))
           /\ SumFunction(f) \in Nat
<1> DEFINE some(T) == CHOOSE x \in T : TRUE
           step(g) == [T \in SUBSET S |-> IF T = {} THEN 0
                                          ELSE f[some(T)] + g[T \ {some(T)}]]
           count == [T \in SUBSET S |-> Cardinality(Units(f, T))]
<1>1. SumFunction(f) = (CHOOSE g : g = step(g))[S]
  <2>1. DOMAIN f = S
    OBVIOUS
  <2> QED
    BY <2>1, Zenon DEF SumFunction, SumFunctionOnSet, FoldFunctionOnSet, MapThenFoldSet
<1>2. \A T \in SUBSET S : T # {} => some(T) \in T
  OBVIOUS
<1>3. count = step(count)
  <2>1. ASSUME NEW T \in SUBSET S
        PROVE  count[T] = IF T = {} THEN 0 ELSE f[some(T)] + count[T \ {some(T)}]
    <3>1. CASE T = {}
      <4>1. Units(f, {}) = {}
        BY DEF Units
      <4> QED
        BY <3>1, <4>1, FS_EmptySet
    <3>2. CASE T # {}
      <4>1. some(T) \in T
        BY <1>2, <3>2
      <4> HIDE DEF some
      <4>2. Cardinality(Units(f, T)) = f[some(T)] + Cardinality(Units(f, T \ {some(T)}))
        BY <4>1, UnitsSplit
      <4> QED
        BY <3>2, <4>2
    <3> QED
      BY <3>1, <3>2
  <2> HIDE DEF some
  <2>2. step(count) = [T \in SUBSET S |-> count[T]]
    BY <2>1
  <2> QED
    BY <2>2
<1> HIDE DEF some, count
<1>4. ASSUME NEW g, g = step(g) PROVE g = count
  <2> DEFINE W == {T \in SUBSET S : g[T] # count[T]}
  <2>1. \A T \in SUBSET S : /\ g[T] = IF T = {} THEN 0 ELSE f[some(T)] + g[T \ {some(T)}]
                            /\ count[T] = IF T = {} THEN 0
                                          ELSE f[some(T)] + count[T \ {some(T)}]
    BY <1>3, <1>4
  <2>2. W = {}
    <3> SUFFICES ASSUME W # {} PROVE FALSE
      OBVIOUS
    <3>1. W \subseteq FiniteSubsetsOf(S)
      BY FS_FiniteSubsetsOfFinite
    <3>2. IsWellFoundedOn(StrictSubsetOrdering(S), FiniteSubsetsOf(S))
      BY FS_StrictSubsetOrderingWellFounded
    <3>3. PICK T \in W : \A U \in W : ~(<<U, T>> \in StrictSubsetOrdering(S))
      <4> HIDE DEF W
      <4> QED
        BY <3>1, <3>2, WFMin
    <3>4. T \in SUBSET S /\ T # {} /\ g[T] # count[T]
      BY <2>1
    <3>5. some(T) \in T
      BY <1>2, <3>4
    <3> DEFINE U == T \ {some(T)}
    <3>6. U \in SUBSET S /\ <<U, T>> \in StrictSubsetOrdering(S)
      BY <3>4, <3>5 DEF StrictSubsetOrdering
    <3>7. U \notin W
      BY <3>3, <3>6
    <3>8. g[U] = count[U]
      BY <3>6, <3>7
    <3> QED
      BY <2>1, <3>4, <3>8
  <2>3. \A T \in SUBSET S : g[T] = count[T]
    BY <2>2
  <2>4. g = [T \in SUBSET S |-> g[T]]
    BY <1>4
  <2>5. count = [T \in SUBSET S |-> count[T]]
    BY <1>3
  <2> QED
    BY <2>3, <2>4, <2>5
<1>5. (CHOOSE g : g = step(g)) = count
  <2> DEFINE g == CHOOSE h : h = step(h)
  <2>1. g = step(g)
    BY <1>3
  <2> HIDE DEF g
  <2>2. g = count
    BY <1>4, <2>1
  <2> QED
    BY <2>2 DEF g
<1>6. SumFunction(f) = count[S]
  BY <1>1, <1>5
<1>7. S \in SUBSET S /\ IsFiniteSet(Units(f, S))
  BY UnitsAreFinite
<1> QED
  BY <1>6, <1>7, FS_CardinalityType DEF count

(* A sum of greater values is not smaller.                                 *)
LEMMA SumGrows ==
    ASSUME NEW S, IsFiniteSet(S), NEW f \in [S -> Nat], NEW g \in [S -> Nat],
           \A x \in S : f[x] <= g[x]
    PROVE  SumFunction(f) <= SumFunction(g)
<1>1. Units(f, S) \subseteq Units(g, S)
  <2> SUFFICES ASSUME NEW p \in Units(f, S) PROVE p \in Units(g, S)
    OBVIOUS
  <2>1. p \in S \X Nat /\ p[2] < f[p[1]]
    BY DEF Units
  <2>2. p[1] \in S /\ p[2] \in Nat
    BY <2>1
  <2>3. f[p[1]] \in Nat /\ g[p[1]] \in Nat /\ f[p[1]] <= g[p[1]]
    BY <2>2
  <2>4. p[2] < g[p[1]]
    BY <2>1, <2>2, <2>3
  <2> QED
    BY <2>1, <2>4 DEF Units
<1>2. S \in SUBSET S
  OBVIOUS
<1>3. IsFiniteSet(Units(g, S))
  BY <1>2, UnitsAreFinite
<1>4. Cardinality(Units(f, S)) <= Cardinality(Units(g, S))
  BY <1>1, <1>3, FS_Subset
<1> QED
  BY <1>4, SumIsCount

(* A sum does not depend on what its values are numbered by.               *)
LEMMA SumRenumbered ==
    ASSUME NEW S, IsFiniteSet(S), NEW K, IsFiniteSet(K), NEW h \in Bijection(K, S),
           NEW f \in [S -> Nat], NEW g \in [K -> Nat], \A k \in K : g[k] = f[h[k]]
    PROVE  SumFunction(g) = SumFunction(f)
<1>1. /\ h \in [K -> S] /\ \A k \in K, l \in K : h[k] = h[l] => k = l
      /\ \A x \in S : \E k \in K : h[k] = x
  BY Fun_BijectionProperties
<1> DEFINE A == Units(g, K)
           B == Units(f, S)
           move == [p \in A |-> <<h[p[1]], p[2]>>]
<1>2. \A p : p \in A <=> p \in K \X Nat /\ p[2] < g[p[1]]
  BY DEF Units
<1>3. \A p : p \in B <=> p \in S \X Nat /\ p[2] < f[p[1]]
  BY DEF Units
<1>4. move \in [A -> B]
  <2> SUFFICES ASSUME NEW p \in A PROVE <<h[p[1]], p[2]>> \in B
    OBVIOUS
  <2>1. p[1] \in K /\ p[2] \in Nat /\ p[2] < g[p[1]]
    BY <1>2
  <2>2. h[p[1]] \in S /\ g[p[1]] = f[h[p[1]]]
    BY <1>1, <2>1
  <2> HIDE DEF A, B
  <2> QED
    BY <1>3, <2>1, <2>2
<1>5. ASSUME NEW p \in A, NEW q \in A, move[p] = move[q] PROVE p = q
  <2>1. p[1] \in K /\ q[1] \in K /\ p = <<p[1], p[2]>> /\ q = <<q[1], q[2]>>
    BY <1>2
  <2>2. h[p[1]] = h[q[1]] /\ p[2] = q[2]
    BY <1>5
  <2>3. p[1] = q[1]
    BY <1>1, <2>1, <2>2
  <2> QED
    BY <2>1, <2>2, <2>3
<1>6. ASSUME NEW u \in B PROVE \E p \in A : move[p] = u
  <2>1. u[1] \in S /\ u[2] \in Nat /\ u[2] < f[u[1]] /\ u = <<u[1], u[2]>>
    BY <1>3
  <2>2. PICK k \in K : h[k] = u[1]
    BY <1>1, <2>1
  <2>3. <<k, u[2]>> \in A
    BY <2>1, <2>2 DEF Units
  <2>4. move[<<k, u[2]>>] = u
    BY <2>1, <2>2, <2>3
  <2> QED
    BY <2>3, <2>4
<1> HIDE DEF A, B, move
<1>7. move \in Bijection(A, B)
  BY <1>4, <1>5, <1>6, Fun_IsBij
<1>8. ExistsBijection(A, B)
  BY <1>7, Fun_ExistsBij
<1>9. IsFiniteSet(A)
  <2>1. K \in SUBSET K
    OBVIOUS
  <2> QED
    BY <2>1, UnitsAreFinite DEF A
<1>10. Cardinality(B) = Cardinality(A)
  BY <1>8, <1>9, FS_Bijection
<1> QED
  BY <1>10, SumIsCount DEF A, B

(* The numbers of a finite set can be listed in ascending order.           *)
LEMMA AscendingLists ==
    ASSUME NEW ds \in SUBSET Nat, IsFiniteSet(ds)
    PROVE  /\ Cardinality(ds) \in Nat
           /\ Ascending(ds) \in [1 .. Cardinality(ds) -> ds]
           /\ Ascending(ds) \in Bijection(1 .. Cardinality(ds), ds)
<1> DEFINE n == Cardinality(ds)
           below(d) == {e \in ds : e <= d}
           f == [d \in ds |-> Cardinality(below(d))]
<1>1. n \in Nat
  BY FS_CardinalityType
<1>2. \A d \in ds : IsFiniteSet(below(d)) /\ Cardinality(below(d)) \in 1 .. n
  <2> SUFFICES ASSUME NEW d \in ds
               PROVE  IsFiniteSet(below(d)) /\ Cardinality(below(d)) \in 1 .. n
    OBVIOUS
  <2>1. below(d) \in SUBSET ds /\ below(d) # {}
    OBVIOUS
  <2> HIDE DEF below
  <2>2. IsFiniteSet(below(d)) /\ Cardinality(below(d)) <= n /\ Cardinality(below(d)) \in Nat
    BY <2>1, FS_Subset, FS_CardinalityType
  <2>3. Cardinality(below(d)) # 0
    BY <2>1, <2>2, FS_EmptySet
  <2> QED
    BY <1>1, <2>2, <2>3
<1>3. \A d \in ds, e \in ds : d < e => Cardinality(below(d)) < Cardinality(below(e))
  <2> SUFFICES ASSUME NEW d \in ds, NEW e \in ds, d < e
               PROVE  Cardinality(below(d)) < Cardinality(below(e))
    OBVIOUS
  <2>1. below(d) \in SUBSET below(e) /\ below(d) # below(e)
    <3>1. e \in below(e) /\ e \notin below(d)
      OBVIOUS
    <3>2. \A x \in below(d) : x \in below(e)
      OBVIOUS
    <3> QED
      BY <3>1, <3>2
  <2> HIDE DEF below
  <2>2. /\ Cardinality(below(d)) <= Cardinality(below(e))
        /\ Cardinality(below(e)) = Cardinality(below(d)) => below(e) = below(d)
    BY <1>2, <2>1, FS_Subset
  <2> QED
    BY <1>2, <2>1, <2>2
<1> HIDE DEF below
<1>4. f \in [ds -> 1 .. n] /\ \A d \in ds, e \in ds : f[d] = f[e] => d = e
  <2>1. f \in [ds -> 1 .. n]
    BY <1>2
  <2>2. ASSUME NEW d \in ds, NEW e \in ds, f[d] = f[e] PROVE d = e
    <3>1. ~(d < e) /\ ~(e < d)
      BY <1>1, <1>2, <1>3, <2>2
    <3> QED
      BY <3>1
  <2> QED
    BY <2>1, <2>2
<1>5. \A d \in ds, e \in ds : f[d] < f[e] => d < e
  <2> SUFFICES ASSUME NEW d \in ds, NEW e \in ds, f[d] < f[e] PROVE d < e
    OBVIOUS
  <2>1. f[d] \in Int /\ f[e] \in Int
    BY <1>4
  <2>2. d # e /\ ~(e < d)
    BY <1>2, <1>3, <2>1
  <2> QED
    BY <2>2
<1> HIDE DEF f
<1>6. IsFiniteSet(1 .. n) /\ Cardinality(1 .. n) = n
  <2>1. 1 \in Int /\ n \in Int
    BY <1>1
  <2>2. IsFiniteSet(1 .. n) /\ Cardinality(1 .. n) = IF 1 > n THEN 0 ELSE n - 1 + 1
    BY <2>1, FS_Interval
  <2> QED
    BY <1>1, <2>2
<1>7. f \in Injection(ds, 1 .. n)
  BY <1>4, Fun_IsInj
<1>8. f \in Surjection(ds, 1 .. n)
  <2>1. Cardinality(ds) = Cardinality(1 .. n)
    BY <1>6
  <2> QED
    BY <1>6, <1>7, <2>1, FS_Injection
<1>9. \A i \in 1 .. n : \E d \in ds : f[d] = i
  BY <1>8, Fun_SurjectionProperties
<1> DEFINE q == [i \in 1 .. n |-> CHOOSE d \in ds : f[d] = i]
<1>10. q \in [1 .. n -> ds] /\ \A i \in 1 .. n : f[q[i]] = i
  BY <1>9
<1> HIDE DEF q
<1>11. \A i, j \in DOMAIN q : i < j => q[i] < q[j]
  <2> SUFFICES ASSUME NEW i \in 1 .. n, NEW j \in 1 .. n, i < j PROVE q[i] < q[j]
    BY <1>10
  <2>1. q[i] \in ds /\ q[j] \in ds /\ f[q[i]] = i /\ f[q[j]] = j
    BY <1>10
  <2> QED
    BY <1>5, <2>1
<1> DEFINE a == Ascending(ds)
<1>12. a \in [1 .. n -> ds] /\ \A i, j \in DOMAIN a : i < j => a[i] < a[j]
  BY <1>10, <1>11 DEF Ascending
<1> HIDE DEF a, n
<1>13. \A i \in 1 .. n, j \in 1 .. n : a[i] = a[j] => i = j
  <2> SUFFICES ASSUME NEW i \in 1 .. n, NEW j \in 1 .. n, a[i] = a[j] PROVE i = j
    OBVIOUS
  <2>1. a[i] \in Nat /\ DOMAIN a = 1 .. n /\ i \in Int /\ j \in Int
    <3>1. a[i] \in ds /\ DOMAIN a = 1 .. n
      BY <1>12
    <3>2. i \in Int /\ j \in Int
      BY <1>1 DEF n
    <3> QED
      BY <3>1, <3>2
  <2>2. ~(i < j) /\ ~(j < i)
    BY <1>12, <2>1
  <2> QED
    BY <2>1, <2>2
<1>14. a \in Injection(1 .. n, ds)
  BY <1>12, <1>13, Fun_IsInj
<1>15. a \in Surjection(1 .. n, ds)
  <2>1. Cardinality(1 .. n) = Cardinality(ds)
    BY <1>6 DEF n
  <2> QED
    BY <1>14, <2>1, FS_Injection
<1>16. a \in Bijection(1 .. n, ds)
  BY <1>14, <1>15, Fun_IsBij
<1> QED
  BY <1>1, <1>12, <1>16 DEF a, n

-----------------------------------------------------------------------------
(* The invariant of the history responses.                                *)

(* What the tables of the day hold: measurements of a device by their time. *)
Measurements == [at : 0 .. 2 * Slots - 1, device : Devices, power : Powers,
                 energy : 0 .. MaxEnergy]

(* Rows of imported power.                                                 *)
Samples == [slot : 0 .. Slots - 1, device : Devices, power : Powers]

(* A device has one measurement of a time.                                 *)
OneOfATime(ms) ==
    \A m \in ms, n \in ms : m.device = n.device /\ m.at = n.at => m = n

(* The tables hold rows of those kinds, and finitely many.                 *)
TablesInv ==
    /\ measured \subseteq Measurements /\ IsFiniteSet(measured) /\ OneOfATime(measured)
    /\ archive \subseteq Samples

(* The request is for a day up to the one it took for today.               *)
RequestInv ==
    /\ today \in Askable /\ quiet \in BOOLEAN
    /\ asked \in [view : Views, serial : Devices \cup {0},
                  day : Askable \cup {0}, today : Askable \cup {0}]
    /\ ~Idling => /\ asked.serial \in Devices /\ asked.today \in Askable
                  /\ asked.day <= asked.today /\ asked.today <= today

(* The queries of a request that are answered and those that are not.      *)
QuerySet(r) ==
    {Metrics(ds) : ds \in SUBSET Devices} \cup {Power(ds) : ds \in SUBSET Devices}
    \cup {Latest(ds) : ds \in SUBSET Devices} \cup {Details(ds) : ds \in SUBSET Devices}
    \cup {Yields(Selected(r.view, r.day)), Yields(Previous(r.view, r.day, r.today))}

(* What a query can return.                                                *)
AnswerSet == SUBSET (Nat \cup Measurements \cup Samples)

(* A request works off its queries in their order and keeps every answer.  *)
ProgressInv ==
    /\ todo \in Seq(QuerySet(asked)) /\ got \in Seq(AnswerSet)
    /\ Idling => todo = <<>> /\ got = <<>>
    /\ ~Idling => /\ Len(got) + Len(todo) = Len(Queries(asked))
                  /\ \A i \in 1 .. Len(todo) :
                        todo[i] = Queries(asked)[Len(got) + i]

(* What an answer still says of the tables, whatever was written since:    *)
(* they hold ms and ps now, and the same as then if nothing was written;   *)
(* the days from the request's to the last one have a yield.               *)
Holds(q, a, ms, ps, same, from, last) ==
    /\ q.what = "metrics" =>
          /\ a \subseteq {m \in ms : m.device \in q.of}
          /\ same => a = {m \in ms : m.device \in q.of}
    /\ q.what = "power" => (same => a = {p \in ps : p.device \in q.of})
    /\ q.what \in {"latest", "details"} => a \subseteq ms
    /\ q.what = "yields" =>
          \E u \in from .. last :
             a = {n \in 0 .. u : DayStart(q.days.from) <= n /\ n < DayStart(q.days.to)}

(* Each measurement of one answer has one as late in the other.            *)
Covered(a, b) == \A m \in a : \E x \in b : x.device = m.device /\ m.at <= x.at

(* What a later answer has of an earlier one.                              *)
Follows(p, a, q, b) ==
    /\ p.what = "metrics" /\ q.what = "metrics" => {m \in a : m.device \in q.of} \subseteq b
    /\ p.what \in {"metrics", "latest"} /\ q.what \in {"latest", "details"} /\ q.of = Devices
          => Covered(a, b)

(* Every answer still holds of the tables, and later answers have what     *)
(* earlier ones have.                                                      *)
AnswersInv ==
    /\ \A i \in 1 .. Len(got) :
          Holds(Queries(asked)[i], got[i], measured, archive, quiet, asked.today, today)
    /\ \A i \in 1 .. Len(got) : \A j \in 1 .. Len(got) :
          i < j => Follows(Queries(asked)[i], got[i], Queries(asked)[j], got[j])

-----------------------------------------------------------------------------
(* The queries of each view.                                               *)

(* The queries a request can make.                                         *)
LEMMA QueryKinds ==
    ASSUME NEW r, NEW ds \in SUBSET Devices
    PROVE  /\ Metrics(ds) \in QuerySet(r) /\ Power(ds) \in QuerySet(r)
           /\ Latest(ds) \in QuerySet(r) /\ Details(ds) \in QuerySet(r)
           /\ Yields(Selected(r.view, r.day)) \in QuerySet(r)
           /\ Yields(Previous(r.view, r.day, r.today)) \in QuerySet(r)
  BY Zenon DEF QuerySet

(* The plant's queries, then a pair for each inverter.                     *)
LEMMA PlantQueryList ==
    ASSUME NEW r
    PROVE  /\ Cardinality(Devices) \in Nat
           /\ Ascending(Devices) \in [1 .. Cardinality(Devices) -> Devices]
           /\ PlantQueries \in Seq(QuerySet(r))
           /\ Len(PlantQueries) = 2 * Cardinality(Devices) + 2
           /\ PlantQueries[1] = Metrics(Devices) /\ PlantQueries[2] = Power(Devices)
           /\ \A k \in 1 .. Cardinality(Devices) :
                 /\ PlantQueries[2 * k + 1] = Metrics({Ascending(Devices)[k]})
                 /\ PlantQueries[2 * k + 2] = Power({Ascending(Devices)[k]})
<1> DEFINE n == Cardinality(Devices)
           asc == Ascending(Devices)
           own == [k \in 1 .. 2 * n |->
                      IF k % 2 = 1 THEN Metrics({asc[(k + 1) \div 2]})
                                   ELSE Power({asc[(k + 1) \div 2]})]
           plant == <<Metrics(Devices), Power(Devices)>>
           Q == QuerySet(r)
<1>1. n \in Nat /\ asc \in [1 .. n -> Devices]
  <2>1. Devices \in SUBSET Nat /\ IsFiniteSet(Devices)
    BY HistoryAssumption
  <2> QED
    BY <2>1, AscendingLists
<1>2. PlantQueries = plant \o own
  BY DEF PlantQueries
<1>3. Devices \in SUBSET Devices /\ \A k \in 1 .. n : {asc[k]} \in SUBSET Devices
  BY <1>1
<1>4. Metrics(Devices) \in Q /\ Power(Devices) \in Q
  BY <1>3, QueryKinds
<1>5. \A k \in 1 .. n : Metrics({asc[k]}) \in Q /\ Power({asc[k]}) \in Q
  BY <1>3, QueryKinds
<1>6. \A k \in 1 .. 2 * n : (k + 1) \div 2 \in 1 .. n
  BY <1>1
<1> HIDE DEF n, asc, Q
<1>7. own \in [1 .. 2 * n -> Q]
  BY <1>5, <1>6
<1>8. own \in Seq(Q) /\ Len(own) = 2 * n
  <2>1. 2 * n \in Nat
    BY <1>1
  <2> HIDE DEF own
  <2> QED
    BY <1>7, <2>1, IsASeq, LenProperties
<1>9. /\ plant \in Seq(Q) /\ Len(plant) = 2
      /\ plant[1] = Metrics(Devices) /\ plant[2] = Power(Devices)
  BY <1>4
<1>10. \A k \in 1 .. n : own[2 * k - 1] = Metrics({asc[k]}) /\ own[2 * k] = Power({asc[k]})
  <2> SUFFICES ASSUME NEW k \in 1 .. n
               PROVE  own[2 * k - 1] = Metrics({asc[k]}) /\ own[2 * k] = Power({asc[k]})
    OBVIOUS
  <2>1. /\ 2 * k - 1 \in 1 .. 2 * n /\ (2 * k - 1) % 2 = 1 /\ (2 * k - 1 + 1) \div 2 = k
        /\ 2 * k \in 1 .. 2 * n /\ (2 * k) % 2 # 1 /\ (2 * k + 1) \div 2 = k
    BY <1>1
  <2> QED
    BY <2>1
<1> HIDE DEF own, plant
<1>11. plant \o own \in Seq(Q) /\ Len(plant \o own) = 2 + 2 * n
       /\ \A i \in 1 .. 2 + 2 * n :
             (plant \o own)[i] = IF i <= 2 THEN plant[i] ELSE own[i - 2]
  <2>1. /\ plant \o own \in Seq(Q) /\ Len(plant \o own) = Len(plant) + Len(own)
        /\ \A i \in 1 .. Len(plant) + Len(own) :
              (plant \o own)[i] = IF i <= Len(plant) THEN plant[i] ELSE own[i - Len(plant)]
    BY <1>8, <1>9, ConcatProperties
  <2> QED
    BY <1>8, <1>9, <2>1
<1>12. \A k \in 1 .. n : /\ (plant \o own)[2 * k + 1] = own[2 * k - 1]
                         /\ (plant \o own)[2 * k + 2] = own[2 * k]
  <2> SUFFICES ASSUME NEW k \in 1 .. n
               PROVE  /\ (plant \o own)[2 * k + 1] = own[2 * k - 1]
                      /\ (plant \o own)[2 * k + 2] = own[2 * k]
    OBVIOUS
  <2>1. /\ 2 * k + 1 \in 1 .. 2 + 2 * n /\ ~(2 * k + 1 <= 2) /\ 2 * k + 1 - 2 = 2 * k - 1
        /\ 2 * k + 2 \in 1 .. 2 + 2 * n /\ ~(2 * k + 2 <= 2) /\ 2 * k + 2 - 2 = 2 * k
    BY <1>1
  <2> QED
    BY <1>11, <2>1
<1>13. (plant \o own)[1] = Metrics(Devices) /\ (plant \o own)[2] = Power(Devices)
  <2>1. 1 \in 1 .. 2 + 2 * n /\ 2 \in 1 .. 2 + 2 * n
    BY <1>1
  <2> QED
    BY <1>9, <1>11, <2>1
<1>14. Len(plant \o own) = 2 * n + 2
  BY <1>1, <1>11
<1> QED
  BY <1>1, <1>2, <1>10, <1>11, <1>12, <1>13, <1>14 DEF n, asc, Q

(* The queries of every view, on known devices and the two windows only.   *)
LEMMA QueriesAreListed ==
    ASSUME NEW r, r.view \in Views, r.serial \in Devices
    PROVE  Queries(r) \in Seq(QuerySet(r))
<1> DEFINE Q == QuerySet(r)
           yields == Yields(Previous(r.view, r.day, r.today))
           selected == Yields(Selected(r.view, r.day))
<1>1. Devices \in SUBSET Devices /\ {r.serial} \in SUBSET Devices
  OBVIOUS
<1>2. /\ Metrics({r.serial}) \in Q /\ Power({r.serial}) \in Q
      /\ yields \in Q /\ selected \in Q
      /\ Metrics(Devices) \in Q /\ Latest(Devices) \in Q /\ Details(Devices) \in Q
  BY <1>1, QueryKinds
<1>3. PlantQueries \in Seq(Q)
  BY PlantQueryList
<1> HIDE DEF Q, yields, selected
<1>4. <<yields>> \in Seq(Q) /\ <<Metrics({r.serial}), Power({r.serial}), yields>> \in Seq(Q)
      /\ <<Metrics({r.serial})>> \in Seq(Q) /\ <<selected, yields>> \in Seq(Q)
      /\ <<Metrics(Devices), Latest(Devices), Details(Devices)>> \in Seq(Q)
  BY <1>2
<1>5. PlantQueries \o <<yields>> \in Seq(Q)
  BY <1>3, <1>4, ConcatProperties
<1>6. CASE r.view = "aggregate"
  <2>1. Queries(r) = PlantQueries \o <<yields>>
    BY <1>6 DEF Queries, yields
  <2> QED
    BY <1>5, <2>1 DEF Q
<1>7. CASE r.view = "inverter"
  <2>1. Queries(r) = <<Metrics({r.serial}), Power({r.serial}), yields>>
    BY <1>7 DEF Queries, yields
  <2> QED
    BY <1>4, <2>1 DEF Q
<1>8. CASE r.view = "strings"
  <2>1. Queries(r) = <<Metrics({r.serial})>>
    BY <1>8 DEF Queries
  <2> QED
    BY <1>4, <2>1 DEF Q
<1>9. CASE r.view = "diagnostics"
  <2>1. Queries(r) = <<Metrics(Devices), Latest(Devices), Details(Devices)>>
    BY <1>9 DEF Queries, DiagnosticQueries
  <2> QED
    BY <1>4, <2>1 DEF Q
<1>10. CASE r.view \in {"week", "month", "year"}
  <2>1. Queries(r) = <<selected, yields>>
    BY <1>10 DEF Queries, selected, yields
  <2> QED
    BY <1>4, <2>1 DEF Q
<1>11. r.view \in {"aggregate", "inverter", "strings", "diagnostics", "week", "month", "year"}
  BY HistoryAssumption
<1> QED
  BY <1>6, <1>7, <1>8, <1>9, <1>10, <1>11

-----------------------------------------------------------------------------
(* The invariant of the responses.                                         *)
HistoryInv == TablesInv /\ RequestInv /\ ProgressInv /\ AnswersInv

(* There is a day to ask for, and finitely many.                           *)
LEMMA AskableIsSome == Askable # {} /\ IsFiniteSet(Askable) /\ Askable \in SUBSET Int
<1> DEFINE F == FirstYear + 1
           L == LastYear - 1
<1>1. F \in FirstYear .. LastYear /\ L \in FirstYear .. LastYear /\ F <= L
      /\ F \in Int /\ L \in Int
  BY HistoryAssumption
<1> HIDE DEF F, L
<1>2. 1 \in 1 .. 12 /\ 12 \in 1 .. 12 /\ 8 \in 1 .. 31 /\ 31 \in 1 .. 31
  OBVIOUS
<1>3. 8 <= Length(F, 1) /\ 31 <= Length(L, 12)
  <2>1. Length(F, 1) \in 28 .. 31
    BY <1>1, <1>2, LengthType
  <2>2. Length(L, 12) = 31
    BY DEF Length
  <2> QED
    BY <2>1, <2>2
<1>4. Day(F, 1, 8) = Ordinal(F, 1, 8)
  BY <1>1, <1>2, <1>3, IsDate
<1>5. Day(L, 12, 31) = Ordinal(L, 12, 31)
  BY <1>1, <1>2, <1>3, IsDate
<1>6. Ordinal(F, 1, 8) \in Nat /\ Ordinal(L, 12, 31) \in Nat
  BY <1>1, <1>2, OrdinalIsNat
<1>7. Earlier(F, 1, 8, L, 12, 31)
  BY <1>1 DEF Earlier
<1>8. Ordinal(F, 1, 8) < Ordinal(L, 12, 31)
  BY <1>1, <1>2, <1>3, <1>7, OrdinalOrder
<1>9. Askable = Ordinal(F, 1, 8) .. Ordinal(L, 12, 31)
  BY <1>4, <1>5 DEF Askable, F, L
<1>10. IsFiniteSet(Ordinal(F, 1, 8) .. Ordinal(L, 12, 31))
  BY <1>6, FS_Interval
<1> QED
  BY <1>6, <1>8, <1>9, <1>10

(* An idle program with empty tables.                                      *)
LEMMA HistoryStarts == Init => HistoryInv
<1> SUFFICES ASSUME Init PROVE HistoryInv
  OBVIOUS
<1>1. PICK v \in Views : /\ asked = [Idle EXCEPT !.view = v]
                         /\ IF v \in DayViews THEN today = Max(Askable)
                                              ELSE today \in Askable
  BY DEF Init
<1>2. today \in Askable
  BY <1>1, AskableIsSome, MaxMin
<1>3. asked = [view |-> v, serial |-> 0, day |-> 0, today |-> 0]
  BY <1>1 DEF Idle
<1>4. Idling
  BY <1>3 DEF Idling
<1>5. RequestInv
  BY <1>2, <1>3, <1>4 DEF RequestInv, Init
<1>6. TablesInv
  BY FS_EmptySet DEF Init, TablesInv, OneOfATime
<1>7. ProgressInv
  BY <1>4 DEF ProgressInv, Init
<1>8. AnswersInv
  BY DEF AnswersInv, Init
<1> QED
  BY <1>5, <1>6, <1>7, <1>8 DEF HistoryInv

(* A new request has no answers and all its queries.                       *)
LEMMA AskStep ==
    ASSUME HistoryInv, Ask
    PROVE  HistoryInv'
<1>1. PICK d \in Devices, n \in Askable \cap {today, today - 7, today - 31, today - 365} :
         /\ asked' = [asked EXCEPT !.serial = d, !.day = n, !.today = today]
         /\ todo' = Queries(asked')
  BY DEF Ask
<1>2. /\ Idling /\ got' = <<>> /\ quiet' = TRUE
      /\ UNCHANGED <<today, measured, archive, writes>>
  BY DEF Ask
<1>3. /\ asked \in [view : Views, serial : Devices \cup {0},
                    day : Askable \cup {0}, today : Askable \cup {0}]
      /\ today \in Askable
  BY DEF HistoryInv, RequestInv
<1>4. asked' = [view |-> asked.view, serial |-> d, day |-> n, today |-> today]
  BY <1>1, <1>3
<1>5. n \in Nat /\ n >= 365 /\ today \in Nat /\ n \in Askable
  BY <1>3, AskedDate
<1>6. n <= today
  BY <1>5
<1>7. ~Idling'
  BY <1>4, <1>5 DEF Idling
<1>8. RequestInv'
  BY <1>2, <1>3, <1>4, <1>5, <1>6, <1>7 DEF RequestInv
<1>9. TablesInv'
  BY <1>2 DEF HistoryInv, TablesInv
<1>10. ProgressInv'
  <2>1. PICK r : r = asked'
    OBVIOUS
  <2>2. r.view \in Views /\ r.serial \in Devices
    BY <1>3, <1>4, <2>1
  <2>3. Queries(r) \in Seq(QuerySet(r))
    BY <2>2, QueriesAreListed
  <2>4. todo' = Queries(r) /\ asked' = r
    BY <1>1, <2>1
  <2> DEFINE Q == Queries(r)
             S == QuerySet(r)
  <2> HIDE DEF Q, S
  <2>5. Q \in Seq(S) /\ todo' = Q /\ Len(Q) \in Nat
    BY <2>3, <2>4, LenProperties DEF Q, S
  <2>6. <<>> \in Seq(AnswerSet) /\ Len(<<>>) = 0
    BY EmptySeq
  <2>7. /\ Len(got') + Len(todo') = Len(Q)
        /\ \A i \in 1 .. Len(todo') : todo'[i] = Q[Len(got') + i]
    BY <1>2, <2>5, <2>6
  <2>8. got' \in Seq(AnswerSet) /\ todo' \in Seq(S)
    BY <1>2, <2>5, <2>6
  <2> QED
    BY <1>7, <2>1, <2>7, <2>8 DEF ProgressInv, Q, S
<1>11. AnswersInv'
  BY <1>2 DEF AnswersInv
<1> QED
  BY <1>8, <1>9, <1>10, <1>11 DEF HistoryInv

(* A response that is sent, or fails, leaves nothing behind.               *)
LEMMA ForgetStep ==
    ASSUME HistoryInv, Forget
    PROVE  HistoryInv'
<1>1. /\ asked' = [Idle EXCEPT !.view = asked.view] /\ todo' = <<>> /\ got' = <<>>
      /\ UNCHANGED <<today, measured, archive, quiet, writes>>
  BY DEF Forget
<1>2. asked.view \in Views
  BY DEF HistoryInv, RequestInv
<1>3. asked' = [view |-> asked.view, serial |-> 0, day |-> 0, today |-> 0]
  BY <1>1 DEF Idle
<1>4. Idling'
  BY <1>3 DEF Idling
<1>5. RequestInv'
  <2>1. asked' \in [view : Views, serial : Devices \cup {0},
                    day : Askable \cup {0}, today : Askable \cup {0}]
    BY <1>2, <1>3
  <2>2. today' \in Askable /\ quiet' \in BOOLEAN
    BY <1>1, Zenon DEF HistoryInv, RequestInv
  <2> QED
    BY <1>4, <2>1, <2>2, Zenon DEF RequestInv
<1>6. TablesInv'
  BY <1>1 DEF HistoryInv, TablesInv
<1>7. ProgressInv'
  BY <1>1, <1>4 DEF ProgressInv
<1>8. AnswersInv'
  BY <1>1 DEF AnswersInv
<1> QED
  BY <1>5, <1>6, <1>7, <1>8 DEF HistoryInv

(* The tables only grow, and a change of them is remembered.               *)
LEMMA StillHolds ==
    ASSUME NEW q, NEW a, NEW ms, NEW ps, NEW same, NEW from \in Int, NEW last \in Int,
           NEW ms2, NEW ps2, NEW last2 \in Int,
           ms \subseteq ms2, last <= last2,
           Holds(q, a, ms, ps, same, from, last)
    PROVE  Holds(q, a, ms2, ps2, FALSE, from, last2)
<1>1. from .. last \subseteq from .. last2
  OBVIOUS
<1> QED
  BY <1>1 DEF Holds

(* A writer that only adds measurements, or only replaces imported power,  *)
(* disturbs no answer but for ending the quiet.                            *)
LEMMA WriteStep ==
    ASSUME HistoryInv, quiet' = FALSE, UNCHANGED <<asked, todo, got>>,
           TablesInv', measured \subseteq measured', today' \in Askable, today <= today'
    PROVE  HistoryInv'
<1>1. today \in Nat /\ today' \in Nat
  <2>1. today \in Askable /\ today' \in Askable
    BY DEF HistoryInv, RequestInv
  <2> QED
    BY <2>1, AskedDate
<1>2. ~Idling => asked.today \in Nat /\ asked.day \in Nat
  <2> SUFFICES ASSUME ~Idling PROVE asked.today \in Nat /\ asked.day \in Nat
    OBVIOUS
  <2>1. asked.today \in Askable /\ asked.day \in Askable
    BY DEF HistoryInv, RequestInv, Idling
  <2> QED
    BY <2>1, AskedDate
<1>3. Idling' <=> Idling
  BY DEF Idling
<1>4. RequestInv'
  <2>1. /\ asked \in [view : Views, serial : Devices \cup {0},
                      day : Askable \cup {0}, today : Askable \cup {0}]
        /\ ~Idling => /\ asked.serial \in Devices /\ asked.today \in Askable
                      /\ asked.day <= asked.today /\ asked.today <= today
    BY DEF HistoryInv, RequestInv
  <2>2. ~Idling => asked.today <= today'
    BY <1>1, <1>2, <2>1
  <2> QED
    BY <1>3, <2>1, <2>2 DEF RequestInv
<1>5. ProgressInv'
  BY <1>3 DEF HistoryInv, ProgressInv
<1>6. AnswersInv'
  <2>1. PICK r : r = asked
    OBVIOUS
  <2>2. PICK g : g = got
    OBVIOUS
  <2>3. /\ \A i \in 1 .. Len(g) :
              Holds(Queries(r)[i], g[i], measured, archive, quiet, r.today, today)
        /\ \A i \in 1 .. Len(g) : \A j \in 1 .. Len(g) :
              i < j => Follows(Queries(r)[i], g[i], Queries(r)[j], g[j])
    BY <2>1, <2>2 DEF HistoryInv, AnswersInv
  <2>4. ASSUME NEW i \in 1 .. Len(g)
        PROVE  Holds(Queries(r)[i], g[i], measured', archive', FALSE, r.today, today')
    <3>1. ~Idling
      BY <2>2 DEF HistoryInv, ProgressInv
    <3>2. r.today \in Int /\ today \in Int /\ today' \in Int
      BY <1>1, <1>2, <2>1, <3>1
    <3> QED
      BY <2>3, <3>2, StillHolds
  <2>5. asked' = r /\ got' = g /\ quiet' = FALSE
    BY <2>1, <2>2
  <2> QED
    BY <2>3, <2>4, <2>5 DEF AnswersInv
<1> QED
  BY <1>4, <1>5, <1>6 DEF HistoryInv

(* The collector stores a measurement of a device later than its last one. *)
LEMMA WriteMeasurementStep ==
    ASSUME HistoryInv, NEW d \in Devices, NEW at \in 0 .. 2 * Slots - 1,
           NEW power \in Powers, NEW energy \in 0 .. MaxEnergy,
           WriteMeasurement(d, at, power, energy)
    PROVE  HistoryInv'
<1> DEFINE new == [at |-> at, device |-> d, power |-> power, energy |-> energy]
<1>1. /\ measured' = measured \cup {new} /\ archive' = archive
      /\ \A m \in measured : m.device = d => m.at < at
  BY DEF WriteMeasurement
<1>2. quiet' = FALSE /\ UNCHANGED <<today, asked, todo, got>>
  BY DEF WriteMeasurement, Wrote
<1>3. measured \subseteq Measurements /\ IsFiniteSet(measured) /\ OneOfATime(measured)
      /\ archive \subseteq Samples
  BY DEF HistoryInv, TablesInv
<1>4. new \in Measurements
  BY DEF Measurements
<1>5. \A m \in measured : m.at \in Int /\ at \in Int /\ m.energy \in Int /\ energy \in Int
  BY <1>3, HistoryAssumption DEF Measurements
<1>6. new.device = d /\ new.at = at /\ new.energy = energy
  OBVIOUS
<1> HIDE DEF new
<1>7. OneOfATime(measured \cup {new})
  <2>1. \A m \in measured : m.device = d => m.at # at
    BY <1>1, <1>5
  <2> QED
    BY <1>3, <1>6, <2>1 DEF OneOfATime
<1>8. TablesInv'
  BY <1>1, <1>3, <1>4, <1>7, FS_AddElement DEF TablesInv
<1>9. today' \in Askable /\ today <= today' /\ measured \subseteq measured'
  <2>1. today \in Askable
    BY DEF HistoryInv, RequestInv
  <2>2. today \in Nat
    BY <2>1, AskedDate
  <2> QED
    BY <1>1, <1>2, <2>1, <2>2
<1> QED
  BY <1>2, <1>8, <1>9, WriteStep

(* The importer replaces the power of a time of day.                       *)
LEMMA WriteSampleStep ==
    ASSUME HistoryInv, NEW d \in Devices, NEW slot \in 0 .. Slots - 1,
           NEW power \in Powers, WriteSample(d, slot, power)
    PROVE  HistoryInv'
<1>1. /\ archive' = {p \in archive : ~(p.device = d /\ p.slot = slot)}
                    \cup {[slot |-> slot, device |-> d, power |-> power]}
      /\ measured' = measured
  BY DEF WriteSample
<1>2. quiet' = FALSE /\ UNCHANGED <<today, asked, todo, got>>
  BY DEF WriteSample, Wrote
<1>3. measured \subseteq Measurements /\ IsFiniteSet(measured) /\ OneOfATime(measured)
      /\ archive \subseteq Samples
  BY DEF HistoryInv, TablesInv
<1>4. [slot |-> slot, device |-> d, power |-> power] \in Samples
  BY DEF Samples
<1>5. TablesInv'
  BY <1>1, <1>3, <1>4 DEF TablesInv
<1>6. today' \in Askable /\ today <= today' /\ measured \subseteq measured'
  <2>1. today \in Askable
    BY DEF HistoryInv, RequestInv
  <2>2. today \in Nat
    BY <2>1, AskedDate
  <2> QED
    BY <1>1, <1>2, <2>1, <2>2
<1> QED
  BY <1>2, <1>5, <1>6, WriteStep

(* Midnight passes, under a running request too.                           *)
LEMMA NextDayStep ==
    ASSUME HistoryInv, NextDay
    PROVE  HistoryInv'
<1>1. today + 1 \in Askable /\ today' = today + 1 /\ quiet' = FALSE
      /\ UNCHANGED <<measured, archive, asked, todo, got>>
  BY DEF NextDay
<1>2. TablesInv'
  BY <1>1 DEF HistoryInv, TablesInv
<1>3. today <= today'
  <2>1. today \in Askable
    BY DEF HistoryInv, RequestInv
  <2>2. today \in Nat
    BY <2>1, AskedDate
  <2> QED
    BY <1>1, <2>2
<1>4. today' \in Askable /\ measured \subseteq measured'
  BY <1>1
<1> QED
  BY <1>1, <1>2, <1>3, <1>4, WriteStep

(* A device that has a measurement has a newest one.                       *)
NewestOf(ms, d) == {m \in ms : m.device = d /\ \A x \in ms : x.device = d => x.at <= m.at}

(* It is not older than the measurement.                                   *)
LEMMA NewestExists ==
    ASSUME NEW ms \in SUBSET Measurements, IsFiniteSet(ms), NEW m \in ms
    PROVE  \E x \in NewestOf(ms, m.device) : x.device = m.device /\ m.at <= x.at
<1> DEFINE S == {x \in ms : x.device = m.device}
           f == [x \in S |-> x.at]
<1>1. IsFiniteSet(S) /\ S # {} /\ m \in S
  BY FS_Subset
<1>2. f \in [S -> Int]
  BY DEF Measurements
<1>3. PICK top \in S : \A x \in S : f[x] <= f[top]
  <2> HIDE DEF S, f
  <2> QED
    BY <1>1, <1>2, Greatest
<1>4. \A x \in S : x.at <= top.at
  BY <1>3
<1>5. top \in NewestOf(ms, m.device)
  BY <1>4 DEF NewestOf
<1> QED
  BY <1>1, <1>4, <1>5

(* What each query returns of the tables as they are.                      *)
LEMMA AnswerOf ==
    ASSUME NEW q
    PROVE  /\ q.what = "metrics" => Answer(q) = {m \in measured : m.device \in q.of}
           /\ q.what = "power" => Answer(q) = {p \in archive : p.device \in q.of}
           /\ q.what = "yields" =>
                 Answer(q) = {n \in Stored : DayStart(q.days.from) <= n
                                             /\ n < DayStart(q.days.to)}
           /\ q.what \in {"latest", "details"} =>
                 Answer(q) = UNION {NewestOf(measured, d) : d \in q.of}
  BY DEF Answer, NewestOf

(* A query's answer is what the tables hold now, at least what an earlier  *)
(* query found.                                                            *)
LEMMA ReadStep ==
    ASSUME HistoryInv, Read
    PROVE  HistoryInv'
<1>1. PICK r : r = asked
  OBVIOUS
<1>2. PICK q : q = Head(todo)
  OBVIOUS
<1>3. PICK a : a = Answer(q)
  OBVIOUS
<1>4. /\ todo # <<>> /\ got' = Append(got, a) /\ todo' = Tail(todo) /\ asked' = r
      /\ UNCHANGED <<today, measured, archive, asked, quiet, writes>>
  BY <1>1, <1>2, <1>3 DEF Read
<1> DEFINE Q == Queries(r)
           S == QuerySet(r)
           n == Len(got)
<1>5. /\ todo \in Seq(S) /\ got \in Seq(AnswerSet) /\ ~Idling
      /\ n + Len(todo) = Len(Q) /\ \A i \in 1 .. Len(todo) : todo[i] = Q[n + i]
  BY <1>1, <1>4 DEF HistoryInv, ProgressInv
<1>6. /\ q \in S /\ q = todo[1] /\ Len(todo) \in Nat \ {0}
      /\ Tail(todo) \in Seq(S) /\ Len(Tail(todo)) = Len(todo) - 1
      /\ \A i \in 1 .. Len(Tail(todo)) : Tail(todo)[i] = todo[i + 1]
  <2> HIDE DEF S
  <2> QED
    BY <1>2, <1>4, <1>5
<1>7. q = Q[n + 1]
  <2>1. 1 \in 1 .. Len(todo)
    BY <1>6
  <2> HIDE DEF Q, n, S
  <2> QED
    BY <1>5, <1>6, <2>1
<1>8. measured \subseteq Measurements /\ IsFiniteSet(measured) /\ archive \subseteq Samples
  BY DEF HistoryInv, TablesInv
<1>9. today \in Nat /\ asked.today \in Nat /\ asked.today <= today
  <2>1. today \in Askable /\ asked.today \in Askable /\ asked.today <= today
    BY <1>5 DEF HistoryInv, RequestInv
  <2> QED
    BY <2>1, AskedDate
<1>10. q.what \in {"metrics", "power", "latest", "details", "yields"}
  BY <1>6 DEF QuerySet, Metrics, Power, Latest, Details, Yields
<1>11. a \in AnswerSet
  <2>1. CASE q.what = "metrics"
    BY <1>3, <1>8, <2>1, AnswerOf DEF AnswerSet
  <2>2. CASE q.what = "power"
    BY <1>3, <1>8, <2>2, AnswerOf DEF AnswerSet
  <2>3. CASE q.what = "yields"
    <3>1. Stored \subseteq Nat
      BY <1>9 DEF Stored
    <3> QED
      BY <1>3, <2>3, <3>1, AnswerOf DEF AnswerSet
  <2>4. CASE q.what \in {"latest", "details"}
    <3>1. UNION {NewestOf(measured, d) : d \in q.of} \subseteq measured
      BY DEF NewestOf
    <3> QED
      BY <1>3, <1>8, <2>4, <3>1, AnswerOf DEF AnswerSet
  <2> QED
    BY <1>10, <2>1, <2>2, <2>3, <2>4
<1> HIDE DEF Q, S, n
<1>12. n \in Nat /\ got' \in Seq(AnswerSet) /\ Len(got') = n + 1
       /\ \A i \in 1 .. n : got'[i] = got[i]
  BY <1>4, <1>5, <1>11, AppendProperties, LenProperties DEF n
<1>13. got'[n + 1] = a
  <2>1. PICK g : g = got
    OBVIOUS
  <2>2. g \in Seq(AnswerSet) /\ Append(g, a)[Len(g) + 1] = a
    BY <1>5, <1>11, <2>1, AppendProperties
  <2>3. got' = Append(g, a) /\ n = Len(g)
    BY <1>4, <2>1 DEF n
  <2> QED
    BY <2>2, <2>3, Zenon
<1>14. Idling' <=> Idling
  BY <1>4 DEF Idling
<1>15. ProgressInv'
  <2>1. Len(got') + Len(todo') = Len(Q)
    BY <1>4, <1>5, <1>6, <1>12
  <2>2. \A i \in 1 .. Len(todo') : todo'[i] = Q[Len(got') + i]
    <3> SUFFICES ASSUME NEW i \in 1 .. Len(todo') PROVE todo'[i] = Q[Len(got') + i]
      OBVIOUS
    <3>1. i + 1 \in 1 .. Len(todo) /\ i \in 1 .. Len(Tail(todo)) /\ n + (i + 1) = n + 1 + i
      BY <1>4, <1>6, <1>12
    <3>2. todo'[i] = todo[i + 1]
      BY <1>4, <1>6, <3>1
    <3> QED
      BY <1>5, <1>12, <3>1, <3>2
  <2>3. todo' \in Seq(QuerySet(asked')) /\ Q = Queries(asked')
    BY <1>4, <1>6 DEF S, Q
  <2> QED
    BY <1>5, <1>12, <1>14, <2>1, <2>2, <2>3 DEF ProgressInv
<1>16. RequestInv'
  <2>1. asked' = asked /\ today' = today /\ quiet' = quiet
    BY <1>4
  <2> QED
    BY <1>14, <2>1, Zenon DEF HistoryInv, RequestInv
<1>17. TablesInv'
  BY <1>4 DEF HistoryInv, TablesInv
<1>18. Holds(q, a, measured, archive, quiet, asked.today, today)
  <2>1. q.what = "metrics" => a = {m \in measured : m.device \in q.of}
    BY <1>3, AnswerOf
  <2>2. q.what = "power" => a = {p \in archive : p.device \in q.of}
    BY <1>3, AnswerOf
  <2>3. q.what \in {"latest", "details"} => a \subseteq measured
    <3>1. UNION {NewestOf(measured, d) : d \in q.of} \subseteq measured
      BY DEF NewestOf
    <3> QED
      BY <1>3, <3>1, AnswerOf
  <2>4. today \in asked.today .. today
    BY <1>9
  <2>5. q.what = "yields" => a = {k \in 0 .. today : DayStart(q.days.from) <= k
                                                     /\ k < DayStart(q.days.to)}
    BY <1>3, AnswerOf DEF Stored
  <2> QED
    BY <2>1, <2>2, <2>3, <2>4, <2>5, Zenon DEF Holds
<1>19. \A i \in 1 .. n :
          Holds(Q[i], got[i], measured, archive, quiet, asked.today, today)
  BY <1>1 DEF HistoryInv, AnswersInv, Q, n
<1>20. ASSUME NEW i \in 1 .. n PROVE Follows(Q[i], got[i], q, a)
  <2>1. Q[i].what = "metrics" \/ Q[i].what = "latest" => got[i] \subseteq measured
    BY <1>19 DEF Holds
  <2>2. Q[i].what = "metrics" /\ q.what = "metrics"
           => {m \in got[i] : m.device \in q.of} \subseteq a
    BY <1>3, <2>1, AnswerOf
  <2>3. ASSUME Q[i].what \in {"metrics", "latest"}, q.what \in {"latest", "details"},
               q.of = Devices
        PROVE  Covered(got[i], a)
    <3> SUFFICES ASSUME NEW m \in got[i]
                 PROVE  \E x \in a : x.device = m.device /\ m.at <= x.at
      BY DEF Covered
    <3>1. m \in measured /\ m.device \in Devices
      BY <1>8, <2>1, <2>3 DEF Measurements
    <3>2. PICK x \in NewestOf(measured, m.device) : x.device = m.device /\ m.at <= x.at
      BY <1>8, <3>1, NewestExists
    <3>3. x \in a
      BY <1>3, <2>3, <3>1, <3>2, AnswerOf
    <3> QED
      BY <3>2, <3>3
  <2> QED
    BY <2>2, <2>3 DEF Follows
<1>21. \A i \in 1 .. n : \A j \in 1 .. n :
          i < j => Follows(Q[i], got[i], Q[j], got[j])
  BY <1>1 DEF HistoryInv, AnswersInv, Q, n
<1>22. ASSUME NEW i \in 1 .. n + 1
       PROVE  Holds(Q[i], got'[i], measured, archive, quiet, asked.today, today)
  <2>1. CASE i = n + 1
    <3>1. Holds(Q[n + 1], got'[n + 1], measured, archive, quiet, asked.today, today)
      BY <1>7, <1>18, <1>13, Zenon
    <3> QED
      BY <2>1, <3>1, Zenon
  <2>2. CASE i # n + 1
    <3>1. i \in 1 .. n
      BY <1>12, <2>2
    <3> QED
      BY <1>12, <1>19, <3>1
  <2> QED
    BY <2>1, <2>2
<1>23. ASSUME NEW i \in 1 .. n + 1, NEW j \in 1 .. n + 1, i < j
       PROVE  Follows(Q[i], got'[i], Q[j], got'[j])
  <2>1. i \in 1 .. n
    BY <1>12, <1>23
  <2>2. CASE j = n + 1
    BY <1>7, <1>12, <1>20, <1>13, <2>1, <2>2
  <2>3. CASE j # n + 1
    <3>1. j \in 1 .. n
      BY <1>12, <2>3
    <3> QED
      BY <1>12, <1>21, <1>23, <2>1, <3>1
  <2> QED
    BY <2>2, <2>3
<1>24. AnswersInv'
  <2>1. Q = Queries(asked')
    BY <1>4 DEF Q
  <2>2. \A i \in 1 .. Len(got') :
           Holds(Queries(asked')[i], got'[i], measured', archive', quiet', asked'.today, today')
    BY <1>4, <1>12, <1>22, <2>1
  <2>3. \A i \in 1 .. Len(got') : \A j \in 1 .. Len(got') :
           i < j => Follows(Queries(asked')[i], got'[i], Queries(asked')[j], got'[j])
    BY <1>12, <1>23, <2>1
  <2> QED
    BY <2>2, <2>3 DEF AnswersInv
<1> QED
  BY <1>15, <1>16, <1>17, <1>24 DEF HistoryInv

(* Every step keeps the invariant.                                         *)
LEMMA HistorySteps == HistoryInv /\ [Next]_vars => HistoryInv'
<1> SUFFICES ASSUME HistoryInv, [Next]_vars PROVE HistoryInv'
  OBVIOUS
<1>1. CASE Ask
  BY <1>1, AskStep
<1>2. CASE Read
  BY <1>2, ReadStep
<1>3. CASE Fail
  BY <1>3, ForgetStep DEF Fail
<1>4. CASE Respond
  BY <1>4, ForgetStep DEF Respond
<1>5. CASE NextDay
  BY <1>5, NextDayStep
<1>6. ASSUME NEW d \in Devices, NEW power \in Powers, NEW at \in 0 .. 2 * Slots - 1,
             NEW e \in 0 .. MaxEnergy, WriteMeasurement(d, at, power, e)
      PROVE  HistoryInv'
  BY <1>6, WriteMeasurementStep
<1>7. ASSUME NEW d \in Devices, NEW power \in Powers, NEW slot \in 0 .. Slots - 1,
             WriteSample(d, slot, power)
      PROVE  HistoryInv'
  BY <1>7, WriteSampleStep
<1>8. CASE UNCHANGED vars
  <2>1. TablesInv'
    BY <1>8 DEF HistoryInv, TablesInv, vars
  <2>2. RequestInv'
    BY <1>8, Zenon DEF HistoryInv, RequestInv, vars, Idling
  <2>3. ProgressInv'
    BY <1>8 DEF HistoryInv, ProgressInv, vars, Idling
  <2>4. AnswersInv'
    BY <1>8 DEF HistoryInv, AnswersInv, vars
  <2> QED
    BY <2>1, <2>2, <2>3, <2>4 DEF HistoryInv
<1> QED
  BY <1>1, <1>2, <1>3, <1>4, <1>5, <1>6, <1>7, <1>8 DEF Next

(* The invariant holds of every state.                                     *)
LEMMA HistoryInvariant == Spec => []HistoryInv
<1>1. Init => HistoryInv
  BY HistoryStarts
<1>2. HistoryInv /\ [Next]_vars => HistoryInv'
  BY HistorySteps
<1> QED
  BY <1>1, <1>2, PTL DEF Spec

-----------------------------------------------------------------------------
(* The diagnostics response.                                               *)

(* The three queries of a diagnostics response, in the order they were     *)
(* made.                                                                   *)
LEMMA DiagnosticsAnswers ==
    ASSUME HistoryInv, Answered, asked.view = "diagnostics"
    PROVE  /\ AnswerTo("metrics") = got[1] /\ AnswerTo("latest") = got[2]
           /\ AnswerTo("details") = got[3]
           /\ Covered(got[1], got[2]) /\ Covered(got[2], got[3])
<1>1. PICK r : r = asked
  OBVIOUS
<1> DEFINE Q == Queries(r)
<1>2. Q = <<Metrics(Devices), Latest(Devices), Details(Devices)>>
  BY <1>1 DEF Queries, DiagnosticQueries
<1>3. /\ Len(Q) = 3 /\ Q[1] = Metrics(Devices)
      /\ Q[2] = Latest(Devices) /\ Q[3] = Details(Devices)
  BY <1>2
<1>4. /\ Q[1].what = "metrics" /\ Q[2].what = "latest" /\ Q[3].what = "details"
      /\ Q[2].of = Devices /\ Q[3].of = Devices
  BY <1>3 DEF Metrics, Latest, Details
<1> HIDE DEF Q
<1>5. got \in Seq(AnswerSet) /\ Len(got) + Len(todo) = Len(Q) /\ todo = <<>>
  BY <1>1 DEF HistoryInv, ProgressInv, Answered, Q
<1>6. Len(got) = 3 /\ DOMAIN got = 1 .. 3
  BY <1>3, <1>5
<1>7. \A w : AnswerTo(w) = got[CHOOSE i \in 1 .. 3 : Q[i].what = w]
  BY <1>1, <1>6 DEF AnswerTo, Q
<1>8. /\ (CHOOSE i \in 1 .. 3 : Q[i].what = "metrics") = 1
      /\ (CHOOSE i \in 1 .. 3 : Q[i].what = "latest") = 2
      /\ (CHOOSE i \in 1 .. 3 : Q[i].what = "details") = 3
  BY <1>4
<1>9. \A i \in 1 .. 3 : \A j \in 1 .. 3 :
         i < j => Follows(Q[i], got[i], Q[j], got[j])
  BY <1>1, <1>6 DEF HistoryInv, AnswersInv, Q
<1>10. Follows(Q[1], got[1], Q[2], got[2]) /\ Follows(Q[2], got[2], Q[3], got[3])
  <2>1. 1 \in 1 .. 3 /\ 2 \in 1 .. 3 /\ 3 \in 1 .. 3 /\ 1 < 2 /\ 2 < 3
    OBVIOUS
  <2> QED
    BY <1>9, <2>1
<1>11. Covered(got[1], got[2]) /\ Covered(got[2], got[3])
  BY <1>4, <1>10 DEF Follows
<1> QED
  BY <1>7, <1>8, <1>11

(* Each device's latest measurement in a diagnostics response is as late   *)
(* as all its samples shown beside it, and the details are as late as the  *)
(* latest one: diagnostics_handler makes three queries, and polls may store *)
(* measurements between any two of them.                                   *)
THEOREM LatestNotOvertaken == Spec => []LatestIsNewest
<1>1. HistoryInv => LatestIsNewest
  <2> SUFFICES ASSUME HistoryInv, Answered, asked.view = "diagnostics", NEW d \in Devices
               PROVE  NoneNewer("metrics", "latest", d) /\ NoneNewer("latest", "details", d)
    BY DEF LatestIsNewest
  <2>1. /\ AnswerTo("metrics") = got[1] /\ AnswerTo("latest") = got[2]
        /\ AnswerTo("details") = got[3]
        /\ Covered(got[1], got[2]) /\ Covered(got[2], got[3])
    BY DiagnosticsAnswers
  <2> QED
    BY <2>1 DEF NoneNewer, Covered
<1> QED
  BY <1>1, HistoryInvariant, PTL

-----------------------------------------------------------------------------
(* The compared periods.                                                   *)

(* The two queries of a week, month or year: each has the stored days of   *)
(* its window up to a day of the request.                                  *)
LEMMA PeriodAnswers ==
    ASSUME HistoryInv, Answered, asked.view \in {"week", "month", "year"}
    PROVE  /\ asked.day \in Askable /\ asked.today \in Askable
           /\ asked.day \in Nat /\ asked.today \in Nat /\ today \in Nat
           /\ asked.day <= asked.today /\ asked.today <= today
           /\ \E u \in asked.today .. today :
                 LET w == Selected(asked.view, asked.day)
                 IN  got[1] = {n \in 0 .. u : DayStart(w.from) <= n /\ n < DayStart(w.to)}
           /\ \E u \in asked.today .. today :
                 LET w == Previous(asked.view, asked.day, asked.today)
                 IN  got[2] = {n \in 0 .. u : DayStart(w.from) <= n /\ n < DayStart(w.to)}
<1>1. PICK r : r = asked
  OBVIOUS
<1> DEFINE Q == Queries(r)
           this == Selected(r.view, r.day)
           prev == Previous(r.view, r.day, r.today)
<1>2. Q = <<Yields(this), Yields(prev)>>
  BY <1>1 DEF Queries
<1>3. /\ Len(Q) = 2 /\ Q[1] = Yields(this) /\ Q[2] = Yields(prev)
  BY <1>2
<1> HIDE DEF this, prev
<1>4. Q[1].what = "yields" /\ Q[2].what = "yields" /\ Q[1].days = this /\ Q[2].days = prev
  BY <1>3 DEF Yields
<1> HIDE DEF Q
<1>5. got \in Seq(AnswerSet) /\ Len(got) + Len(todo) = Len(Q) /\ todo = <<>>
  BY <1>1 DEF HistoryInv, ProgressInv, Answered, Q
<1>6. Len(got) = 2
  BY <1>3, <1>5
<1>7. \A i \in 1 .. 2 : Holds(Q[i], got[i], measured, archive, quiet, r.today, today)
  BY <1>1, <1>6 DEF HistoryInv, AnswersInv, Q
<1>8. /\ Holds(Q[1], got[1], measured, archive, quiet, r.today, today)
      /\ Holds(Q[2], got[2], measured, archive, quiet, r.today, today)
  <2>1. 1 \in 1 .. 2 /\ 2 \in 1 .. 2
    OBVIOUS
  <2> QED
    BY <1>7, <2>1, Zenon
<1>9. /\ \E u \in r.today .. today :
            got[1] = {n \in 0 .. u : DayStart(this.from) <= n /\ n < DayStart(this.to)}
      /\ \E u \in r.today .. today :
            got[2] = {n \in 0 .. u : DayStart(prev.from) <= n /\ n < DayStart(prev.to)}
  BY <1>4, <1>8, Zenon DEF Holds
<1>10. /\ asked.day \in Askable /\ asked.today \in Askable /\ today \in Askable
       /\ asked.day <= asked.today /\ asked.today <= today
  BY DEF HistoryInv, RequestInv, Answered, Idling
<1> QED
  BY <1>1, <1>9, <1>10, AskedDate DEF this, prev

(* The three kinds of period together.                                     *)
LEMMA PeriodFits ==
    ASSUME NEW view \in {"week", "month", "year"}, NEW n \in Askable, NEW t \in Askable
    PROVE  Fits(view, n, t)
  BY WeekFits, MonthFits, YearFits

(* The total of a week, month or year is of its own days, and is compared  *)
(* with exactly the days at the same place in the period before: the       *)
(* previous_*_comparison_end functions, whatever the day, the months'      *)
(* lengths and the leap years, and whatever midnight passes in between.    *)
THEOREM PeriodsCompareAlike == Spec => []SameSpanCompared
<1>1. HistoryInv => SameSpanCompared
  <2> SUFFICES ASSUME HistoryInv, Answered, asked.view \in {"week", "month", "year"}
               PROVE  LET this == Selected(asked.view, asked.day)
                          before == Selected(asked.view, this.from - 1)
                          compared == Previous(asked.view, asked.day, asked.today)
                      IN  {this.from, this.to, compared.from, compared.to} \cap Gaps = {} =>
                            /\ \A n \in got[1] : this.from <= n /\ n < this.to
                            /\ got[2] = {n \in before.from .. before.to - 1 :
                                            n \in Stored /\ SamePart(n)}
    BY DEF SameSpanCompared
  <2> DEFINE this == Selected(asked.view, asked.day)
             before == Selected(asked.view, this.from - 1)
             compared == Previous(asked.view, asked.day, asked.today)
  <2> SUFFICES ASSUME {this.from, this.to, compared.from, compared.to} \cap Gaps = {}
               PROVE  /\ \A n \in got[1] : this.from <= n /\ n < this.to
                      /\ got[2] = {n \in before.from .. before.to - 1 :
                                      n \in Stored /\ SamePart(n)}
    OBVIOUS
  <2>1. /\ asked.day \in Askable /\ asked.today \in Askable
        /\ asked.day \in Nat /\ asked.today \in Nat /\ today \in Nat
        /\ asked.day <= asked.today /\ asked.today <= today
        /\ \E u \in asked.today .. today :
              got[1] = {n \in 0 .. u : DayStart(this.from) <= n /\ n < DayStart(this.to)}
        /\ \E u \in asked.today .. today :
              got[2] = {n \in 0 .. u : DayStart(compared.from) <= n
                                       /\ n < DayStart(compared.to)}
    BY PeriodAnswers
  <2>2. Fits(asked.view, asked.day, asked.today)
    BY <2>1, PeriodFits
  <2>3. /\ this.from \in Nat /\ this.to \in Int /\ this.from <= asked.day
        /\ before.from \in Nat /\ before.to = this.from
        /\ compared.from = before.from
        /\ compared.to \in Int /\ compared.to <= this.from
        /\ \A k \in before.from .. before.to - 1 :
              k < compared.to <=> Comparable(asked.view, asked.day, asked.today, k)
    BY <2>2 DEF Fits
  <2> HIDE DEF this, before, compared
  <2>4. /\ DayStart(this.from) = this.from /\ DayStart(this.to) = this.to
        /\ DayStart(compared.from) = compared.from /\ DayStart(compared.to) = compared.to
    BY DEF DayStart
  <2>5. \A n \in got[1] : this.from <= n /\ n < this.to
    BY <2>1, <2>4
  <2>6. \A k : SamePart(k) <=> Comparable(asked.view, asked.day, asked.today, k)
    BY DEF SamePart, Comparable
  <2>7. PICK u \in asked.today .. today :
           got[2] = {n \in 0 .. u : compared.from <= n /\ n < compared.to}
    BY <2>1, <2>4
  <2>8. Stored = 0 .. today
    BY DEF Stored
  <2>9. ASSUME NEW n \in Int
        PROVE  n \in 0 .. u /\ compared.from <= n /\ n < compared.to
               <=> n \in before.from .. before.to - 1 /\ n \in 0 .. today /\ n < compared.to
    BY <2>1, <2>3
  <2>10. \A n : n \in got[2] <=> n \in {k \in before.from .. before.to - 1 :
                                            k \in Stored /\ SamePart(k)}
    <3>1. ASSUME NEW n, n \in got[2]
          PROVE  n \in before.from .. before.to - 1 /\ n \in Stored /\ SamePart(n)
      <4>1. n \in 0 .. u /\ n \in Int /\ compared.from <= n /\ n < compared.to
        BY <2>7, <3>1
      <4>2. n \in before.from .. before.to - 1 /\ n \in 0 .. today
        BY <2>9, <4>1
      <4>3. Comparable(asked.view, asked.day, asked.today, n)
        BY <2>3, <4>1, <4>2
      <4> QED
        BY <2>6, <2>8, <4>2, <4>3
    <3>2. ASSUME NEW n, n \in before.from .. before.to - 1, n \in Stored, SamePart(n)
          PROVE  n \in got[2]
      <4>1. Comparable(asked.view, asked.day, asked.today, n)
        BY <2>6, <3>2
      <4>2. n < compared.to /\ n \in Int
        BY <2>3, <3>2, <4>1
      <4> QED
        BY <2>7, <2>8, <2>9, <3>2, <4>2
    <3> QED
      BY <3>1, <3>2
  <2>11. got[2] = {n \in before.from .. before.to - 1 : n \in Stored /\ SamePart(n)}
    BY <2>7, <2>10
  <2> QED
    BY <2>5, <2>11
<1> QED
  BY <1>1, HistoryInvariant, PTL

-----------------------------------------------------------------------------
(* The rows of the day.                                                    *)

(* The times of day a device was seen at.                                  *)
LEMMA SlotsAreNat ==
    ASSUME NEW ms \in SUBSET Measurements, IsFiniteSet(ms), NEW d
    PROVE  SlotsSeen(ms, d) \in SUBSET Nat /\ IsFiniteSet(SlotsSeen(ms, d))
<1> DEFINE S == {x \in ms : x.device = d}
           f == [x \in S |-> SlotOf(x.at)]
<1>1. \A x \in ms : x.at \in Nat
  BY HistoryAssumption DEF Measurements
<1>2. \A x \in ms : SlotOf(x.at) \in Nat
  BY <1>1 DEF SlotOf
<1>3. SlotsSeen(ms, d) = {f[x] : x \in S}
  BY DEF SlotsSeen
<1>4. IsFiniteSet(S) /\ DOMAIN f = S
  BY FS_Subset
<1>5. IsFiniteSet({f[x] : x \in S})
  <2> HIDE DEF f, S
  <2> QED
    BY <1>4, ImageIsFinite
<1>6. SlotsSeen(ms, d) \in SUBSET Nat
  BY <1>2 DEF SlotsSeen
<1> QED
  BY <1>3, <1>5, <1>6

(* The last measurement a device has of a time of day it was seen at.      *)
LEMMA InSlotIs ==
    ASSUME NEW ms \in SUBSET Measurements, IsFiniteSet(ms), NEW d, NEW s \in SlotsSeen(ms, d)
    PROVE  /\ InSlot(ms, d, s) \in ms
           /\ InSlot(ms, d, s).device = d /\ SlotOf(InSlot(ms, d, s).at) = s
           /\ InSlot(ms, d, s).energy \in Nat /\ InSlot(ms, d, s).power \in Nat
           /\ \A x \in ms : x.device = d /\ SlotOf(x.at) = s => x.at <= InSlot(ms, d, s).at
<1> DEFINE here == {m \in ms : m.device = d /\ SlotOf(m.at) = s}
           f == [x \in here |-> x.at]
<1>1. IsFiniteSet(here) /\ here # {}
  BY FS_Subset DEF SlotsSeen
<1>2. f \in [here -> Int]
  BY DEF Measurements
<1>3. PICK top \in here : \A x \in here : f[x] <= f[top]
  <2> HIDE DEF here, f
  <2> QED
    BY <1>1, <1>2, Greatest
<1>4. \E m \in here : \A x \in here : x.at <= m.at
  <2>1. \A x \in here : x.at <= top.at
    BY <1>3
  <2> QED
    BY <2>1
<1> DEFINE m == InSlot(ms, d, s)
<1>5. m \in here /\ \A x \in here : x.at <= m.at
  BY <1>4 DEF InSlot
<1> HIDE DEF m
<1>6. m \in ms /\ m.device = d /\ SlotOf(m.at) = s
  BY <1>5
<1>7. m.energy \in Nat /\ m.power \in Nat
  <2>1. m.energy \in 0 .. MaxEnergy /\ m.power \in Powers
    BY <1>6 DEF Measurements
  <2>2. Powers \subseteq Nat /\ MaxEnergy \in Nat
    BY HistoryAssumption
  <2>3. \A e \in 0 .. MaxEnergy : e \in Nat
    BY <2>2
  <2>4. m.energy \in Nat
    BY <2>1, <2>3
  <2>5. m.power \in Nat
    BY <2>1, <2>2
  <2> QED
    BY <2>4, <2>5
<1> QED
  BY <1>5, <1>6, <1>7 DEF m

(* EnergyAt is the greatest energy of the slots seen so far.               *)
LEMMA EnergyIs ==
    ASSUME NEW ms \in SUBSET Measurements, IsFiniteSet(ms), NEW d, NEW s \in Nat
    PROVE  /\ EnergyAt(ms, d, s) \in Nat
           /\ \A k \in SlotsSeen(ms, d) :
                 k <= s => InSlot(ms, d, k).energy <= EnergyAt(ms, d, s)
           /\ \/ EnergyAt(ms, d, s) = 0
              \/ \E k \in SlotsSeen(ms, d) :
                    k <= s /\ EnergyAt(ms, d, s) = InSlot(ms, d, k).energy
<1> DEFINE seen == {k \in SlotsSeen(ms, d) : k <= s}
           f == [k \in seen |-> InSlot(ms, d, k).energy]
           E == {f[k] : k \in seen}
<1>1. IsFiniteSet(seen)
  BY SlotsAreNat, FS_Subset
<1>2. IsFiniteSet(E)
  <2>1. DOMAIN f = seen
    OBVIOUS
  <2> HIDE DEF f, seen
  <2> QED
    BY <1>1, <2>1, ImageIsFinite
<1>3. E \in SUBSET Nat
  BY InSlotIs
<1>4. EnergyAt(ms, d, s) = Max(E \cup {0})
  <2>1. E = {InSlot(ms, d, k).energy : k \in seen}
    OBVIOUS
  <2> HIDE DEF E
  <2> QED
    BY <2>1 DEF EnergyAt
<1>5. Max(E \cup {0}) \in E \cup {0} /\ \A x \in E \cup {0} : x <= Max(E \cup {0})
  <2> HIDE DEF E
  <2>1. IsFiniteSet(E \cup {0}) /\ E \cup {0} \in SUBSET Int /\ E \cup {0} # {}
    BY <1>2, <1>3, FS_AddElement
  <2> DEFINE T == E \cup {0}
  <2> HIDE DEF T
  <2>2. Max(T) \in T /\ \A x \in T : x <= Max(T)
    BY <2>1, MaxMin DEF T
  <2> QED
    BY <2>2 DEF T
<1>6. \A k \in SlotsSeen(ms, d) : k <= s => InSlot(ms, d, k).energy \in E
  OBVIOUS
<1>7. \A e \in E : \E k \in SlotsSeen(ms, d) : k <= s /\ e = InSlot(ms, d, k).energy
  OBVIOUS
<1> HIDE DEF E
<1>8. PICK M : M = Max(E \cup {0})
  OBVIOUS
<1>9. M \in E \cup {0} /\ \A x \in E \cup {0} : x <= M
  BY <1>5, <1>8
<1>10. M \in Nat /\ (M = 0 \/ M \in E) /\ \A e \in E : e <= M
  BY <1>3, <1>9
<1>11. EnergyAt(ms, d, s) = M
  BY <1>4, <1>8
<1>12. \A k \in SlotsSeen(ms, d) : k <= s => InSlot(ms, d, k).energy <= EnergyAt(ms, d, s)
  BY <1>6, <1>10, <1>11
<1>13. M = 0 \/ \E k \in SlotsSeen(ms, d) : k <= s /\ M = InSlot(ms, d, k).energy
  BY <1>7, <1>10
<1> QED
  BY <1>10, <1>11, <1>12, <1>13

(* Energy does not fall from one time of day to a later one.               *)
LEMMA EnergyInTime ==
    ASSUME NEW ms \in SUBSET Measurements, IsFiniteSet(ms), NEW d,
           NEW s \in Nat, NEW t \in Nat, s <= t
    PROVE  EnergyAt(ms, d, s) <= EnergyAt(ms, d, t)
<1>1. EnergyAt(ms, d, s) \in Nat /\ EnergyAt(ms, d, t) \in Nat
  BY EnergyIs
<1>2. CASE EnergyAt(ms, d, s) = 0
  BY <1>1, <1>2
<1>3. ASSUME NEW k \in SlotsSeen(ms, d), k <= s, EnergyAt(ms, d, s) = InSlot(ms, d, k).energy
      PROVE  EnergyAt(ms, d, s) <= EnergyAt(ms, d, t)
  <2>1. k \in Nat
    BY SlotsAreNat
  <2>2. k <= t
    BY <1>3, <2>1
  <2>3. InSlot(ms, d, k).energy <= EnergyAt(ms, d, t)
    BY <2>2, EnergyIs
  <2> QED
    BY <1>3, <2>3
<1> QED
  BY <1>2, <1>3, EnergyIs

(* A device's energy does not get smaller when more is known of it, unless *)
(* what is known of a slot becomes smaller.                                *)
LEMMA EnergyWithMore ==
    ASSUME NEW ms \in SUBSET Measurements, IsFiniteSet(ms), OneOfATime(ms),
           SlotsGrow(ms), NEW d,
           NEW one \in SUBSET ms, NEW other \in SUBSET ms,
           {m \in one : m.device = d} \subseteq other, NEW s \in Nat
    PROVE  EnergyAt(one, d, s) <= EnergyAt(other, d, s)
<1>1. /\ one \in SUBSET Measurements /\ IsFiniteSet(one)
      /\ other \in SUBSET Measurements /\ IsFiniteSet(other)
  BY FS_Subset
<1>2. EnergyAt(one, d, s) \in Nat /\ EnergyAt(other, d, s) \in Nat
  BY <1>1, EnergyIs
<1>3. CASE EnergyAt(one, d, s) = 0
  BY <1>2, <1>3
<1>4. ASSUME NEW k \in SlotsSeen(one, d), k <= s,
             EnergyAt(one, d, s) = InSlot(one, d, k).energy
      PROVE  EnergyAt(one, d, s) <= EnergyAt(other, d, s)
  <2> DEFINE a == InSlot(one, d, k)
             b == InSlot(other, d, k)
  <2>1. a \in one /\ a.device = d /\ SlotOf(a.at) = k /\ a.energy \in Nat
    BY <1>1, InSlotIs
  <2>2. a \in other
    BY <2>1
  <2>3. k \in SlotsSeen(other, d)
    BY <2>1, <2>2 DEF SlotsSeen
  <2>4. /\ b \in other /\ b.device = d /\ SlotOf(b.at) = k
        /\ a.at <= b.at /\ b.energy \in Nat
    BY <1>1, <2>1, <2>2, <2>3, InSlotIs
  <2>5. a \in ms /\ b \in ms /\ a.at \in Int /\ b.at \in Int
    BY <2>1, <2>4 DEF Measurements
  <2>6. b.energy <= EnergyAt(other, d, s)
    BY <1>1, <1>4, <2>3, EnergyIs
  <2>7. EnergyAt(one, d, s) = a.energy
    BY <1>4
  <2> HIDE DEF a, b
  <2>8. a.energy <= b.energy
    <3>1. a.at < b.at \/ a.at = b.at
      BY <2>4, <2>5
    <3>2. a.at = b.at => a = b
      BY <2>1, <2>4, <2>5 DEF OneOfATime
    <3>3. a.at < b.at => a.energy <= b.energy
      BY <2>1, <2>4, <2>5 DEF SlotsGrow
    <3> QED
      BY <2>1, <2>4, <3>1, <3>2, <3>3
  <2> QED
    BY <1>2, <2>1, <2>4, <2>6, <2>7, <2>8
<1> QED
  BY <1>1, <1>3, <1>4, EnergyIs

(* A device's rows are made of its own measurements alone.                 *)
LEMMA RowsAreLocal ==
    ASSUME NEW one, NEW other, NEW d, NEW s,
           {m \in one : m.device = d} = {m \in other : m.device = d}
    PROVE  /\ EnergyAt(one, d, s) = EnergyAt(other, d, s)
           /\ PowerAt(one, d, s) = PowerAt(other, d, s)
<1>1. SlotsSeen(one, d) = SlotsSeen(other, d)
  BY DEF SlotsSeen
<1>2. \A k : {m \in one : m.device = d /\ SlotOf(m.at) = k}
             = {m \in other : m.device = d /\ SlotOf(m.at) = k}
  OBVIOUS
<1>3. \A k : InSlot(one, d, k) = InSlot(other, d, k)
  BY <1>2 DEF InSlot
<1>4. EnergyAt(one, d, s) = EnergyAt(other, d, s)
  BY <1>1, <1>3 DEF EnergyAt
<1>5. PowerAt(one, d, s) = PowerAt(other, d, s)
  BY <1>1, <1>3 DEF PowerAt
<1> QED
  BY <1>4, <1>5

(* A device without measurements adds nothing to a row.                    *)
LEMMA SilentDevice ==
    ASSUME NEW ms, NEW d, NEW s, \A m \in ms : m.device # d
    PROVE  EnergyAt(ms, d, s) = 0 /\ PowerAt(ms, d, s) = 0
<1>1. SlotsSeen(ms, d) = {}
  BY DEF SlotsSeen
<1>2. PowerAt(ms, d, s) = 0
  BY <1>1 DEF PowerAt
<1>3. {k \in SlotsSeen(ms, d) : k <= s} = {}
  BY <1>1
<1>4. EnergyAt(ms, d, s) = Max({0})
  <2>1. {InSlot(ms, d, k).energy : k \in {k \in SlotsSeen(ms, d) : k <= s}} \cup {0} = {0}
    BY <1>3
  <2> QED
    BY <2>1 DEF EnergyAt
<1>5. Max({0}) = 0
  <2>1. {0} \in SUBSET Int /\ IsFiniteSet({0}) /\ {0} # {}
    BY FS_Singleton
  <2>2. Max({0}) \in {0}
    BY <2>1, MaxMin
  <2> QED
    BY <2>2
<1> QED
  BY <1>2, <1>4, <1>5

(* Power comes from the last time the device was seen, if any.             *)
LEMMA PowerIs ==
    ASSUME NEW ms \in SUBSET Measurements, IsFiniteSet(ms), NEW d, NEW s \in Nat
    PROVE  /\ PowerAt(ms, d, s) \in Nat
           /\ LET seen == {k \in SlotsSeen(ms, d) : k <= s}
              IN  seen # {} => /\ Max(seen) \in seen /\ Max(seen) \in Nat
                               /\ \A k \in seen : k <= Max(seen)
<1> DEFINE seen == {k \in SlotsSeen(ms, d) : k <= s}
<1>1. seen \in SUBSET Int /\ IsFiniteSet(seen) /\ seen \in SUBSET SlotsSeen(ms, d)
      /\ SlotsSeen(ms, d) \in SUBSET Nat
  BY SlotsAreNat, FS_Subset
<1>2. PowerAt(ms, d, s) = IF seen # {} /\ s - Max(seen) <= 1
                          THEN InSlot(ms, d, Max(seen)).power ELSE 0
  BY DEF PowerAt
<1>3. seen # {} => Max(seen) \in seen /\ \A k \in seen : k <= Max(seen)
  <2> HIDE DEF seen
  <2> QED
    BY <1>1, MaxMin
<1> HIDE DEF seen
<1>4. seen # {} => Max(seen) \in SlotsSeen(ms, d) /\ Max(seen) \in Nat
  BY <1>1, <1>3
<1>5. seen # {} => InSlot(ms, d, Max(seen)).power \in Nat
  BY <1>4, InSlotIs
<1>6. PowerAt(ms, d, s) \in Nat
  BY <1>2, <1>5
<1> QED
  BY <1>3, <1>4, <1>6 DEF seen

(* A sum with one value is that value.                                     *)
LEMMA SumOfOne ==
    ASSUME NEW S, IsFiniteSet(S), NEW f \in [S -> Nat], NEW x \in S,
           \A y \in S : y # x => f[y] = 0
    PROVE  SumFunction(f) = f[x]
<1>1. S \in SUBSET S
  OBVIOUS
<1>2. Cardinality(Units(f, S)) = f[x] + Cardinality(Units(f, S \ {x}))
  BY <1>1, UnitsSplit
<1>3. Units(f, S \ {x}) = {}
  BY DEF Units
<1>4. Cardinality(Units(f, S \ {x})) = 0
  BY <1>3, FS_EmptySet
<1>5. SumFunction(f) = Cardinality(Units(f, S)) /\ f[x] \in Nat
  BY SumIsCount
<1> QED
  BY <1>2, <1>4, <1>5

(* A response has a row for each time of day something was measured at.    *)
LEMMA RowsOf ==
    ASSUME NEW ms \in SUBSET Measurements, IsFiniteSet(ms),
           \A m \in ms : SlotOf(m.at) < Slots, NEW ps
    PROVE  /\ DOMAIN Rows(ms, ps) = {SlotOf(m.at) : m \in ms}
           /\ \A s \in {SlotOf(m.at) : m \in ms} :
                 s \in Nat /\ Rows(ms, ps)[s] = RowAt(ms, ps, s)
<1> DEFINE slots == {SlotOf(m.at) : m \in ms}
<1>1. Slots \in Nat \ {0}
  BY HistoryAssumption
<1>2. \A s \in slots : s \in Nat /\ s < Slots
  <2>1. \A m \in ms : m.at \in Nat
    BY HistoryAssumption DEF Measurements
  <2>2. \A m \in ms : SlotOf(m.at) \in Nat
    BY <2>1 DEF SlotOf
  <2> QED
    BY <2>2
<1>3. \A s \in slots : Label(s) = s
  <2> SUFFICES ASSUME NEW s \in slots PROVE s % Slots = s
    BY DEF Label
  <2>1. s \in Nat /\ s < Slots
    BY <1>2
  <2> HIDE DEF slots
  <2> QED
    BY <1>1, <2>1
<1>4. Rows(ms, ps) = [l \in {Label(s) : s \in slots} |->
                         RowAt(ms, ps, Max({s \in slots : Label(s) = l}))]
  BY DEF Rows
<1> HIDE DEF slots
<1>5. {Label(s) : s \in slots} = slots
  BY <1>3
<1>6. ASSUME NEW l \in slots PROVE Max({s \in slots : Label(s) = l}) = l
  <2>1. {s \in slots : Label(s) = l} = {l}
    BY <1>3
  <2>2. {l} \in SUBSET Int /\ IsFiniteSet({l}) /\ {l} # {}
    <3>1. l \in Int
      BY <1>2
    <3>2. IsFiniteSet({l})
      BY FS_Singleton
    <3> QED
      BY <3>1, <3>2
  <2>3. Max({l}) \in {l}
    BY <2>2, MaxMin
  <2> QED
    BY <2>1, <2>3
<1>7. DOMAIN Rows(ms, ps) = slots
  BY <1>4, <1>5
<1>8. ASSUME NEW l \in slots PROVE Rows(ms, ps)[l] = RowAt(ms, ps, l)
  BY <1>4, <1>5, <1>6
<1> QED
  BY <1>2, <1>7, <1>8 DEF slots

(* A row sums over the devices; measured power counts where no power was   *)
(* imported.                                                               *)
LEMMA RowValues ==
    ASSUME NEW ms, NEW ps, NEW s
    PROVE  /\ RowAt(ms, ps, s).energy = SumFunction([d \in Devices |-> EnergyAt(ms, d, s)])
           /\ ps = {} => RowAt(ms, ps, s).power
                         = SumFunction([d \in Devices |-> PowerAt(ms, d, s)])
<1>1. ps = {} => {p \in ps : p.slot = s} = {}
  OBVIOUS
<1> QED
  BY <1>1 DEF RowAt

(* In an inverter's own series a row has the values of that inverter.      *)
LEMMA OwnRow ==
    ASSUME NEW ms \in SUBSET Measurements, IsFiniteSet(ms), NEW d \in Devices,
           \A m \in ms : m.device = d, NEW ps, NEW s \in Nat
    PROVE  /\ RowAt(ms, ps, s).energy = EnergyAt(ms, d, s)
           /\ ps = {} => RowAt(ms, ps, s).power = PowerAt(ms, d, s)
<1> DEFINE f == [e \in Devices |-> EnergyAt(ms, e, s)]
           g == [e \in Devices |-> PowerAt(ms, e, s)]
<1>1. IsFiniteSet(Devices)
  BY HistoryAssumption
<1>2. f \in [Devices -> Nat] /\ g \in [Devices -> Nat]
  BY EnergyIs, PowerIs
<1>3. \A e \in Devices : e # d => f[e] = 0 /\ g[e] = 0
  BY SilentDevice
<1>4. f[d] = EnergyAt(ms, d, s) /\ g[d] = PowerAt(ms, d, s)
  OBVIOUS
<1>5. /\ RowAt(ms, ps, s).energy = SumFunction(f)
      /\ ps = {} => RowAt(ms, ps, s).power = SumFunction(g)
  BY RowValues
<1> HIDE DEF f, g
<1>6. SumFunction(f) = f[d]
  BY <1>1, <1>2, <1>3, SumOfOne
<1>7. SumFunction(g) = g[d]
  BY <1>1, <1>2, <1>3, SumOfOne
<1> QED
  BY <1>4, <1>5, <1>6, <1>7

(* What an inverter's series shows up to a time of day is what its device  *)
(* has by then.                                                            *)
LEMMA OwnSeries ==
    ASSUME NEW ms \in SUBSET Measurements, IsFiniteSet(ms), NEW d \in Devices,
           \A m \in ms : m.device = d, \A m \in ms : SlotOf(m.at) < Slots,
           NEW ps, NEW l \in Nat
    PROVE  LET rows == Rows(ms, ps)
               upTo == {x \in DOMAIN rows : x <= l}
           IN  /\ Max({rows[x].energy : x \in upTo} \cup {0}) = EnergyAt(ms, d, l)
               /\ ps = {} => (IF upTo # {} /\ l - Max(upTo) <= 1
                              THEN rows[Max(upTo)].power ELSE 0) = PowerAt(ms, d, l)
<1> DEFINE rows == Rows(ms, ps)
           seen == SlotsSeen(ms, d)
           upTo == {k \in seen : k <= l}
           E == {rows[x].energy : x \in upTo}
<1>1. seen = {SlotOf(m.at) : m \in ms} /\ DOMAIN rows = seen
  <2>1. seen = {SlotOf(m.at) : m \in ms}
    BY DEF SlotsSeen
  <2> QED
    BY <2>1, RowsOf
<1>2. \A x \in seen : x \in Nat /\ rows[x] = RowAt(ms, ps, x)
  BY <1>1, RowsOf
<1>3. \A x \in seen : /\ rows[x].energy = EnergyAt(ms, d, x)
                      /\ ps = {} => rows[x].power = PowerAt(ms, d, x)
  BY <1>2, OwnRow
<1>4. upTo \in SUBSET seen /\ IsFiniteSet(seen) /\ seen \in SUBSET Nat
  BY SlotsAreNat
<1>5. IsFiniteSet(upTo)
  BY <1>4, FS_Subset
<1>6. \A x \in upTo : x \in Nat /\ x <= l /\ x \in seen
  BY <1>2
<1>7. \A x \in seen : x <= l => x \in upTo
  OBVIOUS
<1>8. {x \in DOMAIN rows : x <= l} = upTo
  BY <1>1
<1> HIDE DEF rows, seen, upTo
<1>9. Max(E \cup {0}) = EnergyAt(ms, d, l)
  <2> DEFINE f == [x \in upTo |-> rows[x].energy]
  <2>1. IsFiniteSet(E)
    <3>1. E = {f[x] : x \in upTo} /\ DOMAIN f = upTo
      OBVIOUS
    <3> HIDE DEF f, E
    <3> QED
      BY <1>5, <3>1, ImageIsFinite
  <2>2. \A x \in upTo : rows[x].energy \in Nat /\ rows[x].energy <= EnergyAt(ms, d, l)
    BY <1>3, <1>6, EnergyIs, EnergyInTime
  <2>3. \A e \in E : e \in Nat /\ e <= EnergyAt(ms, d, l)
    BY <2>2
  <2>4. EnergyAt(ms, d, l) \in Nat
    BY EnergyIs
  <2>5. EnergyAt(ms, d, l) = 0 \/ \E e \in E : EnergyAt(ms, d, l) <= e
    <3>1. ASSUME NEW k \in SlotsSeen(ms, d), k <= l,
                 EnergyAt(ms, d, l) = InSlot(ms, d, k).energy
          PROVE  \E e \in E : EnergyAt(ms, d, l) <= e
      <4>1. k \in seen /\ k \in upTo /\ k \in Nat /\ k <= k
        BY <1>2, <1>7, <3>1 DEF seen
      <4>2. InSlot(ms, d, k).energy <= EnergyAt(ms, d, k)
        BY <4>1, EnergyIs
      <4>3. rows[k].energy = EnergyAt(ms, d, k) /\ rows[k].energy \in E
        BY <1>3, <4>1
      <4> QED
        BY <3>1, <4>2, <4>3
    <3> QED
      BY <3>1, EnergyIs
  <2> HIDE DEF E
  <2>6. IsFiniteSet(E \cup {0}) /\ E \cup {0} \in SUBSET Int /\ E \cup {0} # {}
    BY <2>1, <2>3, FS_AddElement
  <2>7. PICK M : M = Max(E \cup {0})
    OBVIOUS
  <2>8. M \in E \cup {0} /\ \A x \in E \cup {0} : x <= M
    BY <2>6, <2>7, MaxMin
  <2>9. M \in Nat /\ M <= EnergyAt(ms, d, l) /\ EnergyAt(ms, d, l) <= M
    BY <2>3, <2>4, <2>5, <2>8
  <2> QED
    BY <2>4, <2>7, <2>9
<1>10. ASSUME ps = {}
       PROVE  (IF upTo # {} /\ l - Max(upTo) <= 1
               THEN rows[Max(upTo)].power ELSE 0) = PowerAt(ms, d, l)
  <2>1. PowerAt(ms, d, l) = IF upTo # {} /\ l - Max(upTo) <= 1
                            THEN InSlot(ms, d, Max(upTo)).power ELSE 0
    BY DEF PowerAt, upTo, seen
  <2>2. ASSUME upTo # {} PROVE rows[Max(upTo)].power = InSlot(ms, d, Max(upTo)).power
    <3>1. PICK x : x = Max(upTo)
      OBVIOUS
    <3>2. x \in upTo /\ \A k \in upTo : k <= x
      <4>1. upTo \in SUBSET Int
        BY <1>6
      <4> QED
        BY <1>5, <2>2, <3>1, <4>1, MaxMin
    <3>3. x \in Nat /\ x <= l /\ x \in seen
      BY <1>6, <3>2
    <3>4. {k \in seen : k <= x} \in SUBSET Int /\ x \in {k \in seen : k <= x}
      <4>1. x <= x
        BY <3>3
      <4>2. \A k \in seen : k \in Int
        BY <1>2
      <4>3. {k \in seen : k <= x} \in SUBSET Int
        BY <4>2
      <4> QED
        BY <3>3, <4>1, <4>3
    <3>5. IsFiniteSet({k \in seen : k <= x})
      BY <1>4, FS_Subset
    <3>6. PICK y : y = Max({k \in seen : k <= x})
      OBVIOUS
    <3>7. y \in {k \in seen : k <= x} /\ \A k \in {k \in seen : k <= x} : k <= y
      BY <3>4, <3>5, <3>6, MaxMin
    <3>8. y = x
      BY <1>2, <3>3, <3>4, <3>7
    <3>9. PowerAt(ms, d, x) = IF {k \in seen : k <= x} # {} /\ x - y <= 1
                              THEN InSlot(ms, d, y).power ELSE 0
      BY <3>6 DEF PowerAt, seen
    <3>10. PowerAt(ms, d, x) = InSlot(ms, d, x).power
      <4>1. x - x <= 1
        BY <3>3
      <4> QED
        BY <3>4, <3>8, <3>9, <4>1
    <3> QED
      BY <1>3, <1>10, <3>1, <3>3, <3>10
  <2> QED
    BY <2>1, <2>2
<1> QED
  BY <1>8, <1>9, <1>10 DEF rows

(* The plant's measurements and each inverter's, read one query after      *)
(* another.                                                                *)
LEMMA AggregateAnswers ==
    ASSUME HistoryInv, Answered, asked.view = "aggregate"
    PROVE  /\ got[1] \subseteq measured
           /\ quiet => got[1] = measured
           /\ quiet /\ archive = {} => got[2] = {}
           /\ \A k \in 1 .. Cardinality(Devices) :
                 LET d == Ascending(Devices)[k]
                 IN  /\ got[2 * k + 1] \subseteq {m \in measured : m.device = d}
                     /\ {m \in got[1] : m.device = d} \subseteq got[2 * k + 1]
                     /\ quiet => got[2 * k + 1] = {m \in measured : m.device = d}
                     /\ quiet /\ archive = {} => got[2 * k + 2] = {}
<1>1. PICK r : r = asked
  OBVIOUS
<1> DEFINE Q == Queries(r)
           n == Cardinality(Devices)
           asc == Ascending(Devices)
           last == Yields(Previous(r.view, r.day, r.today))
<1>2. /\ n \in Nat /\ asc \in [1 .. n -> Devices]
      /\ PlantQueries \in Seq(QuerySet(r)) /\ Len(PlantQueries) = 2 * n + 2
      /\ PlantQueries[1] = Metrics(Devices) /\ PlantQueries[2] = Power(Devices)
      /\ \A k \in 1 .. n : /\ PlantQueries[2 * k + 1] = Metrics({asc[k]})
                           /\ PlantQueries[2 * k + 2] = Power({asc[k]})
  BY PlantQueryList
<1>3. Q = PlantQueries \o <<last>>
  BY <1>1 DEF Queries
<1> HIDE DEF n, asc, last, Q
<1>4. Len(Q) = 2 * n + 3 /\ \A i \in 1 .. 2 * n + 2 : Q[i] = PlantQueries[i]
  <2>1. PICK p : p = PlantQueries
    OBVIOUS
  <2> DEFINE S == QuerySet(r) \cup {last}
  <2>2. p \in Seq(S) /\ <<last>> \in Seq(S) /\ Len(p) = 2 * n + 2 /\ Len(<<last>>) = 1
    <3>1. p \in Seq(QuerySet(r))
      BY <1>2, <2>1
    <3>2. p \in Seq(S)
      BY <3>1, SeqMonotonic
    <3> QED
      BY <1>2, <2>1, <3>2
  <2> HIDE DEF S
  <2>3. /\ Len(p \o <<last>>) = Len(p) + Len(<<last>>)
        /\ \A i \in 1 .. Len(p) + Len(<<last>>) :
              (p \o <<last>>)[i] = IF i <= Len(p) THEN p[i] ELSE <<last>>[i - Len(p)]
    BY <2>2, ConcatProperties
  <2>4. Q = p \o <<last>>
    BY <1>3, <2>1
  <2>5. \A i \in 1 .. 2 * n + 2 : i \in 1 .. Len(p) + Len(<<last>>) /\ i <= Len(p)
    BY <1>2, <2>2
  <2>6. Len(Q) = 2 * n + 3
    BY <1>2, <2>2, <2>3, <2>4
  <2>7. \A i \in 1 .. 2 * n + 2 : Q[i] = p[i]
    BY <2>3, <2>4, <2>5
  <2> QED
    BY <2>1, <2>6, <2>7
<1>5. got \in Seq(AnswerSet) /\ Len(got) + Len(todo) = Len(Q) /\ todo = <<>>
  BY <1>1 DEF HistoryInv, ProgressInv, Answered, Q
<1>6. Len(got) = 2 * n + 3
  <2>1. Len(got) \in Nat /\ Len(todo) = 0
    BY <1>5
  <2> QED
    BY <1>2, <1>4, <1>5, <2>1
<1>7. \A i \in 1 .. 2 * n + 3 : Holds(Q[i], got[i], measured, archive, quiet, r.today, today)
  BY <1>1, <1>6 DEF HistoryInv, AnswersInv, Q
<1>8. \A i \in 1 .. 2 * n + 3 : \A j \in 1 .. 2 * n + 3 :
         i < j => Follows(Q[i], got[i], Q[j], got[j])
  BY <1>1, <1>6 DEF HistoryInv, AnswersInv, Q
<1>9. /\ 1 \in 1 .. 2 * n + 2 /\ 2 \in 1 .. 2 * n + 2
      /\ 1 \in 1 .. 2 * n + 3 /\ 2 \in 1 .. 2 * n + 3
      /\ \A k \in 1 .. n : /\ 2 * k + 1 \in 1 .. 2 * n + 2 /\ 2 * k + 2 \in 1 .. 2 * n + 2
                           /\ 2 * k + 1 \in 1 .. 2 * n + 3 /\ 2 * k + 2 \in 1 .. 2 * n + 3
                           /\ 1 < 2 * k + 1
  BY <1>2
<1>10. Q[1] = Metrics(Devices) /\ Q[2] = Power(Devices)
  BY <1>2, <1>4, <1>9
<1>11. \A k \in 1 .. n : Q[2 * k + 1] = Metrics({asc[k]}) /\ Q[2 * k + 2] = Power({asc[k]})
  BY <1>2, <1>4, <1>9
<1>12. \A m \in measured : m.device \in Devices
  BY DEF HistoryInv, TablesInv, Measurements
<1>13. got[1] \subseteq measured /\ (quiet => got[1] = measured)
  <2>1. Holds(Metrics(Devices), got[1], measured, archive, quiet, r.today, today)
    BY <1>7, <1>9, <1>10
  <2>2. {m \in measured : m.device \in Devices} = measured
    BY <1>12
  <2> QED
    BY <2>1, <2>2 DEF Holds, Metrics
<1>14. quiet /\ archive = {} => got[2] = {}
  <2>1. Holds(Power(Devices), got[2], measured, archive, quiet, r.today, today)
    BY <1>7, <1>9, <1>10
  <2> QED
    BY <2>1 DEF Holds, Power
<1>15. ASSUME NEW k \in 1 .. n
       PROVE  /\ got[2 * k + 1] \subseteq {m \in measured : m.device = asc[k]}
              /\ {m \in got[1] : m.device = asc[k]} \subseteq got[2 * k + 1]
              /\ quiet => got[2 * k + 1] = {m \in measured : m.device = asc[k]}
              /\ quiet /\ archive = {} => got[2 * k + 2] = {}
  <2>1. Holds(Metrics({asc[k]}), got[2 * k + 1], measured, archive, quiet, r.today, today)
    BY <1>7, <1>9, <1>11
  <2>2. Holds(Power({asc[k]}), got[2 * k + 2], measured, archive, quiet, r.today, today)
    BY <1>7, <1>9, <1>11
  <2>3. Follows(Metrics(Devices), got[1], Metrics({asc[k]}), got[2 * k + 1])
    BY <1>8, <1>9, <1>10, <1>11
  <2>4. \A m : m.device \in {asc[k]} <=> m.device = asc[k]
    OBVIOUS
  <2>5. /\ got[2 * k + 1] \subseteq {m \in measured : m.device = asc[k]}
        /\ quiet => got[2 * k + 1] = {m \in measured : m.device = asc[k]}
    BY <2>1, <2>4 DEF Holds, Metrics
  <2>6. {m \in got[1] : m.device = asc[k]} \subseteq got[2 * k + 1]
    BY <2>3, <2>4 DEF Follows, Metrics
  <2>7. quiet /\ archive = {} => got[2 * k + 2] = {}
    BY <2>2 DEF Holds, Power
  <2> QED
    BY <2>5, <2>6, <2>7
<1> QED
  BY <1>13, <1>14, <1>15 DEF n, asc

(* The plant's row of a time of day against its inverters' series.         *)
LEMMA PlantRow ==
    ASSUME HistoryInv, Answered, asked.view = "aggregate",
           \A m \in measured : SlotOf(m.at) < Slots,
           NEW l \in DOMAIN TotalRows
    PROVE  LET own == 1 .. Cardinality(Devices)
               total == TotalRows[l]
               energy == SumFunction([k \in own |-> Reached(k, l)])
           IN  /\ SlotsGrow(measured) => total.energy <= energy
               /\ quiet => total.energy = energy
               /\ quiet /\ archive = {} =>
                     total.power = SumFunction([k \in own |-> Giving(k, l)])
<1> DEFINE n == Cardinality(Devices)
           own == 1 .. n
           asc == Ascending(Devices)
           all == got[1]
           part(k) == got[2 * k + 1]
           pow(k) == got[2 * k + 2]
<1>1. /\ Devices \in SUBSET Nat /\ IsFiniteSet(Devices)
      /\ n \in Nat /\ asc \in [own -> Devices] /\ asc \in Bijection(own, Devices)
  <2>1. Devices \in SUBSET Nat /\ IsFiniteSet(Devices)
    BY HistoryAssumption
  <2> QED
    BY <2>1, AscendingLists
<1>2. IsFiniteSet(own)
  <2>1. 1 \in Int /\ n \in Int
    BY <1>1
  <2> HIDE DEF n
  <2> QED
    BY <2>1, FS_Interval
<1>3. measured \in SUBSET Measurements /\ IsFiniteSet(measured) /\ OneOfATime(measured)
  BY DEF HistoryInv, TablesInv
<1>4. /\ all \subseteq measured
      /\ quiet => all = measured
      /\ quiet /\ archive = {} => got[2] = {}
      /\ \A k \in own :
            /\ part(k) \subseteq {m \in measured : m.device = asc[k]}
            /\ {m \in all : m.device = asc[k]} \subseteq part(k)
            /\ quiet => part(k) = {m \in measured : m.device = asc[k]}
            /\ quiet /\ archive = {} => pow(k) = {}
  BY AggregateAnswers
<1>5. all \in SUBSET Measurements /\ IsFiniteSet(all) /\ \A m \in all : SlotOf(m.at) < Slots
  BY <1>3, <1>4, FS_Subset
<1>6. \A k \in own : /\ part(k) \in SUBSET Measurements /\ IsFiniteSet(part(k))
                     /\ part(k) \in SUBSET measured
                     /\ \A m \in part(k) : m.device = asc[k] /\ SlotOf(m.at) < Slots
  <2> SUFFICES ASSUME NEW k \in own
               PROVE  /\ part(k) \in SUBSET Measurements /\ IsFiniteSet(part(k))
                      /\ part(k) \in SUBSET measured
                      /\ \A m \in part(k) : m.device = asc[k] /\ SlotOf(m.at) < Slots
    OBVIOUS
  <2>1. part(k) \subseteq {m \in measured : m.device = asc[k]}
    BY <1>4
  <2>2. part(k) \in SUBSET measured
    BY <2>1
  <2> HIDE DEF part
  <2>3. IsFiniteSet(part(k))
    BY <1>3, <2>2, FS_Subset
  <2> QED
    BY <1>3, <2>1, <2>2, <2>3
<1>7. l \in Nat /\ TotalRows[l] = RowAt(all, got[2], l)
  BY <1>5, RowsOf DEF TotalRows
<1> DEFINE e == [d \in Devices |-> EnergyAt(all, d, l)]
           p == [d \in Devices |-> PowerAt(all, d, l)]
           ek == [k \in own |-> EnergyAt(all, asc[k], l)]
           pk == [k \in own |-> PowerAt(all, asc[k], l)]
           reached == [k \in own |-> EnergyAt(part(k), asc[k], l)]
           giving == [k \in own |-> PowerAt(part(k), asc[k], l)]
<1>8. /\ TotalRows[l].energy = SumFunction(e)
      /\ quiet /\ archive = {} => TotalRows[l].power = SumFunction(p)
  BY <1>4, <1>7, RowValues
<1>9. \A k \in own : /\ Reached(k, l) = EnergyAt(part(k), asc[k], l)
                     /\ quiet /\ archive = {} => Giving(k, l) = PowerAt(part(k), asc[k], l)
  <2> SUFFICES ASSUME NEW k \in own
               PROVE  /\ Reached(k, l) = EnergyAt(part(k), asc[k], l)
                      /\ quiet /\ archive = {} => Giving(k, l) = PowerAt(part(k), asc[k], l)
    OBVIOUS
  <2> DEFINE rows == Rows(part(k), pow(k))
             upTo == {x \in DOMAIN rows : x <= l}
  <2>1. /\ part(k) \in SUBSET Measurements /\ IsFiniteSet(part(k)) /\ asc[k] \in Devices
        /\ \A m \in part(k) : m.device = asc[k]
        /\ \A m \in part(k) : SlotOf(m.at) < Slots
    BY <1>1, <1>6
  <2>2. /\ Max({rows[x].energy : x \in upTo} \cup {0}) = EnergyAt(part(k), asc[k], l)
        /\ pow(k) = {} => (IF upTo # {} /\ l - Max(upTo) <= 1
                           THEN rows[Max(upTo)].power ELSE 0) = PowerAt(part(k), asc[k], l)
    <3> HIDE DEF part, pow, asc
    <3> QED
      BY <1>7, <2>1, OwnSeries
  <2>3. OwnRows(k) = rows /\ UpTo(k, l) = upTo
    BY DEF OwnRows, UpTo
  <2>4. quiet /\ archive = {} => pow(k) = {}
    BY <1>4
  <2> HIDE DEF rows, upTo, part, pow, asc
  <2>5. Reached(k, l) = EnergyAt(part(k), asc[k], l)
    BY <2>2, <2>3 DEF Reached
  <2>6. Giving(k, l) = IF upTo # {} /\ l - Max(upTo) <= 1 THEN rows[Max(upTo)].power ELSE 0
    BY <2>3 DEF Giving
  <2> QED
    BY <2>2, <2>4, <2>5, <2>6
<1>10. /\ SumFunction([k \in own |-> Reached(k, l)]) = SumFunction(reached)
       /\ quiet /\ archive = {} =>
             SumFunction([k \in own |-> Giving(k, l)]) = SumFunction(giving)
  <2>1. [k \in own |-> Reached(k, l)] = reached
    BY <1>9
  <2>2. quiet /\ archive = {} => [k \in own |-> Giving(k, l)] = giving
    BY <1>9
  <2> QED
    BY <2>1, <2>2
<1> HIDE DEF n, own, asc, all, part, pow
<1>11. e \in [Devices -> Nat] /\ p \in [Devices -> Nat]
  BY <1>5, <1>7, EnergyIs, PowerIs
<1>12. ek \in [own -> Nat] /\ pk \in [own -> Nat]
  BY <1>5, <1>7, EnergyIs, PowerIs
<1>13. reached \in [own -> Nat] /\ giving \in [own -> Nat]
  BY <1>6, <1>7, EnergyIs, PowerIs
<1>14. \A k \in own : ek[k] = e[asc[k]] /\ pk[k] = p[asc[k]]
  BY <1>1
<1>15. ASSUME SlotsGrow(measured) PROVE \A k \in own : ek[k] <= reached[k]
  <2> SUFFICES ASSUME NEW k \in own
               PROVE  EnergyAt(all, asc[k], l) <= EnergyAt(part(k), asc[k], l)
    OBVIOUS
  <2>1. all \in SUBSET measured /\ part(k) \in SUBSET measured
        /\ {m \in all : m.device = asc[k]} \subseteq part(k)
    BY <1>4, <1>6
  <2> QED
    BY <1>3, <1>7, <1>15, <2>1, EnergyWithMore
<1>16. ASSUME quiet PROVE ek = reached /\ pk = giving
  <2>1. ASSUME NEW k \in own
        PROVE  /\ EnergyAt(all, asc[k], l) = EnergyAt(part(k), asc[k], l)
               /\ PowerAt(all, asc[k], l) = PowerAt(part(k), asc[k], l)
    <3>1. all = measured /\ part(k) = {m \in measured : m.device = asc[k]}
      BY <1>4, <1>16
    <3>2. {m \in all : m.device = asc[k]} = {m \in part(k) : m.device = asc[k]}
      BY <3>1
    <3> QED
      BY <3>2, RowsAreLocal
  <2> QED
    BY <2>1
<1> HIDE DEF e, p, ek, pk, reached, giving
<1>17. SumFunction(ek) = SumFunction(e)
  <2>1. asc \in Bijection(own, Devices) /\ IsFiniteSet(own) /\ IsFiniteSet(Devices)
    BY <1>1, <1>2
  <2>2. \A k \in own : ek[k] = e[asc[k]]
    BY <1>14
  <2> QED
    BY <1>11, <1>12, <2>1, <2>2, SumRenumbered
<1>18. SumFunction(pk) = SumFunction(p)
  <2>1. asc \in Bijection(own, Devices) /\ IsFiniteSet(own) /\ IsFiniteSet(Devices)
    BY <1>1, <1>2
  <2>2. \A k \in own : pk[k] = p[asc[k]]
    BY <1>14
  <2> QED
    BY <1>11, <1>12, <2>1, <2>2, SumRenumbered
<1>19. SlotsGrow(measured) => SumFunction(ek) <= SumFunction(reached)
  BY <1>2, <1>12, <1>13, <1>15, SumGrows
<1>20. SlotsGrow(measured) =>
           TotalRows[l].energy <= SumFunction([k \in own |-> Reached(k, l)])
  BY <1>8, <1>10, <1>17, <1>19
<1>21. quiet => TotalRows[l].energy = SumFunction([k \in own |-> Reached(k, l)])
  BY <1>8, <1>10, <1>16, <1>17
<1>22. quiet /\ archive = {} =>
          TotalRows[l].power = SumFunction([k \in own |-> Giving(k, l)])
  BY <1>8, <1>10, <1>16, <1>18
<1> QED
  BY <1>20, <1>21, <1>22 DEF own, n

(* At every row of the day the plant's energy is not above that of its     *)
(* inverters' series, and equal to it, as its measured power is, when      *)
(* nothing was stored while history_handler made its queries.              *)
THEOREM PlantIsSumOfInverters == Spec => []TotalIsSumOfParts
<1>1. HistoryInv => TotalIsSumOfParts
  BY PlantRow DEF TotalIsSumOfParts
<1> QED
  BY <1>1, HistoryInvariant, PTL
=============================================================================
