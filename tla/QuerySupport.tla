---------------------------- MODULE QuerySupport ----------------------------
(***************************************************************************)
(* The memory of refused queries: smalog's QuerySupport (an in-process map *)
(* consulted inside the protocol conversation) in front of the database    *)
(* table inverter_query_support.  New refusals are written by detached     *)
(* tasks; nothing waits for them.  This module has the store's state and   *)
(* operations; Collector composes them with the poll cycle that asks.      *)
(***************************************************************************)
EXTENDS Naturals, FiniteSets

CONSTANTS
    Serials,        \* the inverters, by serial number
    Kinds,          \* the transmission kinds a refusal can be remembered for
    RecheckDays,    \* SUPPORT_RECHECK_DAYS
    MaxDay          \* bound: the last day the clock reaches

ASSUME StoreAssumption ==
    /\ RecheckDays \in Nat
    /\ MaxDay \in Nat

VARIABLES
    memory,     \* QuerySupport.refused: serial -> the queries it has refused
    rows,       \* table inverter_query_support, primary key (serial, query)
    writes,     \* detached write tasks that have not reached the database yet
    today,      \* the wall clock, in days
    loaded      \* history: this process could read the table when it started

storeVars == <<memory, rows, writes, today, loaded>>

Pairs == [serial : Serials, query : Kinds]
Row == [serial : Serials, query : Kinds, day : 0..MaxDay]

StoreTypeOK ==
    /\ memory \in [Serials -> SUBSET Kinds]
    /\ rows \subseteq Row
    /\ writes \subseteq Row
    /\ today \in 0..MaxDay
    /\ loaded \in BOOLEAN

NothingRefused == [s \in Serials |-> {}]

StoreInit ==
    /\ memory = NothingRefused
    /\ rows = {}
    /\ writes = {}
    /\ today = 0
    /\ loaded = TRUE

SamePair(r1, r2) == r1.serial = r2.serial /\ r1.query = r2.query

(* What a fresh process reads: every row inside the recheck window.        *)
WithinRecheck(r) == r.day + RecheckDays >= today

(* Mutant of Load: the last day of the window is already outside.          *)
LoadTooYoung ==
    [s \in Serials |-> {r.query : r \in {x \in rows :
                           x.serial = s /\ x.day + RecheckDays > today}}]

Load == [s \in Serials |->
            {r.query : r \in {x \in rows : x.serial = s /\ WithinRecheck(x)}}]

Unsupported(s) == memory[s]

(* remember(), for every serial of one reply: a pair already in memory is  *)
(* not written again, any other spawns a detached write dated today.       *)
Remember(serials, q) ==
    /\ memory' = [s \in Serials |->
                     IF s \in serials THEN memory[s] \cup {q} ELSE memory[s]]
    /\ writes' = writes \cup {[serial |-> s, query |-> q, day |-> today] :
                                 s \in {x \in serials : q \notin memory[x]}}
    /\ UNCHANGED <<rows, today, loaded>>

(* INSERT ... ON CONFLICT (serial_number, query) DO UPDATE.                *)
WriteLands(w) ==
    /\ w \in writes
    /\ writes' = writes \ {w}
    /\ rows' = {r \in rows : ~SamePair(r, w)} \cup {w}
    /\ UNCHANGED <<memory, today, loaded>>

(* A failed write is logged and otherwise ignored.                         *)
WriteFails(w) ==
    /\ w \in writes
    /\ writes' = writes \ {w}
    /\ UNCHANGED <<memory, rows, today, loaded>>

(* DELETE FROM inverter_query_support, by the operator or through          *)
(* clear_query_support: the database only.                                 *)
ClearQuerySupport ==
    /\ rows # {}
    /\ rows' = {}
    /\ UNCHANGED <<memory, writes, today, loaded>>

NextDay ==
    /\ today < MaxDay
    /\ today' = today + 1
    /\ UNCHANGED <<memory, rows, writes, loaded>>

(* A new process: detached writes die with the old one, or landed before.  *)
(* A table that cannot be read is logged; the process starts with nothing. *)
StoreRestart ==
    /\ loaded' \in BOOLEAN
    /\ memory' = IF loaded' THEN Load ELSE NothingRefused
    /\ writes' = {}
    /\ UNCHANGED <<rows, today>>
=============================================================================
