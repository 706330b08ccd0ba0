--------------------------- MODULE TransmissionLog ---------------------------
(***************************************************************************)
(* What the transmission diagnostics promise a reader, without the queue,  *)
(* the writer and the database that provide it: every recorded exchange is *)
(* stored at most once and in the order of recording; it may be lost on the*)
(* way and it may be forgotten later, but it is never invented, repeated or*)
(* moved before one that was recorded earlier.                             *)
(***************************************************************************)
EXTENDS Naturals

VARIABLES
    sent,       \* exchanges recorded so far, numbered 1..sent
    inflight,   \* recorded, neither stored nor lost yet
    newest,     \* the latest exchange ever stored, 0 = none
    stored      \* what a reader finds

vars == <<sent, inflight, newest, stored>>

Init == sent = 0 /\ inflight = {} /\ newest = 0 /\ stored = {}

(* Recording never blocks: making room may cost records that are waiting.  *)
Send ==
    /\ sent' = sent + 1
    /\ \E lost \in SUBSET inflight :
          inflight' = (inflight \ lost) \cup {sent + 1}
    /\ UNCHANGED <<newest, stored>>

Lose ==
    /\ inflight' \in SUBSET inflight
    /\ UNCHANGED <<sent, newest, stored>>

(* A batch goes in as a whole, after everything that was ever stored.      *)
Store ==
    \E batch \in SUBSET inflight :
        /\ \A n \in batch : n > newest
        /\ newest' \in batch
        /\ \A n \in batch : n <= newest'
        /\ inflight' = inflight \ batch
        /\ stored' = stored \cup batch
        /\ UNCHANGED sent

Forget ==
    /\ stored' \in SUBSET stored
    /\ UNCHANGED <<sent, inflight, newest>>

Next == Send \/ Lose \/ Store \/ Forget

Spec == Init /\ [][Next]_vars
=============================================================================
