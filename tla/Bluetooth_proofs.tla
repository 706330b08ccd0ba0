-------------------------- MODULE Bluetooth_proofs --------------------------
(***************************************************************************)
(* Proofs about Bluetooth, for any devices, numbers of fragments, attempts *)
(* and faults: what request_all() returns for a device is that device's    *)
(* answer to this request, however late, split or damaged packets come,    *)
(* and it is the whole answer unless something disturbed the request.      *)
(***************************************************************************)
EXTENDS Bluetooth, SequenceTheorems, FiniteSetTheorems, TLAPS

(* The packets that may exist anywhere: none is newer than the last packet *)
(* sent, and those with its identifier answer the attempt being read.      *)
Sane ==
    {p \in Packets :
        /\ p.id <= pcktId
        /\ phase = "reading" /\ p.id = pcktId =>
             /\ p.call = call /\ p.from = serial[asking]
             /\ p.kind \in {"data", "error21", "error"}}

NetInv ==
    /\ stream \in Seq(Frames(Sane)) /\ l2 \in Frames(Sane) \cup {Nothing}
    /\ owed \in [Devices -> Seq(Sane)]

(* The variables of the client, without the network's.                     *)
ClientTypes ==
    /\ mis \in BOOLEAN /\ confirmed \in BOOLEAN
    /\ phase \in {"closed", "identify", "login", "ready", "clock", "write",
                  "verify", "asking", "reading", "failed"}
    /\ devices \subseteq Devices /\ todo \subseteq Devices
    /\ serial \in [Devices -> Devices \cup {Unknown}]
    /\ asking \in Devices \cup {Unknown}
    /\ pcktId \in Nat /\ expected \in Nat /\ call \in Nat /\ retries \in Nat
    /\ frames \subseteq Packets
    /\ DOMAIN reply \subseteq Devices
    /\ faults \in Nat /\ damaged \in BOOLEAN

(* The fragments accepted answer this attempt.                             *)
FrameInv ==
    phase = "reading" =>
        /\ asking \in Devices
        /\ \A p \in frames : /\ p.id = pcktId /\ p.kind = "data"
                             /\ p.call = call /\ p.from = serial[asking]

(* Serial numbers are learnt while no answer is kept.                      *)
QuietInv == phase \in {"closed", "identify", "login"} => reply = <<>>

SessionInv == ClientTypes /\ NetInv /\ FrameInv /\ QuietInv /\ AnswersThisCall

-----------------------------------------------------------------------------
(* The network in a step.  What is sane stays sane unless an attempt       *)
(* begins without a new identifier.                                        *)
SameRequest ==
    \/ pcktId' = pcktId + 1
    \/ /\ pcktId' = pcktId
       /\ \/ phase' # "reading"
          \/ /\ phase = "reading" /\ call' = call
             /\ serial' = serial /\ asking' = asking

LEMMA SaneStays ==
    ASSUME ClientTypes, SameRequest PROVE Sane \subseteq Sane'
<1> SUFFICES ASSUME NEW p \in Sane PROVE p \in Sane'
  OBVIOUS
<1>1. p \in Packets /\ p.id \in Nat /\ p.id <= pcktId /\ pcktId \in Nat
  BY DEF Sane, Packets, ClientTypes
<1>2. CASE pcktId' = pcktId + 1
  BY <1>1, <1>2 DEF Sane
<1>3. CASE pcktId' = pcktId /\ phase' # "reading"
  BY <1>1, <1>3 DEF Sane
<1>4. CASE /\ pcktId' = pcktId /\ phase = "reading" /\ call' = call
           /\ serial' = serial /\ asking' = asking
  BY <1>1, <1>4 DEF Sane
<1> QED
  BY <1>2, <1>3, <1>4 DEF SameRequest

LEMMA FramesGrow ==
    ASSUME NEW P, NEW Q, P \subseteq Q
    PROVE  Frames(P) \subseteq Frames(Q)
BY DEF Frames

(* Everything that was on its way still is sane.                           *)
LEMMA NetStays ==
    ASSUME ClientTypes, NetInv, SameRequest
    PROVE  /\ stream \in Seq(Frames(Sane')) /\ l2 \in Frames(Sane') \cup {Nothing}
           /\ owed \in [Devices -> Seq(Sane')]
<1>1. Sane \subseteq Sane' /\ Frames(Sane) \subseteq Frames(Sane')
  BY SaneStays, FramesGrow
<1>2. stream \in Seq(Frames(Sane'))
  BY <1>1, SeqMonotonic DEF NetInv
<1>3. \A d \in Devices : owed[d] \in Seq(Sane')
  BY <1>1, SeqMonotonic DEF NetInv
<1> QED
  BY <1>1, <1>2, <1>3 DEF NetInv

(* Reading a frame.                                                        *)
LEMMA TakeKeeps ==
    ASSUME ClientTypes, NetInv, SameRequest, Take
    PROVE  NetInv' /\ damaged' \in BOOLEAN /\ faults' \in Nat
<1>1. stream' \in Seq(Frames(Sane')) /\ Head(stream) \in Frames(Sane')
  BY NetStays, HeadTailProperties DEF Take
<1>2. l2' \in Frames(Sane') \cup {Nothing}
  BY <1>1 DEF Take, InFlight
<1>3. owed' \in [Devices -> Seq(Sane')]
  BY NetStays DEF Take
<1>4. damaged' \in BOOLEAN /\ faults' \in Nat
  BY DEF Take, ClientTypes
<1> QED
  BY <1>1, <1>2, <1>3, <1>4 DEF NetInv

(* What is left of a frame is still something of its packet.               *)
LEMMA RestIsFrame ==
    ASSUME NEW P, NEW x \in Frames(P) PROVE Rest(x) \in Frames(P)
BY DEF Rest, Frames

LEMMA CutIsSeq ==
    ASSUME NEW P, NEW s \in Seq(Frames(P)), s # <<>>
    PROVE  <<Rest(Head(s))>> \o Tail(s) \in Seq(Frames(P))
<1>1. Head(s) \in Frames(P) /\ Tail(s) \in Seq(Frames(P))
  BY HeadTailProperties
<1>2. <<Rest(Head(s))>> \in Seq(Frames(P))
  BY <1>1, RestIsFrame
<1> QED
  BY <1>1, <1>2, ConcatProperties

(* A read that fails drops what it has read.                               *)
LEMMA FailureDrops ==
    ASSUME ClientTypes, NetInv, SameRequest, Failure \/ Silence
    PROVE  /\ stream' \in Seq(Frames(Sane')) /\ l2' = Nothing
           /\ damaged' \in BOOLEAN /\ faults' \in Nat
<1>1. stream \in Seq(Frames(Sane'))
  BY NetStays
<1>2. CASE Failure
  <2>1. stream' \in Seq(Frames(Sane'))
    BY <1>1, <1>2, CutIsSeq DEF Failure
  <2> QED
    BY <1>2, <2>1 DEF Failure, ClientTypes
<1>3. CASE ~Failure
  BY <1>3, EmptySeq DEF Silence, ClientTypes
<1> QED
  BY <1>2, <1>3

LEMMA SilenceKeeps ==
    ASSUME ClientTypes, NetInv, SameRequest, Failure \/ Silence, UNCHANGED owed
    PROVE  NetInv' /\ damaged' \in BOOLEAN /\ faults' \in Nat
<1>1. /\ stream' \in Seq(Frames(Sane')) /\ l2' = Nothing
      /\ damaged' \in BOOLEAN /\ faults' \in Nat
  BY FailureDrops
<1>2. owed' \in [Devices -> Seq(Sane')]
  BY NetStays
<1> QED
  BY <1>1, <1>2 DEF NetInv

LEMMA NetUnchanged ==
    ASSUME ClientTypes, NetInv, SameRequest, UNCHANGED <<stream, l2, owed>>
    PROVE  NetInv'
BY NetStays DEF NetInv

(* What a packet opens or completes is sane, or no packet.                 *)
LEMMA AssembledIsSane ==
    ASSUME NetInv, NEW x \in Frames(Sane), pcktId \in Nat
    PROVE  /\ Assembled(x) \in Packets
           /\ Assembled(x).kind # "raw" => Assembled(x) \in Sane
<1>1. x.of \in Sane /\ x.of \in Packets
  BY DEF Frames, Sane
<1>2. CASE x.part = "whole"
  BY <1>1, <1>2 DEF Assembled
<1>3. CASE x.part # "whole" /\ l2 = Nothing
  <2>1. Assembled(x) = [x.of EXCEPT !.kind = "raw", !.id = 0]
    BY <1>3 DEF Assembled
  <2>2. \A p \in Packets : LET q == [p EXCEPT !.kind = "raw", !.id = 0]
                           IN  q \in Packets /\ q.kind = "raw"
    BY DEF Packets, Kinds
  <2> QED
    BY <1>1, <2>1, <2>2
<1>4. CASE x.part # "whole" /\ l2 # Nothing
  <2>1. l2.of \in Sane /\ l2.of \in Packets
    BY <1>4 DEF NetInv, Frames, Sane
  <2>2. Assembled(x) = [l2.of EXCEPT !.ok = l2.of.ok /\ x.of = l2.of]
    BY <1>4 DEF Assembled
  <2> DEFINE p == Assembled(x)
  <2>3. /\ p \in Packets /\ p.id = l2.of.id /\ p.kind = l2.of.kind
        /\ p.call = l2.of.call /\ p.from = l2.of.from
    BY <2>1, <2>2 DEF Packets
  <2> QED
    BY <2>1, <2>3 DEF Sane
<1> QED
  BY <1>2, <1>3, <1>4

(* A device's answer is a sequence of what its packets belong to.          *)
LEMMA AnswerSeq ==
    ASSUME NEW S, NEW d, NEW kind, NEW id, NEW n \in Nat,
           \A k \in {kind, "error21"}, left \in Nat : Packet(d, k, id, left) \in S
    PROVE  Answer(d, kind, id, n) \in Seq(S)
<1>1. CASE n = 0
  <2>1. Answer(d, kind, id, n) = <<Packet(d, "error21", id, 0)>>
    BY <1>1 DEF Answer
  <2> QED
    BY <2>1
<1>2. CASE n # 0
  <2>1. Answer(d, kind, id, n) = [i \in 1 .. n |-> Packet(d, kind, id, n - i)]
    BY <1>2 DEF Answer
  <2>2. \A i \in 1 .. n : Packet(d, kind, id, n - i) \in S
    <3> TAKE i \in 1 .. n
    <3>1. n - i \in Nat
      OBVIOUS
    <3> QED
      BY <3>1
  <2>3. Answer(d, kind, id, n) \in [1 .. n -> S]
    BY <2>1, <2>2
  <2> QED
    BY <2>3, SeqDef
<1> QED
  BY <1>1, <1>2

(* What a packet is answered with is sane: the new identifier was given    *)
(* to nobody else.                                                         *)
LEMMA SendKeeps ==
    ASSUME ClientTypes, NetInv, NEW To \in SUBSET Devices,
           NEW kind \in {"identify", "login", "clock", "data"}, NEW n \in Nat,
           Send(To, kind, n), call' = call,
           phase' = "reading" => kind = "data" /\ To \subseteq {serial'[asking']}
    PROVE  /\ SameRequest /\ pcktId' \in Nat
           /\ owed' \in [Devices -> Seq(Sane')]
<1>1. pcktId' = pcktId + 1 /\ pcktId' \in Nat /\ SameRequest /\ call \in Nat
  BY DEF Send, SameRequest, ClientTypes
<1>2. \A d \in Devices : owed[d] \in Seq(Sane')
  BY <1>1, NetStays
<1>3. ASSUME NEW d \in To
      PROVE  Answer(d, kind, pcktId + 1, n) \in Seq(Sane')
  <2>1. ASSUME NEW k \in {kind, "error21"}, NEW left \in Nat
        PROVE  Packet(d, k, pcktId + 1, left) \in Sane'
    <3> DEFINE p == Packet(d, k, pcktId + 1, left)
    <3>1. /\ p \in Packets /\ p.id = pcktId' /\ p.call = call' /\ p.from = d
          /\ p.kind = k
      BY <1>1 DEF Packet, Packets, Kinds
    <3>2. p.id <= pcktId'
      BY <1>1, <3>1
    <3>3. phase' = "reading" =>
            p.from = serial'[asking'] /\ p.kind \in {"data", "error21", "error"}
      BY <3>1
    <3> HIDE DEF p
    <3>4. p \in Sane'
      BY <3>1, <3>2, <3>3 DEF Sane
    <3> QED
      BY <3>4 DEF p
  <2> QED
    BY <2>1, AnswerSeq
<1>4. \A d \in Devices : (IF d \in To THEN owed[d] \o Answer(d, kind, pcktId + 1, n)
                        ELSE owed[d]) \in Seq(Sane')
  BY <1>2, <1>3, ConcatProperties
<1> QED
  BY <1>1, <1>4 DEF Send

(* A packet arrives, whole or in two frames, among the others.             *)
LEMMA TransmitKeeps ==
    ASSUME ClientTypes, NetInv, NEW d \in Devices, Transmit(d)
    PROVE  NetInv'
<1> DEFINE F == Frames(Sane)
           xs == L1(Head(owed[d]))
<1>1. SameRequest /\ Sane' = Sane
  BY DEF Transmit, SameRequest, Sane, known, request
<1>2. Head(owed[d]) \in Sane /\ Tail(owed[d]) \in Seq(Sane)
  BY HeadTailProperties DEF Transmit, NetInv
<1>3. xs \in Seq(F) /\ xs # <<>>
  <2>1. \A part \in {"head", "tail", "whole"} :
           [part |-> part, of |-> Head(owed[d])] \in F
    BY <1>2 DEF Frames
  <2> QED
    BY <2>1 DEF L1
<1>4. xs[1] \in F /\ Tail(xs) \in Seq(F)
  <2>1. Len(xs) \in Nat \ {0}
    BY <1>3, EmptySeq
  <2> QED
    BY <1>3, <2>1, ElementOfSeq, HeadTailProperties
<1>5. stream' \in Seq(F)
  <2> PICK k \in 1 .. Len(stream) + 1 :
         stream' = SubSeq(stream, 1, k - 1) \o <<xs[1]>>
                     \o SubSeq(stream, k, Len(stream)) \o Tail(xs)
    BY DEF Transmit
  <2>1. stream \in Seq(F) /\ Len(stream) \in Nat
    BY LenProperties DEF NetInv
  <2>2. SubSeq(stream, 1, k - 1) \in Seq(F)
    <3>1. \A i \in 1 .. k - 1 : stream[i] \in F
      BY <2>1, ElementOfSeq
    <3> QED
      BY <2>1, <3>1, SubSeqProperties
  <2>3. SubSeq(stream, k, Len(stream)) \in Seq(F)
    <3>1. \A i \in k .. Len(stream) : stream[i] \in F
      BY <2>1, ElementOfSeq
    <3> QED
      BY <2>1, <3>1, SubSeqProperties
  <2>4. <<xs[1]>> \in Seq(F)
    BY <1>4
  <2> HIDE DEF F, xs
  <2> QED
    BY <1>4, <2>2, <2>3, <2>4, ConcatProperties
<1>6. owed' \in [Devices -> Seq(Sane)]
  BY <1>2 DEF Transmit, NetInv
<1>7. l2' \in F \cup {Nothing}
  BY DEF Transmit, NetInv
<1> QED
  BY <1>1, <1>5, <1>6, <1>7 DEF NetInv

(* A packet is lost, or comes damaged, or as an error.                     *)
LEMMA FaultKeeps ==
    ASSUME ClientTypes, NetInv, NEW d \in Devices, Fault(d)
    PROVE  NetInv'
<1>1. Sane' = Sane
  BY DEF Fault, Sane, known, request
<1>2. Head(owed[d]) \in Sane /\ Tail(owed[d]) \in Seq(Sane)
  BY HeadTailProperties DEF Fault, NetInv
<1>3. owed' \in [Devices -> Seq(Sane)] /\ l2' \in Frames(Sane) \cup {Nothing}
  BY <1>2 DEF Fault, NetInv
<1>4. \A p \in Sane : [p EXCEPT !.ok = FALSE] \in Sane
  BY DEF Sane, Packets
<1>5. \A p \in Sane : [p EXCEPT !.kind = "error"] \in Sane
  BY DEF Sane, Packets, Kinds
<1>6. stream' \in Seq(Frames(Sane))
  <2>1. CASE stream' = stream
    BY <2>1 DEF NetInv
  <2>2. CASE stream' # stream
    <3> PICK p \in {[Head(owed[d]) EXCEPT !.ok = FALSE],
                   [Head(owed[d]) EXCEPT !.kind = "error"]} :
           stream' = Append(stream, [part |-> "whole", of |-> p])
      BY <2>2 DEF Fault
    <3>1. [part |-> "whole", of |-> p] \in Frames(Sane)
      BY <1>2, <1>4, <1>5 DEF Frames
    <3> QED
      BY <3>1, AppendProperties DEF NetInv
  <2> QED
    BY <2>1, <2>2
<1> QED
  BY <1>1, <1>3, <1>6 DEF NetInv

LEMMA HeadIsSane ==
    ASSUME ClientTypes, NetInv, Take
    PROVE  /\ Assembled(Head(stream)) \in Packets
           /\ Assembled(Head(stream)).kind # "raw" =>
                 Assembled(Head(stream)) \in Sane
<1>1. Head(stream) \in Frames(Sane)
  BY HeadTailProperties DEF NetInv, Take
<1> QED
  BY <1>1, AssembledIsSane DEF ClientTypes

LEMMA CountsDevices ==
    ASSUME NEW S \in SUBSET Devices PROVE Cardinality(S) \in Nat
BY BluetoothAssumption, FS_Subset, FS_CardinalityType

LEMMA NoReply == DOMAIN <<>> = {}
OBVIOUS

(* Dealing with a device ends by filing its answer.                        *)
LEMMA FinishedKeeps ==
    ASSUME ClientTypes, FrameInv, AnswersThisCall, phase = "reading",
           NEW answer \in SUBSET Packets, Finished(answer),
           \A p \in answer : /\ p.id = pcktId /\ p.kind \in {"data", "error21"}
                             /\ p.call = call /\ p.from = serial[asking],
           serial' = serial
    PROVE  /\ phase' \in {"ready", "asking"} /\ call' = call
           /\ todo' \subseteq Devices /\ asking' = Unknown
           /\ retries' \in Nat /\ frames' = {}
           /\ DOMAIN reply' \subseteq Devices
           /\ AnswersThisCall'
<1>1. /\ phase' \in {"ready", "asking"} /\ call' = call
      /\ todo' \subseteq Devices /\ asking' = Unknown
      /\ retries' \in Nat /\ frames' = {}
  BY DEF Finished, ClientTypes
<1>2. asking \in Devices
  BY DEF FrameInv
<1>3. CASE answer = {}
  <2>1. reply' = reply
    BY <1>3 DEF Finished
  <2> QED
    BY <1>1, <2>1 DEF ClientTypes, AnswersThisCall
<1>4. CASE answer # {}
  <2>1. reply' = [d \in DOMAIN reply \union {asking} |->
                    IF d = asking THEN answer ELSE reply[d]]
    BY <1>4 DEF Finished
  <2>2. DOMAIN reply' \subseteq Devices
    BY <1>2, <2>1 DEF ClientTypes
  <2>3. AnswersThisCall'
    BY <1>1, <2>1 DEF AnswersThisCall
  <2> QED
    BY <1>1, <2>2, <2>3
<1> QED
  BY <1>3, <1>4

(* A request that fails returns nothing.                                   *)
LEMMA AbandonedKeeps ==
    ASSUME Abandoned
    PROVE  /\ phase' = "ready" /\ call' = call /\ todo' = {}
           /\ asking' = Unknown /\ retries' = 0 /\ frames' = {}
           /\ DOMAIN reply' = {}
           /\ AnswersThisCall' /\ FrameInv' /\ QuietInv'
BY NoReply DEF Abandoned, AnswersThisCall, FrameInv, QuietInv

-----------------------------------------------------------------------------
(* Every step keeps the invariant, one action at a time.                   *)

(* A session begins with nothing returned.                                 *)
LEMMA BeginPreserves ==
    ASSUME SessionInv, Begin PROVE SessionInv'
<1> USE BluetoothAssumption DEF SessionInv, Begin, known, request
<1>1. pcktId' \in Nat /\ owed' \in [Devices -> Seq(Sane')] /\ SameRequest
  BY SendKeeps
<1>2. NetInv'
  BY <1>1, NetStays DEF NetInv
<1>3. ClientTypes'
  <2>1. expected' \in Nat
    <3>1. CASE mis
      BY <3>1, CountsDevices
    <3>2. CASE ~mis
      BY <3>2
    <3> QED
      BY <3>1, <3>2
  <2>2. devices' \subseteq Devices
    OBVIOUS
  <2>3. serial' \in [Devices -> Devices \cup {Unknown}]
    OBVIOUS
  <2>4. phase' = "identify" /\ UNCHANGED <<mis, confirmed, request, faults, damaged>>
    OBVIOUS
  <2> HIDE DEF Begin
  <2> QED
    BY <1>1, <2>1, <2>2, <2>3, <2>4 DEF ClientTypes
<1>4. FrameInv' /\ QuietInv' /\ AnswersThisCall'
  BY DEF FrameInv, QuietInv, AnswersThisCall, ClientTypes
<1> QED
  BY <1>1, <1>2, <1>3, <1>4

(* Part of a packet is only kept.                                          *)
LEMMA ReadPartPreserves ==
    ASSUME SessionInv, ReadPart PROVE SessionInv'
<1> USE BluetoothAssumption DEF SessionInv, ReadPart, known, request
<1>1. SameRequest
  BY DEF SameRequest, ClientTypes
<1>2. NetInv' /\ damaged' \in BOOLEAN /\ faults' \in Nat
  BY <1>1, TakeKeeps
<1>3. ClientTypes'
  BY <1>1, <1>2 DEF ClientTypes, net
<1>4. FrameInv' /\ QuietInv' /\ AnswersThisCall'
  BY DEF FrameInv, QuietInv, AnswersThisCall, ClientTypes
<1> QED
  BY <1>1, <1>2, <1>3, <1>4

(* Out of step, bytes are swallowed; none of them is kept.                 *)
LEMMA MisreadPreserves ==
    ASSUME SessionInv, Misread PROVE SessionInv'
<1> USE BluetoothAssumption DEF SessionInv, Misread, known, request
<1>1. SameRequest
  BY DEF SameRequest, ClientTypes
<1>2. stream \in Seq(Frames(Sane')) /\ owed' \in [Devices -> Seq(Sane')]
  BY <1>1, NetStays
<1>3. stream' \in Seq(Frames(Sane'))
  <2> DEFINE F == Frames(Sane')
  <2>1. PICK k \in 1 .. Len(stream) :
           LET after == SubSeq(stream, k + 1, Len(stream))
           IN  stream' \in {after, <<Rest(stream[k])>> \o after}
    BY DEF Misread
  <2>2. Len(stream) \in Nat /\ \A i \in 1 .. Len(stream) : stream[i] \in F
    BY <1>2, LenProperties, ElementOfSeq
  <2>3. SubSeq(stream, k + 1, Len(stream)) \in Seq(F)
    <3>1. k + 1 \in 1 .. Len(stream) + 1 /\ \A i \in k + 1 .. Len(stream) : stream[i] \in F
      BY <2>2
    <3> HIDE DEF F
    <3> QED
      BY <1>2, <2>2, <3>1, SubSeqProperties DEF F
  <2>4. <<Rest(stream[k])>> \in Seq(F)
    <3>1. Rest(stream[k]) \in F
      BY <2>2, RestIsFrame
    <3> QED
      BY <3>1
  <2> HIDE DEF F
  <2>5. <<Rest(stream[k])>> \o SubSeq(stream, k + 1, Len(stream)) \in Seq(F)
    BY <2>3, <2>4, ConcatProperties
  <2> QED
    BY <2>1, <2>3, <2>5 DEF F
<1>4. l2' = Nothing /\ damaged' = TRUE /\ faults' = faults
  OBVIOUS
<1>5. NetInv'
  BY <1>2, <1>3, <1>4 DEF NetInv
<1>6. /\ phase' \in {"login", "reading", "clock", "verify", "ready", "write"}
      /\ phase' = phase \/ phase' \in {"ready", "write"}
      /\ expected' \in Nat
      /\ UNCHANGED <<known, pcktId, request>>
  BY DEF ClientTypes
<1> HIDE DEF Misread
<1>7. ClientTypes'
  BY <1>4, <1>6 DEF ClientTypes
<1>8. FrameInv' /\ QuietInv' /\ AnswersThisCall'
  BY <1>6 DEF FrameInv, QuietInv, AnswersThisCall, ClientTypes
<1> QED
  BY <1>5, <1>7, <1>8

(* Identification fills in serial numbers before anything is returned.     *)
LEMMA IdentifyMisPreserves ==
    ASSUME SessionInv, IdentifyMis PROVE SessionInv'
<1> USE BluetoothAssumption DEF SessionInv, IdentifyMis, known, request
<1>1. SameRequest
  BY DEF SameRequest, ClientTypes
<1>2. NetInv' /\ damaged' \in BOOLEAN /\ faults' \in Nat
  BY <1>1, TakeKeeps
<1>3. ClientTypes'
  BY <1>1, <1>2 DEF ClientTypes, net
<1>4. FrameInv' /\ QuietInv' /\ AnswersThisCall'
  BY DEF FrameInv, QuietInv, AnswersThisCall, ClientTypes
<1> QED
  BY <1>1, <1>2, <1>3, <1>4

(* So does that of the one device without a topology.                      *)
LEMMA IdentifySinglePreserves ==
    ASSUME SessionInv, IdentifySingle PROVE SessionInv'
<1> USE BluetoothAssumption DEF SessionInv, IdentifySingle, known, request
<1>1. SameRequest
  BY DEF SameRequest, ClientTypes
<1>2. NetInv' /\ damaged' \in BOOLEAN /\ faults' \in Nat
  BY <1>1, TakeKeeps
<1>3. ClientTypes'
  <2> DEFINE p == Assembled(Head(stream))
  <2>1. p.from \in Devices
    BY HeadIsSane DEF Packets
  <2>2. serial' \in [Devices -> Devices \cup {Unknown}] /\ devices' \subseteq Devices
    <3>1. \/ serial' = serial /\ devices' = devices
          \/ serial' = [serial EXCEPT ![p.from] = p.from] /\ devices' = {p.from}
      OBVIOUS
    <3> HIDE DEF p
    <3> QED
      BY <2>1, <3>1 DEF ClientTypes
  <2>3. expected' \in Nat
    BY DEF ClientTypes
  <2>4. /\ phase' \in {"failed", "identify"}
        /\ UNCHANGED <<mis, confirmed, pcktId, request>>
    OBVIOUS
  <2> HIDE DEF IdentifySingle
  <2> QED
    BY <1>2, <2>2, <2>3, <2>4 DEF ClientTypes
<1>4. FrameInv' /\ QuietInv' /\ AnswersThisCall'
  BY DEF FrameInv, QuietInv, AnswersThisCall, ClientTypes
<1> QED
  BY <1>1, <1>2, <1>3, <1>4

(* Giving up on the identification changes no answer.                      *)
LEMMA IdentifyTimeoutPreserves ==
    ASSUME SessionInv, IdentifyTimeout PROVE SessionInv'
<1> USE BluetoothAssumption DEF SessionInv, IdentifyTimeout, known, request
<1>1. SameRequest
  BY DEF SameRequest, ClientTypes
<1>2. NetInv' /\ damaged' \in BOOLEAN /\ faults' \in Nat
  BY <1>1, SilenceKeeps
<1>3. ClientTypes'
  BY <1>1, <1>2 DEF ClientTypes, net
<1>4. FrameInv' /\ QuietInv' /\ AnswersThisCall'
  BY DEF FrameInv, QuietInv, AnswersThisCall, ClientTypes
<1> QED
  BY <1>1, <1>2, <1>3, <1>4

(* The login's packet is newer than all before.                            *)
LEMMA LoginPreserves ==
    ASSUME SessionInv, Login PROVE SessionInv'
<1> USE BluetoothAssumption DEF SessionInv, Login, known, request
<1>1. NetInv' /\ pcktId' \in Nat
  <2>1. CASE devices = {}
    <3>1. SameRequest /\ UNCHANGED <<stream, l2, owed, pcktId>>
      BY <2>1 DEF SameRequest
    <3> QED
      BY <3>1, NetUnchanged DEF ClientTypes
  <2>2. CASE devices # {}
    <3>1. pcktId' \in Nat /\ owed' \in [Devices -> Seq(Sane')] /\ SameRequest
      BY <2>2, SendKeeps
    <3> QED
      BY <3>1, NetStays DEF NetInv
  <2> QED
    BY <2>1, <2>2
<1>2. ClientTypes'
  <2>1. Cardinality(devices) \in Nat
    BY CountsDevices DEF ClientTypes
  <2>2. expected' \in Nat /\ phase' \in {"failed", "login"}
    BY <2>1 DEF ClientTypes
  <2>3. confirmed' = FALSE /\ UNCHANGED <<mis, devices, serial, request, faults, damaged>>
    OBVIOUS
  <2> HIDE DEF Login
  <2> QED
    BY <1>1, <2>2, <2>3 DEF ClientTypes
<1>3. FrameInv' /\ QuietInv' /\ AnswersThisCall'
  BY DEF FrameInv, QuietInv, AnswersThisCall, ClientTypes
<1> QED
  BY <1>1, <1>2, <1>3

(* A login reply may correct a serial number; nothing is returned yet.     *)
LEMMA LoginReplyPreserves ==
    ASSUME SessionInv, LoginReply PROVE SessionInv'
<1> USE BluetoothAssumption DEF SessionInv, LoginReply, known, request
<1>1. SameRequest
  BY DEF SameRequest, ClientTypes
<1>2. NetInv' /\ damaged' \in BOOLEAN /\ faults' \in Nat
  BY <1>1, TakeKeeps
<1>3. ClientTypes'
  <2> DEFINE p == Assembled(Head(stream))
             d == LearntFrom(p)
  <2>1. p \in Packets /\ p.from \in Devices
    BY HeadIsSane DEF Packets
  <2>2. d # Unknown => d \in Devices
    <3>1. \A S \in SUBSET Devices : S # {} => (CHOOSE e \in S : TRUE) \in Devices
      OBVIOUS
    <3>2. Cardinality(devices) = 1 => devices # {}
      BY FS_EmptySet
    <3> QED
      BY <2>1, <3>1, <3>2 DEF LearntFrom, ClientTypes
  <2>3. serial' \in [Devices -> Devices \cup {Unknown}]
    <3>1. \/ serial' = serial
          \/ d # Unknown /\ serial' = [serial EXCEPT ![d] = p.from]
      OBVIOUS
    <3> HIDE DEF p, d
    <3> QED
      BY <2>1, <2>2, <3>1 DEF ClientTypes
  <2>4. confirmed' \in BOOLEAN
    BY DEF ClientTypes
  <2>5. expected' \in Nat
    BY DEF ClientTypes
  <2>6. phase' \in {"failed", "login"} /\ UNCHANGED <<mis, devices, pcktId, request>>
    OBVIOUS
  <2> HIDE DEF LoginReply
  <2> QED
    BY <1>2, <2>3, <2>4, <2>5, <2>6 DEF ClientTypes
<1>4. FrameInv' /\ QuietInv' /\ AnswersThisCall'
  BY DEF FrameInv, QuietInv, AnswersThisCall, ClientTypes
<1> QED
  BY <1>1, <1>2, <1>3, <1>4

(* Giving up on the login changes no answer.                               *)
LEMMA LoginTimeoutPreserves ==
    ASSUME SessionInv, LoginTimeout PROVE SessionInv'
<1> USE BluetoothAssumption DEF SessionInv, LoginTimeout, known, request
<1>1. SameRequest
  BY DEF SameRequest, ClientTypes
<1>2. NetInv' /\ damaged' \in BOOLEAN /\ faults' \in Nat
  BY <1>1, SilenceKeeps
<1>3. ClientTypes'
  BY <1>1, <1>2 DEF ClientTypes, net
<1>4. FrameInv' /\ QuietInv' /\ AnswersThisCall'
  BY DEF FrameInv, QuietInv, AnswersThisCall, ClientTypes
<1> QED
  BY <1>1, <1>2, <1>3, <1>4

(* The login's result changes no answer.                                   *)
LEMMA LoginDonePreserves ==
    ASSUME SessionInv, LoginDone PROVE SessionInv'
<1> USE BluetoothAssumption DEF SessionInv, LoginDone, known, request
<1>1. SameRequest
  BY DEF SameRequest, ClientTypes
<1>2. NetInv'
  BY <1>1, NetUnchanged DEF net
<1>3. ClientTypes'
  BY <1>1, <1>2 DEF ClientTypes, net
<1>4. FrameInv' /\ QuietInv' /\ AnswersThisCall'
  BY DEF FrameInv, QuietInv, AnswersThisCall, ClientTypes
<1> QED
  BY <1>1, <1>2, <1>3, <1>4

(* The broadcast clock read is no request of a device.                     *)
LEMMA ClockReadPreserves ==
    ASSUME SessionInv, ClockRead PROVE SessionInv'
<1> USE BluetoothAssumption DEF SessionInv, ClockRead, known, request
<1>1. pcktId' \in Nat /\ owed' \in [Devices -> Seq(Sane')] /\ SameRequest
  BY SendKeeps
<1>2. NetInv'
  BY <1>1, NetStays DEF NetInv
<1>3. ClientTypes'
  BY <1>1, <1>2 DEF ClientTypes, net
<1>4. FrameInv' /\ QuietInv' /\ AnswersThisCall'
  BY DEF FrameInv, QuietInv, AnswersThisCall, ClientTypes
<1> QED
  BY <1>1, <1>2, <1>3, <1>4

(* Whatever is taken for the clock is not an answer.                       *)
LEMMA ClockAnswerPreserves ==
    ASSUME SessionInv, ClockAnswer PROVE SessionInv'
<1> USE BluetoothAssumption DEF SessionInv, ClockAnswer, known, request
<1>1. SameRequest
  BY DEF SameRequest, ClientTypes
<1>2. NetInv' /\ damaged' \in BOOLEAN /\ faults' \in Nat
  BY <1>1, TakeKeeps
<1>3. ClientTypes'
  BY <1>1, <1>2 DEF ClientTypes, net
<1>4. FrameInv' /\ QuietInv' /\ AnswersThisCall'
  BY DEF FrameInv, QuietInv, AnswersThisCall, ClientTypes
<1> QED
  BY <1>1, <1>2, <1>3, <1>4

(* Neither is the packet that sets it,                                     *)
LEMMA ClockWritePreserves ==
    ASSUME SessionInv, ClockWrite PROVE SessionInv'
<1> USE BluetoothAssumption DEF SessionInv, ClockWrite, known, request
<1>1. pcktId' \in Nat /\ owed' \in [Devices -> Seq(Sane')] /\ SameRequest
  BY SendKeeps
<1>2. NetInv'
  BY <1>1, NetStays DEF NetInv
<1>3. ClientTypes'
  BY <1>1, <1>2 DEF ClientTypes, net
<1>4. FrameInv' /\ QuietInv' /\ AnswersThisCall'
  BY DEF FrameInv, QuietInv, AnswersThisCall, ClientTypes
<1> QED
  BY <1>1, <1>2, <1>3, <1>4

(* nor the one taken for its confirmation,                                 *)
LEMMA ClockVerifiedPreserves ==
    ASSUME SessionInv, ClockVerified PROVE SessionInv'
<1> USE BluetoothAssumption DEF SessionInv, ClockVerified, known, request
<1>1. SameRequest
  BY DEF SameRequest, ClientTypes
<1>2. NetInv' /\ damaged' \in BOOLEAN /\ faults' \in Nat
  BY <1>1, TakeKeeps
<1>3. ClientTypes'
  BY <1>1, <1>2 DEF ClientTypes, net
<1>4. FrameInv' /\ QuietInv' /\ AnswersThisCall'
  BY DEF FrameInv, QuietInv, AnswersThisCall, ClientTypes
<1> QED
  BY <1>1, <1>2, <1>3, <1>4

(* nor the lack of one.                                                    *)
LEMMA ClockTimeoutPreserves ==
    ASSUME SessionInv, ClockTimeout PROVE SessionInv'
<1> USE BluetoothAssumption DEF SessionInv, ClockTimeout, known, request
<1>1. SameRequest
  BY DEF SameRequest, ClientTypes
<1>2. NetInv' /\ damaged' \in BOOLEAN /\ faults' \in Nat
  BY <1>1, SilenceKeeps
<1>3. ClientTypes'
  BY <1>1, <1>2 DEF ClientTypes, net
<1>4. FrameInv' /\ QuietInv' /\ AnswersThisCall'
  BY DEF FrameInv, QuietInv, AnswersThisCall, ClientTypes
<1> QED
  BY <1>1, <1>2, <1>3, <1>4

(* A request begins with nothing returned.                                 *)
LEMMA RequestPreserves ==
    ASSUME SessionInv, Request PROVE SessionInv'
<1> USE BluetoothAssumption DEF SessionInv, Request, known, request
<1>1. SameRequest
  BY DEF SameRequest, ClientTypes
<1>2. NetInv'
  BY <1>1, NetUnchanged
<1>3. ClientTypes'
  <2>1. DOMAIN reply' \subseteq Devices
    BY NoReply
  <2>2. call' \in Nat /\ todo' \subseteq Devices
    BY DEF ClientTypes
  <2>3. damaged' \in BOOLEAN
    OBVIOUS
  <2> QED
    BY <2>1, <2>2, <2>3 DEF ClientTypes
<1>4. FrameInv' /\ QuietInv' /\ AnswersThisCall'
  BY DEF FrameInv, QuietInv, AnswersThisCall, ClientTypes
<1> QED
  BY <1>1, <1>2, <1>3, <1>4

(* The first attempt has an identifier nobody was asked under.             *)
LEMMA AskPreserves ==
    ASSUME SessionInv, Ask PROVE SessionInv'
<1> USE BluetoothAssumption DEF SessionInv, Ask, Attempt, known, request
<1>1. NetInv' /\ pcktId' \in Nat
  <2>1. PICK d \in todo : Attempt(d, MaxRetry)
    OBVIOUS
  <2>2. d \in Devices
    BY DEF ClientTypes
  <2>3. serial[d] \in Devices \cup {Unknown}
    BY <2>2 DEF ClientTypes
  <2>4. PICK n \in Fragments \union (IF serial[d] \in Refusing THEN {0} ELSE {}) :
           Send({serial[d]} \ {Unknown}, "data", n)
    BY <2>1
  <2>5. n \in Nat /\ {serial[d]} \ {Unknown} \in SUBSET Devices
    <3>1. n \in Fragments \union {0}
      BY <2>4
    <3>2. n \in Nat
      BY <3>1
    <3>3. {serial[d]} \ {Unknown} \subseteq Devices
      BY <2>3
    <3> QED
      BY <3>2, <3>3
  <2>6. /\ asking' = d /\ serial' = serial /\ call' = call
        /\ {serial[d]} \ {Unknown} \subseteq {serial'[asking']}
    BY <2>1
  <2>7. pcktId' \in Nat /\ owed' \in [Devices -> Seq(Sane')] /\ SameRequest
    BY <2>4, <2>5, <2>6, SendKeeps
  <2>8. stream' = stream /\ l2' \in {l2, Nothing}
    OBVIOUS
  <2>9. /\ stream' \in Seq(Frames(Sane'))
        /\ l2' \in Frames(Sane') \cup {Nothing}
    BY <2>7, <2>8, NetStays
  <2> QED
    BY <2>7, <2>9 DEF NetInv
<1>2. ClientTypes'
  BY <1>1 DEF ClientTypes, net
<1>3. FrameInv' /\ QuietInv' /\ AnswersThisCall'
  BY DEF FrameInv, QuietInv, AnswersThisCall, ClientTypes
<1> QED
  BY <1>1, <1>2, <1>3

(* What is accepted passed the filter, and is this attempt's.              *)
LEMMA ReplyPacketPreserves == ASSUME SessionInv, ReplyPacket PROVE SessionInv'
<1> DEFINE p == Assembled(Head(stream))
<1>1. SameRequest
  BY DEF SessionInv, SameRequest, ReplyPacket, Finished, Abandoned, request, known
<1>2. NetInv' /\ damaged' \in BOOLEAN /\ faults' \in Nat
  BY <1>1, TakeKeeps DEF SessionInv, ReplyPacket
<1>3. phase = "reading" /\ UNCHANGED <<known, pcktId, expected>>
  BY DEF ReplyPacket
<1>4. p \in Packets /\ (p.kind # "raw" => p \in Sane)
  BY HeadIsSane DEF SessionInv, ReplyPacket
<1>5. ASSUME ~Dropped(p)
      PROVE  /\ p.id = pcktId /\ p.call = call /\ p.from = serial[asking]
             /\ p.kind \in {"data", "error21", "error"}
  BY <1>3, <1>4, <1>5 DEF Dropped, Sane
<1>6. \/ UNCHANGED <<phase, request>>
      \/ ~Dropped(p) /\ p.kind = "error21" /\ Finished({p})
      \/ Abandoned
      \/ ~Dropped(p) /\ p.kind = "data" /\ Finished(frames \union {p})
      \/ /\ ~Dropped(p) /\ p.kind = "data" /\ frames' = frames \union {p}
         /\ UNCHANGED <<phase, call, todo, asking, retries, reply>>
  <2> HIDE DEF p
  <2>1. CASE Dropped(p)
    BY <2>1 DEF ReplyPacket, p
  <2>2. CASE ~Dropped(p)
    BY <1>5, <2>2 DEF ReplyPacket, p
  <2> QED
    BY <2>1, <2>2
<1> HIDE DEF p
<1>7. /\ \A q \in frames : /\ q.id = pcktId /\ q.kind = "data"
                          /\ q.call = call /\ q.from = serial[asking]
      /\ frames \subseteq Packets
  BY <1>3 DEF SessionInv, FrameInv, ClientTypes
<1>8. ASSUME NEW answer \in {{p}, frames \union {p}}, ~Dropped(p),
             p.kind \in {"data", "error21"}, Finished(answer)
      PROVE  ClientTypes' /\ FrameInv' /\ QuietInv' /\ AnswersThisCall'
  <2>1. answer \in SUBSET Packets
        /\ \A q \in answer : /\ q.id = pcktId /\ q.kind \in {"data", "error21"}
                             /\ q.call = call /\ q.from = serial[asking]
    BY <1>4, <1>5, <1>7, <1>8
  <2>2. /\ phase' \in {"ready", "asking"} /\ call' = call
        /\ todo' \subseteq Devices /\ asking' = Unknown
        /\ retries' \in Nat /\ frames' = {}
        /\ DOMAIN reply' \subseteq Devices
        /\ AnswersThisCall'
    BY <1>3, <1>8, <2>1, FinishedKeeps DEF SessionInv, known
  <2>3. ClientTypes'
    BY <1>2, <1>3, <2>2 DEF SessionInv, ClientTypes, known
  <2> QED
    BY <2>2, <2>3 DEF FrameInv, QuietInv
<1>9. CASE UNCHANGED <<phase, request>>
  BY <1>2, <1>3, <1>9 DEF SessionInv, ClientTypes, FrameInv, QuietInv,
                          AnswersThisCall, known, request
<1>10. CASE Abandoned
  BY <1>2, <1>3, <1>10, AbandonedKeeps DEF SessionInv, ClientTypes, known
<1>11. CASE /\ ~Dropped(p) /\ p.kind = "data" /\ frames' = frames \union {p}
            /\ UNCHANGED <<phase, call, todo, asking, retries, reply>>
  <2>1. frames' \subseteq Packets
        /\ \A q \in frames' : /\ q.id = pcktId /\ q.kind = "data"
                              /\ q.call = call /\ q.from = serial[asking]
    BY <1>4, <1>5, <1>7, <1>11
  <2>2. ClientTypes'
    BY <1>2, <1>3, <1>11, <2>1 DEF SessionInv, ClientTypes, known
  <2>3. FrameInv'
    BY <1>3, <1>11, <2>1 DEF SessionInv, FrameInv, known
  <2>4. QuietInv' /\ AnswersThisCall'
    BY <1>3, <1>11 DEF SessionInv, QuietInv, AnswersThisCall, known
  <2> QED
    BY <1>2, <2>2, <2>3, <2>4 DEF SessionInv
<1>12. CASE ~Dropped(p) /\ p.kind = "error21" /\ Finished({p})
  BY <1>2, <1>8, <1>12 DEF SessionInv
<1>13. CASE ~Dropped(p) /\ p.kind = "data" /\ Finished(frames \union {p})
  BY <1>2, <1>8, <1>13 DEF SessionInv
<1> QED
  BY <1>6, <1>9, <1>10, <1>11, <1>12, <1>13

(* An answer may be cut short, never mixed.                                *)
LEMMA ReplyTimeoutPreserves == ASSUME SessionInv, ReplyTimeout PROVE SessionInv'
<1>1. SameRequest
  BY DEF SessionInv, SameRequest, ReplyTimeout, Finished
<1>2. NetInv' /\ damaged' \in BOOLEAN /\ faults' \in Nat
  BY <1>1, SilenceKeeps DEF SessionInv, ReplyTimeout
<1>3. Finished(frames) /\ phase = "reading" /\ UNCHANGED <<known, pcktId, expected>>
  BY DEF ReplyTimeout
<1>4. frames \subseteq Packets
      /\ \A p \in frames : /\ p.id = pcktId /\ p.kind \in {"data", "error21"}
                           /\ p.call = call /\ p.from = serial[asking]
  BY <1>3 DEF SessionInv, ClientTypes, FrameInv
<1>5. /\ phase' \in {"ready", "asking"} /\ call' = call
      /\ todo' \subseteq Devices /\ asking' = Unknown
      /\ retries' \in Nat /\ frames' = {}
      /\ DOMAIN reply' \subseteq Devices
      /\ AnswersThisCall'
  BY <1>3, <1>4, FinishedKeeps DEF SessionInv, known
<1>6. ClientTypes'
  BY <1>2, <1>3, <1>5 DEF SessionInv, ClientTypes, known
<1>7. FrameInv' /\ QuietInv'
  BY <1>5 DEF FrameInv, QuietInv
<1> QED
  BY <1>2, <1>5, <1>6, <1>7 DEF SessionInv

(* The next attempt forgets nothing that was accepted: there was nothing.  *)
LEMMA RetryPreserves ==
    ASSUME SessionInv, Retry PROVE SessionInv'
<1> USE BluetoothAssumption DEF SessionInv, Retry, Attempt, known, request
<1>1. NetInv' /\ pcktId' \in Nat /\ damaged' \in BOOLEAN /\ faults' \in Nat
  <2> DEFINE d == asking
  <2>1. Attempt(d, retries - 1)
    OBVIOUS
  <2>2. d \in Devices
    BY DEF FrameInv
  <2>3. serial[d] \in Devices \cup {Unknown}
    BY <2>2 DEF ClientTypes
  <2>4. PICK n \in Fragments \union (IF serial[d] \in Refusing THEN {0} ELSE {}) :
           Send({serial[d]} \ {Unknown}, "data", n)
    BY <2>1
  <2>5. n \in Nat /\ {serial[d]} \ {Unknown} \in SUBSET Devices
    <3>1. n \in Fragments \union {0}
      BY <2>4
    <3>2. n \in Nat
      BY <3>1
    <3>3. {serial[d]} \ {Unknown} \subseteq Devices
      BY <2>3
    <3> QED
      BY <3>2, <3>3
  <2>6. /\ asking' = d /\ serial' = serial /\ call' = call
        /\ {serial[d]} \ {Unknown} \subseteq {serial'[asking']}
    BY <2>1
  <2>7. pcktId' \in Nat /\ owed' \in [Devices -> Seq(Sane')] /\ SameRequest
    BY <2>4, <2>5, <2>6, SendKeeps
  <2>8. /\ stream' \in Seq(Frames(Sane')) /\ l2' = Nothing
        /\ damaged' \in BOOLEAN /\ faults' \in Nat
    BY <2>7, FailureDrops
  <2> QED
    BY <2>7, <2>8 DEF NetInv
<1>2. ClientTypes'
  BY <1>1 DEF ClientTypes, net
<1>3. FrameInv' /\ QuietInv' /\ AnswersThisCall'
  BY DEF FrameInv, QuietInv, AnswersThisCall, ClientTypes
<1> QED
  BY <1>1, <1>2, <1>3

(* The session ends with everything that was on its way.                   *)
LEMMA EndPreserves ==
    ASSUME SessionInv, End PROVE SessionInv'
<1> USE BluetoothAssumption DEF SessionInv, End, known, request
<1>1. NetInv' /\ pcktId' \in Nat
  <2>1. stream' = <<>> /\ l2' = Nothing /\ owed' = [d \in Devices |-> <<>>]
    OBVIOUS
  <2>2. stream' \in Seq(Frames(Sane')) /\ owed' \in [Devices -> Seq(Sane')]
    BY <2>1, EmptySeq
  <2> QED
    BY <2>1, <2>2 DEF NetInv
<1>2. ClientTypes'
  <2>1. DOMAIN reply' \subseteq Devices
    BY NoReply
  <2>2. confirmed' \in BOOLEAN /\ damaged' \in BOOLEAN
    OBVIOUS
  <2> QED
    BY <1>1, <2>1, <2>2 DEF ClientTypes
<1>3. FrameInv' /\ QuietInv' /\ AnswersThisCall'
  BY DEF FrameInv, QuietInv, AnswersThisCall, ClientTypes
<1> QED
  BY <1>1, <1>2, <1>3

(* An error that is no timeout leaves no answer of the request it fails.   *)
LEMMA BrokenPreserves ==
    ASSUME SessionInv, Broken PROVE SessionInv'
<1> USE DEF SessionInv
<1>1. /\ Failure /\ UNCHANGED <<known, pcktId, expected, owed>>
      /\ phase' \in {"failed", "ready"}
      /\ UNCHANGED request \/ Abandoned
  BY DEF Broken, Abandoned
<1>2. SameRequest
  BY <1>1 DEF SameRequest
<1>3. NetInv' /\ damaged' \in BOOLEAN /\ faults' \in Nat
  BY <1>1, <1>2, SilenceKeeps
<1>4. CASE UNCHANGED request
  BY <1>1, <1>3, <1>4 DEF ClientTypes, FrameInv, QuietInv, AnswersThisCall,
                          known, request
<1>5. CASE Abandoned
  BY <1>1, <1>3, <1>5, AbandonedKeeps DEF ClientTypes, known
<1> QED
  BY <1>1, <1>4, <1>5

LEMMA NetworkPreserves ==
    ASSUME SessionInv, NEW d \in Devices, Transmit(d) \/ Fault(d)
    PROVE  SessionInv'
<1>1. NetInv'
  BY TransmitKeeps, FaultKeeps DEF SessionInv
<1>2. /\ UNCHANGED <<known, phase, pcktId, expected, request>>
      /\ faults' \in Nat /\ damaged' \in BOOLEAN
  <2>1. CASE Transmit(d)
    BY <2>1 DEF Transmit, SessionInv, ClientTypes
  <2>2. CASE Fault(d)
    BY <2>2 DEF Fault, SessionInv, ClientTypes
  <2> QED
    BY <2>1, <2>2
<1> QED
  BY <1>1, <1>2 DEF SessionInv, ClientTypes, FrameInv, QuietInv,
                    AnswersThisCall, known, request

-----------------------------------------------------------------------------
LEMMA InitEstablishes == Init => SessionInv
<1> SUFFICES ASSUME Init PROVE SessionInv
  OBVIOUS
<1> USE BluetoothAssumption DEF Init
<1>1. NetInv
  BY EmptySeq DEF NetInv
<1>2. ClientTypes
  BY NoReply DEF ClientTypes
<1>3. FrameInv /\ QuietInv /\ AnswersThisCall
  BY NoReply DEF FrameInv, QuietInv, AnswersThisCall
<1> QED
  BY <1>1, <1>2, <1>3 DEF SessionInv

LEMMA StepPreserves == SessionInv /\ [Next]_vars => SessionInv'
<1> SUFFICES ASSUME SessionInv, [Next]_vars PROVE SessionInv'
  OBVIOUS
<1>1. CASE Client
  BY <1>1, BeginPreserves, ReadPartPreserves, MisreadPreserves, IdentifyMisPreserves,
     IdentifySinglePreserves, IdentifyTimeoutPreserves, LoginPreserves,
     LoginReplyPreserves, LoginTimeoutPreserves, LoginDonePreserves,
     ClockAnswerPreserves, ClockWritePreserves, ClockVerifiedPreserves,
     ClockTimeoutPreserves, AskPreserves, ReplyPacketPreserves,
     ReplyTimeoutPreserves, RetryPreserves DEF Client
<1>2. CASE ClockRead \/ Request \/ End \/ Broken
  BY <1>2, ClockReadPreserves, RequestPreserves, EndPreserves, BrokenPreserves
<1>3. CASE \E d \in Devices : Transmit(d) \/ Fault(d)
  BY <1>3, NetworkPreserves
<1>4. CASE UNCHANGED vars
  BY <1>4 DEF SessionInv, ClientTypes, NetInv, Sane, FrameInv, QuietInv,
              AnswersThisCall, vars, known, request, net
<1> QED
  BY <1>1, <1>2, <1>3, <1>4 DEF Next

(* Every reachable state satisfies the invariant.                          *)
THEOREM Inductive == Spec => []SessionInv
<1> QED
  BY InitEstablishes, StepPreserves, PTL DEF Spec

(* Every variable of the session and of the stream keeps its type.         *)
THEOREM TypeCorrect == Spec => []TypeOK
<1>1. SessionInv => TypeOK
  <2> SUFFICES ASSUME SessionInv PROVE TypeOK
    OBVIOUS
  <2>1. Sane \subseteq Packets /\ Frames(Sane) \subseteq Frames(Packets)
    BY FramesGrow DEF Sane
  <2>2. /\ stream \in Seq(Frames(Packets))
        /\ l2 \in Frames(Packets) \cup {Nothing}
    BY <2>1, SeqMonotonic DEF SessionInv, NetInv
  <2>3. owed \in [Devices -> Seq(Packets)]
    <3>1. \A d \in Devices : owed[d] \in Seq(Packets)
      BY <2>1, SeqMonotonic DEF SessionInv, NetInv
    <3> QED
      BY <3>1 DEF SessionInv, NetInv
  <2> QED
    BY <2>2, <2>3 DEF SessionInv, ClientTypes, TypeOK
<1> QED
  BY <1>1, Inductive, PTL

(* request_all() returns under a device's address what that inverter sent  *)
(* for this request, all of it in one attempt: never another's packet, one *)
(* put together from two, or a late answer to an earlier request, whatever *)
(* is delayed, interleaved, lost or damaged.                               *)
THEOREM AnswersBelong == Spec => []AnswersThisCall
<1>1. SessionInv => AnswersThisCall
  BY DEF SessionInv
<1> QED
  BY <1>1, Inductive, PTL

-----------------------------------------------------------------------------
(* The answer that is being read, if nothing has disturbed it.  Of its     *)
(* pieces, numbered by the fragments that follow them, those from m on are *)
(* accepted, those below j are owed, and the others are on the stream; of  *)
(* the next one h frames (0 or 1) have been read.                          *)

Piece(kind, k) == Packet(asking, kind, pcktId, k)

PartSets == {{"head", "tail"}, {"whole"}}
Parts == IF asking \in Splits THEN {"head", "tail"} ELSE {"whole"}

(* The device owes the last j pieces, after anything it owed before.       *)
Owing(kind, j) ==
    /\ j <= Len(owed[asking])
    /\ \A i \in 1 .. Len(owed[asking]) :
          /\ i > Len(owed[asking]) - j
                => owed[asking][i] = Piece(kind, Len(owed[asking]) - i)
          /\ i <= Len(owed[asking]) - j => owed[asking][i].id # pcktId
    /\ \A e \in Devices \ {asking} : \A i \in 1 .. Len(owed[e]) :
          owed[e][i].id # pcktId

(* x comes before y: it is of an earlier piece, or of the same.            *)
Before(x, y) ==
    \/ y.of.left < x.of.left
    \/ y.of.left = x.of.left /\ x.part = "head" /\ y.part = "tail"

(* Of the frames s those under the identifier id are the parts of pieces   *)
(* m - 1 .. j, each once and in order, but for the first h of them.        *)
InRange(s, id, parts, j, m, h) ==
    \A i \in 1 .. Len(s) : s[i].of.id = id =>
        /\ s[i].of.left \in j .. m - 1 /\ s[i].part \in parts
        /\ h = 1 /\ s[i].part = "head" => s[i].of.left # m - 1

InSequence(s, id) ==
    \A i1, i2 \in 1 .. Len(s) :
        i1 < i2 /\ s[i1].of.id = id /\ s[i2].of.id = id => Before(s[i1], s[i2])

Present(s, id, parts, j, m, h) ==
    \A k \in j .. m - 1, part \in parts :
        h = 0 \/ k # m - 1 \/ part # "head" =>
            \E i \in 1 .. Len(s) :
                s[i].part = part /\ s[i].of.id = id /\ s[i].of.left = k

Ordered(s, id, parts, j, m, h) ==
    /\ InRange(s, id, parts, j, m, h) /\ InSequence(s, id)
    /\ Present(s, id, parts, j, m, h)

(* The frames of the attempt on the stream carry its pieces.               *)
Streaming(kind, j, m, h) ==
    /\ \A i \in 1 .. Len(stream) : stream[i].of.id = pcktId =>
          stream[i].of = Piece(kind, stream[i].of.left)
    /\ Ordered(stream, pcktId, Parts, j, m, h)

(* The packet in flight is the piece half read, or none of this attempt's. *)
InHand(kind, m, h) ==
    /\ h = 1 => /\ asking \in Splits /\ l2 # Nothing
                /\ l2.part = "head" /\ l2.of = Piece(kind, m - 1)
    /\ h = 0 => l2 = Nothing \/ l2.of.id # pcktId

Sizes == Fragments \cup {1}

Undisturbed(kind, n, m, j, h) ==
    /\ kind = "error21" => n = 1
    /\ frames = {Piece(kind, k) : k \in m .. n - 1}
    /\ h = 1 => j < m
    /\ Owing(kind, j) /\ Streaming(kind, j, m, h) /\ InHand(kind, m, h)

ReadInv ==
    phase = "reading" /\ ~damaged /\ serial[asking] = asking =>
        \E kind \in {"data", "error21"}, n \in Sizes :
        \E m \in 1 .. n : \E j \in 0 .. m, h \in {0, 1} :
            Undisturbed(kind, n, m, j, h)

(* The answer of a device is whole.                                        *)
Whole(d) ==
    /\ d \in DOMAIN reply
    /\ {p.left : p \in reply[d]} = 0 .. Cardinality(reply[d]) - 1

(* The devices dealt with have answered as a whole, if nothing disturbed.  *)
DoneInv ==
    /\ phase \in {"closed", "identify", "login", "clock", "write", "verify"}
          => call = 0
    /\ phase = "ready" /\ call > 0 => todo = {}
    /\ phase = "reading" => asking \in todo
    /\ phase \in {"ready", "asking", "reading"} /\ call > 0 /\ ~damaged =>
          \A d \in devices \ todo : serial[d] = d => Whole(d)

LEMMA PieceFields ==
    ASSUME NEW kind, NEW k
    PROVE  /\ Piece(kind, k).from = asking /\ Piece(kind, k).kind = kind
           /\ Piece(kind, k).id = pcktId /\ Piece(kind, k).left = k
BY Zenon DEF Piece, Packet

LEMMA PieceOk ==
    ASSUME NEW kind, NEW k PROVE Piece(kind, k).ok = TRUE
BY Zenon DEF Piece, Packet

LEMMA PieceStays ==
    ASSUME NEW kind, NEW k, UNCHANGED <<asking, pcktId, call>>
    PROVE  Piece(kind, k)' = Piece(kind, k)
BY Zenon DEF Piece, Packet

LEMMA SizesAreNat == Sizes \subseteq Nat \ {0}
BY BluetoothAssumption DEF Sizes

LEMMA TailEffect ==
    ASSUME NEW S, NEW s \in Seq(S), s # <<>>
    PROVE  /\ Len(s) \in Nat \ {0} /\ Head(s) = s[1]
           /\ Len(Tail(s)) = Len(s) - 1
           /\ \A i \in 1 .. Len(s) - 1 : Tail(s)[i] = s[i + 1]
BY EmptySeq

(* The first frame of an attempt is the next one of its answer.            *)
LEMMA FirstOrdered ==
    ASSUME NEW s, NEW id, NEW parts \in PartSets,
           NEW m \in Nat, NEW j \in 0 .. m, NEW h \in {0, 1},
           Len(s) \in Nat \ {0}, Ordered(s, id, parts, j, m, h),
           s[1].of.id = id
    PROVE  /\ j < m /\ s[1].of.left = m - 1 /\ s[1].part \in parts
           /\ h = 1 => s[1].part # "head"
           /\ h = 0 => s[1].part # "tail"
<1>1. /\ s[1].of.left \in j .. m - 1 /\ s[1].part \in parts
      /\ h = 1 /\ s[1].part = "head" => s[1].of.left # m - 1
  BY DEF Ordered, InRange
<1>2. j < m
  BY <1>1
<1>3. ASSUME NEW i \in 1 .. Len(s), i # 1, s[i].of.id = id
      PROVE  Before(s[1], s[i])
  <2>1. 1 \in 1 .. Len(s) /\ 1 < i
    BY <1>3
  <2> QED
    BY <1>3, <2>1 DEF Ordered, InSequence
<1>4. s[1].of.left = m - 1
  <2>1. PICK part \in parts : part # "head"
    BY DEF PartSets
  <2>2. m - 1 \in j .. m - 1
    BY <1>2
  <2>3. PICK i \in 1 .. Len(s) : s[i].of.id = id /\ s[i].of.left = m - 1
    BY <2>1, <2>2 DEF Ordered, Present
  <2>4. CASE i = 1
    BY <2>3, <2>4
  <2>5. CASE i # 1
    <3>1. Before(s[1], s[i])
      BY <1>3, <2>3, <2>5
    <3>2. m - 1 <= s[1].of.left
      BY <1>1, <2>3, <3>1 DEF Before
    <3> QED
      BY <1>1, <3>2
  <2> QED
    BY <2>4, <2>5
<1>5. h = 0 => s[1].part # "tail"
  <2> SUFFICES ASSUME h = 0, s[1].part = "tail" PROVE FALSE
    OBVIOUS
  <2>1. "head" \in parts
    BY <1>1 DEF PartSets
  <2>2. m - 1 \in j .. m - 1
    BY <1>2
  <2>3. PICK i \in 1 .. Len(s) :
           s[i].part = "head" /\ s[i].of.id = id /\ s[i].of.left = m - 1
    BY <2>1, <2>2 DEF Ordered, Present
  <2>4. i # 1
    BY <2>3
  <2>5. Before(s[1], s[i])
    BY <1>3, <2>3, <2>4
  <2> QED
    BY <1>4, <2>3, <2>5 DEF Before
<1> QED
  BY <1>1, <1>2, <1>4, <1>5

(* When the first frame is taken, the others are ordered; those of the     *)
(* attempt begin one later, if it was one of them.                         *)
Taken(s, t, id, m, h, m2, h2) ==
    /\ Len(s) \in Nat \ {0} /\ Len(t) = Len(s) - 1
    /\ \A i \in 1 .. Len(t) : t[i] = s[i + 1]
    /\ \/ s[1].of.id # id /\ m2 = m /\ h2 = h
       \/ s[1].of.id = id /\ s[1].part = "head" /\ m2 = m /\ h2 = 1
       \/ s[1].of.id = id /\ s[1].part # "head" /\ m2 = m - 1 /\ h2 = 0

LEMMA OrderedTaken ==
    ASSUME NEW s, NEW t, NEW id, NEW parts \in PartSets,
           NEW m \in Nat, NEW j \in 0 .. m, NEW h \in {0, 1},
           NEW m2 \in Nat, NEW h2 \in {0, 1},
           Ordered(s, id, parts, j, m, h), Taken(s, t, id, m, h, m2, h2)
    PROVE  Ordered(t, id, parts, j, m2, h2)
<1> USE DEF Taken
<1>1. /\ \A i \in 1 .. Len(t) : i + 1 \in 1 .. Len(s) /\ i + 1 > 1
      /\ \A i \in 1 .. Len(s) : i # 1 => i - 1 \in 1 .. Len(t) /\ t[i - 1] = s[i]
  <2>1. ASSUME NEW i \in 1 .. Len(s), i # 1
        PROVE  i - 1 \in 1 .. Len(t) /\ t[i - 1] = s[i]
    <3>1. i - 1 \in 1 .. Len(t) /\ (i - 1) + 1 = i
      BY <2>1
    <3> QED
      BY <3>1
  <2> QED
    BY <2>1
<1>2. s[1].of.id = id =>
         /\ j < m /\ s[1].of.left = m - 1 /\ s[1].part \in parts
         /\ h = 1 => s[1].part # "head"
         /\ h = 0 => s[1].part # "tail"
  <2> SUFFICES ASSUME s[1].of.id = id
               PROVE  /\ j < m /\ s[1].of.left = m - 1 /\ s[1].part \in parts
                      /\ h = 1 => s[1].part # "head"
                      /\ h = 0 => s[1].part # "tail"
    OBVIOUS
  <2> QED
    BY FirstOrdered, SMTT(30)
<1>3. ASSUME NEW i \in 1 .. Len(t), t[i].of.id = id
      PROVE  /\ t[i].of.left \in j .. m2 - 1 /\ t[i].part \in parts
             /\ h2 = 1 /\ t[i].part = "head" => t[i].of.left # m2 - 1
  <2>1. /\ t[i].of.left \in j .. m - 1 /\ t[i].part \in parts
        /\ h = 1 /\ t[i].part = "head" => t[i].of.left # m - 1
    BY <1>1, <1>3 DEF Ordered, InRange
  <2>2. s[1].of.id = id => Before(s[1], t[i])
    <3>1. i + 1 \in 1 .. Len(s) /\ 1 \in 1 .. Len(s) /\ 1 < i + 1
          /\ s[i + 1] = t[i]
      BY <1>1
    <3> QED
      BY <1>3, <3>1 DEF Ordered, InSequence
  <2>3. CASE s[1].of.id # id
    BY <2>1, <2>3
  <2>4. CASE s[1].of.id = id /\ s[1].part = "head"
    BY <1>2, <2>1, <2>2, <2>4 DEF Before
  <2>5. CASE s[1].of.id = id /\ s[1].part # "head"
    <3>1. t[i].of.left < m - 1
      BY <1>2, <2>1, <2>2, <2>5 DEF Before
    <3> QED
      BY <2>1, <2>5, <3>1
  <2> QED
    BY <2>3, <2>4, <2>5
<1>4. ASSUME NEW i1 \in 1 .. Len(t), NEW i2 \in 1 .. Len(t),
             i1 < i2, t[i1].of.id = id, t[i2].of.id = id
      PROVE  Before(t[i1], t[i2])
  <2>1. i1 + 1 \in 1 .. Len(s) /\ s[i1 + 1] = t[i1]
    BY <1>1
  <2>2. i2 + 1 \in 1 .. Len(s) /\ s[i2 + 1] = t[i2]
    BY <1>1
  <2>3. i1 + 1 < i2 + 1
    BY <1>4
  <2>4. InSequence(s, id)
    BY DEF Ordered
  <2> HIDE DEF Taken
  <2> QED
    BY <1>4, <2>1, <2>2, <2>3, <2>4 DEF InSequence
<1>5. ASSUME NEW k \in j .. m2 - 1, NEW part \in parts,
             h2 = 0 \/ k # m2 - 1 \/ part # "head"
      PROVE  \E i \in 1 .. Len(t) :
                t[i].part = part /\ t[i].of.id = id /\ t[i].of.left = k
  <2>1. k \in j .. m - 1 /\ (h = 0 \/ k # m - 1 \/ part # "head")
    <3>1. CASE s[1].of.id # id
      BY <1>5, <3>1
    <3>2. CASE s[1].of.id = id /\ s[1].part = "head"
      BY <1>2, <1>5, <3>2
    <3>3. CASE s[1].of.id = id /\ s[1].part # "head"
      BY <1>2, <1>5, <3>3
    <3> QED
      BY <3>1, <3>2, <3>3
  <2>2. PICK i \in 1 .. Len(s) :
           s[i].part = part /\ s[i].of.id = id /\ s[i].of.left = k
    BY <2>1 DEF Ordered, Present
  <2>3. i # 1
    BY <1>2, <1>5, <2>1, <2>2
  <2>4. i - 1 \in 1 .. Len(t) /\ t[i - 1] = s[i]
    BY <1>1, <2>3
  <2> QED
    BY <2>2, <2>4
<1> QED
  BY <1>3, <1>4, <1>5 DEF Ordered, InRange, InSequence, Present

(* Transmit: the frames xs of a packet come into s, the first one at k and *)
(* the second, if there is one, at the end.                                *)
Inserted(s, t, k, xs) ==
    /\ Len(t) = Len(s) + Len(xs)
    /\ \A i \in 1 .. Len(s) : i < k => t[i] = s[i]
    /\ \A i \in 1 .. Len(s) : i >= k => t[i + 1] = s[i]
    /\ t[k] = xs[1]
    /\ Len(xs) = 2 => t[Len(s) + 2] = xs[2]

LEMMA InsertEffect ==
    ASSUME NEW S, NEW s \in Seq(S), NEW xs \in Seq(S), Len(xs) \in {1, 2},
           NEW k \in 1 .. Len(s) + 1
    PROVE  Inserted(s, SubSeq(s, 1, k - 1) \o <<xs[1]>> \o SubSeq(s, k, Len(s))
                           \o Tail(xs), k, xs)
<1> DEFINE a == SubSeq(s, 1, k - 1)
           b == <<xs[1]>>
           c == SubSeq(s, k, Len(s))
           e == Tail(xs)
           t == a \o b \o c \o e
<1>0. Len(s) \in Nat
  OBVIOUS
<1>1. /\ a \in Seq(S) /\ Len(a) = k - 1
      /\ \A i \in 1 .. k - 1 : a[i] = s[i]
  <2>1. \A i \in 1 .. k - 1 : s[i] \in S
    BY <1>0, ElementOfSeq
  <2>2. /\ a \in Seq(S) /\ Len(a) = IF 1 <= k - 1 THEN k - 1 - 1 + 1 ELSE 0
        /\ \A i \in 1 .. k - 1 - 1 + 1 : a[i] = s[1 + i - 1]
    BY <1>0, <2>1, SubSeqProperties
  <2> HIDE DEF a
  <2>3. Len(a) = k - 1
    BY <1>0, <2>2
  <2>4. ASSUME NEW i \in 1 .. k - 1 PROVE a[i] = s[i]
    <3>1. i \in 1 .. k - 1 - 1 + 1 /\ 1 + i - 1 = i
      OBVIOUS
    <3> QED
      BY <2>2, <3>1
  <2> QED
    BY <2>2, <2>3, <2>4
<1>2. b \in Seq(S) /\ Len(b) = 1 /\ b[1] = xs[1]
  BY ElementOfSeq
<1>3. /\ c \in Seq(S) /\ Len(c) = Len(s) - k + 1
      /\ \A i \in 1 .. Len(s) - k + 1 : c[i] = s[k + i - 1]
  <2>1. \A i \in k .. Len(s) : s[i] \in S
    BY <1>0, ElementOfSeq
  <2>2. /\ c \in Seq(S) /\ Len(c) = IF k <= Len(s) THEN Len(s) - k + 1 ELSE 0
        /\ \A i \in 1 .. Len(s) - k + 1 : c[i] = s[k + i - 1]
    BY <1>0, <2>1, SubSeqProperties
  <2> HIDE DEF c
  <2> QED
    BY <1>0, <2>2
<1>4. /\ e \in Seq(S) /\ Len(e) = Len(xs) - 1
      /\ Len(xs) = 2 => e[1] = xs[2]
  <2>1. ASSUME xs = <<>> PROVE FALSE
    <3>1. Len(xs) = 0
      BY <2>1
    <3> QED
      BY <3>1
  <2>2. /\ e \in Seq(S) /\ Len(e) = Len(xs) - 1
        /\ \A i \in 1 .. Len(e) : e[i] = xs[i + 1]
    BY <2>1, HeadTailProperties
  <2> HIDE DEF e
  <2> QED
    BY <2>2
<1> HIDE DEF a, b, c, e
<1> DEFINE u == a \o b
           v == u \o c
<1>5. /\ u \in Seq(S) /\ Len(u) = k
      /\ \A i \in 1 .. k - 1 : u[i] = s[i]
      /\ u[k] = xs[1]
  <2>1. /\ u \in Seq(S) /\ Len(u) = Len(a) + Len(b)
        /\ \A i \in 1 .. Len(a) + Len(b) :
              u[i] = IF i <= Len(a) THEN a[i] ELSE b[i - Len(a)]
    BY <1>1, <1>2, ConcatProperties
  <2> HIDE DEF u
  <2> QED
    BY <1>0, <1>1, <1>2, <2>1
<1> HIDE DEF u
<1>6. /\ v \in Seq(S) /\ Len(v) = Len(s) + 1
      /\ \A i \in 1 .. k : v[i] = u[i]
      /\ \A i \in k + 1 .. Len(s) + 1 : v[i] = c[i - k]
  <2>1. /\ v \in Seq(S) /\ Len(v) = Len(u) + Len(c)
        /\ \A i \in 1 .. Len(u) + Len(c) :
              v[i] = IF i <= Len(u) THEN u[i] ELSE c[i - Len(u)]
    BY <1>3, <1>5, ConcatProperties
  <2> HIDE DEF v
  <2> QED
    BY <1>0, <1>3, <1>5, <2>1
<1> HIDE DEF v
<1>7. /\ v \o e \in Seq(S) /\ Len(v \o e) = Len(s) + Len(xs)
      /\ \A i \in 1 .. Len(s) + 1 : (v \o e)[i] = v[i]
      /\ Len(xs) = 2 => (v \o e)[Len(s) + 2] = e[1]
  <2>1. /\ v \o e \in Seq(S) /\ Len(v \o e) = Len(v) + Len(e)
        /\ \A i \in 1 .. Len(v) + Len(e) :
              (v \o e)[i] = IF i <= Len(v) THEN v[i] ELSE e[i - Len(v)]
    BY <1>4, <1>6, ConcatProperties
  <2> DEFINE w == v \o e
  <2> HIDE DEF w
  <2>2. /\ w \in Seq(S) /\ Len(w) = Len(s) + Len(xs)
        /\ \A i \in 1 .. Len(s) + 1 : w[i] = v[i]
        /\ Len(xs) = 2 => w[Len(s) + 2] = e[1]
    BY <1>0, <1>4, <1>6, <2>1 DEF w
  <2> QED
    BY <2>2 DEF w
<1>8. t = v \o e
  BY DEF u, v
<1> HIDE DEF t
<1>9. \A i \in 1 .. Len(s) : i < k => t[i] = s[i]
  BY <1>0, <1>5, <1>6, <1>7, <1>8
<1>10. ASSUME NEW i \in 1 .. Len(s), i >= k PROVE t[i + 1] = s[i]
  <2>1. i + 1 \in k + 1 .. Len(s) + 1 /\ i + 1 \in 1 .. Len(s) + 1
    BY <1>0, <1>10
  <2>2. t[i + 1] = c[(i + 1) - k]
    BY <1>6, <1>7, <1>8, <2>1
  <2>3. (i + 1) - k \in 1 .. Len(s) - k + 1 /\ k + ((i + 1) - k) - 1 = i
    BY <1>0, <1>10
  <2> QED
    BY <1>3, <2>2, <2>3
<1>11. t[k] = xs[1]
  BY <1>0, <1>5, <1>6, <1>7, <1>8
<1>12. Len(t) = Len(s) + Len(xs) /\ (Len(xs) = 2 => t[Len(s) + 2] = xs[2])
  BY <1>4, <1>7, <1>8
<1>13. Inserted(s, t, k, xs)
  BY <1>9, <1>10, <1>11, <1>12 DEF Inserted
<1> QED
  BY <1>13 DEF t, a, b, c, e

(* A place in the new sequence is that of a frame that came, or of one     *)
(* that was there.                                                         *)
Came(s, k, xs, p) == p = k \/ (Len(xs) = 2 /\ p = Len(s) + 2)

LEMMA Places ==
    ASSUME NEW s, Len(s) \in Nat, NEW t, NEW xs, Len(xs) \in {1, 2},
           NEW k \in 1 .. Len(s) + 1, Inserted(s, t, k, xs),
           NEW p \in 1 .. Len(t)
    PROVE  \/ Came(s, k, xs, p)
           \/ p < k /\ p \in 1 .. Len(s) /\ t[p] = s[p]
           \/ p > k /\ p - 1 \in 1 .. Len(s) /\ t[p] = s[p - 1]
<1>1. Len(t) = Len(s) + Len(xs)
  BY DEF Inserted
<1>2. CASE p < k
  BY <1>2 DEF Inserted
<1>3. CASE p > k /\ p <= Len(s) + 1
  <2>1. p - 1 \in 1 .. Len(s) /\ p - 1 >= k /\ (p - 1) + 1 = p
    BY <1>3
  <2> QED
    BY <1>3, <2>1 DEF Inserted
<1>4. CASE p = k
  BY <1>4 DEF Came
<1>5. CASE p > Len(s) + 1
  <2>1. ASSUME Len(xs) = 1 PROVE FALSE
    <3>1. Len(t) = Len(s) + 1 /\ p <= Len(t)
      BY <1>1, <2>1
    <3> QED
      BY <1>5, <3>1
  <2>2. Len(xs) = 2
    BY <2>1
  <2>3. p = Len(s) + 2
    BY <1>1, <1>5, <2>2
  <2> QED
    BY <2>2, <2>3 DEF Came
<1> QED
  BY <1>2, <1>3, <1>4, <1>5

(* The frames of another packet leave those of the attempt in order.       *)
LEMMA OrderedBeside ==
    ASSUME NEW s, Len(s) \in Nat, NEW t, NEW xs, Len(xs) \in {1, 2},
           NEW k \in 1 .. Len(s) + 1, Inserted(s, t, k, xs),
           NEW id, NEW parts, NEW m, NEW j, NEW h,
           Ordered(s, id, parts, j, m, h),
           \A i \in 1 .. Len(xs) : xs[i].of.id # id
    PROVE  Ordered(t, id, parts, j, m, h)
<1>1. ASSUME NEW p \in 1 .. Len(t), t[p].of.id = id
      PROVE  \/ p < k /\ p \in 1 .. Len(s) /\ t[p] = s[p]
             \/ p > k /\ p - 1 \in 1 .. Len(s) /\ t[p] = s[p - 1]
  <2>1. ~Came(s, k, xs, p)
    BY <1>1 DEF Came, Inserted
  <2> QED
    BY <2>1, Places
<1>2. InRange(t, id, parts, j, m, h)
  BY <1>1 DEF Ordered, InRange
<1>3. InSequence(t, id)
  <2> SUFFICES ASSUME NEW p \in 1 .. Len(t), NEW q \in 1 .. Len(t), p < q,
                      t[p].of.id = id, t[q].of.id = id
               PROVE  Before(t[p], t[q])
    BY DEF InSequence
  <2>1. PICK i \in 1 .. Len(s) : t[p] = s[i] /\ ((p < k /\ i = p) \/ (p > k /\ i = p - 1))
    BY <1>1
  <2>2. PICK l \in 1 .. Len(s) : t[q] = s[l] /\ ((q < k /\ l = q) \/ (q > k /\ l = q - 1))
    BY <1>1
  <2>3. i < l
    BY <2>1, <2>2
  <2> QED
    BY <2>1, <2>2, <2>3 DEF Ordered, InSequence
<1>4. Present(t, id, parts, j, m, h)
  <2> SUFFICES ASSUME NEW n \in j .. m - 1, NEW part \in parts,
                      h = 0 \/ n # m - 1 \/ part # "head"
               PROVE  \E p \in 1 .. Len(t) :
                         t[p].part = part /\ t[p].of.id = id /\ t[p].of.left = n
    BY DEF Present
  <2>1. PICK i \in 1 .. Len(s) :
           s[i].part = part /\ s[i].of.id = id /\ s[i].of.left = n
    BY DEF Ordered, Present
  <2>2. i \in 1 .. Len(t) /\ i + 1 \in 1 .. Len(t)
    BY DEF Inserted
  <2>3. CASE i < k
    <3>1. t[i] = s[i]
      BY <2>3 DEF Inserted
    <3> QED
      BY <2>1, <2>2, <3>1
  <2>4. CASE i >= k
    <3>1. t[i + 1] = s[i]
      BY <2>4 DEF Inserted
    <3> QED
      BY <2>1, <2>2, <3>1
  <2> QED
    BY <2>3, <2>4
<1> QED
  BY <1>2, <1>3, <1>4 DEF Ordered

(* The frames xs of the next piece come into s after all the others.       *)
Extends(s, t, k, xs, id, parts, m, j, h) ==
    /\ Len(s) \in Nat /\ k \in 1 .. Len(s) + 1 /\ Len(xs) \in {1, 2}
    /\ Inserted(s, t, k, xs) /\ \A i \in k .. Len(s) : s[i].of.id # id
    /\ m \in Nat /\ j \in 1 .. m /\ h \in {0, 1} /\ (h = 1 => j < m)
    /\ \A i \in 1 .. Len(xs) : xs[i].of.id = id /\ xs[i].of.left = j - 1
    /\ \/ /\ parts = {"head", "tail"} /\ Len(xs) = 2
          /\ xs[1].part = "head" /\ xs[2].part = "tail"
       \/ parts = {"whole"} /\ Len(xs) = 1 /\ xs[1].part = "whole"

LEMMA OrderedMore ==
    ASSUME NEW s, NEW t, NEW k, NEW xs, NEW id, NEW parts, NEW m, NEW j, NEW h,
           Ordered(s, id, parts, j, m, h),
           Extends(s, t, k, xs, id, parts, m, j, h)
    PROVE  Ordered(t, id, parts, j - 1, m, h)
<1> USE DEF Extends
<1>1. ASSUME NEW p \in 1 .. Len(t), t[p].of.id = id
      PROVE  \/ Came(s, k, xs, p)
             \/ p < k /\ p \in 1 .. Len(s) /\ t[p] = s[p]
  <2>1. CASE p > k /\ p - 1 \in 1 .. Len(s) /\ t[p] = s[p - 1]
    <3>1. p - 1 \in k .. Len(s)
      BY <2>1
    <3> QED
      BY <1>1, <2>1, <3>1
  <2> QED
    BY <2>1, Places
<1>2. /\ k \in 1 .. Len(t) /\ t[k] = xs[1]
      /\ xs[1].of.id = id /\ xs[1].of.left = j - 1 /\ xs[1].part \in parts
      /\ Len(xs) = 2 =>
            /\ Len(s) + 2 \in 1 .. Len(t) /\ t[Len(s) + 2] = xs[2]
            /\ xs[2].of.id = id /\ xs[2].of.left = j - 1
            /\ xs[1].part = "head" /\ xs[2].part = "tail" /\ xs[2].part \in parts
  BY DEF Inserted
<1>3. ASSUME NEW p \in 1 .. Len(t), Came(s, k, xs, p)
      PROVE  t[p].of.left = j - 1 /\ t[p].part \in parts
  BY <1>2, <1>3 DEF Came
<1>4. ASSUME NEW i \in 1 .. Len(s), s[i].of.id = id
      PROVE  /\ s[i].of.left \in j .. m - 1 /\ s[i].part \in parts
             /\ h = 1 /\ s[i].part = "head" => s[i].of.left # m - 1
  BY <1>4 DEF Ordered, InRange
<1>5. InRange(t, id, parts, j - 1, m, h)
  <2> SUFFICES ASSUME NEW p \in 1 .. Len(t), t[p].of.id = id
               PROVE  /\ t[p].of.left \in (j - 1) .. (m - 1)
                      /\ t[p].part \in parts
                      /\ h = 1 /\ t[p].part = "head" => t[p].of.left # m - 1
    BY DEF InRange
  <2>1. CASE Came(s, k, xs, p)
    BY <1>3, <2>1
  <2>2. CASE p < k /\ p \in 1 .. Len(s) /\ t[p] = s[p]
    BY <1>4, <2>2
  <2> QED
    BY <1>1, <2>1, <2>2
<1>6. InSequence(t, id)
  <2> SUFFICES ASSUME NEW p \in 1 .. Len(t), NEW q \in 1 .. Len(t), p < q,
                      t[p].of.id = id, t[q].of.id = id
               PROVE  Before(t[p], t[q])
    BY DEF InSequence
  <2>1. CASE p < k /\ p \in 1 .. Len(s) /\ t[p] = s[p]
    <3>1. CASE Came(s, k, xs, q)
      <4>1. t[q].of.left = j - 1 /\ t[p].of.left \in j .. m - 1
        BY <1>3, <1>4, <2>1, <3>1
      <4> QED
        BY <4>1 DEF Before
    <3>2. CASE q < k /\ q \in 1 .. Len(s) /\ t[q] = s[q]
      BY <2>1, <3>2 DEF Ordered, InSequence
    <3> QED
      BY <1>1, <3>1, <3>2
  <2>2. CASE Came(s, k, xs, p)
    <3>1. Came(s, k, xs, q)
      BY <1>1, <2>2 DEF Came
    <3>2. p = k /\ Len(xs) = 2 /\ q = Len(s) + 2
      BY <2>2, <3>1 DEF Came
    <3>3. t[p] = xs[1] /\ t[q] = xs[2]
      BY <1>2, <3>2
    <3> QED
      BY <1>2, <3>2, <3>3 DEF Before
  <2> QED
    BY <1>1, <2>1, <2>2
<1>7. Present(t, id, parts, j - 1, m, h)
  <2> SUFFICES ASSUME NEW n \in (j - 1) .. (m - 1), NEW part \in parts,
                      h = 0 \/ n # m - 1 \/ part # "head"
               PROVE  \E p \in 1 .. Len(t) :
                         t[p].part = part /\ t[p].of.id = id /\ t[p].of.left = n
    BY DEF Present
  <2>1. CASE n = j - 1
    <3>1. CASE part = xs[1].part
      BY <1>2, <2>1, <3>1
    <3>2. CASE part # xs[1].part
      <4>1. Len(xs) = 2 /\ part = xs[2].part
        BY <3>2
      <4> QED
        BY <1>2, <2>1, <4>1
    <3> QED
      BY <3>1, <3>2
  <2>2. CASE n # j - 1
    <3>1. n \in j .. m - 1
      BY <2>2
    <3>2. PICK i \in 1 .. Len(s) :
             s[i].part = part /\ s[i].of.id = id /\ s[i].of.left = n
      BY <3>1 DEF Ordered, Present
    <3>3. i \in 1 .. Len(t) /\ i + 1 \in 1 .. Len(t)
      BY DEF Inserted
    <3>4. CASE i < k
      <4>1. t[i] = s[i]
        BY <3>4 DEF Inserted
      <4> QED
        BY <3>2, <3>3, <4>1
    <3>5. CASE i >= k
      <4>1. t[i + 1] = s[i]
        BY <3>5 DEF Inserted
      <4> QED
        BY <3>2, <3>3, <4>1
    <3> QED
      BY <3>4, <3>5
  <2> QED
    BY <2>1, <2>2
<1> QED
  BY <1>5, <1>6, <1>7 DEF Ordered

LEMMA StreamTypes ==
    ASSUME ClientTypes, NetInv
    PROVE  /\ stream \in Seq(Frames(Packets)) /\ Len(stream) \in Nat
           /\ \A i \in 1 .. Len(stream) :
                 /\ stream[i] \in Frames(Packets) /\ stream[i].of.left \in Nat
                 /\ stream[i].of.id \in Nat /\ stream[i].of.id <= pcktId
           /\ l2 # Nothing => l2 \in Frames(Packets) /\ l2.of.id <= pcktId
           /\ \A d \in Devices :
                 /\ owed[d] \in Seq(Packets) /\ Len(owed[d]) \in Nat
                 /\ \A i \in 1 .. Len(owed[d]) :
                       owed[d][i].id \in Nat /\ owed[d][i].id <= pcktId
<1>1. Sane \subseteq Packets /\ Frames(Sane) \subseteq Frames(Packets)
  BY FramesGrow DEF Sane
<1>2. stream \in Seq(Frames(Packets)) /\ Len(stream) \in Nat
  BY <1>1, SeqMonotonic DEF NetInv
<1>3. \A x \in Frames(Sane) : /\ x.of.left \in Nat
                             /\ x.of.id \in Nat /\ x.of.id <= pcktId
  BY DEF Frames, Sane, Packets
<1>4. \A i \in 1 .. Len(stream) : stream[i] \in Frames(Sane)
  BY ElementOfSeq DEF NetInv
<1>5. \A d \in Devices :
         /\ owed[d] \in Seq(Packets) /\ Len(owed[d]) \in Nat
         /\ \A i \in 1 .. Len(owed[d]) : owed[d][i] \in Sane
  BY <1>1, SeqMonotonic, ElementOfSeq DEF NetInv
<1>6. \A p \in Sane : p.id \in Nat /\ p.id <= pcktId
  BY DEF Sane, Packets
<1> QED
  BY <1>1, <1>2, <1>3, <1>4, <1>5, <1>6 DEF NetInv

LEMMA PartsType ==
    /\ Parts \in PartSets
    /\ "head" \in Parts => asking \in Splits
    /\ Parts = {"head", "tail"} \/ Parts = {"whole"}
    /\ asking \in Splits => Parts = {"head", "tail"}
    /\ asking \notin Splits => Parts = {"whole"}
BY DEF Parts, PartSets

(* The first frame of the attempt on the stream is the next of its answer. *)
LEMMA FirstPiece ==
    ASSUME ClientTypes, NetInv, NEW kind, NEW m \in Nat, NEW j \in 0 .. m,
           NEW h \in {0, 1}, Streaming(kind, j, m, h),
           stream # <<>>, Head(stream).of.id = pcktId
    PROVE  /\ j < m /\ Head(stream).of = Piece(kind, m - 1)
           /\ Head(stream).part \in Parts
           /\ h = 1 => Head(stream).part # "head"
           /\ h = 0 => Head(stream).part # "tail"
<1>1. Len(stream) \in Nat \ {0} /\ Head(stream) = stream[1]
  BY StreamTypes, TailEffect
<1>2. /\ Ordered(stream, pcktId, Parts, j, m, h) /\ Parts \in PartSets
      /\ stream[1].of.id = pcktId
  BY <1>1, PartsType DEF Streaming
<1>3. /\ j < m /\ stream[1].of.left = m - 1 /\ stream[1].part \in Parts
      /\ h = 1 => stream[1].part # "head"
      /\ h = 0 => stream[1].part # "tail"
  BY <1>1, <1>2, FirstOrdered, SMTT(30)
<1>4. stream[1].of = Piece(kind, m - 1)
  <2>1. stream[1].of = Piece(kind, stream[1].of.left)
    BY <1>1, <1>2 DEF Streaming
  <2> QED
    BY <1>3, <2>1
<1> QED
  BY <1>1, <1>3, <1>4

LEMMA StreamOrdered ==
    ASSUME Parts \in PartSets, NEW m \in Nat, NEW j \in 0 .. m,
           NEW h \in {0, 1}, NEW m2 \in Nat, NEW h2 \in {0, 1},
           Ordered(stream, pcktId, Parts, j, m, h),
           Taken(stream, stream', pcktId, m, h, m2, h2)
    PROVE  Ordered(stream', pcktId, Parts, j, m2, h2)
BY OrderedTaken

(* What the stream holds when its first frame is taken.                    *)
LEMMA StreamingTaken ==
    ASSUME ClientTypes, NetInv, NEW kind, NEW m \in Nat, NEW j \in 0 .. m,
           NEW h \in {0, 1}, Streaming(kind, j, m, h),
           Take, UNCHANGED <<asking, pcktId, call>>,
           NEW m2 \in Nat, NEW h2 \in {0, 1},
           \/ Head(stream).of.id # pcktId /\ m2 = m /\ h2 = h
           \/ /\ Head(stream).of.id = pcktId /\ Head(stream).part = "head"
              /\ m2 = m /\ h2 = 1
           \/ /\ Head(stream).of.id = pcktId /\ Head(stream).part # "head"
              /\ m2 = m - 1 /\ h2 = 0
    PROVE  Streaming(kind, j, m2, h2)'
<1>1. /\ Len(stream) \in Nat \ {0} /\ Head(stream) = stream[1]
      /\ Len(stream') = Len(stream) - 1
      /\ \A i \in 1 .. Len(stream') : stream'[i] = stream[i + 1]
  <2>1. stream \in Seq(Frames(Packets)) /\ stream # <<>> /\ stream' = Tail(stream)
    BY StreamTypes DEF Take
  <2> QED
    BY <2>1, TailEffect
<1>2. Parts \in PartSets /\ Parts' = Parts /\ pcktId' = pcktId
  BY PartsType DEF Parts
<1>3. Ordered(stream, pcktId, Parts, j, m, h)
  BY DEF Streaming
<1>4. Ordered(stream', pcktId, Parts, j, m2, h2)
  <2>1. \/ stream[1].of.id # pcktId /\ m2 = m /\ h2 = h
        \/ stream[1].of.id = pcktId /\ stream[1].part = "head" /\ m2 = m /\ h2 = 1
        \/ /\ stream[1].of.id = pcktId /\ stream[1].part # "head"
           /\ m2 = m - 1 /\ h2 = 0
    BY <1>1
  <2>2. Taken(stream, stream', pcktId, m, h, m2, h2)
    BY <1>1, <2>1 DEF Taken
  <2> QED
    BY <1>2, <1>3, <2>2, StreamOrdered
<1>5. ASSUME NEW i \in 1 .. Len(stream'), stream'[i].of.id = pcktId
      PROVE  stream'[i].of = Piece(kind, stream'[i].of.left)
  <2>1. i + 1 \in 1 .. Len(stream) /\ stream'[i] = stream[i + 1]
    BY <1>1
  <2> QED
    BY <1>5, <2>1 DEF Streaming
<1>6. \A k : Piece(kind, k)' = Piece(kind, k)
  BY PieceStays
<1> QED
  BY <1>2, <1>4, <1>5, <1>6 DEF Streaming

LEMMA OwingStays ==
    ASSUME NEW kind, NEW j, Owing(kind, j), UNCHANGED <<owed, asking, pcktId, call>>
    PROVE  Owing(kind, j)'
<1>1. \A k : Piece(kind, k)' = Piece(kind, k)
  BY PieceStays
<1> QED
  BY <1>1 DEF Owing

(* The second frame of a packet makes it whole.                            *)
LEMMA AssembledHalves ==
    ASSUME NEW x, NEW kind, NEW k, l2 # Nothing, l2.of = Piece(kind, k),
           x.of = Piece(kind, k), x.part = "tail"
    PROVE  Assembled(x) = Piece(kind, k)
<1>0. x.part # "whole"
  OBVIOUS
<1>1. Assembled(x) = [l2.of EXCEPT !.ok = l2.of.ok /\ x.of = l2.of]
  BY <1>0 DEF Assembled
<1>2. l2.of.ok /\ x.of = l2.of
  <2>1. Piece(kind, k).ok = TRUE
    BY PieceOk
  <2>2. l2.of.ok = TRUE /\ x.of = l2.of
    BY <2>1, Zenon
  <2> QED
    BY <2>2, Zenon
<1>3. (l2.of.ok /\ x.of = l2.of) = TRUE
  BY <1>2, Zenon
<1>4. Assembled(x) = [Piece(kind, k) EXCEPT !.ok = TRUE]
  BY <1>1, <1>3, Zenon
<1> QED
  BY <1>4 DEF Piece, Packet

(* A frame of another packet leaves the reader with nothing to accept.     *)
LEMMA OtherIsDropped ==
    ASSUME ClientTypes, NetInv, NEW x \in Frames(Packets), x.of.id # pcktId, Closes(x),
           l2 = Nothing \/ l2.of.id # pcktId, ~Interrupts(x), x.part # "rest"
    PROVE  Dropped(Assembled(x))
<1>1. CASE x.part = "whole"
  BY <1>1 DEF Assembled, Dropped
<1>2. CASE x.part # "whole"
  <2>1. x.part = "tail"
    BY <1>2 DEF Closes, Frames
  <2>2. l2 # Nothing /\ l2.of.id # pcktId
    BY <2>1 DEF Interrupts, Opens
  <2>3. Assembled(x) = [l2.of EXCEPT !.ok = l2.of.ok /\ x.of = l2.of]
    BY <1>2, <2>2 DEF Assembled
  <2>4. l2.of \in Packets
    BY <2>2, StreamTypes DEF Frames
  <2>5. Assembled(x).id = l2.of.id
    BY <2>3, <2>4 DEF Packets
  <2> QED
    BY <2>2, <2>5 DEF Dropped
<1> QED
  BY <1>1, <1>2

(* A read that disturbs nothing gets the first half of a packet, something *)
(* else than the answer, or the next piece of it.                          *)
LEMMA TakenUndisturbed ==
    ASSUME ClientTypes, NetInv, NEW kind, NEW m \in Nat \ {0}, NEW j \in 0 .. m,
           NEW h \in {0, 1}, h = 1 => j < m,
           Owing(kind, j), Streaming(kind, j, m, h), InHand(kind, m, h),
           Take, ~damaged'
    PROVE  \/ /\ ~Closes(Head(stream))
              /\ UNCHANGED <<asking, pcktId, call>> =>
                    \E g \in {0, 1} : /\ g = 1 => j < m
                                      /\ Streaming(kind, j, m, g)'
                                      /\ InHand(kind, m, g)'
           \/ /\ Closes(Head(stream)) /\ Dropped(Assembled(Head(stream)))
              /\ UNCHANGED <<asking, pcktId, call>> =>
                    Streaming(kind, j, m, 0)' /\ InHand(kind, m, 0)'
           \/ /\ Closes(Head(stream)) /\ j < m
              /\ Assembled(Head(stream)) = Piece(kind, m - 1)
              /\ UNCHANGED <<asking, pcktId, call>> =>
                    Streaming(kind, j, m - 1, 0)' /\ InHand(kind, m - 1, 0)'
<1> DEFINE x == Head(stream)
<1>0. /\ x \in Frames(Packets) /\ x.part \in {"head", "tail", "whole"}
      /\ x # Nothing /\ stream # <<>>
  <2>1. stream \in Seq(Frames(Packets)) /\ stream # <<>>
    BY StreamTypes DEF Take
  <2>2. x \in Frames(Packets)
    BY <2>1, HeadTailProperties
  <2>3. x.part # "rest"
    BY <2>1 DEF Take, Torn
  <2> HIDE DEF x
  <2> QED
    BY <2>1, <2>2, <2>3 DEF Frames, Nothing
<1>1. ~Interrupts(x)
  BY Zenon DEF Take
<1>2. l2' = InFlight(x)
  BY DEF Take
<1>3. x.of.id = pcktId =>
         /\ j < m /\ x.of = Piece(kind, m - 1) /\ x.part \in Parts
         /\ h = 1 => x.part # "head"
         /\ h = 0 => x.part # "tail"
  BY <1>0, FirstPiece
<1> HIDE DEF x
<1>4. Closes(x) => l2' = Nothing
  BY <1>2 DEF InFlight
<1>5. \A k : Closes(x) => InHand(kind, k, 0)'
  BY <1>4 DEF InHand
<1> DEFINE same == UNCHANGED <<asking, pcktId, call>>
<1>6. ASSUME x.of.id # pcktId, same PROVE Streaming(kind, j, m, h)'
  BY <1>6, StreamingTaken DEF x
<1>7. ASSUME x.of.id = pcktId, x.part = "head", same
      PROVE  Streaming(kind, j, m, 1)'
  BY <1>7, StreamingTaken DEF x
<1>8. ASSUME x.of.id = pcktId, x.part # "head", same
      PROVE  Streaming(kind, j, m - 1, 0)'
  <2>1. m - 1 \in Nat
    OBVIOUS
  <2> QED
    BY <1>8, <2>1, StreamingTaken DEF x
<1>9. CASE h = 1
  <2>1. l2 # Nothing /\ l2.of = Piece(kind, m - 1)
    BY <1>9 DEF InHand
  <2>2. x.part = "tail" /\ x.of = Piece(kind, m - 1)
    BY <1>1, <2>1 DEF Interrupts, Opens
  <2>3. Closes(x) /\ x.of.id = pcktId
    <3>1. Piece(kind, m - 1).id = pcktId
      BY PieceFields
    <3> QED
      BY <2>2, <3>1 DEF Closes
  <2>4. Assembled(x) = Piece(kind, m - 1)
    BY <2>1, <2>2, AssembledHalves
  <2> QED
    BY <1>5, <1>8, <1>9, <2>2, <2>3, <2>4 DEF x
<1>10. CASE h = 0 /\ x.of.id # pcktId
  <2>1. l2 = Nothing \/ l2.of.id # pcktId
    BY <1>10 DEF InHand
  <2>2. CASE Closes(x)
    <3>1. Dropped(Assembled(x))
      BY <1>0, <1>1, <1>10, <2>1, <2>2, OtherIsDropped
    <3> QED
      BY <1>5, <1>6, <1>10, <2>2, <3>1 DEF x
  <2>3. CASE ~Closes(x)
    <3>1. l2' = x
      BY <1>2, <2>3 DEF InFlight
    <3>2. same => InHand(kind, m, 0)'
      BY <1>10, <3>1 DEF InHand
    <3> QED
      BY <1>6, <1>10, <2>3, <3>2 DEF x
  <2> QED
    BY <2>2, <2>3
<1>11. CASE h = 0 /\ x.of.id = pcktId /\ x.part = "head"
  <2>1. ~Closes(x) /\ l2' = x
    BY <1>2, <1>11 DEF Closes, InFlight
  <2>2. asking \in Splits
    BY <1>3, <1>11, PartsType
  <2>3. same => Piece(kind, m - 1)' = Piece(kind, m - 1)
    BY PieceStays
  <2>4. same => InHand(kind, m, 1)'
    BY <1>0, <1>3, <1>11, <2>1, <2>2, <2>3 DEF InHand
  <2> QED
    BY <1>3, <1>7, <1>11, <2>1, <2>4 DEF x
<1>12. CASE h = 0 /\ x.of.id = pcktId /\ x.part # "head"
  <2>1. x.part = "whole" /\ Closes(x)
    BY <1>0, <1>3, <1>12 DEF Closes
  <2>2. Assembled(x) = Piece(kind, m - 1)
    BY <1>3, <1>12, <2>1 DEF Assembled
  <2> QED
    BY <1>3, <1>5, <1>8, <1>12, <2>1, <2>2 DEF x
<1> QED
  BY <1>9, <1>10, <1>11, <1>12

(* The pieces accepted and the next one.                                   *)
LEMMA OneMore ==
    ASSUME NEW kind, NEW n \in Nat, NEW m \in 1 .. n,
           frames = {Piece(kind, k) : k \in m .. n - 1}
    PROVE  frames \cup {Piece(kind, m - 1)} = {Piece(kind, k) : k \in m - 1 .. n - 1}
<1>1. (m - 1) .. (n - 1) = (m .. (n - 1)) \cup {m - 1}
  OBVIOUS
<1> QED
  BY <1>1, Zenon

LEMMA ReadPartReads ==
    ASSUME SessionInv, ReadInv, ReadPart PROVE ReadInv'
<1> SUFFICES ASSUME phase' = "reading", ~damaged', serial'[asking'] = asking'
             PROVE  \E kind \in {"data", "error21"}, n \in Sizes :
                    \E m \in 1 .. n : \E j \in 0 .. m, h \in {0, 1} :
                        Undisturbed(kind, n, m, j, h)'
  BY DEF ReadInv, Sizes
<1>1. /\ Take /\ UNCHANGED <<asking, pcktId, call, frames, owed>>
      /\ ~Closes(Head(stream)) /\ ClientTypes /\ NetInv
  BY DEF ReadPart, request, SessionInv, Take
<1>2. phase = "reading" /\ ~damaged /\ serial[asking] = asking
  BY DEF ReadPart, request, known, Take
<1>3. PICK kind \in {"data", "error21"}, n \in Sizes :
         \E m \in 1 .. n : \E j \in 0 .. m, h \in {0, 1} :
             Undisturbed(kind, n, m, j, h)
  BY <1>2 DEF ReadInv
<1>4. PICK m \in 1 .. n : \E j \in 0 .. m, h \in {0, 1} :
         Undisturbed(kind, n, m, j, h)
  BY <1>3
<1>5. PICK j \in 0 .. m, h \in {0, 1} : Undisturbed(kind, n, m, j, h)
  BY <1>4
<1>6. m \in Nat \ {0}
  BY SizesAreNat
<1>7. PICK g \in {0, 1} : /\ g = 1 => j < m
                         /\ Streaming(kind, j, m, g)' /\ InHand(kind, m, g)'
  BY <1>1, <1>5, <1>6, TakenUndisturbed DEF Undisturbed
<1>8. \A k : Piece(kind, k)' = Piece(kind, k)
  BY <1>1, PieceStays
<1>9. Owing(kind, j)'
  BY <1>1, <1>5, OwingStays DEF Undisturbed
<1>10. Undisturbed(kind, n, m, j, g)'
  BY <1>1, <1>5, <1>7, <1>8, <1>9 DEF Undisturbed
<1> QED
  BY <1>10

(* What request_device() makes of a packet.                                *)
LEMMA PieceIsAccepted ==
    ASSUME NEW kind \in {"data", "error21"}, NEW k
    PROVE  /\ ~Dropped(Piece(kind, k)) /\ Piece(kind, k).kind = kind
           /\ Complete(Piece(kind, k)) <=> k = 0
<1> DEFINE p == Piece(kind, k)
<1>1. p.from = asking /\ p.kind = kind /\ p.id = pcktId /\ p.left = k
  BY PieceFields
<1>2. p.ok = TRUE
  BY PieceOk
<1>3. p.kind # "raw"
  BY <1>1
<1> HIDE DEF p
<1>4. ~Dropped(p)
  BY <1>1, <1>2, <1>3, Zenon DEF Dropped
<1>5. Complete(p) <=> k = 0
  BY <1>1 DEF Complete
<1> QED
  BY <1>1, <1>4, <1>5 DEF p

LEMMA ReplyEffect ==
    ASSUME SessionInv, ReplyPacket, NEW p, p = Assembled(Head(stream))
    PROVE  /\ phase = "reading" /\ Take /\ Closes(Head(stream))
           /\ UNCHANGED <<known, pcktId, expected, verify>>
           /\ Dropped(p) => UNCHANGED <<phase, request>>
           /\ ~Dropped(p) => p.kind \in {"data", "error21", "error"}
           /\ ~Dropped(p) /\ p.kind = "error21" => Finished({p})
           /\ ~Dropped(p) /\ p.kind = "error" => Abandoned
           /\ ~Dropped(p) /\ p.kind = "data" /\ Complete(p) =>
                 Finished(frames \union {p})
           /\ ~Dropped(p) /\ p.kind = "data" /\ ~Complete(p) =>
                 /\ frames' = frames \union {p}
                 /\ UNCHANGED <<phase, call, todo, asking, retries, reply>>
<1>1. /\ phase = "reading" /\ Take /\ Closes(Head(stream))
      /\ UNCHANGED <<known, pcktId, expected, verify>>
  BY DEF ReplyPacket
<1>2. p.kind # "raw" => p \in Sane
  BY <1>1, HeadIsSane DEF SessionInv
<1>3. ~Dropped(p) => p.kind \in {"data", "error21", "error"}
  BY <1>1, <1>2 DEF Dropped, Sane
<1>4. CASE Dropped(p)
  BY <1>1, <1>4 DEF ReplyPacket
<1>5. CASE ~Dropped(p) /\ p.kind = "error21"
  BY <1>1, <1>5 DEF ReplyPacket
<1>6. CASE ~Dropped(p) /\ p.kind = "error"
  BY <1>1, <1>6 DEF ReplyPacket
<1>7. CASE ~Dropped(p) /\ p.kind = "data" /\ Complete(p)
  BY <1>1, <1>7 DEF ReplyPacket
<1>8. CASE ~Dropped(p) /\ p.kind = "data" /\ ~Complete(p)
  BY <1>1, <1>8 DEF ReplyPacket
<1> QED
  BY <1>1, <1>3, <1>4, <1>5, <1>6, <1>7, <1>8

(* An answer of n pieces is n packets.                                     *)
Pieces(kind, n) == {Piece(kind, k) : k \in 0 .. n - 1}

LEMMA AllPieces ==
    ASSUME NEW kind, NEW n \in Nat \ {0}
    PROVE  /\ Pieces(kind, n) # {}
           /\ {p.left : p \in Pieces(kind, n)}
                 = 0 .. Cardinality(Pieces(kind, n)) - 1
<1> DEFINE A == Pieces(kind, n)
<1> USE DEF Pieces
<1> DEFINE f == [k \in 0 .. n - 1 |-> Piece(kind, k)]
<1>1. \A k : Piece(kind, k).left = k
  BY PieceFields
<1>2. f \in Bijection(0 .. n - 1, A)
  <2>1. f \in [0 .. n - 1 -> A]
    OBVIOUS
  <2>2. \A a, b \in 0 .. n - 1 : f[a] = f[b] => a = b
    BY <1>1
  <2>3. \A p \in A : \E a \in 0 .. n - 1 : f[a] = p
    OBVIOUS
  <2> HIDE DEF f
  <2> QED
    BY <2>1, <2>2, <2>3 DEF Bijection, Injection, IsInjective, Surjection
<1>3. IsFiniteSet(0 .. n - 1) /\ Cardinality(0 .. n - 1) = n
  BY FS_Interval
<1>4. Cardinality(A) = n
  <2>1. ExistsBijection(0 .. n - 1, A)
    BY <1>2 DEF ExistsBijection
  <2> QED
    BY <1>3, <2>1, FS_Bijection
<1>5. {p.left : p \in A} = 0 .. n - 1
  BY <1>1
<1>6. A # {}
  <2>1. 0 \in 0 .. n - 1
    OBVIOUS
  <2>2. Piece(kind, 0) \in A
    BY <2>1
  <2> QED
    BY <2>2
<1> QED
  BY <1>4, <1>5, <1>6

LEMMA FinishedWhole ==
    ASSUME SessionInv, DoneInv, phase = "reading", NEW answer, Finished(answer),
           UNCHANGED <<devices, serial>>, damaged => damaged',
           ~damaged' /\ serial[asking] = asking =>
               /\ answer # {}
               /\ {p.left : p \in answer} = 0 .. Cardinality(answer) - 1
    PROVE  DoneInv'
<1>1. /\ todo' = todo \ {asking} /\ call' = call
      /\ phase' \in {"ready", "asking"} /\ (phase' = "ready" => todo' = {})
  BY DEF Finished
<1>2. ASSUME call' > 0, ~damaged', NEW d \in devices' \ todo', serial'[d] = d
      PROVE  Whole(d)'
  <2>1. CASE d = asking
    <3>1. /\ answer # {}
          /\ {p.left : p \in answer} = 0 .. Cardinality(answer) - 1
      BY <1>2, <2>1
    <3>2. reply' = [e \in DOMAIN reply \union {asking} |->
                      IF e = asking THEN answer ELSE reply[e]]
      BY <3>1 DEF Finished
    <3>3. d \in DOMAIN reply' /\ reply'[d] = answer
      BY <2>1, <3>2
    <3> QED
      BY <3>1, <3>3, Zenon DEF Whole
  <2>2. CASE d # asking
    <3>1. d \in devices \ todo /\ serial[d] = d /\ ~damaged /\ call > 0
      BY <1>1, <1>2, <2>2
    <3>2. Whole(d)
      BY <3>1 DEF DoneInv
    <3>3. d \in DOMAIN reply' /\ reply'[d] = reply[d]
      BY <2>2, <3>2 DEF Finished, Whole
    <3> QED
      BY <3>2, <3>3, Zenon DEF Whole
  <2> QED
    BY <2>1, <2>2
<1> QED
  BY <1>1, <1>2 DEF DoneInv

(* A request that fails in a disturbed session promises nothing.           *)
LEMMA AbandonedDone ==
    ASSUME Abandoned, damaged' PROVE ReadInv' /\ DoneInv'
BY DEF Abandoned, ReadInv, DoneInv

LEMMA DoneStays ==
    ASSUME DoneInv, UNCHANGED <<phase, call, todo, asking, devices, serial, reply>>,
           damaged => damaged'
    PROVE  DoneInv'
<1>1. \A d : Whole(d)' <=> Whole(d)
  BY DEF Whole
<1> QED
  BY <1>1 DEF DoneInv

(* Reading the packet that comes next.                                     *)
LEMMA ReplyPacketReads ==
    ASSUME SessionInv, ReadInv, DoneInv, ReplyPacket PROVE ReadInv' /\ DoneInv'
<1> DEFINE p == Assembled(Head(stream))
<1>1. /\ phase = "reading" /\ Take /\ Closes(Head(stream))
      /\ UNCHANGED <<known, pcktId, expected, verify>>
      /\ Dropped(p) => UNCHANGED <<phase, request>>
      /\ ~Dropped(p) => p.kind \in {"data", "error21", "error"}
      /\ ~Dropped(p) /\ p.kind = "error21" => Finished({p})
      /\ ~Dropped(p) /\ p.kind = "error" => Abandoned
      /\ ~Dropped(p) /\ p.kind = "data" /\ Complete(p) =>
            Finished(frames \union {p})
      /\ ~Dropped(p) /\ p.kind = "data" /\ ~Complete(p) =>
            /\ frames' = frames \union {p}
            /\ UNCHANGED <<phase, call, todo, asking, retries, reply>>
  BY ReplyEffect
<1>2. UNCHANGED <<serial, devices, owed>> /\ (damaged => damaged')
  BY <1>1 DEF known, Take
<1>3. CASE damaged' \/ serial[asking] # asking
  <2>1. ReadInv'
    <3>1. phase' = "reading" => serial'[asking'] = serial[asking] /\ asking' = asking
      BY <1>1, <1>2 DEF request, Finished, Abandoned
    <3> QED
      BY <1>3, <3>1 DEF ReadInv
  <2>2. \A answer : Finished(answer) => DoneInv'
    BY <1>1, <1>2, <1>3, FinishedWhole
  <2>3. UNCHANGED <<phase, call, todo, asking, reply>> => DoneInv'
    BY <1>2, DoneStays
  <2>4. ~Dropped(p) /\ p.kind = "error" => damaged'
    <3>1. p.kind # "raw" => p \in Sane
      BY <1>1, HeadIsSane DEF SessionInv
    <3>2. ~Dropped(p) => p.from = asking /\ p.from = serial[asking]
      BY <1>1, <3>1 DEF Dropped, Sane
    <3> QED
      BY <1>3, <3>2
  <2>5. ~Dropped(p) /\ p.kind = "error" => DoneInv'
    BY <1>1, <2>4, AbandonedDone
  <2> HIDE DEF p
  <2> QED
    BY <1>1, <2>1, <2>2, <2>3, <2>5 DEF request
<1>4. CASE ~damaged' /\ serial[asking] = asking
  <2>1. PICK kind \in {"data", "error21"}, n \in Sizes :
           \E m \in 1 .. n : \E j \in 0 .. m, h \in {0, 1} :
               Undisturbed(kind, n, m, j, h)
    BY <1>1, <1>2, <1>4 DEF ReadInv
  <2>2. PICK m \in 1 .. n : \E j \in 0 .. m, h \in {0, 1} :
           Undisturbed(kind, n, m, j, h)
    BY <2>1
  <2>3. PICK j \in 0 .. m, h \in {0, 1} : Undisturbed(kind, n, m, j, h)
    BY <2>2
  <2>4. m \in Nat \ {0} /\ n \in Nat \ {0}
    BY SizesAreNat
  <2>5. /\ kind = "error21" => n = 1
        /\ frames = {Piece(kind, k) : k \in m .. n - 1}
        /\ h = 1 => j < m
        /\ Owing(kind, j) /\ Streaming(kind, j, m, h) /\ InHand(kind, m, h)
    BY <2>3 DEF Undisturbed
  <2>6. CASE Dropped(p)
    <3>1. UNCHANGED <<phase, request>> /\ UNCHANGED <<asking, pcktId, call, frames>>
      BY <1>1, <2>6 DEF request
    <3>2. ~(j < m /\ p = Piece(kind, m - 1))
      BY <2>6, PieceIsAccepted
    <3>3. Streaming(kind, j, m, 0)' /\ InHand(kind, m, 0)'
      BY <1>1, <1>4, <2>4, <2>5, <3>1, <3>2, TakenUndisturbed DEF SessionInv
    <3>4. Owing(kind, j)'
      BY <1>2, <2>5, <3>1, OwingStays
    <3>5. \A k : Piece(kind, k)' = Piece(kind, k)
      BY <3>1, PieceStays
    <3>6. Undisturbed(kind, n, m, j, 0)'
      BY <2>5, <3>1, <3>3, <3>4, <3>5 DEF Undisturbed
    <3>7. ReadInv'
      BY <3>6 DEF ReadInv, Sizes
    <3> QED
      BY <1>2, <3>1, <3>7, DoneStays DEF request
  <2>7. CASE ~Dropped(p)
    <3>1. /\ j < m /\ p = Piece(kind, m - 1)
          /\ UNCHANGED <<asking, pcktId, call>> =>
                Streaming(kind, j, m - 1, 0)' /\ InHand(kind, m - 1, 0)'
      BY <1>1, <1>4, <2>4, <2>5, <2>7, TakenUndisturbed DEF SessionInv
    <3> HIDE DEF p
    <3>2. p.kind = kind /\ (Complete(p) <=> m = 1)
      BY <2>4, <3>1, PieceIsAccepted
    <3>3. frames \cup {p} = {Piece(kind, k) : k \in m - 1 .. n - 1}
      BY <2>4, <2>5, <3>1, OneMore
    <3>4. CASE kind = "error21"
      <4>1. n = 1 /\ m = 1
        BY <2>5, <3>4
      <4>2. {p} = Pieces(kind, n)
        BY <3>1, <4>1 DEF Pieces
      <4>3. {p} # {} /\ {q.left : q \in {p}} = 0 .. Cardinality({p}) - 1
        BY <2>4, <4>2, AllPieces
      <4>4. Finished({p})
        BY <1>1, <2>7, <3>2, <3>4
      <4>5. DoneInv'
        BY <1>1, <1>2, <4>3, <4>4, FinishedWhole
      <4> QED
        BY <4>4, <4>5 DEF Finished, ReadInv
    <3>5. CASE kind = "data" /\ m = 1
      <4> DEFINE A == frames \cup {p}
      <4>1. A = Pieces(kind, n)
        BY <3>3, <3>5 DEF Pieces
      <4>2. Finished(A)
        BY <1>1, <2>7, <3>2, <3>5
      <4> HIDE DEF A
      <4>3. A # {} /\ {q.left : q \in A} = 0 .. Cardinality(A) - 1
        BY <2>4, <4>1, AllPieces
      <4>4. DoneInv'
        BY <1>1, <1>2, <4>2, <4>3, FinishedWhole
      <4> QED
        BY <4>2, <4>4 DEF Finished, ReadInv
    <3>6. CASE kind = "data" /\ m # 1
      <4>1. /\ frames' = frames \union {p}
            /\ UNCHANGED <<phase, call, todo, asking, retries, reply>>
            /\ UNCHANGED <<asking, pcktId, call>>
        BY <1>1, <2>7, <3>2, <3>6
      <4>2. Owing(kind, j)'
        BY <1>2, <2>5, <4>1, OwingStays
      <4>3. \A k : Piece(kind, k)' = Piece(kind, k)
        BY <4>1, PieceStays
      <4>4. frames' = {Piece(kind, k)' : k \in m - 1 .. n - 1}
        BY <3>3, <4>1, <4>3
      <4>5. m - 1 \in 1 .. n /\ j \in 0 .. m - 1
        BY <2>4, <3>1, <3>6
      <4>6. Undisturbed(kind, n, m - 1, j, 0)'
        BY <3>1, <3>6, <4>1, <4>2, <4>4 DEF Undisturbed
      <4>7. ReadInv'
        BY <4>5, <4>6 DEF ReadInv, Sizes
      <4> QED
        BY <1>2, <4>1, <4>7, DoneStays
    <3> QED
      BY <3>4, <3>5, <3>6
  <2> QED
    BY <2>6, <2>7
<1> QED
  BY <1>3, <1>4

(* The frames of a packet.                                                 *)
LEMMA FramesOf ==
    ASSUME NEW P, NEW p \in P
    PROVE  /\ L1(p) \in Seq(Frames(P)) /\ Len(L1(p)) \in {1, 2}
           /\ \A i \in 1 .. Len(L1(p)) : L1(p)[i].of = p
           /\ p.from \in Splits => /\ Len(L1(p)) = 2 /\ L1(p)[1].part = "head"
                                   /\ L1(p)[2].part = "tail"
           /\ p.from \notin Splits => Len(L1(p)) = 1 /\ L1(p)[1].part = "whole"
<1> DEFINE f(part) == [part |-> part, of |-> p]
<1>1. \A part \in {"head", "tail", "whole"} :
         f(part) \in Frames(P) /\ f(part).of = p /\ f(part).part = part
  BY DEF Frames
<1>2. CASE p.from \in Splits
  <2>1. L1(p) = <<f("head"), f("tail")>>
    BY <1>2 DEF L1
  <2> HIDE DEF f
  <2> QED
    BY <1>1, <1>2, <2>1
<1>3. CASE p.from \notin Splits
  <2>1. L1(p) = <<f("whole")>>
    BY <1>3 DEF L1
  <2> HIDE DEF f
  <2> QED
    BY <1>1, <1>3, <2>1
<1> QED
  BY <1>2, <1>3

(* A packet that leaves its device was the next piece, or no piece.        *)
LEMMA OwingSent ==
    ASSUME ClientTypes, NetInv, NEW kind, NEW j \in Nat, Owing(kind, j),
           asking \in Devices, NEW d \in Devices, owed[d] # <<>>,
           owed' = [owed EXCEPT ![d] = Tail(owed[d])],
           UNCHANGED <<asking, pcktId, call>>
    PROVE  \/ Head(owed[d]).id # pcktId /\ Owing(kind, j)'
           \/ /\ d = asking /\ j >= 1 /\ Head(owed[d]) = Piece(kind, j - 1)
              /\ Owing(kind, j - 1)'
<1>1. /\ \A e \in Devices : Len(owed[e]) \in Nat
      /\ Len(owed[d]) \in Nat \ {0} /\ Head(owed[d]) = owed[d][1]
      /\ Len(owed'[d]) = Len(owed[d]) - 1
      /\ \A i \in 1 .. Len(owed'[d]) : owed'[d][i] = owed[d][i + 1]
      /\ \A e \in Devices : e # d => owed'[e] = owed[e]
  <2>1. owed'[d] = Tail(owed[d]) /\ \A e \in Devices : e # d => owed'[e] = owed[e]
    BY DEF NetInv
  <2>2. owed[d] \in Seq(Packets) /\ \A e \in Devices : Len(owed[e]) \in Nat
    BY StreamTypes
  <2>3. /\ Len(owed[d]) \in Nat \ {0} /\ Head(owed[d]) = owed[d][1]
        /\ Len(Tail(owed[d])) = Len(owed[d]) - 1
        /\ \A i \in 1 .. Len(owed[d]) - 1 : Tail(owed[d])[i] = owed[d][i + 1]
    BY <2>2, TailEffect
  <2> QED
    BY <2>1, <2>2, <2>3
<1>2. \A k : Piece(kind, k)' = Piece(kind, k)
  BY PieceStays
<1>3. CASE d # asking
  <2>1. Head(owed[d]).id # pcktId
    BY <1>1, <1>3 DEF Owing
  <2>2. ASSUME NEW e \in Devices \ {asking}, NEW i \in 1 .. Len(owed'[e])
        PROVE  owed'[e][i].id # pcktId
    <3>1. CASE e = d
      <4>1. i + 1 \in 1 .. Len(owed[d]) /\ owed'[e][i] = owed[d][i + 1]
        BY <1>1, <2>2, <3>1
      <4> QED
        BY <1>3, <4>1 DEF Owing
    <3>2. CASE e # d
      BY <1>1, <2>2, <3>2 DEF Owing
    <3> QED
      BY <3>1, <3>2
  <2>3. owed'[asking] = owed[asking]
    BY <1>1, <1>3
  <2>4. Owing(kind, j)'
    BY <1>2, <2>2, <2>3 DEF Owing
  <2> QED
    BY <2>1, <2>4
<1>4. CASE d = asking
  <2> DEFINE n == Len(owed[asking])
  <2>1. /\ n \in Nat \ {0} /\ Len(owed'[asking]) = n - 1 /\ j <= n
        /\ \A i \in 1 .. n :
              /\ i > n - j => owed[asking][i] = Piece(kind, n - i)
              /\ i <= n - j => owed[asking][i].id # pcktId
    BY <1>1, <1>4 DEF Owing
  <2>2. \A e \in Devices \ {asking} : \A i \in 1 .. Len(owed'[e]) :
           owed'[e][i].id # pcktId
    BY <1>1, <1>4 DEF Owing
  <2>3. ASSUME NEW i \in 1 .. n - 1
        PROVE  /\ i + 1 \in 1 .. n /\ owed'[asking][i] = owed[asking][i + 1]
               /\ n - (i + 1) = (n - 1) - i
    BY <1>1, <1>4, <2>1
  <2>4. CASE j = n
    <3>1. j >= 1 /\ Head(owed[d]) = Piece(kind, j - 1)
      BY <1>1, <1>4, <2>1, <2>4
    <3>2. ASSUME NEW i \in 1 .. n - 1
          PROVE  owed'[asking][i] = Piece(kind, (n - 1) - i)
      <4>1. i + 1 > n - j
        BY <2>1, <2>4
      <4> QED
        BY <2>1, <2>3, <4>1
    <3>3. Owing(kind, j - 1)'
      BY <1>2, <2>1, <2>2, <2>4, <3>2 DEF Owing
    <3> QED
      BY <1>4, <3>1, <3>3
  <2>5. CASE j # n
    <3>1. Head(owed[d]).id # pcktId
      BY <1>1, <1>4, <2>1, <2>5
    <3>2. ASSUME NEW i \in 1 .. n - 1
          PROVE  /\ i > (n - 1) - j =>
                       owed'[asking][i] = Piece(kind, (n - 1) - i)
                 /\ i <= (n - 1) - j => owed'[asking][i].id # pcktId
      <4>1. CASE i > (n - 1) - j
        <5>1. i + 1 > n - j /\ ~(i <= (n - 1) - j)
          BY <2>1, <4>1
        <5> QED
          BY <2>1, <2>3, <5>1
      <4>2. CASE i <= (n - 1) - j
        <5>1. i + 1 <= n - j /\ ~(i > (n - 1) - j)
          BY <2>1, <4>2
        <5> QED
          BY <2>1, <2>3, <5>1
      <4> QED
        BY <2>1, <4>1, <4>2
    <3>3. j <= n - 1
      BY <2>1, <2>5
    <3>4. Owing(kind, j)'
      BY <1>2, <2>1, <2>2, <3>2, <3>3 DEF Owing
    <3> QED
      BY <3>1, <3>4
  <2> QED
    BY <2>4, <2>5
<1> QED
  BY <1>3, <1>4

(* What comes in leaves the pieces in order.                               *)
LEMMA StreamingMore ==
    ASSUME ClientTypes, NetInv, NEW d \in Devices, Transmit(d),
           NEW kind, NEW m \in Nat, NEW j \in 0 .. m, NEW h \in {0, 1},
           h = 1 => j < m, Streaming(kind, j, m, h)
    PROVE  /\ Head(owed[d]).id # pcktId => Streaming(kind, j, m, h)'
           /\ d = asking /\ j >= 1 /\ Head(owed[d]) = Piece(kind, j - 1)
                 => Streaming(kind, j - 1, m, h)'
<1> DEFINE p == Head(owed[d])
           xs == L1(p)
<1>1. UNCHANGED <<asking, pcktId, call>> /\ owed[d] # <<>>
  BY DEF Transmit, request
<1>2. p \in Packets
  BY <1>1, StreamTypes, HeadTailProperties
<1> HIDE DEF p
<1>3. /\ xs \in Seq(Frames(Packets)) /\ Len(xs) \in {1, 2}
      /\ \A i \in 1 .. Len(xs) : xs[i].of = p
      /\ p.from \in Splits => /\ Len(xs) = 2 /\ xs[1].part = "head"
                              /\ xs[2].part = "tail"
      /\ p.from \notin Splits => Len(xs) = 1 /\ xs[1].part = "whole"
  BY <1>2, FramesOf
<1>4. PICK k \in 1 .. Len(stream) + 1 :
         /\ \A i \in k .. Len(stream) : stream[i].of.from # d
         /\ stream' = SubSeq(stream, 1, k - 1) \o <<xs[1]>>
                        \o SubSeq(stream, k, Len(stream)) \o Tail(xs)
  BY DEF Transmit, p
<1> HIDE DEF xs
<1>5. stream \in Seq(Frames(Packets)) /\ Len(stream) \in Nat
  BY StreamTypes
<1>6. Inserted(stream, stream', k, xs)
  BY <1>3, <1>4, <1>5, InsertEffect
<1>7. /\ \A i \in 1 .. Len(stream) : stream[i].of.id = pcktId =>
            stream[i].of = Piece(kind, stream[i].of.left)
      /\ Ordered(stream, pcktId, Parts, j, m, h)
  BY DEF Streaming
<1>8. Parts' = Parts /\ \A n : Piece(kind, n)' = Piece(kind, n)
  BY <1>1, PieceStays DEF Parts
<1>9. ASSUME p.id = pcktId => p = Piece(kind, p.left),
             NEW i \in 1 .. Len(stream'), stream'[i].of.id = pcktId
      PROVE  stream'[i].of = Piece(kind, stream'[i].of.left)
  <2>1. CASE Came(stream, k, xs, i)
    <3>1. stream'[i] = xs[1] \/ (Len(xs) = 2 /\ stream'[i] = xs[2])
      BY <1>6, <2>1 DEF Came, Inserted
    <3>2. stream'[i].of = p
      BY <1>3, <3>1
    <3> QED
      BY <1>9, <3>2
  <2>2. CASE \E l \in 1 .. Len(stream) : stream'[i] = stream[l]
    BY <1>7, <1>9, <2>2
  <2> QED
    BY <1>3, <1>5, <1>6, <2>1, <2>2, Places
<1>10. ASSUME p.id # pcktId PROVE Streaming(kind, j, m, h)'
  <2>1. \A i \in 1 .. Len(xs) : xs[i].of.id # pcktId
    BY <1>3, <1>10
  <2>2. Ordered(stream', pcktId, Parts, j, m, h)
    BY <1>3, <1>5, <1>6, <1>7, <2>1, OrderedBeside
  <2> QED
    BY <1>1, <1>8, <1>9, <1>10, <2>2 DEF Streaming
<1>11. ASSUME d = asking, j >= 1, p = Piece(kind, j - 1)
       PROVE  Streaming(kind, j - 1, m, h)'
  <2>1. p.id = pcktId /\ p.left = j - 1 /\ p.from = asking
    BY <1>11, PieceFields
  <2>2. \A i \in 1 .. Len(xs) : xs[i].of.id = pcktId /\ xs[i].of.left = j - 1
    BY <1>3, <2>1
  <2>3. ASSUME NEW i \in k .. Len(stream) PROVE stream[i].of.id # pcktId
    <3>1. stream[i].of.from # asking /\ i \in 1 .. Len(stream)
      BY <1>4, <1>5, <1>11
    <3> QED
      BY <1>7, <3>1, PieceFields
  <2>4. \/ /\ Parts = {"head", "tail"} /\ Len(xs) = 2
           /\ xs[1].part = "head" /\ xs[2].part = "tail"
        \/ Parts = {"whole"} /\ Len(xs) = 1 /\ xs[1].part = "whole"
    BY <1>3, <2>1, PartsType
  <2>5. j \in 1 .. m
    BY <1>11
  <2>6. Extends(stream, stream', k, xs, pcktId, Parts, m, j, h)
    BY <1>3, <1>5, <1>6, <1>11, <2>2, <2>3, <2>4, <2>5 DEF Extends
  <2>7. Ordered(stream', pcktId, Parts, j - 1, m, h)
    BY <1>7, <2>6, OrderedMore
  <2> QED
    BY <1>1, <1>8, <1>9, <1>11, <2>1, <2>7 DEF Streaming
<1> QED
  BY <1>10, <1>11 DEF p

LEMMA TransmitReads ==
    ASSUME SessionInv, ReadInv, NEW d \in Devices, Transmit(d) PROVE ReadInv'
<1>1. /\ UNCHANGED <<asking, pcktId, call, phase, serial, damaged, frames, l2>>
      /\ owed[d] # <<>> /\ owed' = [owed EXCEPT ![d] = Tail(owed[d])]
  BY DEF Transmit, request, known
<1> SUFFICES ASSUME phase = "reading", ~damaged, serial[asking] = asking
             PROVE  \E kind \in {"data", "error21"}, n \in Sizes :
                    \E m \in 1 .. n : \E j \in 0 .. m, h \in {0, 1} :
                        Undisturbed(kind, n, m, j, h)'
  BY <1>1 DEF ReadInv, Sizes
<1>2. PICK kind \in {"data", "error21"}, n \in Sizes :
         \E m \in 1 .. n : \E j \in 0 .. m, h \in {0, 1} :
             Undisturbed(kind, n, m, j, h)
  BY DEF ReadInv
<1>3. PICK m \in 1 .. n : \E j \in 0 .. m, h \in {0, 1} :
         Undisturbed(kind, n, m, j, h)
  BY <1>2
<1>4. PICK j \in 0 .. m, h \in {0, 1} : Undisturbed(kind, n, m, j, h)
  BY <1>3
<1>5. m \in Nat /\ j \in Nat /\ asking \in Devices /\ ClientTypes /\ NetInv
  BY SizesAreNat DEF SessionInv, FrameInv
<1>6. /\ h = 1 => j < m
      /\ Owing(kind, j) /\ Streaming(kind, j, m, h) /\ InHand(kind, m, h)
  BY <1>4 DEF Undisturbed
<1>7. \/ Head(owed[d]).id # pcktId /\ Owing(kind, j)'
      \/ /\ d = asking /\ j >= 1 /\ Head(owed[d]) = Piece(kind, j - 1)
         /\ Owing(kind, j - 1)'
  BY <1>1, <1>5, <1>6, OwingSent
<1>8. PICK i \in 0 .. m : i <= j /\ Owing(kind, i)' /\ Streaming(kind, i, m, h)'
  <2>1. CASE Head(owed[d]).id # pcktId /\ Owing(kind, j)'
    BY <1>5, <1>6, <2>1, StreamingMore
  <2>2. CASE /\ d = asking /\ j >= 1 /\ Head(owed[d]) = Piece(kind, j - 1)
             /\ Owing(kind, j - 1)'
    <3>1. Streaming(kind, j - 1, m, h)' /\ j - 1 \in 0 .. m /\ j - 1 <= j
      BY <1>5, <1>6, <2>2, StreamingMore
    <3> QED
      BY <2>2, <3>1
  <2> QED
    BY <1>7, <2>1, <2>2
<1>9. \A k : Piece(kind, k)' = Piece(kind, k)
  BY <1>1, PieceStays
<1>10. InHand(kind, m, h)'
  BY <1>1, <1>6, <1>9 DEF InHand
<1>11. h = 1 => i < m
  BY <1>5, <1>6, <1>8
<1>12. Undisturbed(kind, n, m, i, h)'
  BY <1>1, <1>4, <1>8, <1>9, <1>10, <1>11 DEF Undisturbed
<1> QED
  BY <1>12

(* What a device answers a data request with: n pieces, or one refusal.    *)
KindOf(n) == IF n = 0 THEN "error21" ELSE "data"
SizeOf(n) == IF n = 0 THEN 1 ELSE n

LEMMA AnswerEffect ==
    ASSUME ClientTypes, NEW d \in Devices, NEW id \in Nat, NEW n \in Nat
    PROVE  LET a == Answer(d, "data", id, n)
           IN  /\ a \in Seq(Packets) /\ Len(a) = SizeOf(n)
               /\ \A i \in 1 .. SizeOf(n) :
                     a[i] = Packet(d, KindOf(n), id, SizeOf(n) - i)
<1> DEFINE a == Answer(d, "data", id, n)
<1>1. \A k \in {"data", "error21"}, left \in Nat :
         Packet(d, k, id, left) \in Packets
  BY DEF Packet, Packets, Kinds, ClientTypes
<1>2. a \in Seq(Packets)
  BY <1>1, AnswerSeq
<1>3. CASE n = 0
  <2>1. a = <<Packet(d, "error21", id, 0)>>
    BY <1>3 DEF Answer
  <2>2. SizeOf(n) = 1 /\ KindOf(n) = "error21"
    BY <1>3 DEF SizeOf, KindOf
  <2> HIDE DEF a
  <2> QED
    BY <1>2, <2>1, <2>2 DEF a
<1>4. CASE n # 0
  <2>1. a = [i \in 1 .. n |-> Packet(d, "data", id, n - i)]
    BY <1>4 DEF Answer
  <2>2. SizeOf(n) = n /\ KindOf(n) = "data"
    BY <1>4 DEF SizeOf, KindOf
  <2> HIDE DEF a
  <2>3. Len(a) = n
    BY <1>2, <2>1
  <2> QED
    BY <1>2, <2>1, <2>2, <2>3 DEF a
<1> QED
  BY <1>3, <1>4

(* An attempt to reach a device under its own serial number begins         *)
(* undisturbed: nothing that is on its way has the new identifier.         *)
LEMMA AskReads ==
    ASSUME SessionInv, Ask PROVE ReadInv'
<1>1. PICK d \in todo : Attempt(d, MaxRetry)
  BY DEF Ask
<1> SUFFICES ASSUME serial'[asking'] = asking'
             PROVE  \E kind \in {"data", "error21"}, n \in Sizes :
                    \E m \in 1 .. n : \E j \in 0 .. m, h \in {0, 1} :
                        Undisturbed(kind, n, m, j, h)'
  BY DEF ReadInv, Sizes
<1>2. /\ ClientTypes /\ NetInv /\ d \in Devices /\ asking' = d /\ frames' = {}
      /\ UNCHANGED <<serial, call, stream, l2>> /\ serial[d] = d
  BY <1>1 DEF SessionInv, ClientTypes, Attempt, Ask, known
<1>3. PICK n \in Fragments \cup {0} : Send({d}, "data", n)
  <2>1. {serial[d]} \ {Unknown} = {d}
    BY <1>2, BluetoothAssumption
  <2> QED
    BY <1>1, <2>1 DEF Attempt
<1> DEFINE kind == KindOf(n)
           size == SizeOf(n)
<1>4. /\ n \in Nat /\ kind \in {"data", "error21"}
      /\ size \in Sizes /\ size \in Nat \ {0} /\ (kind = "error21" => size = 1)
  BY BluetoothAssumption DEF KindOf, SizeOf, Sizes
<1> HIDE DEF kind, size
<1>5. /\ pcktId \in Nat /\ pcktId' = pcktId + 1
      /\ owed' = [e \in Devices |->
                    IF e \in {d} THEN owed[e] \o Answer(e, "data", pcktId + 1, n)
                    ELSE owed[e]]
  BY <1>2, <1>3 DEF Send, ClientTypes
<1>6. \A k : Piece(kind, k)' = Packet(d, kind, pcktId + 1, k)
  BY <1>2, <1>5, Zenon DEF Piece, Packet
<1> DEFINE a == Answer(d, "data", pcktId + 1, n)
<1>7. /\ a \in Seq(Packets) /\ Len(a) = size
      /\ \A i \in 1 .. size : a[i] = Packet(d, kind, pcktId + 1, size - i)
  <2>1. pcktId + 1 \in Nat
    BY <1>5
  <2> QED
    BY <1>2, <1>4, <2>1, AnswerEffect DEF kind, size
<1> HIDE DEF a
<1>8. owed'[d] = owed[d] \o a /\ \A e \in Devices : e # d => owed'[e] = owed[e]
  BY <1>2, <1>5 DEF a
<1> DEFINE l == Len(owed[d])
<1>9. /\ owed[d] \in Seq(Packets) /\ l \in Nat
      /\ \A e \in Devices : \A i \in 1 .. Len(owed[e]) :
            owed[e][i].id \in Nat /\ owed[e][i].id <= pcktId
  BY <1>2, StreamTypes
<1>10. /\ Len(owed'[d]) = l + size
       /\ \A i \in 1 .. l : owed'[d][i] = owed[d][i]
       /\ \A i \in l + 1 .. l + size : owed'[d][i] = a[i - l]
  <2>1. /\ Len(owed[d] \o a) = Len(owed[d]) + Len(a)
        /\ \A i \in 1 .. Len(owed[d]) + Len(a) :
              (owed[d] \o a)[i] = IF i <= Len(owed[d]) THEN owed[d][i]
                                  ELSE a[i - Len(owed[d])]
    <3>1. owed[d] \in Seq(Packets) /\ a \in Seq(Packets)
      BY <1>7, <1>9
    <3> QED
      BY <3>1, ConcatProperties
  <2> HIDE DEF l
  <2>2. Len(owed'[d]) = l + size
    BY <1>7, <1>8, <2>1 DEF l
  <2>3. \A i \in 1 .. l : i <= l /\ i \in 1 .. l + size
    BY <1>4, <1>9
  <2>4. \A i \in l + 1 .. l + size : ~(i <= l) /\ i \in 1 .. l + size
    BY <1>4, <1>9
  <2> QED
    BY <1>7, <1>8, <2>1, <2>2, <2>3, <2>4 DEF l
<1> HIDE DEF l
<1>11. Owing(kind, size)'
  <2>1. \A e \in Devices \ {d} : \A i \in 1 .. Len(owed'[e]) :
           owed'[e][i].id # pcktId'
    BY <1>5, <1>8, <1>9
  <2>2. size <= Len(owed'[d])
    BY <1>4, <1>9, <1>10
  <2>3. ASSUME NEW i \in 1 .. Len(owed'[d]), i > Len(owed'[d]) - size
        PROVE  owed'[d][i] = Packet(d, kind, pcktId + 1, Len(owed'[d]) - i)
    <3>1. /\ i \in l + 1 .. l + size /\ i - l \in 1 .. size
          /\ size - (i - l) = Len(owed'[d]) - i
      BY <1>4, <1>9, <1>10, <2>3
    <3> QED
      BY <1>7, <1>10, <3>1
  <2>4. ASSUME NEW i \in 1 .. Len(owed'[d]), i <= Len(owed'[d]) - size
        PROVE  owed'[d][i].id # pcktId'
    <3>1. i \in 1 .. l
      BY <1>4, <1>9, <1>10, <2>4
    <3>2. owed[d][i].id <= pcktId /\ owed[d][i].id \in Nat
      BY <1>2, <1>9, <3>1 DEF l
    <3>3. owed'[d][i] = owed[d][i]
      BY <1>10, <3>1
    <3>4. owed[d][i].id # pcktId'
      BY <1>5, <3>2
    <3> QED
      BY <3>3, <3>4
  <2> QED
    BY <1>2, <1>6, <2>1, <2>2, <2>3, <2>4 DEF Owing
<1>12. \A i \in 1 .. Len(stream') : stream'[i].of.id # pcktId'
  BY <1>2, <1>5, StreamTypes
<1>13. Streaming(kind, size, size, 0)'
  <2>1. size .. size - 1 = {}
    BY <1>4
  <2> QED
    BY <1>12, <2>1 DEF Streaming, Ordered, InRange, InSequence, Present
<1>14. InHand(kind, size, 0)'
  <2>1. l2 # Nothing => l2.of.id \in Nat /\ l2.of.id <= pcktId
    BY <1>2 DEF NetInv, Frames, Sane, Packets
  <2> QED
    BY <1>2, <1>5, <2>1 DEF InHand
<1>15. frames' = {Piece(kind, k)' : k \in size .. size - 1}
  <2>1. size .. size - 1 = {}
    BY <1>4
  <2> QED
    BY <1>2, <2>1
<1>16. Undisturbed(kind, size, size, size, 0)'
  BY <1>4, <1>11, <1>13, <1>14, <1>15 DEF Undisturbed
<1>17. size \in 1 .. size /\ size \in 0 .. size
  BY <1>4
<1> QED
  BY <1>4, <1>16, <1>17

LEMMA AskDone ==
    ASSUME DoneInv, Ask PROVE DoneInv'
<1>1. /\ phase = "asking" /\ phase' = "reading" /\ asking' \in todo
      /\ UNCHANGED <<devices, serial, call, todo, reply, damaged>>
  BY DEF Ask, Attempt, known
<1>2. \A d : Whole(d)' <=> Whole(d)
  BY <1>1 DEF Whole
<1> QED
  BY <1>1, <1>2 DEF DoneInv

(* While an answer is read undisturbed an empty stream says that the       *)
(* device still owes the rest of it, so a timeout does disturb it.         *)
LEMMA SilenceShows ==
    ASSUME SessionInv, ReadInv, phase = "reading", stream = <<>>,
           serial[asking] = asking, ~damaged
    PROVE  \E d \in Devices : owed[d] # <<>>
<1>1. PICK kind \in {"data", "error21"}, n \in Sizes :
         \E m \in 1 .. n : \E j \in 0 .. m, h \in {0, 1} :
             Undisturbed(kind, n, m, j, h)
  BY DEF ReadInv
<1>2. PICK m \in 1 .. n : \E j \in 0 .. m, h \in {0, 1} :
         Undisturbed(kind, n, m, j, h)
  BY <1>1
<1>3. PICK j \in 0 .. m, h \in {0, 1} : Undisturbed(kind, n, m, j, h)
  BY <1>2
<1>4. m \in Nat \ {0} /\ asking \in Devices
  BY SizesAreNat DEF SessionInv, FrameInv
<1>5. CASE j = 0
  <2>1. Present(stream, pcktId, Parts, j, m, h)
    BY <1>3 DEF Undisturbed, Streaming, Ordered
  <2>2. PICK part \in Parts : part # "head"
    <3>1. "tail" \in Parts \/ "whole" \in Parts
      BY PartsType
    <3> QED
      BY <3>1
  <2>3. m - 1 \in j .. m - 1
    BY <1>4, <1>5
  <2>4. PICK i \in 1 .. Len(stream) : stream[i].of.left = m - 1
    BY <2>1, <2>2, <2>3 DEF Present
  <2>5. Len(stream) = 0
    OBVIOUS
  <2> QED
    BY <2>4, <2>5
<1>6. CASE j # 0
  <2>1. j <= Len(owed[asking])
    BY <1>3 DEF Undisturbed, Owing
  <2>2. ASSUME owed[asking] = <<>> PROVE FALSE
    <3>1. Len(owed[asking]) = 0
      BY <2>2
    <3> QED
      BY <1>6, <2>1, <3>1
  <2> QED
    BY <1>4, <2>2
<1> QED
  BY <1>5, <1>6

LEMMA SilenceDisturbs ==
    ASSUME SessionInv, ReadInv, phase = "reading", Silence, ~damaged',
           serial[asking] = asking, damaged => damaged'
    PROVE  FALSE
<1>1. CASE Failure
  BY <1>1 DEF Failure
<1>2. CASE ~Failure
  <2>1. stream = <<>> /\ ~\E d \in Devices : owed[d] # <<>>
    BY <1>2 DEF Silence
  <2> QED
    BY <2>1, SilenceShows
<1> QED
  BY <1>1, <1>2

LEMMA SilenceGrows == Silence \/ Failure => (damaged => damaged')
BY DEF Silence, Failure

LEMMA ReplyTimeoutReads ==
    ASSUME SessionInv, ReadInv, DoneInv, ReplyTimeout PROVE ReadInv' /\ DoneInv'
<1>1. /\ phase = "reading" /\ Silence /\ Finished(frames)
      /\ UNCHANGED <<devices, serial>>
  BY DEF ReplyTimeout, known
<1>2. damaged => damaged'
  BY <1>1, SilenceGrows
<1>3. ~(~damaged' /\ serial[asking] = asking)
  BY <1>1, <1>2, SilenceDisturbs
<1>4. DoneInv'
  BY <1>1, <1>2, <1>3, FinishedWhole
<1> QED
  BY <1>1, <1>4 DEF Finished, ReadInv

LEMMA RetryReads ==
    ASSUME SessionInv, ReadInv, DoneInv, Retry PROVE ReadInv' /\ DoneInv'
<1>1. /\ phase = "reading" /\ phase' = "reading" /\ Silence
      /\ UNCHANGED <<asking, devices, serial, call, todo, reply>>
  BY DEF Retry, Attempt, known
<1>2. damaged => damaged'
  BY <1>1, SilenceGrows
<1>3. ~(~damaged' /\ serial[asking] = asking)
  BY <1>1, <1>2, SilenceDisturbs
<1>4. DoneInv'
  BY <1>1, <1>2, DoneStays
<1> QED
  BY <1>1, <1>3, <1>4 DEF ReadInv

(* Out of step nothing is promised.                                        *)
LEMMA MisreadReads ==
    ASSUME DoneInv, Misread PROVE ReadInv' /\ DoneInv'
<1>1. /\ damaged' /\ UNCHANGED <<call, todo, asking, devices, serial, reply>>
      /\ \/ phase' = phase
         \/ phase \in {"clock", "verify"} /\ phase' \in {"ready", "write"}
  BY DEF Misread, known, request
<1>2. DoneInv'
  BY <1>1 DEF DoneInv
<1> QED
  BY <1>1, <1>2 DEF ReadInv

LEMMA BrokenReads ==
    ASSUME DoneInv, Broken PROVE ReadInv' /\ DoneInv'
<1>1. damaged'
  BY DEF Broken, Failure
<1>2. CASE Abandoned
  BY <1>1, <1>2, AbandonedDone
<1>3. CASE ~Abandoned
  <2>1. phase \in {"login", "write"} /\ phase' \in {"failed", "ready"} /\ call' = call
    BY <1>3 DEF Broken, request
  <2> QED
    BY <2>1 DEF ReadInv, DoneInv
<1> QED
  BY <1>2, <1>3

LEMMA RequestReads == ASSUME Request PROVE ReadInv' /\ DoneInv'
<1>1. phase' = "asking" /\ devices' \ todo' = {}
  BY DEF Request, known
<1> QED
  BY <1>1 DEF ReadInv, DoneInv

LEMMA FaultReads ==
    ASSUME DoneInv, NEW d \in Devices, Fault(d) PROVE ReadInv' /\ DoneInv'
<1>1. /\ damaged'
      /\ UNCHANGED <<phase, call, todo, asking, devices, serial, reply>>
  BY DEF Fault, known, request
<1>2. DoneInv'
  BY <1>1, DoneStays
<1> QED
  BY <1>1, <1>2 DEF ReadInv

(* Outside of a request no answer is awaited.                              *)
LEMMA QuietReads ==
    ASSUME phase' # "reading", call' = 0 \/ phase' = "failed"
    PROVE  ReadInv' /\ DoneInv'
BY DEF ReadInv, DoneInv

Quiet ==
    \/ Begin
    \/ IdentifyMis \/ IdentifySingle \/ IdentifyTimeout
    \/ Login \/ LoginReply \/ LoginTimeout \/ LoginDone
    \/ ClockRead \/ ClockAnswer \/ ClockWrite \/ ClockVerified \/ ClockTimeout
    \/ End

LEMMA QuietStep ==
    ASSUME DoneInv, Quiet
    PROVE  phase' # "reading" /\ (call' = 0 \/ phase' = "failed")
<1>1. CASE Begin
  BY <1>1 DEF Begin, request, DoneInv
<1>2. CASE IdentifyMis
  BY <1>2 DEF IdentifyMis, request, DoneInv
<1>3. CASE IdentifySingle
  BY <1>3 DEF IdentifySingle, request, DoneInv
<1>4. CASE IdentifyTimeout
  BY <1>4 DEF IdentifyTimeout, request, DoneInv
<1>5. CASE Login
  BY <1>5 DEF Login, request, DoneInv
<1>6. CASE LoginReply
  BY <1>6 DEF LoginReply, request, DoneInv
<1>7. CASE LoginTimeout
  BY <1>7 DEF LoginTimeout, request, DoneInv
<1>8. CASE LoginDone
  BY <1>8 DEF LoginDone, request, DoneInv
<1>9. CASE ClockRead
  BY <1>9 DEF ClockRead, request, DoneInv
<1>10. CASE ClockAnswer
  BY <1>10 DEF ClockAnswer, request, DoneInv
<1>11. CASE ClockWrite
  BY <1>11 DEF ClockWrite, request, DoneInv
<1>12. CASE ClockVerified
  BY <1>12 DEF ClockVerified, request, DoneInv
<1>13. CASE ClockTimeout
  BY <1>13 DEF ClockTimeout, request, DoneInv
<1>14. CASE End
  BY <1>14 DEF End
<1> QED
  BY <1>1, <1>2, <1>3, <1>4, <1>5, <1>6, <1>7, <1>8, <1>9, <1>10, <1>11,
     <1>12, <1>13, <1>14 DEF Quiet

LEMMA ReadStays ==
    ASSUME ReadInv, DoneInv, UNCHANGED vars PROVE ReadInv' /\ DoneInv'
<1>1. /\ UNCHANGED <<phase, call, todo, asking, devices, serial, reply, damaged>>
      /\ UNCHANGED <<stream, owed, l2, frames, pcktId>>
  BY DEF vars, known, request, net
<1>2. DoneInv'
  BY <1>1, DoneStays
<1>3. \A kind, k : Piece(kind, k)' = Piece(kind, k)
  BY <1>1, PieceStays
<1>4. \A kind, n, m, j, h : Undisturbed(kind, n, m, j, h)'
                               = Undisturbed(kind, n, m, j, h)
  BY <1>1, <1>3 DEF Undisturbed, Owing, Streaming, InHand, Parts
<1> QED
  BY <1>1, <1>2, <1>4 DEF ReadInv, Sizes

LEMMA WholeStep ==
    SessionInv /\ ReadInv /\ DoneInv /\ [Next]_vars => ReadInv' /\ DoneInv'
<1> SUFFICES ASSUME SessionInv, ReadInv, DoneInv, [Next]_vars
             PROVE  ReadInv' /\ DoneInv'
  OBVIOUS
<1>1. CASE Quiet
  BY <1>1, QuietStep, QuietReads
<1>2. CASE ReadPart
  <2>1. UNCHANGED <<phase, call, todo, asking, devices, serial, reply>>
    BY <1>2 DEF ReadPart, known, request
  <2>2. damaged => damaged'
    BY <1>2 DEF ReadPart, Take
  <2> QED
    BY <1>2, <2>1, <2>2, ReadPartReads, DoneStays
<1>3. CASE Request
  BY <1>3, RequestReads
<1>4. CASE Ask
  BY <1>4, AskReads, AskDone
<1>5. CASE ReplyPacket
  BY <1>5, ReplyPacketReads
<1>6. CASE ReplyTimeout
  BY <1>6, ReplyTimeoutReads
<1>7. CASE Retry
  BY <1>7, RetryReads
<1>8. ASSUME NEW d \in Devices, Transmit(d) PROVE ReadInv' /\ DoneInv'
  <2>1. UNCHANGED <<phase, call, todo, asking, devices, serial, reply, damaged>>
    BY <1>8 DEF Transmit, known, request
  <2>2. DoneInv'
    BY <2>1, DoneStays
  <2> QED
    BY <1>8, <2>2, TransmitReads
<1>9. ASSUME NEW d \in Devices, Fault(d) PROVE ReadInv' /\ DoneInv'
  BY <1>9, FaultReads
<1>10. CASE UNCHANGED vars
  BY <1>10, ReadStays
<1>11. CASE Misread
  BY <1>11, MisreadReads
<1>12. CASE Broken
  BY <1>12, BrokenReads
<1> QED
  BY <1>1, <1>2, <1>3, <1>4, <1>5, <1>6, <1>7, <1>8, <1>9, <1>10, <1>11, <1>12
     DEF Next, Client, Quiet

(* request() returns for every device whose serial number was learnt a     *)
(* whole answer, unless something was lost, damaged or late in this        *)
(* request, or another device's frame came between the two of a packet.    *)
(* request_device() never stops reading early, drops a packet of its own   *)
(* answer, or asks again while the answer is still to come.                *)
THEOREM AnswersAreWhole == Spec => []IncompleteOnlyWhenDamaged
<1>1. Init => ReadInv /\ DoneInv
  BY DEF Init, ReadInv, DoneInv
<1>2. DoneInv => IncompleteOnlyWhenDamaged
  <2> SUFFICES ASSUME DoneInv, phase = "ready", call > 0, ~damaged,
                      NEW d \in devices, serial[d] = d
               PROVE  Whole(d)
    BY DEF IncompleteOnlyWhenDamaged, Whole
  <2> QED
    BY DEF DoneInv
<1> QED
  BY <1>1, <1>2, WholeStep, Inductive, PTL DEF Spec

=============================================================================
