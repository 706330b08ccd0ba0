----------------------------- MODULE Bluetooth -----------------------------
(***************************************************************************)
(* One Bluetooth session of smalog-connection/src/bluetooth.rs: connect    *)
(* and identify, login, data requests device by device, clock reads, end.  *)
(*                                                                         *)
(* All devices answer over one RFCOMM stream, which keeps the order of     *)
(* what it carries.  Behind it a device may be silent, slow, or heard      *)
(* badly, so a reply can come after the reader gave up on it and is then   *)
(* read in place of the next one.  A long SMA packet is split over two L1  *)
(* frames, between which frames of other devices may come.  A frame itself *)
(* is read in two parts, so a timeout inside it leaves its rest first in   *)
(* the stream, where the next read takes it for a frame.                   *)
(***************************************************************************)
EXTENDS Integers, Sequences, FiniteSets

CONSTANTS
    Devices,     \* inverters on the Bluetooth network
    Mis,         \* values of mis_enabled
    Fragments,   \* packets a device's answer to a data request may take
    Splits,      \* devices whose packets take two L1 frames
    Refusing,    \* devices that may answer SMA error 21 to a data request
    MaxRetry,    \* MAX_RETRY
    MaxCalls,    \* bound on requests of a session
    MaxStream,   \* bound on unread frames in the stream
    MaxFaults    \* bound on lost and damaged packets, failed and torn reads

Unknown == "unknown"

ASSUME BluetoothAssumption ==
    /\ Devices # {} /\ IsFiniteSet(Devices) /\ Unknown \notin Devices
    /\ Mis \subseteq BOOLEAN /\ Mis # {}
    /\ Fragments \subseteq Nat \ {0} /\ Fragments # {}
    /\ Splits \subseteq Devices /\ Refusing \subseteq Devices
    /\ MaxRetry \in Nat \ {0} /\ MaxCalls \in Nat
    /\ MaxStream \in Nat \ {0} /\ MaxFaults \in Nat

VARIABLES
    mis,        \* mis_enabled of the connection
    phase,      \* what the client is doing
    devices,    \* BluetoothConnection.devices, by Bluetooth address
    serial,     \* BtDevice.serial of a device: Unknown until learnt
    pcktId,     \* BtClient.pckt_id
    expected,   \* replies a loop of init() or logon() still reads
    confirmed,  \* logon() was confirmed by somebody
    call,       \* number of the request being made
    todo,       \* devices request() has not finished with
    asking,     \* the device request_device() talks to
    retries,    \* its attempts left
    frames,     \* the packets accepted in this attempt
    reply,      \* BtRequestReply: packets, or the refusal, by address
    verify,     \* what set_plant_time_v2() took for the clock it had set
    l2,         \* get_packet(): the frame that opened the packet in flight
    stream,     \* L1 frames received and not read
    owed,       \* what each device still has to send
    faults,     \* bound on faults
    damaged     \* history: something went wrong with an answer of this call

net == <<l2, stream, owed, faults, damaged>>
known == <<mis, devices, serial, confirmed>>
request == <<call, todo, asking, retries, frames, reply>>
vars == <<known, phase, pcktId, expected, request, verify, net>>

Nothing == [kind |-> "nothing"]

(* A device's answer to a packet: identify and login take one packet, a    *)
(* data request the n fragments left = n - 1 .. 0, or for n = 0 error 21.  *)
Packet(d, kind, id, left) ==
    [from |-> d, kind |-> kind, id |-> id, left |-> left, call |-> call,
     ok |-> TRUE]

Answer(d, kind, id, n) ==
    IF n = 0 THEN <<Packet(d, "error21", id, 0)>>
    ELSE [i \in 1 .. n |-> Packet(d, kind, id, n - i)]

(* The L1 frames of a packet, and what is left of one that was torn.       *)
L1(p) ==
    IF p.from \in Splits
    THEN <<[part |-> "head", of |-> p], [part |-> "tail", of |-> p]>>
    ELSE <<[part |-> "whole", of |-> p]>>

Rest(x) == [part |-> "rest", of |-> x.of]
Torn == stream # <<>> /\ Head(stream).part = "rest"

----------------------------------------------------------------------------
(* get_packet(): one L1 frame more.  The bytes of any frame that does not  *)
(* open a packet are appended to the one in flight, whoever sent them; the *)
(* checksum tells whether the result is one packet.                        *)

Opens(x) == x.part # "tail"
Closes(x) == x.part # "head"

Assembled(x) ==
    IF x.part = "whole" THEN x.of
    ELSE IF l2 = Nothing THEN [x.of EXCEPT !.kind = "raw", !.id = 0]
         ELSE [l2.of EXCEPT !.ok = @ /\ x.of = l2.of]

InFlight(x) == IF Closes(x) THEN Nothing ELSE x

(* A frame that ends the packet in flight without completing it.           *)
Interrupts(x) == IF l2 = Nothing THEN ~Opens(x) ELSE Opens(x) \/ x.of # l2.of

----------------------------------------------------------------------------
Init ==
    /\ mis \in Mis
    /\ phase = "closed"
    /\ devices = {}
    /\ serial = [d \in Devices |-> Unknown]
    /\ pcktId = 0
    /\ expected = 0
    /\ confirmed = FALSE
    /\ call = 0
    /\ todo = {}
    /\ asking = Unknown
    /\ retries = 0
    /\ frames = {}
    /\ reply = <<>>
    /\ verify = Nothing
    /\ l2 = Nothing
    /\ stream = <<>>
    /\ owed = [d \in Devices |-> <<>>]
    /\ faults = 0
    /\ damaged = FALSE

(* Send a packet under next_pckt_id(); the devices of To answer it, if     *)
(* they answer at all, with n packets each.                                *)
Send(To, kind, N) ==
    /\ pcktId' = pcktId + 1
    /\ owed' = [d \in Devices |->
                  IF d \in To THEN owed[d] \o Answer(d, kind, pcktId + 1, N)
                  ELSE owed[d]]

(* begin(): connect and the handshake up to the identify broadcast.  With  *)
(* MIS the topology reply names the devices (an empty one is an error);    *)
(* without, whoever answers the broadcast first is the device.             *)
Begin ==
    /\ phase = "closed"
    /\ IF mis
       THEN \E found \in SUBSET Devices \ {{}} :
              devices' = found /\ expected' = Cardinality(found)
       ELSE devices' = {} /\ expected' = MaxRetry
    /\ serial' = [d \in Devices |-> Unknown]
    /\ Send(Devices, "identify", 1)
    /\ phase' = "identify"
    /\ UNCHANGED <<mis, confirmed, request, verify, l2, stream, faults, damaged>>

(* Take the next L1 frame of the stream.                                   *)
Take ==
    /\ stream # <<>> /\ ~Torn
    /\ stream' = Tail(stream)
    /\ l2' = InFlight(Head(stream))
    /\ damaged' = (damaged \/ Interrupts(Head(stream)))
    /\ UNCHANGED <<owed, faults>>

(* The frame left the packet in flight incomplete: read on.                *)
ReadPart ==
    /\ phase \in {"identify", "login", "reading", "clock", "verify"}
    /\ Take
    /\ ~Closes(Head(stream))
    /\ UNCHANGED <<known, phase, pcktId, expected, request, verify>>

(* A read or a send fails, or a read times out on what the stream holds:   *)
(* that is still on its way, the first frame of it perhaps come in part.   *)
(* read_exact() drops that part, get_packet() a header without its body    *)
(* and a packet in flight.                                                 *)
Failure ==
    /\ faults < MaxFaults
    /\ faults' = faults + 1
    /\ \/ UNCHANGED stream
       \/ stream # <<>> /\ stream' = <<Rest(Head(stream))>> \o Tail(stream)
    /\ damaged' = TRUE
    /\ l2' = Nothing

(* get_packet() gives up after BT_TIMEOUT: nothing came, and replies still *)
(* on their way will be late; or the reader was out of step, and waited    *)
(* for a length that was none until it had swallowed all that came.        *)
Silence ==
    \/ Failure
    \/ /\ stream = <<>> \/ Torn
       /\ stream' = <<>>
       /\ damaged' = (damaged \/ Torn \/ \E d \in Devices : owed[d] # <<>>)
       /\ l2' = Nothing
       /\ UNCHANGED faults

(* The rest of a torn frame is read as a header and a body of some length: *)
(* bytes of k frames go into a frame that opens no packet and is of no use *)
(* to anybody, but takes a turn of the login and is taken for the clock.   *)
Misread ==
    /\ phase \in {"login", "reading", "clock", "verify"} /\ Torn
    /\ phase = "login" => expected > 0
    /\ \E k \in 1 .. Len(stream) :
         LET after == SubSeq(stream, k + 1, Len(stream))
         IN  stream' \in {after, <<Rest(stream[k])>> \o after}
    /\ damaged' = TRUE
    /\ l2' = Nothing
    /\ \/ UNCHANGED <<phase, expected, verify>>
       \/ phase = "login" /\ expected' = expected - 1 /\ UNCHANGED <<phase, verify>>
       \/ /\ \/ phase = "clock" /\ phase' \in {"ready", "write"}
             \/ phase = "verify" /\ phase' = "ready"
          /\ verify' = [kind |-> "skipped"]
          /\ UNCHANGED expected
    /\ UNCHANGED <<known, pcktId, request, owed, faults>>

(* The identify loop of init_mis(): one read per device of the topology;   *)
(* short packets take their turn too.                                      *)
IdentifyMis ==
    /\ phase = "identify" /\ mis /\ expected > 0
    /\ Take
    /\ Closes(Head(stream))
    /\ LET p == Assembled(Head(stream))
       IN  IF ~p.ok
           THEN phase' = "failed" /\ UNCHANGED <<serial, expected>>
           ELSE /\ expected' = expected - 1
                /\ serial' = IF p.kind # "raw" /\ p.from \in devices
                             THEN [serial EXCEPT ![p.from] = p.from] ELSE serial
                /\ UNCHANGED phase
    /\ UNCHANGED <<mis, devices, confirmed, pcktId, request, verify>>

(* The identify loop of init_single(): the first long enough packet.       *)
IdentifySingle ==
    /\ phase = "identify" /\ ~mis /\ devices = {} /\ expected > 0
    /\ Take
    /\ Closes(Head(stream))
    /\ LET p == Assembled(Head(stream))
       IN  IF ~p.ok
           THEN phase' = "failed" /\ UNCHANGED <<devices, serial, expected>>
           ELSE /\ UNCHANGED phase
                /\ IF p.kind = "raw"
                   THEN expected' = expected - 1 /\ UNCHANGED <<devices, serial>>
                   ELSE /\ expected' = 0
                        /\ devices' = {p.from}
                        /\ serial' = [serial EXCEPT ![p.from] = p.from]
    /\ UNCHANGED <<mis, confirmed, pcktId, request, verify>>

(* A read that fails ends the loop of init_mis() and fails init_single().  *)
IdentifyTimeout ==
    /\ phase = "identify" /\ expected > 0
    /\ Silence
    /\ IF mis THEN expected' = 0 /\ UNCHANGED phase
              ELSE phase' = "failed" /\ UNCHANGED expected
    /\ UNCHANGED <<known, pcktId, request, verify, owed>>

(* logon(): broadcast, then one reply per device.                          *)
Login ==
    /\ phase = "identify" /\ expected = 0
    /\ IF devices = {}
       THEN phase' = "failed" /\ UNCHANGED <<pcktId, owed, expected>>
       ELSE /\ phase' = "login"
            /\ expected' = Cardinality(devices)
            /\ Send(Devices, "login", 1)
    /\ confirmed' = FALSE
    /\ UNCHANGED <<mis, devices, serial, request, verify, l2, stream, faults,
                   damaged>>

(* The device a login reply is about: its sender, or the only device.      *)
LearntFrom(p) ==
    IF p.from \in devices THEN p.from
    ELSE IF Cardinality(devices) = 1 THEN CHOOSE d \in devices : TRUE
    ELSE Unknown

LoginReply ==
    /\ phase = "login" /\ expected > 0
    /\ Take
    /\ Closes(Head(stream))
    /\ LET p == Assembled(Head(stream))
           d == LearntFrom(p)
       IN  IF ~p.ok \/ (p.kind = "error" /\ p.id = pcktId)
           THEN phase' = "failed" /\ UNCHANGED <<serial, confirmed, expected>>
           ELSE /\ expected' = expected - 1
                /\ UNCHANGED phase
                /\ IF p.kind # "raw" /\ p.id = pcktId /\ d # Unknown
                   THEN serial' = [serial EXCEPT ![d] = p.from] /\ confirmed' = TRUE
                   ELSE UNCHANGED <<serial, confirmed>>
    /\ UNCHANGED <<mis, devices, pcktId, request, verify>>

LoginTimeout ==
    /\ phase = "login" /\ expected > 0
    /\ Silence
    /\ expected' = 0
    /\ UNCHANGED <<known, phase, pcktId, request, verify, owed>>

(* Nobody confirmed is a timeout of the login.                             *)
LoginDone ==
    /\ phase = "login" /\ expected = 0
    /\ phase' = IF confirmed THEN "ready" ELSE "failed"
    /\ UNCHANGED <<known, pcktId, expected, request, verify, net>>

(* set_plant_time_v2(): read the clock, and where the drift asks for it    *)
(* write the time and read again.  Everybody answers the broadcast reads;  *)
(* read_plant_time() takes the next packet, whatever it answers.           *)
ClockRead ==
    /\ phase = "ready" /\ call = 0 /\ verify = Nothing
    /\ phase' = "clock"
    /\ Send(Devices, "clock", 1)
    /\ UNCHANGED <<known, expected, request, verify, l2, stream, faults, damaged>>

ClockAnswer ==
    /\ phase = "clock"
    /\ Take
    /\ Closes(Head(stream))
    /\ LET p == Assembled(Head(stream))
       IN  IF ~p.ok \/ p.kind \in {"error", "error21"}
           THEN phase' = "ready"
           ELSE phase' \in {"ready", "write"}
    /\ verify' = [kind |-> "skipped"]
    /\ UNCHANGED <<known, pcktId, expected, request>>

ClockWrite ==
    /\ phase = "write"
    /\ phase' = "verify"
    /\ Send(Devices, "clock", 1)
    /\ UNCHANGED <<known, expected, request, verify, l2, stream, faults, damaged>>

ClockVerified ==
    /\ phase = "verify"
    /\ Take
    /\ Closes(Head(stream))
    /\ verify' = Assembled(Head(stream))
    /\ phase' = "ready"
    /\ UNCHANGED <<known, pcktId, expected, request>>

ClockTimeout ==
    /\ phase \in {"clock", "verify"}
    /\ Silence
    /\ phase' = "ready"
    /\ verify' = [kind |-> "skipped"]
    /\ UNCHANGED <<known, pcktId, expected, request, owed>>

----------------------------------------------------------------------------
(* request(): every device in turn.                                        *)
Request ==
    /\ phase = "ready"
    /\ call < MaxCalls
    /\ call' = call + 1
    /\ todo' = devices
    /\ reply' = <<>>
    /\ phase' = "asking"
    /\ verify' = [kind |-> "skipped"]
    /\ damaged' = FALSE
    /\ UNCHANGED <<known, pcktId, expected, asking, retries, frames, l2, stream,
                   owed, faults>>

(* request_device(): one attempt.  The packet carries the device's serial  *)
(* number, so only its owner answers.                                      *)
Attempt(d, left) ==
    /\ asking' = d
    /\ retries' = left
    /\ frames' = {}
    /\ \E n \in Fragments \union (IF serial[d] \in Refusing THEN {0} ELSE {}) :
         Send({serial[d]} \ {Unknown}, "data", n)
    /\ phase' = "reading"

Ask ==
    /\ phase = "asking"
    /\ \E d \in todo : Attempt(d, MaxRetry)
    /\ UNCHANGED <<known, expected, call, todo, reply, verify, l2, stream,
                   faults, damaged>>

Finished(answer) ==
    /\ todo' = todo \ {asking}
    /\ asking' = Unknown /\ retries' = 0 /\ frames' = {}
    /\ reply' = IF answer = {} THEN reply
                ELSE [d \in DOMAIN reply \union {asking} |->
                        IF d = asking THEN answer ELSE reply[d]]
    /\ phase' = IF todo' = {} THEN "ready" ELSE "asking"
    /\ UNCHANGED call

(* Mutant of Dropped: the packet identifier is not compared.               *)
DroppedByChecksum(p) == p.kind = "raw" \/ ~p.ok \/ p.from # asking

(* Packets get_packet() skips (another sender) and request_device() drops: *)
(* not a packet, bad checksum, another attempt's identifier.               *)
Dropped(p) ==
    \/ p.from # asking
    \/ p.kind = "raw" \/ ~p.ok
    \/ p.id # pcktId

(* Mutant of Complete: the fragment counter is not looked at.              *)
CompleteAtOnce(p) == TRUE

Complete(p) == p.left = 0

(* An error of one device fails request() for all.  The collector goes on  *)
(* with its next request in the same session.                              *)
Abandoned ==
    /\ todo' = {}
    /\ asking' = Unknown /\ retries' = 0 /\ frames' = {}
    /\ reply' = <<>>
    /\ phase' = "ready"
    /\ UNCHANGED call

ReplyPacket ==
    /\ phase = "reading"
    /\ Take
    /\ Closes(Head(stream))
    /\ LET p == Assembled(Head(stream))
       IN  CASE Dropped(p) -> UNCHANGED <<phase, request>>
             [] ~Dropped(p) /\ p.kind = "error21" -> Finished({p})
             [] ~Dropped(p) /\ p.kind = "error" -> Abandoned
             [] ~Dropped(p) /\ p.kind = "data" /\ Complete(p) ->
                  Finished(frames \union {p})
             [] OTHER ->
                  /\ frames' = frames \union {p}
                  /\ UNCHANGED <<phase, call, todo, asking, retries, reply>>
    /\ UNCHANGED <<known, pcktId, expected, verify>>

(* A timeout with something accepted ends the answer there; otherwise the  *)
(* device is asked again, under another identifier, MAX_RETRY times.       *)
ReplyTimeout ==
    /\ phase = "reading"
    /\ Silence
    /\ frames # {} \/ retries = 1
    /\ Finished(frames)
    /\ UNCHANGED <<known, pcktId, expected, verify, owed>>

Retry ==
    /\ phase = "reading"
    /\ Silence
    /\ frames = {} /\ retries > 1
    /\ Attempt(asking, retries - 1)
    /\ UNCHANGED <<known, expected, call, todo, reply, verify>>

(* end(): log off and close; a failed begin() closes too.  What was on its *)
(* way goes with the connection and with the client its counters; the      *)
(* devices stay until the next begin().                                    *)
End ==
    /\ phase \in {"ready", "failed"}
    /\ phase' = "closed"
    /\ pcktId' = 0
    /\ expected' = 0
    /\ confirmed' = FALSE
    /\ call' = 0 /\ todo' = {} /\ asking' = Unknown /\ retries' = 0
    /\ frames' = {} /\ reply' = <<>>
    /\ verify' = Nothing
    /\ stream' = <<>>
    /\ owed' = [d \in Devices |-> <<>>]
    /\ l2' = Nothing
    /\ damaged' = FALSE
    /\ UNCHANGED <<mis, devices, serial, faults>>

----------------------------------------------------------------------------
(* The network: the next packet of a device arrives, is lost, is heard     *)
(* with bit errors, or says that the device failed.                        *)
Transmit(d) ==
    /\ owed[d] # <<>>
    /\ LET xs == L1(Head(owed[d]))
       IN  /\ Len(stream) + Len(xs) <= MaxStream
           /\ \E k \in 1 .. Len(stream) + 1 :
                /\ \A i \in k .. Len(stream) : stream[i].of.from # d
                /\ Torn => k > 1
                /\ stream' = SubSeq(stream, 1, k - 1) \o <<xs[1]>>
                               \o SubSeq(stream, k, Len(stream)) \o Tail(xs)
    /\ owed' = [owed EXCEPT ![d] = Tail(@)]
    /\ UNCHANGED <<known, phase, pcktId, expected, request, verify, l2, faults,
                   damaged>>

Fault(d) ==
    /\ owed[d] # <<>>
    /\ faults < MaxFaults
    /\ faults' = faults + 1
    /\ damaged' = TRUE
    /\ owed' = [owed EXCEPT ![d] = Tail(@)]
    /\ \/ UNCHANGED stream
       \/ /\ Len(stream) < MaxStream
          /\ \E p \in {[Head(owed[d]) EXCEPT !.ok = FALSE],
                       [Head(owed[d]) EXCEPT !.kind = "error"]} :
               stream' = Append(stream, [part |-> "whole", of |-> p])
    /\ UNCHANGED <<known, phase, pcktId, expected, request, verify, l2>>

(* A send or a read fails with something else than a timeout: it fails the *)
(* login or the request, and leaves the clock as it is.                    *)
Broken ==
    /\ Failure
    /\ \/ phase = "login" /\ expected > 0 /\ phase' = "failed"
          /\ UNCHANGED <<request, verify>>
       \/ phase = "write" /\ phase' = "ready" /\ UNCHANGED <<request, verify>>
       \/ phase \in {"asking", "reading"} /\ Abandoned /\ UNCHANGED verify
    /\ UNCHANGED <<known, pcktId, expected, owed>>

Client ==
    \/ Begin \/ ReadPart \/ Misread
    \/ IdentifyMis \/ IdentifySingle \/ IdentifyTimeout
    \/ Login \/ LoginReply \/ LoginTimeout \/ LoginDone
    \/ ClockAnswer \/ ClockWrite \/ ClockVerified \/ ClockTimeout
    \/ Ask \/ ReplyPacket \/ ReplyTimeout \/ Retry

Next ==
    \/ Client
    \/ ClockRead \/ Request \/ End
    \/ \E d \in Devices : Transmit(d) \/ Fault(d)
    \/ Broken

Spec == Init /\ [][Next]_vars

----------------------------------------------------------------------------
(* The types of the packets and of the frames that carry them.             *)
Kinds == {"identify", "login", "clock", "data", "error21", "error", "raw"}
Packets == [from : Devices, kind : Kinds, id : Nat, left : Nat, call : Nat,
            ok : BOOLEAN]
Frames(P) == [part : {"head", "tail", "whole", "rest"}, of : P]

(* The type of every variable of the session and of the stream.            *)
TypeOK ==
    /\ mis \in BOOLEAN /\ confirmed \in BOOLEAN /\ damaged \in BOOLEAN
    /\ phase \in {"closed", "identify", "login", "ready", "clock", "write",
                  "verify", "asking", "reading", "failed"}
    /\ devices \subseteq Devices /\ todo \subseteq Devices
    /\ serial \in [Devices -> Devices \cup {Unknown}]
    /\ asking \in Devices \cup {Unknown}
    /\ {pcktId, expected, call, retries, faults} \subseteq Nat
    /\ frames \subseteq Packets
    /\ DOMAIN reply \subseteq Devices
    /\ stream \in Seq(Frames(Packets)) /\ l2 \in Frames(Packets) \cup {Nothing}
    /\ owed \in [Devices -> Seq(Packets)]

(* What request_all() reports under a serial number was sent by that       *)
(* inverter, for this request and in one attempt: neither another device's *)
(* packet, nor one put together from two, nor a late answer to an earlier  *)
(* request or attempt.                                                     *)
AnswersThisCall ==
    \A d \in DOMAIN reply :
        \A p, q \in reply[d] :
            /\ p.id = q.id
            /\ p.kind \in {"data", "error21"}
            /\ p.call = call /\ p.from = serial[d]

(* An answer lacks a fragment, or a device its answer, only if something   *)
(* was lost, damaged or late in this request, or another device's frame    *)
(* came between the two of a packet, or the reader was out of step since a *)
(* timeout inside a frame, of this request or an earlier one, or the       *)
(* device's serial number was never learnt.                                *)
IncompleteOnlyWhenDamaged ==
    phase = "ready" /\ call > 0 /\ ~damaged =>
        \A d \in devices :
            \/ serial[d] # d
            \/ /\ d \in DOMAIN reply
               /\ {p.left : p \in reply[d]} = 0 .. Cardinality(reply[d]) - 1

(* logon(): "Log on to every enumerated device with the given              *)
(* group/password, filling each BtDevice's SUSyID/serial from the login    *)
(* replies."  Replies that are still unread when it starts take the place  *)
(* of real ones.                                                           *)
LoginReachesEveryDevice ==
    phase = "ready" /\ faults = 0 => \A d \in devices : serial[d] = d

(* set_plant_time_v2(): "Verify: re-read".  The second read takes the next *)
(* packet, which may be another inverter's answer to the first.            *)
VerifyReadsTheNewClock ==
    verify.kind = "clock" => verify.id >= pcktId
=============================================================================
