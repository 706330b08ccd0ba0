------------------------------ MODULE Speedwire ------------------------------
(***************************************************************************)
(* The request/response layer of the Speedwire transport: SpeedwireConnec- *)
(* tion asks the inverters one after the other over a shared UDP socket,   *)
(* with a new packet id for every attempt, and collects the fragments of   *)
(* their answers.  Datagrams may be lost, delayed, reordered or delivered  *)
(* twice; what is late waits in the socket for the next call.  The devices *)
(* and the network are external.                                           *)
(***************************************************************************)
EXTENDS Naturals, Sequences

CONSTANTS
    N,              \* the registered devices, asked in the order 1..N
    MaxRetry,       \* MAX_RETRY
    IdMask,         \* the packet id's mask, 0x7FFF
    ByteMask,       \* the largest fragment count of one byte, 0xFF
    LongAnswer,     \* bound: the most fragments that follow an event frame
    MaxCalls        \* bound: calls of login_all and request_all

Devices == 1..N

ASSUME SpeedwireAssumption ==
    /\ N \in Nat \ {0}
    /\ MaxRetry \in Nat \ {0}
    /\ IdMask \in Nat \ {0}
    /\ ByteMask \in Nat /\ LongAnswer \in Nat /\ MaxCalls \in Nat

VARIABLES
    pc,             \* idle, send, first (frame), rest (fragments), logoff
    kind,           \* the command of the call: login, spot or event
    dev,            \* the device the call is at
    retries,        \* attempts left for it
    pcktId,         \* SpeedwireConnection.pckt_id
    frames,         \* frames of the request that is being answered
    reply,          \* RequestReply.frames: device -> frames, <<>> if absent
    unsupported,    \* RequestReply.unsupported, each with its datagram's call
    granted,        \* devices that granted the login, with the same
    result,         \* what the last call returned: none, ok or err
    calls,          \* history: calls begun so far; names the running one
    wire,           \* requests on their way to a device
    net,            \* answers in the network or in the socket's buffer
    noisy           \* energy meters broadcast more often than every 2 seconds

vars == <<pc, kind, dev, retries, pcktId, frames, reply, unsupported, granted,
          result, calls, wire, net, noisy>>

Kinds == {"login", "spot", "event"}
Ids == 1..IdMask
Request == [to : Devices, id : Ids, kind : Kinds, call : 1..MaxCalls]
Answer == [from : Devices, id : Ids, kind : Kinds, call : 1..MaxCalls,
           left : Nat, of : Nat, err : {"none", "lri", "other"},
           copy : BOOLEAN]
Frame == [from : Devices, call : 1..MaxCalls, left : Nat, of : Nat,
          clean : BOOLEAN]

(* Every packet on its way has a valid id: never zero, at most 15 bits.    *)
TypeOK ==
    /\ pc \in {"idle", "send", "first", "rest", "logoff"}
    /\ kind \in Kinds
    /\ dev \in Devices
    /\ retries \in 0..MaxRetry
    /\ pcktId \in 0..IdMask
    /\ frames \in Seq(Frame)
    /\ reply \in [Devices -> Seq(Frame)]
    /\ unsupported \subseteq Devices \X (1..MaxCalls)
    /\ granted \subseteq Devices \X (1..MaxCalls)
    /\ result \in {"none", "ok", "err"}
    /\ calls \in 0..MaxCalls
    /\ wire \subseteq Request
    /\ net \subseteq Answer
    /\ noisy \in BOOLEAN

NoFrames == [d \in Devices |-> <<>>]

Init ==
    /\ pc = "idle" /\ kind = "login" /\ dev = 1 /\ retries = MaxRetry
    /\ pcktId = 0
    /\ frames = <<>> /\ reply = NoFrames
    /\ unsupported = {} /\ granted = {}
    /\ result = "none" /\ calls = 0
    /\ wire = {} /\ net = {}
    /\ noisy \in BOOLEAN

answerVars == <<reply, unsupported, granted>>

-----------------------------------------------------------------------------
(* The collector's calls.                                                  *)
Call(k) ==
    /\ pc = "idle" /\ calls < MaxCalls
    /\ calls' = calls + 1
    /\ kind' = k
    /\ pc' = "send" /\ dev' = 1 /\ retries' = MaxRetry
    /\ frames' = <<>> /\ reply' = NoFrames
    /\ unsupported' = {} /\ granted' = {} /\ result' = "none"
    /\ UNCHANGED <<pcktId, wire, net, noisy>>

LoginAll == Call("login")

RequestAll == Call("spot") \/ Call("event")

NextPcktId == LET i == (pcktId + 1) % (IdMask + 1) IN IF i = 0 THEN 1 ELSE i

(* A new packet id.  Nothing in the network outlives the reuse of its id:  *)
(* in between lie all the others.                                          *)
NewPacket(requests) ==
    /\ pcktId' = NextPcktId
    /\ wire' = {r \in wire : r.id # NextPcktId} \cup requests
    /\ net' = {a \in net : a.id # NextPcktId}

Send ==
    /\ pc = "send"
    /\ NewPacket({[to |-> dev, id |-> NextPcktId, kind |-> kind,
                   call |-> calls]})
    /\ pc' = "first"
    /\ UNCHANGED <<kind, dev, retries, frames, answerVars, result, calls,
                   noisy>>

-----------------------------------------------------------------------------
(* What happens to the call when the device it is at is through.           *)
NextDevice ==
    /\ frames' = <<>>
    /\ IF dev < N
       THEN /\ dev' = dev + 1 /\ pc' = "send" /\ retries' = MaxRetry
            /\ UNCHANGED result
       ELSE /\ pc' = "idle" /\ result' = "ok"
            /\ UNCHANGED <<dev, retries>>

(* request_all() goes on without the device, login_all() returns.          *)
DeviceFails ==
    \/ kind # "login" /\ NextDevice
    \/ /\ kind = "login"
       /\ pc' = "idle" /\ result' = "err"
       /\ UNCHANGED <<dev, retries, frames>>

SendFails ==
    /\ pc = "send"
    /\ NewPacket({})
    /\ DeviceFails
    /\ UNCHANGED <<kind, answerVars, calls, noisy>>

(* Mutant of Matches: the packet id is not compared.                       *)
MatchesAnyId(a) == a.from = dev /\ a.kind = kind

(* response_matches(): requests for different registers share a command.   *)
Matches(a) == a.from = dev /\ a.kind = kind /\ a.id = pcktId

(* recv(): the datagram leaves the buffer; a copy of it may come later.    *)
Receive(a) ==
    /\ pc \in {"first", "rest"}
    /\ \/ net' = net \ {a}
       \/ ~a.copy /\ net' = (net \ {a}) \cup {[a EXCEPT !.copy = TRUE]}
    /\ UNCHANGED <<kind, pcktId, calls, wire, noisy>>

Ignore(a) ==
    /\ ~Matches(a)
    /\ Receive(a)
    /\ UNCHANGED <<pc, dev, retries, frames, answerVars, result>>

ErrorCode(a) ==
    /\ Matches(a) /\ a.err # "none"
    /\ Receive(a)
    /\ DeviceFails
    /\ unsupported' = IF a.err = "lri" /\ kind # "login"
                      THEN unsupported \cup {<<dev, a.call>>} ELSE unsupported
    /\ UNCHANGED <<reply, granted>>

LoginGranted(a) ==
    /\ Matches(a) /\ a.err = "none" /\ kind = "login"
    /\ Receive(a)
    /\ NextDevice
    /\ granted' = granted \cup {<<dev, a.call>>}
    /\ UNCHANGED <<reply, unsupported>>

(* Mutant of FragmentsLeft: one byte for the event log, too.               *)
FragmentsInByte(a) == a.left % (ByteMask + 1)

(* fragment_count_u16() for events, fragment_count_u8() for the rest.      *)
FragmentsLeft(a) == IF kind = "event" THEN a.left ELSE a.left % (ByteMask + 1)

(* History: the frame is no copy and every frame before it has arrived.    *)
InTurn(a) ==
    /\ ~a.copy
    /\ ~\E b \in net : b.id = a.id /\ ~b.copy /\ b.left > a.left

Fragment(a) ==
    /\ Matches(a) /\ a.err = "none" /\ kind # "login"
    /\ Receive(a)
    /\ LET f == [from |-> a.from, call |-> a.call, left |-> a.left,
                 of |-> a.of, clean |-> InTurn(a)]
           all == Append(frames, f)
       IN  \/ /\ FragmentsLeft(a) > 0
              /\ frames' = all /\ pc' = "rest"
              /\ UNCHANGED <<dev, retries, reply, result>>
           \/ /\ FragmentsLeft(a) = 0
              /\ reply' = [reply EXCEPT ![dev] = all]
              /\ NextDevice
    /\ UNCHANGED <<unsupported, granted>>

(* Mutant of TimeoutFirst: an attempt is repeated without being counted.   *)
TimeoutForever ==
    /\ pc = "first" /\ ~noisy
    /\ pc' = "send"
    /\ UNCHANGED <<kind, dev, retries, pcktId, frames, answerVars, result,
                   calls, wire, net, noisy>>

(* Two seconds without any datagram: each one received restarts them.      *)
TimeoutFirst ==
    /\ pc = "first" /\ ~noisy
    /\ \/ /\ retries > 1
          /\ retries' = retries - 1 /\ pc' = "send"
          /\ UNCHANGED <<dev, frames, result>>
       \/ retries = 1 /\ DeviceFails
    /\ UNCHANGED <<kind, pcktId, answerVars, calls, wire, net, noisy>>

(* A fragment that does not come fails the request; it is not sent again.  *)
TimeoutFragment ==
    /\ pc = "rest" /\ ~noisy
    /\ DeviceFails
    /\ UNCHANGED <<kind, pcktId, answerVars, calls, wire, net, noisy>>

(* The socket reports an error instead of a datagram.                      *)
ReceiveFails ==
    /\ pc \in {"first", "rest"}
    /\ DeviceFails
    /\ UNCHANGED <<kind, pcktId, answerVars, calls, wire, net, noisy>>

(* end(): a logoff to every device, unanswered.                            *)
End ==
    /\ pc = "idle" /\ calls > 0
    /\ pc' = "logoff" /\ dev' = 1
    /\ UNCHANGED <<kind, retries, pcktId, frames, answerVars, result, calls,
                   wire, net, noisy>>

Logoff ==
    /\ pc = "logoff"
    /\ NewPacket({})
    /\ \/ dev < N /\ dev' = dev + 1 /\ UNCHANGED pc
       \/ dev = N /\ pc' = "idle" /\ UNCHANGED dev
    /\ UNCHANGED <<kind, retries, frames, answerVars, result, calls, noisy>>

-----------------------------------------------------------------------------
(* The devices and the network.  A device answers a request with an error  *)
(* or with its frames, which count down the fragments that follow.         *)
Lengths(k) == CASE k = "login" -> {0}
                [] k = "spot" -> 0..ByteMask
                [] k = "event" -> 0..LongAnswer

DeviceAnswers(r) ==
    /\ wire' = wire \ {r}
    /\ LET A(err, left, of) ==
               [from |-> r.to, id |-> r.id, kind |-> r.kind, call |-> r.call,
                left |-> left, of |-> of, err |-> err, copy |-> FALSE]
       IN  \/ \E n \in Lengths(r.kind) :
                 net' = net \cup {A("none", i, n) : i \in 0..n}
           \/ \E err \in {"lri", "other"} : net' = net \cup {A(err, 0, 0)}
    /\ UNCHANGED <<pc, kind, dev, retries, pcktId, frames, answerVars, result,
                   calls, noisy>>

Meters ==
    /\ noisy' = ~noisy
    /\ UNCHANGED <<pc, kind, dev, retries, pcktId, frames, answerVars, result,
                   calls, wire, net>>

Reception ==
    \E a \in net : Ignore(a) \/ ErrorCode(a) \/ LoginGranted(a) \/ Fragment(a)

Sending == Send \/ SendFails \/ Logoff

Timeout == TimeoutFirst \/ TimeoutFragment

Next ==
    \/ LoginAll \/ RequestAll \/ End
    \/ Sending \/ Reception \/ ReceiveFails \/ Timeout
    \/ \E r \in wire : DeviceAnswers(r)
    \/ Meters

Spec == Init /\ [][Next]_vars

-----------------------------------------------------------------------------
(* Whatever arrives late or twice, what a call returns for a device - its  *)
(* frames, its refusal, its login - was sent by that device in answer to   *)
(* this call, and a login that succeeded was granted by every device.      *)
AnswersThisCall ==
    /\ \A d \in Devices : \A i \in DOMAIN reply[d] :
           reply[d][i].from = d /\ reply[d][i].call = calls
    /\ unsupported \subseteq Devices \X {calls}
    /\ granted \subseteq Devices \X {calls}
    /\ pc = "idle" /\ kind = "login" /\ result = "ok" =>
           granted = Devices \X {calls}

(* An answer whose frames arrived once each and none before its turn is    *)
(* returned as a whole and in order, however long it is.                   *)
AnswerIsComplete ==
    \A d \in Devices :
        LET f == reply[d]
        IN  f # <<>> /\ (\A i \in DOMAIN f : f[i].clean) =>
                /\ Len(f) = f[1].of + 1
                /\ \A i \in DOMAIN f : f[i].left = Len(f) - i

(* The socket accepts packets and the timer fires when nothing arrives.    *)
FairSpec == Spec /\ WF_vars(Sending) /\ WF_vars(Timeout)

(* A call ends, whichever devices are silent and whatever arrives late, if *)
(* the meters stop broadcasting: every one of their datagrams is dropped,  *)
(* but it also starts the two seconds anew.                                *)
CallEndsWhenQuiet == <>[]~noisy => (pc = "send" ~> pc = "idle")
=============================================================================
