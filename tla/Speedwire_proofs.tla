-------------------------- MODULE Speedwire_proofs --------------------------
(***************************************************************************)
(* What Speedwire returns for a call answers this very call, for any number*)
(* of devices and attempts and any width of the packet id.                 *)
(***************************************************************************)
EXTENDS Speedwire, TLAPS

Waiting == pc \in {"first", "rest"}

(* While an answer is awaited, whatever carries the current packet id      *)
(* belongs to the running call: the id was new when its request was sent.  *)
IdInv ==
    Waiting => /\ \A r \in wire : r.id = pcktId => r.call = calls
               /\ \A a \in net : a.id = pcktId => a.call = calls

(* Frames are kept only while fragments are missing, which is never during *)
(* a login, and they come from the device the call is at.                  *)
FrameInv ==
    /\ pc # "rest" => frames = <<>>
    /\ kind = "login" => pc # "rest"
    /\ \A i \in DOMAIN frames :
           frames[i].from = dev /\ frames[i].call = calls

(* What the reply holds was sent by its device in answer to this call.     *)
ReplyInv ==
    /\ \A d \in Devices : \A i \in DOMAIN reply[d] :
           reply[d][i].from = d /\ reply[d][i].call = calls
    /\ unsupported \subseteq Devices \X {calls}
    /\ granted \subseteq Devices \X {calls}

(* A login is at a device only when all before it have granted it.         *)
LoginInv ==
    kind = "login" =>
        /\ pc \in {"send", "first"} =>
               \A d \in Devices : d < dev => <<d, calls>> \in granted
        /\ result = "ok" =>
               \A d \in Devices : <<d, calls>> \in granted

(* A call that is under way has a number.                                  *)
CallInv == pc # "idle" => calls \in 1..MaxCalls

-----------------------------------------------------------------------------
LEMMA PacketIds == ASSUME TypeOK PROVE NextPcktId \in Ids
<1>1. pcktId \in 0..IdMask /\ IdMask \in Nat \ {0}
  BY SpeedwireAssumption DEF TypeOK
<1>2. CASE pcktId < IdMask
  BY <1>1, <1>2, SMT DEF NextPcktId, Ids
<1>3. CASE pcktId = IdMask
  BY <1>1, <1>3, SMT DEF NextPcktId, Ids
<1> QED
  BY <1>1, <1>2, <1>3

(* The parts of the type invariant that the shared operators determine.    *)
PlaceOK ==
    /\ pc \in {"idle", "send", "first", "rest", "logoff"}
    /\ dev \in Devices
    /\ retries \in 0..MaxRetry
    /\ frames \in Seq(Frame)
    /\ result \in {"none", "ok", "err"}

LEMMA PacketTypes ==
    ASSUME TypeOK, NEW R, R \subseteq Request, NewPacket(R)
    PROVE  /\ pcktId' \in 0..IdMask
           /\ wire' \subseteq Request /\ net' \subseteq Answer
<1>1. NextPcktId \in Ids /\ IdMask \in Nat
  BY PacketIds, SpeedwireAssumption
<1>2. pcktId' \in 0..IdMask
  BY <1>1 DEF NewPacket, Ids
<1> QED
  BY <1>2 DEF NewPacket, TypeOK

LEMMA NextDeviceTypes == ASSUME TypeOK, NextDevice PROVE PlaceOK'
BY SpeedwireAssumption DEF TypeOK, NextDevice, PlaceOK, Devices

LEMMA DeviceFailsTypes == ASSUME TypeOK, DeviceFails PROVE PlaceOK'
<1>1. CASE kind # "login" /\ NextDevice
  BY <1>1, NextDeviceTypes
<1>2. CASE kind = "login" /\ pc' = "idle" /\ result' = "err"
           /\ UNCHANGED <<dev, retries, frames>>
  BY <1>2 DEF TypeOK, PlaceOK
<1> QED
  BY <1>1, <1>2 DEF DeviceFails

LEMMA ReceiveTypes ==
    ASSUME TypeOK, NEW a \in net, Receive(a)
    PROVE  net' \subseteq Answer /\ a \in Answer
<1>1. a \in Answer
  BY DEF TypeOK
<1>2. [a EXCEPT !.copy = TRUE] \in Answer
  BY <1>1 DEF Answer
<1> QED
  BY <1>1, <1>2 DEF Receive, TypeOK

LEMMA FrameTypes ==
    ASSUME TypeOK, NEW a \in Answer, NEW b \in BOOLEAN
    PROVE  Append(frames, [from |-> a.from, call |-> a.call, left |-> a.left,
                           of |-> a.of, clean |-> b]) \in Seq(Frame)
<1>1. [from |-> a.from, call |-> a.call, left |-> a.left, of |-> a.of,
       clean |-> b] \in Frame
  BY DEF Answer, Frame
<1> QED
  BY <1>1 DEF TypeOK

LEMMA TypeStep ==
    ASSUME TypeOK, CallInv, Next
    PROVE  TypeOK' /\ CallInv'
<1> USE SpeedwireAssumption
<1>1. ASSUME NEW k \in Kinds, Call(k) PROVE TypeOK' /\ CallInv'
  <2>1. calls' \in 1..MaxCalls
    BY <1>1 DEF Call, TypeOK
  <2>2. retries' \in 0..MaxRetry /\ dev' \in Devices
    BY <1>1 DEF Call, Devices
  <2>3. reply' \in [Devices -> Seq(Frame)] /\ frames' \in Seq(Frame)
    BY <1>1 DEF Call, NoFrames
  <2> QED
    BY <1>1, <2>1, <2>2, <2>3 DEF Call, TypeOK, CallInv
<1>2. CASE Send
  <2>1. {[to |-> dev, id |-> NextPcktId, kind |-> kind, call |-> calls]}
            \subseteq Request
    BY <1>2, PacketIds DEF Send, TypeOK, CallInv, Request
  <2>2. /\ pcktId' \in 0..IdMask
       /\ wire' \subseteq Request /\ net' \subseteq Answer
    BY <1>2, <2>1, PacketTypes DEF Send
  <2> QED
    BY <1>2, <2>2 DEF Send, TypeOK, CallInv, answerVars
<1>3. CASE SendFails
  <2>1. /\ pcktId' \in 0..IdMask
       /\ wire' \subseteq Request /\ net' \subseteq Answer
    BY <1>3, PacketTypes DEF SendFails
  <2>2. PlaceOK'
    BY <1>3, DeviceFailsTypes DEF SendFails
  <2> QED
    BY <1>3, <2>1, <2>2 DEF SendFails, TypeOK, PlaceOK, CallInv, answerVars
<1>4. CASE Logoff
  <2>1. /\ pcktId' \in 0..IdMask
       /\ wire' \subseteq Request /\ net' \subseteq Answer
    BY <1>4, PacketTypes DEF Logoff
  <2>2. dev' \in Devices
    BY <1>4 DEF Logoff, TypeOK, Devices
  <2> QED
    BY <1>4, <2>1, <2>2 DEF Logoff, TypeOK, CallInv, answerVars
<1>5. ASSUME NEW a \in net, Ignore(a) PROVE TypeOK' /\ CallInv'
  <2>1. net' \subseteq Answer
    BY <1>5, ReceiveTypes DEF Ignore
  <2> QED
    BY <1>5, <2>1 DEF Ignore, Receive, TypeOK, CallInv, answerVars
<1>6. ASSUME NEW a \in net, ErrorCode(a) PROVE TypeOK' /\ CallInv'
  <2>1. net' \subseteq Answer /\ a \in Answer
    BY <1>6, ReceiveTypes DEF ErrorCode
  <2>2. PlaceOK'
    BY <1>6, DeviceFailsTypes DEF ErrorCode
  <2>3. unsupported' \subseteq Devices \X (1..MaxCalls)
    BY <1>6, <2>1 DEF ErrorCode, TypeOK, Answer
  <2>4. UNCHANGED <<kind, pcktId, calls, wire, noisy, reply, granted>>
    BY <1>6 DEF ErrorCode, Receive
  <2>5. calls \in 1..MaxCalls
    BY <1>6 DEF ErrorCode, Receive, CallInv
  <2> QED
    BY <2>1, <2>2, <2>3, <2>4, <2>5 DEF TypeOK, PlaceOK, CallInv
<1>7. ASSUME NEW a \in net, LoginGranted(a) PROVE TypeOK' /\ CallInv'
  <2>1. net' \subseteq Answer /\ a \in Answer
    BY <1>7, ReceiveTypes DEF LoginGranted
  <2>2. PlaceOK'
    BY <1>7, NextDeviceTypes DEF LoginGranted
  <2>3. granted' \subseteq Devices \X (1..MaxCalls)
    BY <1>7, <2>1 DEF LoginGranted, TypeOK, Answer
  <2>4. UNCHANGED <<kind, pcktId, calls, wire, noisy, reply, unsupported>>
    BY <1>7 DEF LoginGranted, Receive
  <2>5. calls \in 1..MaxCalls
    BY <1>7 DEF LoginGranted, Receive, CallInv
  <2> QED
    BY <2>1, <2>2, <2>3, <2>4, <2>5 DEF TypeOK, PlaceOK, CallInv
<1>8. ASSUME NEW a \in net, Fragment(a) PROVE TypeOK' /\ CallInv'
  <2> DEFINE all == Append(frames, [from |-> a.from, call |-> a.call,
                              left |-> a.left, of |-> a.of,
                              clean |-> InTurn(a)])
  <2>1. net' \subseteq Answer /\ a \in Answer
    BY <1>8, ReceiveTypes DEF Fragment
  <2>2. InTurn(a) \in BOOLEAN
    BY DEF InTurn
  <2>3. all \in Seq(Frame)
    BY <2>1, <2>2, FrameTypes
  <2>4. UNCHANGED <<kind, pcktId, calls, wire, noisy, granted, unsupported>>
    BY <1>8 DEF Fragment, Receive
  <2>5. calls \in 1..MaxCalls
    BY <1>8 DEF Fragment, Receive, CallInv
  <2>6. CASE /\ frames' = all /\ pc' = "rest"
             /\ UNCHANGED <<dev, retries, reply, result>>
    BY <2>1, <2>3, <2>4, <2>5, <2>6 DEF TypeOK, CallInv
  <2>7. CASE reply' = [reply EXCEPT ![dev] = all] /\ NextDevice
    <3>1. PlaceOK'
      BY <2>7, NextDeviceTypes
    <3>2. reply' \in [Devices -> Seq(Frame)]
      BY <2>3, <2>7 DEF TypeOK
    <3> QED
      BY <2>1, <2>4, <2>5, <3>1, <3>2 DEF TypeOK, PlaceOK, CallInv
  <2> QED
    BY <1>8, <2>6, <2>7 DEF Fragment
<1>9. CASE TimeoutFirst
  <2>1. PlaceOK'
    <3>1. CASE DeviceFails
      BY <3>1, DeviceFailsTypes
    <3>2. CASE retries > 1 /\ retries' = retries - 1 /\ pc' = "send"
               /\ UNCHANGED <<dev, frames, result>>
      BY <3>2 DEF TypeOK, PlaceOK
    <3> QED
      BY <1>9, <3>1, <3>2 DEF TimeoutFirst
  <2> QED
    BY <1>9, <2>1 DEF TimeoutFirst, TypeOK, PlaceOK, CallInv, answerVars
<1>10. CASE TimeoutFragment
  BY <1>10, DeviceFailsTypes
     DEF TimeoutFragment, TypeOK, PlaceOK, CallInv, answerVars
<1>11. CASE ReceiveFails
  BY <1>11, DeviceFailsTypes
     DEF ReceiveFails, TypeOK, PlaceOK, CallInv, answerVars
<1>12. CASE End
  BY <1>12 DEF End, TypeOK, CallInv, answerVars, Devices
<1>13. ASSUME NEW r \in wire, DeviceAnswers(r) PROVE TypeOK' /\ CallInv'
  <2>1. r \in Request
    BY DEF TypeOK
  <2> DEFINE A(err, left, of) ==
        [from |-> r.to, id |-> r.id, kind |-> r.kind, call |-> r.call,
         left |-> left, of |-> of, err |-> err, copy |-> FALSE]
  <2>2. \A err \in {"none", "lri", "other"}, left, of \in Nat :
            A(err, left, of) \in Answer
    BY <2>1 DEF Request, Answer
  <2>3. Lengths(r.kind) \subseteq Nat
    BY <2>1 DEF Lengths, Request, Kinds
  <2>4. ASSUME NEW n \in Lengths(r.kind),
               net' = net \cup {A("none", i, n) : i \in 0..n}
        PROVE  net' \subseteq Answer
    <3>1. n \in Nat
      BY <2>3
    <3>2. \A i \in 0..n : A("none", i, n) \in Answer
      BY <2>2, <3>1
    <3> HIDE DEF A
    <3> QED
      BY <2>4, <3>2 DEF TypeOK
  <2>5. ASSUME NEW err \in {"lri", "other"}, net' = net \cup {A(err, 0, 0)}
        PROVE  net' \subseteq Answer
    <3>1. A(err, 0, 0) \in Answer
      BY <2>2
    <3> HIDE DEF A
    <3> QED
      BY <2>5, <3>1 DEF TypeOK
  <2>6. net' \subseteq Answer
    BY <1>13, <2>4, <2>5 DEF DeviceAnswers
  <2> QED
    BY <1>13, <2>6 DEF DeviceAnswers, TypeOK, CallInv, answerVars
<1>14. CASE Meters
  BY <1>14 DEF Meters, TypeOK, CallInv, answerVars
<1> QED
  BY <1>1, <1>2, <1>3, <1>4, <1>5, <1>6, <1>7, <1>8, <1>9, <1>10, <1>11,
     <1>12, <1>13, <1>14
     DEF Next, LoginAll, RequestAll, Sending, Reception, Timeout, Kinds

(* For any number of devices and any width of the packet id, every packet  *)
(* sent by the Speedwire connection has a valid id and its call a number.  *)
THEOREM TypeCorrect == Spec => [](TypeOK /\ CallInv)
<1>1. Init => TypeOK /\ CallInv
  BY SpeedwireAssumption
     DEF Init, TypeOK, CallInv, NoFrames, Kinds, Devices
<1>2. TypeOK /\ CallInv /\ [Next]_vars => (TypeOK /\ CallInv)'
  <2> SUFFICES ASSUME TypeOK, CallInv, [Next]_vars PROVE (TypeOK /\ CallInv)'
    OBVIOUS
  <2>1. CASE Next
    BY <2>1, TypeStep
  <2>2. CASE UNCHANGED vars
    BY <2>2 DEF vars, TypeOK, CallInv
  <2> QED
    BY <2>1, <2>2
<1> QED
  BY <1>1, <1>2, PTL DEF Spec

-----------------------------------------------------------------------------
(* When a device is done with, nothing is awaited and no frame is kept.    *)
LEMMA Resting ==
    ASSUME NextDevice \/ DeviceFails
    PROVE  ~Waiting'
BY DEF NextDevice, DeviceFails, Waiting

(* What stays in the network after a reception was there, or copies it.    *)
LEMMA Remaining ==
    ASSUME TypeOK, NEW a \in net, Receive(a), NEW b \in net'
    PROVE  \E c \in net : b.id = c.id /\ b.call = c.call
<1>1. a \in Answer
  BY DEF TypeOK
<1>2. /\ [a EXCEPT !.copy = TRUE].id = a.id
      /\ [a EXCEPT !.copy = TRUE].call = a.call
  BY <1>1 DEF Answer
<1> QED
  BY <1>2 DEF Receive

LEMMA IdStep == ASSUME TypeOK, IdInv, Next PROVE IdInv'
<1>1. ASSUME ~Waiting' PROVE IdInv'
  BY <1>1 DEF IdInv
<1>2. CASE Send
  BY <1>2 DEF Send, NewPacket, IdInv
<1>3. ASSUME NEW a \in net, Receive(a), UNCHANGED pc PROVE IdInv'
  BY <1>3, Remaining DEF Receive, IdInv, Waiting
<1>4. ASSUME NEW a \in net, Fragment(a) PROVE IdInv'
  <2>1. CASE NextDevice
    BY <1>1, <2>1, Resting
  <2>2. CASE pc' = "rest"
    BY <1>4, <2>2, Remaining DEF Fragment, Receive, IdInv, Waiting
  <2> QED
    BY <1>4, <2>1, <2>2 DEF Fragment
<1>5. ASSUME NEW r \in wire, DeviceAnswers(r) PROVE IdInv'
  BY <1>5 DEF DeviceAnswers, IdInv, Waiting
<1>6. CASE Meters
  BY <1>6 DEF Meters, IdInv, Waiting
<1>7. CASE LoginAll \/ RequestAll
  BY <1>1, <1>7 DEF LoginAll, RequestAll, Call, Waiting
<1>8. CASE SendFails
  BY <1>1, <1>8, Resting DEF SendFails
<1>9. CASE End \/ Logoff
  BY <1>1, <1>9 DEF End, Logoff, Waiting
<1>10. ASSUME NEW a \in net, ErrorCode(a) PROVE IdInv'
  BY <1>1, <1>10, Resting DEF ErrorCode
<1>11. ASSUME NEW a \in net, LoginGranted(a) PROVE IdInv'
  BY <1>1, <1>11, Resting DEF LoginGranted
<1>12. CASE Timeout
  BY <1>1, <1>12, Resting DEF Timeout, TimeoutFirst, TimeoutFragment, Waiting
<1>13. CASE ReceiveFails
  BY <1>1, <1>13, Resting DEF ReceiveFails
<1>14. ASSUME NEW a \in net, Ignore(a) PROVE IdInv'
  BY <1>3, <1>14 DEF Ignore
<1> QED
  BY <1>2, <1>4, <1>5, <1>6, <1>7, <1>8, <1>9, <1>10, <1>11, <1>12, <1>13,
     <1>14 DEF Next, Sending, Reception

(* A datagram that is accepted answers the running call.                   *)
LEMMA Accepted ==
    ASSUME IdInv, NEW a \in net, Matches(a), Receive(a)
    PROVE  a.call = calls /\ a.from = dev /\ UNCHANGED <<kind, calls>>
BY DEF IdInv, Matches, Receive, Waiting

(* A device that failed leaves no frames behind.                           *)
LEMMA NoFramesLeft ==
    ASSUME NextDevice \/ DeviceFails, FrameInv, UNCHANGED <<kind, calls>>
    PROVE  FrameInv'
<1>1. frames' = <<>> /\ pc' # "rest"
  BY DEF DeviceFails, NextDevice, FrameInv
<1> QED
  BY <1>1 DEF FrameInv

LEMMA FrameStep ==
    ASSUME TypeOK, IdInv, FrameInv, Next
    PROVE  FrameInv'
<1>1. CASE LoginAll \/ RequestAll
  BY <1>1 DEF LoginAll, RequestAll, Call, FrameInv
<1>2. CASE Send \/ Meters \/ (\E r \in wire : DeviceAnswers(r))
  BY <1>2 DEF Send, Meters, DeviceAnswers, FrameInv
<1>3. CASE SendFails \/ ReceiveFails \/ TimeoutFragment
  BY <1>3, NoFramesLeft DEF SendFails, ReceiveFails, TimeoutFragment
<1>4. CASE TimeoutFirst
  <2>1. CASE DeviceFails
    BY <1>4, <2>1, NoFramesLeft DEF TimeoutFirst
  <2>2. CASE pc' = "send" /\ UNCHANGED <<dev, frames, result>>
    BY <1>4, <2>2 DEF TimeoutFirst, FrameInv
  <2> QED
    BY <1>4, <2>1, <2>2 DEF TimeoutFirst
<1>5. CASE End \/ Logoff
  BY <1>5 DEF End, Logoff, FrameInv
<1>6. ASSUME NEW a \in net, Ignore(a) PROVE FrameInv'
  BY <1>6 DEF Ignore, Receive, FrameInv
<1>7. ASSUME NEW a \in net, ErrorCode(a) \/ LoginGranted(a) PROVE FrameInv'
  BY <1>7, NoFramesLeft DEF ErrorCode, LoginGranted, Receive
<1>8. ASSUME NEW a \in net, Fragment(a) PROVE FrameInv'
  <2>1. UNCHANGED <<kind, calls>> /\ a.call = calls /\ a.from = dev
    BY <1>8, Accepted DEF Fragment
  <2>2. CASE NextDevice
    BY <2>1, <2>2, NoFramesLeft
  <2>3. CASE /\ pc' = "rest" /\ dev' = dev
             /\ frames' = Append(frames, [from |-> a.from, call |-> a.call,
                              left |-> a.left, of |-> a.of,
                              clean |-> InTurn(a)])
    <3>1. frames \in Seq(Frame)
      BY DEF TypeOK
    <3>2. \A i \in DOMAIN frames' :
              frames'[i].from = dev /\ frames'[i].call = calls
      BY <2>1, <2>3, <3>1 DEF FrameInv
    <3>3. kind # "login"
      BY <1>8 DEF Fragment
    <3> QED
      BY <2>1, <2>3, <3>2, <3>3 DEF FrameInv
  <2> QED
    BY <1>8, <2>2, <2>3 DEF Fragment
<1> QED
  BY <1>1, <1>2, <1>3, <1>4, <1>5, <1>6, <1>7, <1>8
     DEF Next, Sending, Reception, Timeout

LEMMA ReplyStep ==
    ASSUME TypeOK, IdInv, FrameInv, ReplyInv, Next
    PROVE  ReplyInv'
<1>1. ASSUME UNCHANGED <<answerVars, calls>> PROVE ReplyInv'
  BY <1>1 DEF ReplyInv, answerVars
<1>2. CASE LoginAll \/ RequestAll
  BY <1>2 DEF LoginAll, RequestAll, Call, ReplyInv, NoFrames
<1>3. ASSUME NEW a \in net, ErrorCode(a) PROVE ReplyInv'
  <2>1. a.call = calls /\ UNCHANGED calls
    BY <1>3, Accepted DEF ErrorCode
  <2>2. dev \in Devices
    BY DEF TypeOK
  <2> QED
    BY <1>3, <2>1, <2>2 DEF ErrorCode, ReplyInv
<1>4. ASSUME NEW a \in net, LoginGranted(a) PROVE ReplyInv'
  <2>1. a.call = calls /\ UNCHANGED calls
    BY <1>4, Accepted DEF LoginGranted
  <2>2. dev \in Devices
    BY DEF TypeOK
  <2> QED
    BY <1>4, <2>1, <2>2 DEF LoginGranted, ReplyInv
<1>5. ASSUME NEW a \in net, Fragment(a) PROVE ReplyInv'
  <2> DEFINE all == Append(frames, [from |-> a.from, call |-> a.call,
                              left |-> a.left, of |-> a.of,
                              clean |-> InTurn(a)])
  <2>1. /\ a.call = calls /\ a.from = dev
        /\ UNCHANGED <<calls, unsupported, granted>>
    BY <1>5, Accepted DEF Fragment
  <2>2. frames \in Seq(Frame) /\ dev \in Devices
            /\ reply \in [Devices -> Seq(Frame)]
    BY DEF TypeOK
  <2>3. \A i \in DOMAIN all : all[i].from = dev /\ all[i].call = calls
    BY <2>1, <2>2 DEF FrameInv
  <2>4. UNCHANGED reply \/ reply' = [reply EXCEPT ![dev] = all]
    BY <1>5 DEF Fragment
  <2> HIDE DEF all
  <2>5. CASE UNCHANGED reply
    BY <2>1, <2>5 DEF ReplyInv
  <2>6. CASE reply' = [reply EXCEPT ![dev] = all]
    <3>1. ASSUME NEW d \in Devices, NEW i \in DOMAIN reply'[d]
          PROVE  reply'[d][i].from = d /\ reply'[d][i].call = calls
      <4>1. CASE d = dev
        BY <2>2, <2>3, <2>6, <3>1, <4>1
      <4>2. CASE d # dev
        BY <2>2, <2>6, <3>1, <4>2 DEF ReplyInv
      <4> QED
        BY <4>1, <4>2
    <3> QED
      BY <2>1, <3>1 DEF ReplyInv
  <2> QED
    BY <2>4, <2>5, <2>6
<1>6. ASSUME NEW a \in net, Ignore(a) PROVE ReplyInv'
  BY <1>1, <1>6 DEF Ignore, Receive
<1>7. CASE Sending
  BY <1>1, <1>7 DEF Sending, Send, SendFails, Logoff
<1>8. CASE Timeout
  BY <1>1, <1>8 DEF Timeout, TimeoutFirst, TimeoutFragment
<1>9. CASE ReceiveFails \/ End \/ Meters
  BY <1>1, <1>9 DEF ReceiveFails, End, Meters
<1>10. ASSUME NEW r \in wire, DeviceAnswers(r) PROVE ReplyInv'
  BY <1>1, <1>10 DEF DeviceAnswers
<1> QED
  BY <1>2, <1>3, <1>4, <1>5, <1>6, <1>7, <1>8, <1>9, <1>10 DEF Next, Reception

(* A login that fails at a device returns an error.                        *)
LEMMA LoginFailsAtDevice ==
    ASSUME DeviceFails, UNCHANGED <<kind, calls, granted>>, LoginInv
    PROVE  LoginInv'
BY DEF DeviceFails, LoginInv

LEMMA LoginStep ==
    ASSUME TypeOK, IdInv, FrameInv, LoginInv, Next
    PROVE  LoginInv'
<1>1. CASE LoginAll \/ RequestAll
  BY <1>1, SpeedwireAssumption
     DEF LoginAll, RequestAll, Call, LoginInv, Devices
<1>2. CASE Send \/ Meters \/ (\E r \in wire : DeviceAnswers(r))
  BY <1>2 DEF Send, Meters, DeviceAnswers, LoginInv, answerVars
<1>3. CASE SendFails \/ ReceiveFails \/ TimeoutFragment
  BY <1>3, LoginFailsAtDevice
     DEF SendFails, ReceiveFails, TimeoutFragment, answerVars
<1>4. CASE TimeoutFirst
  <2>1. CASE DeviceFails
    BY <1>4, <2>1, LoginFailsAtDevice DEF TimeoutFirst, answerVars
  <2>2. CASE pc' = "send" /\ UNCHANGED <<dev, frames, result>>
    BY <1>4, <2>2 DEF TimeoutFirst, LoginInv, answerVars
  <2> QED
    BY <1>4, <2>1, <2>2 DEF TimeoutFirst
<1>5. CASE End \/ Logoff
  BY <1>5 DEF End, Logoff, LoginInv, answerVars
<1>6. ASSUME NEW a \in net, Ignore(a) PROVE LoginInv'
  BY <1>6 DEF Ignore, Receive, LoginInv, answerVars
<1>7. ASSUME NEW a \in net, ErrorCode(a) PROVE LoginInv'
  BY <1>7, LoginFailsAtDevice DEF ErrorCode, Receive
<1>8. ASSUME NEW a \in net, Fragment(a) PROVE LoginInv'
  BY <1>8 DEF Fragment, Receive, LoginInv
<1>9. ASSUME NEW a \in net, LoginGranted(a) PROVE LoginInv'
  <2>1. a.call = calls /\ UNCHANGED <<kind, calls>>
    BY <1>9, Accepted DEF LoginGranted
  <2>2. pc = "first" /\ kind = "login"
    BY <1>9 DEF LoginGranted, Receive, FrameInv
  <2>3. granted' = granted \cup {<<dev, calls>>} /\ NextDevice
    BY <1>9, <2>1 DEF LoginGranted
  <2>4. \A d \in Devices : d <= dev => <<d, calls>> \in granted'
    BY <2>2, <2>3 DEF LoginInv, TypeOK, Devices
  <2>5. CASE dev < N
    BY <2>1, <2>3, <2>4, <2>5
       DEF NextDevice, LoginInv, TypeOK, Devices
  <2>6. CASE ~(dev < N)
    <3>1. \A d \in Devices : d <= dev
      BY <2>6, SpeedwireAssumption DEF TypeOK, Devices
    <3> QED
      BY <2>1, <2>3, <2>4, <2>6, <3>1 DEF NextDevice, LoginInv
  <2> QED
    BY <2>5, <2>6
<1> QED
  BY <1>1, <1>2, <1>3, <1>4, <1>5, <1>6, <1>7, <1>8, <1>9
     DEF Next, Sending, Reception, Timeout

(* What the steps of the connection preserve together.                     *)
ConnectionInv == IdInv /\ FrameInv /\ ReplyInv /\ LoginInv

(* The conjunction of the four holds in every reachable state of the       *)
(* Speedwire connection.                                                   *)
THEOREM Invariance == Spec => []ConnectionInv
<1>1. Init => ConnectionInv
  BY DEF Init, ConnectionInv, IdInv, FrameInv, ReplyInv, LoginInv, Waiting,
         NoFrames
<1>2. TypeOK /\ ConnectionInv /\ [Next]_vars => ConnectionInv'
  <2> SUFFICES ASSUME TypeOK, ConnectionInv, [Next]_vars PROVE ConnectionInv'
    OBVIOUS
  <2>1. CASE Next
    BY <2>1, IdStep, FrameStep, ReplyStep, LoginStep DEF ConnectionInv
  <2>2. CASE UNCHANGED vars
    BY <2>2 DEF vars, ConnectionInv, IdInv, FrameInv, ReplyInv, LoginInv,
                Waiting
  <2> QED
    BY <2>1, <2>2
<1> QED
  BY <1>1, <1>2, TypeCorrect, PTL DEF Spec

(* Whatever request_all() and login_all() return was sent in answer to that*)
(* very call: AnswersThisCall holds for any number of devices.             *)
THEOREM AnswersBelong == Spec => []AnswersThisCall
<1>1. TypeOK /\ ConnectionInv => AnswersThisCall
  BY DEF ConnectionInv, ReplyInv, LoginInv, AnswersThisCall
<1> QED
  BY <1>1, TypeCorrect, Invariance, PTL

-----------------------------------------------------------------------------
(* Frames of the attempt that is awaited, the first time they arrive.      *)
Original(b) == b.id = pcktId /\ ~b.copy

AllClean == \A i \in DOMAIN frames : frames[i].clean

(* The device has answered with the frames n, ..., 0.  As long as every    *)
(* frame taken was clean, those taken are the first ones in order and the  *)
(* others are still on their way, each once.                               *)
Answering(n) ==
    /\ \A b \in net : b.id = pcktId =>
           b.err = "none" /\ b.of = n /\ b.left \in 0..n
    /\ \A b, c \in net :
           Original(b) /\ Original(c) /\ b.left = c.left => b = c
    /\ \A i \in DOMAIN frames : frames[i].of = n
    /\ AllClean =>
           /\ \A i \in DOMAIN frames : frames[i].left = n + 1 - i
           /\ \A k \in 0..n :
                  k + Len(frames) <= n <=> \E b \in net : Original(b) /\ b.left = k

(* The device has not answered yet, or it has refused.                     *)
Unanswered ==
    /\ frames = <<>>
    /\ \A b \in net : b.id = pcktId => b.err # "none"

(* Nothing but the request and one answer to it carries the packet id.     *)
AttemptInv ==
    Waiting /\ kind # "login" =>
        /\ \A r \in wire : r.id = pcktId => r.to = dev /\ r.kind = kind
        /\ \A b \in net : b.id = pcktId => b.from = dev /\ b.kind = kind
        /\ (\E r \in wire : r.id = pcktId) =>
               frames = <<>> /\ \A b \in net : b.id # pcktId
        /\ Unanswered \/ \E n \in Lengths(kind) : Answering(n)


(* The frame that Fragment keeps of a datagram.                            *)
FrameOf(a) == [from |-> a.from, call |-> a.call, left |-> a.left, of |-> a.of,
               clean |-> InTurn(a)]

LEMMA FrameOfFields ==
    ASSUME NEW a \in Answer
    PROVE  /\ FrameOf(a).left = a.left /\ FrameOf(a).of = a.of
           /\ FrameOf(a).clean = InTurn(a)
           /\ FrameOf(a) \in Frame
<1>1. InTurn(a) \in BOOLEAN
  BY DEF InTurn
<1>2. FrameOf(a).left = a.left /\ FrameOf(a).of = a.of
  BY Zenon DEF FrameOf
<1>3. FrameOf(a).clean = InTurn(a)
  BY Zenon DEF FrameOf
<1>4. FrameOf(a) \in Frame
  BY <1>1 DEF FrameOf, Frame, Answer
<1> QED
  BY <1>2, <1>3, <1>4

LEMMA Appended ==
    ASSUME TypeOK, NEW f \in Frame
    PROVE  /\ Len(frames) \in Nat /\ DOMAIN frames = 1..Len(frames)
           /\ Len(Append(frames, f)) = Len(frames) + 1
           /\ DOMAIN Append(frames, f) = 1..Len(frames) + 1
           /\ \A i \in 1..Len(frames) : Append(frames, f)[i] = frames[i]
           /\ Append(frames, f)[Len(frames) + 1] = f
BY DEF TypeOK

(* A reception takes one datagram and may leave a copy of it.              *)
LEMMA Received ==
    ASSUME TypeOK, NEW a \in net, Receive(a)
    PROVE  /\ \A b \in net' : \E c \in net :
                  /\ b.id = c.id /\ b.from = c.from /\ b.kind = c.kind
                  /\ b.err = c.err /\ b.of = c.of /\ b.left = c.left
           /\ \A b \in net' : ~b.copy => b \in net /\ b # a
           /\ \A b \in net : b # a => b \in net'
           /\ UNCHANGED <<kind, pcktId, wire>>
<1> DEFINE c == [a EXCEPT !.copy = TRUE]
<1>1. a \in Answer
  BY DEF TypeOK
<1>2. /\ c.id = a.id /\ c.from = a.from /\ c.kind = a.kind
      /\ c.err = a.err /\ c.of = a.of /\ c.left = a.left
  BY <1>1 DEF Answer
<1>3. c.copy
  BY <1>1 DEF Answer
<1> HIDE DEF c
<1>4. /\ \A b \in net' : b = c \/ (b \in net /\ b # a)
      /\ \A b \in net : b # a => b \in net'
      /\ UNCHANGED <<kind, pcktId, wire>>
  BY DEF Receive, c
<1>5. \A b \in net' : \E d \in net :
         /\ b.id = d.id /\ b.from = d.from /\ b.kind = d.kind
         /\ b.err = d.err /\ b.of = d.of /\ b.left = d.left
  BY <1>2, <1>4
<1>6. \A b \in net' : ~b.copy => b \in net /\ b # a
  BY <1>3, <1>4, Zenon
<1> QED
  BY <1>4, <1>5, <1>6, Zenon

(* A clean frame is the next one.                                          *)
LEMMA NextInTurn ==
    ASSUME TypeOK, NEW n \in Nat, Answering(n), AllClean,
           NEW a \in net, a.id = pcktId, InTurn(a)
    PROVE  a.left + Len(frames) = n
<1>1. Original(a) /\ a.left \in 0..n
  BY DEF InTurn, Original, Answering
<1>2. Len(frames) \in Nat
  BY DEF TypeOK
<1>3. a.left + Len(frames) <= n
  BY <1>1 DEF Answering
<1>4. ASSUME a.left + Len(frames) < n PROVE FALSE
  <2>1. n - Len(frames) \in 0..n /\ n - Len(frames) > a.left
    BY <1>1, <1>2, <1>4
  <2>2. PICK b \in net : Original(b) /\ b.left = n - Len(frames)
    BY <1>2, <2>1 DEF Answering
  <2> QED
    BY <2>1, <2>2 DEF InTurn, Original
<1> QED
  BY <1>1, <1>2, <1>3, <1>4

(* What frames hold after another one, while the answer goes on.           *)
LEMMA AnsweringGoesOn ==
    ASSUME TypeOK, NEW n \in Nat, Answering(n), NEW a \in net, a.id = pcktId,
           Receive(a), frames' = Append(frames, FrameOf(a))
    PROVE  Answering(n)'
<1>1. a \in Answer /\ a.of = n /\ a.left \in 0..n
  BY DEF TypeOK, Answering
<1>2. /\ FrameOf(a).left = a.left /\ FrameOf(a).of = n
      /\ FrameOf(a).clean = InTurn(a)
  BY <1>1, FrameOfFields
<1>3. /\ Len(frames) \in Nat /\ DOMAIN frames = 1..Len(frames)
      /\ Len(frames') = Len(frames) + 1
      /\ DOMAIN frames' = 1..Len(frames) + 1
      /\ \A i \in 1..Len(frames) : frames'[i] = frames[i]
      /\ frames'[Len(frames) + 1] = FrameOf(a)
  BY <1>1, FrameOfFields, Appended
<1>4. /\ \A b \in net' : \E c \in net :
             b.id = c.id /\ b.err = c.err /\ b.of = c.of /\ b.left = c.left
      /\ \A b \in net' : ~b.copy => b \in net /\ b # a
      /\ \A b \in net : b # a => b \in net'
      /\ pcktId' = pcktId
  BY Received
<1>5. \A b \in net' : b.id = pcktId' =>
          b.err = "none" /\ b.of = n /\ b.left \in 0..n
  BY <1>4 DEF Answering
<1>6. \A b, c \in net' :
          Original(b)' /\ Original(c)' /\ b.left = c.left => b = c
  BY <1>4 DEF Answering, Original
<1>7. \A i \in DOMAIN frames' : frames'[i].of = n
  BY <1>2, <1>3 DEF Answering
<1>8. ASSUME AllClean'
      PROVE  /\ \A i \in DOMAIN frames' : frames'[i].left = n + 1 - i
             /\ \A k \in 0..n : k + Len(frames') <= n <=>
                    \E b \in net' : Original(b)' /\ b.left = k
  <2>1. AllClean
    BY <1>3, <1>8 DEF AllClean
  <2>2. InTurn(a)
    BY <1>2, <1>3, <1>8 DEF AllClean
  <2>3. a.left + Len(frames) = n
    BY <2>1, <2>2, NextInTurn
  <2>4. \A i \in DOMAIN frames' : frames'[i].left = n + 1 - i
    BY <1>1, <1>2, <1>3, <2>1, <2>3 DEF Answering
  <2>5. ASSUME NEW k \in 0..n, k + Len(frames') <= n
        PROVE  \E b \in net' : Original(b)' /\ b.left = k
    <3>1. PICK b \in net : Original(b) /\ b.left = k
      BY <1>3, <2>1, <2>5 DEF Answering
    <3>2. b # a
      BY <1>1, <1>3, <2>3, <2>5, <3>1
    <3> QED
      BY <1>4, <3>1, <3>2 DEF Original
  <2>6. ASSUME NEW k \in 0..n, NEW b \in net', Original(b)', b.left = k
        PROVE  k + Len(frames') <= n
    <3>1. b \in net /\ Original(b) /\ b # a
      BY <1>4, <2>6 DEF Original
    <3>2. Original(a)
      BY <2>2 DEF Original, InTurn
    <3>3. b.left # a.left
      BY <3>1, <3>2 DEF Answering
    <3>4. k + Len(frames) <= n
      BY <2>1, <2>6, <3>1 DEF Answering
    <3> QED
      BY <1>1, <1>3, <2>3, <2>6, <3>3, <3>4
  <2> QED
    BY <2>4, <2>5, <2>6
<1> QED
  BY <1>5, <1>6, <1>7, <1>8 DEF Answering

(* What is received for another request does not touch the attempt.        *)
LEMMA IgnoredElsewhere ==
    ASSUME TypeOK, AttemptInv, Waiting, kind # "login", NEW a \in net, Ignore(a)
    PROVE  AttemptInv'
<1>1. UNCHANGED <<pc, dev, frames, kind, pcktId, wire>>
  BY DEF Ignore, Receive
<1>2. a.id # pcktId
  BY DEF Ignore, Matches, AttemptInv
<1>3. /\ \A b \in net' : b.id = pcktId => b \in net
      /\ \A b \in net : b.id = pcktId => b \in net'
  <2>1. [a EXCEPT !.copy = TRUE].id = a.id
    BY DEF TypeOK, Answer
  <2> QED
    BY <1>2, <2>1 DEF Ignore, Receive
<1>4. Unanswered => Unanswered'
  BY <1>1, <1>3 DEF Unanswered
<1>5. ASSUME NEW n, Answering(n) PROVE Answering(n)'
  <2>1. AllClean' <=> AllClean
    BY <1>1 DEF AllClean
  <2> QED
    BY <1>1, <1>3, <1>5, <2>1 DEF Answering, Original
<1>6. Unanswered \/ \E n \in Lengths(kind) : Answering(n)
  BY DEF AttemptInv
<1>7. Unanswered' \/ \E n \in Lengths(kind') : Answering(n)'
  BY <1>1, <1>4, <1>5, <1>6
<1>8. /\ \A r \in wire' : r.id = pcktId' => r.to = dev' /\ r.kind = kind'
      /\ \A b \in net' : b.id = pcktId' => b.from = dev' /\ b.kind = kind'
      /\ (\E r \in wire' : r.id = pcktId') =>
             frames' = <<>> /\ \A b \in net' : b.id # pcktId'
  BY <1>1, <1>3 DEF AttemptInv
<1> QED
  BY <1>7, <1>8 DEF AttemptInv

LEMMA LengthsAreNat == ASSUME NEW k \in Kinds PROVE Lengths(k) \subseteq Nat
BY SpeedwireAssumption DEF Lengths, Kinds

(* A fragment that leaves others missing.                                  *)
LEMMA FragmentKept ==
    ASSUME TypeOK, AttemptInv, NEW a \in net, Fragment(a),
           frames' = Append(frames, FrameOf(a)), UNCHANGED dev
    PROVE  AttemptInv'
<1>1. /\ Waiting /\ kind # "login" /\ a.id = pcktId /\ a.err = "none"
      /\ Receive(a)
  BY DEF Fragment, Receive, Matches, Waiting
<1>2. PICK n \in Lengths(kind) : Answering(n)
  BY <1>1 DEF AttemptInv, Unanswered
<1>3. n \in Nat
  BY <1>2, LengthsAreNat DEF TypeOK
<1>4. Answering(n)'
  BY <1>1, <1>2, <1>3, AnsweringGoesOn
<1>5. /\ \A b \in net' : \E c \in net :
             b.id = c.id /\ b.from = c.from /\ b.kind = c.kind
      /\ UNCHANGED <<kind, pcktId, wire>>
  BY <1>1, Received
<1>6. \A r \in wire : r.id # pcktId
  BY <1>1 DEF AttemptInv
<1>7. \A b \in net' : b.id = pcktId' => b.from = dev' /\ b.kind = kind'
  BY <1>1, <1>5 DEF AttemptInv
<1> QED
  BY <1>4, <1>5, <1>6, <1>7 DEF AttemptInv

(* The last fragment completes an answer whose frames were all clean.      *)
LEMMA FragmentCompletes ==
    ASSUME TypeOK, AttemptInv, AnswerIsComplete, NEW a \in net, Fragment(a),
           FragmentsLeft(a) = 0,
           reply' = [reply EXCEPT ![dev] = Append(frames, FrameOf(a))]
    PROVE  AnswerIsComplete'
<1> DEFINE all == Append(frames, FrameOf(a))
<1>1. /\ Waiting /\ kind # "login" /\ a.id = pcktId /\ a.err = "none"
      /\ Receive(a)
  BY DEF Fragment, Receive, Matches, Waiting
<1>2. PICK n \in Lengths(kind) : Answering(n)
  BY <1>1 DEF AttemptInv, Unanswered
<1>3. n \in Nat
  BY <1>2, LengthsAreNat DEF TypeOK
<1>4. a \in Answer /\ a.of = n /\ a.left \in 0..n
  BY <1>1, <1>2 DEF TypeOK, Answering
<1>5. a.left = 0
  <2>1. CASE kind = "event"
    BY <2>1 DEF FragmentsLeft
  <2>2. CASE kind = "spot"
    <3>1. n \in 0..ByteMask /\ ByteMask \in Nat
      BY <1>2, <2>2, SpeedwireAssumption DEF Lengths
    <3>2. a.left % (ByteMask + 1) = 0 /\ a.left \in Nat /\ a.left < ByteMask + 1
      BY <1>3, <1>4, <2>2, <3>1 DEF FragmentsLeft
    <3> QED
      BY <3>1, <3>2
  <2> QED
    BY <1>1, <2>1, <2>2 DEF TypeOK, Kinds
<1>6. /\ FrameOf(a).left = a.left /\ FrameOf(a).of = n
      /\ FrameOf(a).clean = InTurn(a)
  BY <1>4, FrameOfFields
<1>7. /\ Len(frames) \in Nat /\ DOMAIN frames = 1..Len(frames)
      /\ Len(all) = Len(frames) + 1
      /\ DOMAIN all = 1..Len(frames) + 1
      /\ \A i \in 1..Len(frames) : all[i] = frames[i]
      /\ all[Len(frames) + 1] = FrameOf(a)
  BY <1>4, FrameOfFields, Appended
<1> HIDE DEF all
<1>8. ASSUME \A i \in DOMAIN all : all[i].clean
      PROVE  /\ Len(all) = all[1].of + 1
             /\ \A i \in DOMAIN all : all[i].left = Len(all) - i
  <2>1. AllClean /\ InTurn(a)
    BY <1>6, <1>7, <1>8 DEF AllClean
  <2>2. Len(frames) = n
    <3>1. a.left + Len(frames) = n
      BY <1>1, <1>2, <1>3, <2>1, NextInTurn
    <3>2. Len(frames) \in Nat
      BY DEF TypeOK
    <3>3. 0 + Len(frames) = n
      BY <1>5, <3>1
    <3> QED
      BY <3>2, <3>3
  <2>3. \A i \in DOMAIN all : all[i].left = n + 1 - i
    BY <1>2, <1>3, <1>5, <1>6, <1>7, <2>1, <2>2 DEF Answering
  <2>4. all[1].of = n
    BY <1>2, <1>3, <1>6, <1>7 DEF Answering
  <2> QED
    BY <1>7, <2>2, <2>3, <2>4
<1>9. dev \in Devices /\ reply \in [Devices -> Seq(Frame)]
  BY DEF TypeOK
<1>10. ASSUME NEW d \in Devices, reply'[d] # <<>>,
              \A i \in DOMAIN reply'[d] : reply'[d][i].clean
       PROVE  /\ Len(reply'[d]) = reply'[d][1].of + 1
              /\ \A i \in DOMAIN reply'[d] :
                     reply'[d][i].left = Len(reply'[d]) - i
  <2>1. reply'[d] = IF d = dev THEN all ELSE reply[d]
    BY <1>9 DEF all
  <2>2. CASE d = dev
    BY <1>8, <1>10, <2>1, <2>2
  <2>3. CASE d # dev
    BY <1>10, <2>1, <2>3 DEF AnswerIsComplete
  <2> QED
    BY <2>2, <2>3
<1> QED
  BY <1>10 DEF AnswerIsComplete

(* A device's answer is either refused or a whole of n + 1 frames.         *)
LEMMA AnswerBegins ==
    ASSUME TypeOK, IdInv, FrameInv, AttemptInv, Waiting, kind # "login",
           NEW r \in wire, DeviceAnswers(r)
    PROVE  AttemptInv'
<1> DEFINE A(err, left, of) ==
      [from |-> r.to, id |-> r.id, kind |-> r.kind, call |-> r.call,
       left |-> left, of |-> of, err |-> err, copy |-> FALSE]
<1>1. /\ UNCHANGED <<pc, kind, dev, pcktId, frames>>
      /\ wire' = wire \ {r}
  BY DEF DeviceAnswers, answerVars
<1>2. \A err, left, of : /\ A(err, left, of).id = r.id
                         /\ A(err, left, of).from = r.to
                         /\ A(err, left, of).kind = r.kind
                         /\ A(err, left, of).err = err
                         /\ A(err, left, of).left = left
                         /\ A(err, left, of).of = of
  BY Zenon
<1>3. \A err, left, of : ~A(err, left, of).copy
  BY Zenon
<1> HIDE DEF A
<1>4. \/ \E n \in Lengths(r.kind) :
            net' = net \cup {A("none", i, n) : i \in 0..n}
      \/ \E err \in {"lri", "other"} : net' = net \cup {A(err, 0, 0)}
  BY DEF DeviceAnswers, A
<1>5. CASE r.id # pcktId
  <2>1. /\ \A b \in net' : b.id = pcktId => b \in net
        /\ net \subseteq net'
    BY <1>2, <1>4, <1>5
  <2>2. Unanswered => Unanswered'
    BY <1>1, <2>1 DEF Unanswered
  <2>3. ASSUME NEW n, Answering(n) PROVE Answering(n)'
    <3>1. AllClean' <=> AllClean
      BY <1>1 DEF AllClean
    <3> QED
      BY <1>1, <2>1, <2>3, <3>1 DEF Answering, Original
  <2>4. Unanswered \/ \E n \in Lengths(kind) : Answering(n)
    BY DEF AttemptInv
  <2>5. Unanswered' \/ \E n \in Lengths(kind') : Answering(n)'
    BY <1>1, <2>2, <2>3, <2>4
  <2>6. /\ \A q \in wire' : q.id = pcktId' => q.to = dev' /\ q.kind = kind'
        /\ \A b \in net' : b.id = pcktId' => b.from = dev' /\ b.kind = kind'
        /\ (\E q \in wire' : q.id = pcktId') =>
               frames' = <<>> /\ \A b \in net' : b.id # pcktId'
    BY <1>1, <2>1 DEF AttemptInv
  <2> QED
    BY <2>5, <2>6 DEF AttemptInv
<1>6. CASE r.id = pcktId
  <2>1. /\ r.to = dev /\ r.kind = kind /\ frames = <<>>
        /\ \A b \in net : b.id # pcktId
    BY <1>6 DEF AttemptInv
  <2>2. \A q \in wire' : q.id # pcktId
    <3>1. ASSUME NEW q \in wire, q.id = pcktId PROVE q = r
      <4>1. q \in Request /\ r \in Request
        BY DEF TypeOK
      <4>2. /\ q.to = dev /\ q.kind = kind /\ q.call = calls
            /\ r.call = calls
        BY <1>6, <3>1 DEF AttemptInv, IdInv
      <4> QED
        BY <1>6, <2>1, <3>1, <4>1, <4>2 DEF Request
    <3> QED
      BY <1>1, <3>1
  <2>3. ASSUME NEW n \in Lengths(r.kind),
               net' = net \cup {A("none", i, n) : i \in 0..n}
        PROVE  Answering(n)'
    <3>1. n \in Nat
      BY <2>1, <2>3, LengthsAreNat DEF TypeOK
    <3>2. \A b \in net' : b.id = pcktId' =>
              \E i \in 0..n : b = A("none", i, n)
      BY <1>1, <2>1, <2>3
    <3>3. \A i \in 0..n : A("none", i, n) \in net'
      BY <2>3
    <3>4. \A i \in 0..n : Original(A("none", i, n))'
      BY <1>1, <1>2, <1>3, <1>6 DEF Original
    <3>5. \A b \in net' : b.id = pcktId' =>
              b.err = "none" /\ b.of = n /\ b.left \in 0..n
      BY <1>2, <3>2
    <3>6. \A b, c \in net' :
              Original(b)' /\ Original(c)' /\ b.left = c.left => b = c
      BY <1>2, <3>2 DEF Original
    <3>7. frames' = <<>>
      BY <1>1, <2>1
    <3>8. \A k \in 0..n : \E b \in net' : Original(b)' /\ b.left = k
      BY <1>2, <3>3, <3>4
    <3> QED
      BY <3>1, <3>5, <3>6, <3>7, <3>8 DEF Answering
  <2>4. ASSUME NEW err \in {"lri", "other"}, net' = net \cup {A(err, 0, 0)}
        PROVE  Unanswered'
    BY <1>1, <1>2, <2>1, <2>4 DEF Unanswered
  <2>5. Unanswered' \/ \E n \in Lengths(kind') : Answering(n)'
    BY <1>1, <1>4, <2>1, <2>3, <2>4
  <2>6. \A b \in net' : b.id = pcktId' => b.from = dev' /\ b.kind = kind'
    BY <1>1, <1>2, <1>4, <2>1
  <2> QED
    BY <1>1, <2>2, <2>5, <2>6 DEF AttemptInv
<1> QED
  BY <1>5, <1>6

LEMMA AttemptStep ==
    ASSUME TypeOK, IdInv, FrameInv, AttemptInv, Next
    PROVE  AttemptInv'
<1>1. ASSUME ~Waiting' \/ kind' = "login" PROVE AttemptInv'
  BY <1>1 DEF AttemptInv
<1>2. CASE Send
  <2>1. /\ pcktId' = NextPcktId /\ frames' = <<>>
        /\ UNCHANGED <<kind, dev>>
    BY <1>2 DEF Send, NewPacket, FrameInv
  <2>2. \A b \in net' : b.id # pcktId'
    BY <1>2 DEF Send, NewPacket
  <2>3. \A r \in wire' : r.id = pcktId' => r.to = dev /\ r.kind = kind
    BY <1>2 DEF Send, NewPacket
  <2> QED
    BY <2>1, <2>2, <2>3 DEF AttemptInv, Unanswered
<1>3. ASSUME NEW a \in net, Ignore(a) PROVE AttemptInv'
  <2>1. Waiting /\ (kind' = "login" <=> kind = "login")
    BY <1>3 DEF Ignore, Receive, Waiting
  <2> QED
    BY <1>1, <1>3, <2>1, IgnoredElsewhere
<1>4. ASSUME NEW a \in net, Fragment(a) PROVE AttemptInv'
  <2>1. CASE NextDevice
    BY <1>1, <2>1, Resting
  <2>2. CASE frames' = Append(frames, FrameOf(a)) /\ UNCHANGED dev
    BY <1>4, <2>2, FragmentKept
  <2> QED
    BY <1>4, <2>1, <2>2 DEF Fragment, FrameOf
<1>5. ASSUME NEW r \in wire, DeviceAnswers(r) PROVE AttemptInv'
  <2>1. /\ Waiting' <=> Waiting
        /\ kind' = kind
    BY <1>5 DEF DeviceAnswers, Waiting
  <2> QED
    BY <1>1, <1>5, <2>1, AnswerBegins
<1>6. CASE Meters
  <2>1. UNCHANGED <<pc, kind, dev, pcktId, frames, wire, net>>
    BY <1>6 DEF Meters
  <2> QED
    BY <2>1 DEF AttemptInv, Waiting, Unanswered, Answering, Original, AllClean
<1>7. CASE LoginAll \/ RequestAll
  BY <1>1, <1>7 DEF LoginAll, RequestAll, Call, Waiting
<1>8. CASE SendFails
  BY <1>1, <1>8, Resting DEF SendFails
<1>9. CASE End \/ Logoff
  BY <1>1, <1>9 DEF End, Logoff, Waiting
<1>10. ASSUME NEW a \in net, ErrorCode(a) PROVE AttemptInv'
  BY <1>1, <1>10, Resting DEF ErrorCode
<1>11. ASSUME NEW a \in net, LoginGranted(a) PROVE AttemptInv'
  BY <1>1, <1>11, Resting DEF LoginGranted
<1>12. CASE Timeout
  BY <1>1, <1>12, Resting DEF Timeout, TimeoutFirst, TimeoutFragment, Waiting
<1>13. CASE ReceiveFails
  BY <1>1, <1>13, Resting DEF ReceiveFails
<1> QED
  BY <1>2, <1>3, <1>4, <1>5, <1>6, <1>7, <1>8, <1>9, <1>10, <1>11, <1>12,
     <1>13 DEF Next, Sending, Reception

LEMMA CompleteStep ==
    ASSUME TypeOK, AttemptInv, AnswerIsComplete, Next
    PROVE  AnswerIsComplete'
<1>1. ASSUME UNCHANGED reply PROVE AnswerIsComplete'
  BY <1>1 DEF AnswerIsComplete
<1>2. CASE LoginAll \/ RequestAll
  BY <1>2 DEF LoginAll, RequestAll, Call, AnswerIsComplete, NoFrames
<1>3. ASSUME NEW a \in net, Fragment(a) PROVE AnswerIsComplete'
  <2>1. \/ UNCHANGED reply
        \/ /\ FragmentsLeft(a) = 0
           /\ reply' = [reply EXCEPT ![dev] = Append(frames, FrameOf(a))]
    BY <1>3 DEF Fragment, FrameOf
  <2> QED
    BY <1>1, <1>3, <2>1, FragmentCompletes
<1>4. ASSUME NEW a \in net, Ignore(a) \/ ErrorCode(a) \/ LoginGranted(a)
      PROVE  AnswerIsComplete'
  BY <1>1, <1>4 DEF Ignore, ErrorCode, LoginGranted, answerVars
<1>5. CASE Sending \/ Timeout
  BY <1>1, <1>5 DEF Sending, Send, SendFails, Logoff, Timeout, TimeoutFirst,
                    TimeoutFragment, answerVars
<1>6. CASE ReceiveFails \/ End \/ Meters \/ \E r \in wire : DeviceAnswers(r)
  BY <1>1, <1>6 DEF ReceiveFails, End, Meters, DeviceAnswers, answerVars
<1> QED
  BY <1>2, <1>3, <1>4, <1>5, <1>6 DEF Next, Reception

(* An answer whose frames arrived once each and in their turn is returned  *)
(* whole, for any number of fragments and any width of the packet id and of*)
(* the fragment count.                                                     *)
THEOREM AnswersAreComplete == Spec => []AnswerIsComplete
<1>1. Init => AttemptInv /\ AnswerIsComplete
  BY DEF Init, AttemptInv, Waiting, AnswerIsComplete, NoFrames
<1>2. TypeOK /\ ConnectionInv /\ AttemptInv /\ AnswerIsComplete /\ [Next]_vars
          => (AttemptInv /\ AnswerIsComplete)'
  <2> SUFFICES ASSUME TypeOK, ConnectionInv, AttemptInv, AnswerIsComplete,
                      [Next]_vars
               PROVE  (AttemptInv /\ AnswerIsComplete)'
    OBVIOUS
  <2>1. CASE Next
    BY <2>1, AttemptStep, CompleteStep DEF ConnectionInv
  <2>2. CASE UNCHANGED vars
    BY <2>2 DEF vars, AttemptInv, Waiting, Unanswered, Answering, Original,
                AllClean, AnswerIsComplete
  <2> QED
    BY <2>1, <2>2
<1> QED
  BY <1>1, <1>2, TypeCorrect, Invariance, PTL DEF Spec
=============================================================================
