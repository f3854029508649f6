----------------------- MODULE ArduPilotPluginCauses -----------------------
(***************************************************************************)
(* Where the exchange does keep what it cannot promise in general.  Three  *)
(* properties of ArduPilotPlugin fail, each by a behaviour that a run      *)
(* shows; here each is proved from the absence of one cause, or for the    *)
(* part of the update that the cause does not reach.  A fourth theorem     *)
(* does the same for the frame count, whose going back the code only logs. *)
(***************************************************************************)
EXTENDS ArduPilotPluginProofs

\* A frame has been counted.
Counted == fcu_frame_count # UInt32Max

----------------------------------------------------------------------------
(* How a step moves the simulation thread and the clocks.                   *)

Receiving == pc \in {"recv", "drain", "servo"}

\* What each step does to the position in the update and to the two clocks that
\* decide whether an exchange is due.
LEMMA ClockMoves ==
  ASSUME [Next]_vars
  PROVE  \/ UNCHANGED <<pc, simTime, lastControllerUpdateTime>>
         \/ InitImu \/ PreUpdate \/ Update \/ Reset \/ PublishState \/ SkipPublish
         \/ /\ Receiving /\ (Receiving' \/ pc' = "update")
            /\ UNCHANGED <<simTime, lastControllerUpdateTime>>
<1> USE DEF threadVars, clockVars, stateVars
<1>1. CASE FirstRecv \/ FirstRecvTimeout \/ Drain \/ Drained
  BY <1>1 DEF FirstRecv, FirstRecvTimeout, Drain, Drained, RecvUnchanged, Receiving
<1>2. CASE \/ MissOffline \/ MissCounted \/ MissTimeout
           \/ BadMagic \/ DuplicateFrame \/ AcceptFrame
  <2>1. /\ pc = "servo" /\ (Return(TRUE) \/ Return(FALSE))
        /\ UNCHANGED <<simTime, lastControllerUpdateTime>>
    BY <1>2 DEF MissOffline, MissCounted, MissTimeout, Missed, BadMagic, DuplicateFrame,
                AcceptFrame, Received, ReceiveUnchanged
  <2>2. pc' \in {"recv", "update"}
    BY <2>1, ReturnType
  <2> QED
    BY <2>1, <2>2 DEF Receiving
<1>3. CASE ImuCb \/ FlightController \/ OnSignal \/ FcRestart \/ FcStop \/ LoseState \/ Stray
  BY <1>3, Zenon DEF ImuCb, FlightController, FcSend, FcResend, FcReceive, OnSignal,
                     FcRestart, FcStop, LoseState, Stray, plugin
<1>4. CASE UNCHANGED vars
  BY <1>4 DEF vars
<1> QED
  BY <1>1, <1>2, <1>3, <1>4 DEF Next, SimThread, Environment, Finished

\* What is received is received because an exchange is due.
ReceiveDue == Receiving => ExchangeDue(simTime)

LEMMA ReceiveDueStep ==
  ASSUME TypeOK, ReceiveDue, [Next]_vars
  PROVE  ReceiveDue'
<1> USE DEF ReceiveDue, ExchangeDue
<1>1. CASE UNCHANGED <<pc, simTime, lastControllerUpdateTime>>
  BY <1>1 DEF Receiving
<1>2. CASE PreUpdate
  BY <1>2 DEF PreUpdate, BeginUpdate, stateVars, Receiving
<1>3. CASE InitImu \/ Update \/ Reset \/ PublishState \/ SkipPublish
  <2>1. ~Receiving'
    BY <1>3 DEF InitImu, BeginUpdate, Update, Reset, PublishState, SkipPublish, threadVars,
                Receiving
  <2> QED
    BY <2>1
<1>4. CASE Receiving /\ UNCHANGED <<simTime, lastControllerUpdateTime>>
  BY <1>4
<1> QED
  BY <1>1, <1>2, <1>3, <1>4, ClockMoves

----------------------------------------------------------------------------
(* LockSteppedAlways: only a world reset breaks it.                         *)

\* From the start of an update until it is published an exchange is due.
UpdateDue == pc # "idle" => ExchangeDue(simTime)

LEMMA UpdateDueStep ==
  ASSUME TypeOK, ClockInv, UpdateDue, "worldReset" \notin Faults, [Next]_vars
  PROVE  UpdateDue'
<1> USE DEF UpdateDue, ExchangeDue, stateVars
<1>1. simTime \in Nat /\ physTime \in Nat /\ lastControllerUpdateTime \in Nat
  BY DEF TypeOK, Time
<1>2. CASE UNCHANGED <<pc, simTime, lastControllerUpdateTime>>
  BY <1>2
<1>3. CASE InitImu \/ PreUpdate
  <2>1. /\ pc = "idle" /\ simTime' = simTime + 1
        /\ UNCHANGED lastControllerUpdateTime
    BY <1>3 DEF InitImu, PreUpdate, BeginUpdate
  <2> QED
    BY <1>1, <2>1 DEF ClockInv
<1>4. CASE Update
  BY <1>4 DEF Update
<1>5. CASE PublishState \/ SkipPublish
  BY <1>5 DEF PublishState, SkipPublish
<1>6. CASE Receiving /\ UNCHANGED <<simTime, lastControllerUpdateTime>>
  BY <1>6 DEF Receiving
<1>7. ~Reset
  BY DEF Reset, MayFault
<1> QED
  BY <1>2, <1>3, <1>4, <1>5, <1>6, <1>7, ClockMoves

\* Without world resets lock-step has no exception: the physics of an online
\* vehicle moves only in an update that accepted a new servo frame.
THEOREM LockSteppedUnlessReset ==
  ASSUME "worldReset" \notin Faults
  PROVE  Spec => []LockSteppedAlways
<1> DEFINE Inv == SafetyInv /\ ClockInv /\ UpdateDue
<1>1. Init => Inv
  BY SafetyInit DEF Init, ClockInv, UpdateDue
<1>2. Inv /\ [Next]_vars => Inv'
  BY SafetyStep, ClockStep, UpdateDueStep DEF SafetyInv
<1>3. Inv => LockSteppedAlways
  BY DEF SafetyInv, LockStepped, LockSteppedAlways, UpdateDue
<1> QED
  BY <1>1, <1>2, <1>3, PTL DEF Spec

----------------------------------------------------------------------------
(* The socket and the packet in hand.                                       *)

\* How a step moves the packets: from the controller or a stranger to the
\* queue, from the queue to the hands of the receive, and out of them.
LEMMA PacketMoves ==
  ASSUME [Next]_vars
  PROVE  \/ FirstRecv \/ Drain \/ FcSend \/ FcResend \/ Stray
         \/ UNCHANGED <<inbox, in_addr>> /\ (UNCHANGED pkt \/ pkt' = NoPkt)
<1> USE DEF threadVars, sockVars
<1>1. CASE FirstRecvTimeout \/ Drained
  BY <1>1, Zenon DEF FirstRecvTimeout, Drained
<1>2. CASE \/ MissOffline \/ MissCounted \/ MissTimeout
           \/ BadMagic \/ DuplicateFrame \/ AcceptFrame
  BY <1>2 DEF MissOffline, MissCounted, MissTimeout, Missed, BadMagic, DuplicateFrame,
              AcceptFrame, Received, ReceiveUnchanged
<1>3. CASE InitImu \/ PreUpdate \/ Update \/ PublishState \/ SkipPublish \/ ImuCb
  BY <1>3, Zenon DEF InitImu, PreUpdate, Update, PublishState, SkipPublish, ImuCb
<1>4. CASE FcReceive \/ Reset \/ OnSignal \/ FcRestart \/ FcStop \/ LoseState
  BY <1>4, Zenon DEF FcReceive, Reset, OnSignal, FcRestart, FcStop, LoseState, plugin
<1>5. CASE UNCHANGED vars
  BY <1>5 DEF vars
<1> QED
  BY <1>1, <1>2, <1>3, <1>4, <1>5 DEF Next, SimThread, FlightController, Environment, Finished

\* The controller changes by its own steps and by its restart or end.
LEMMA ControllerMoves ==
  ASSUME [Next]_vars
  PROVE  UNCHANGED fc \/ FcSend \/ FcReceive \/ FcRestart \/ FcStop
<1> USE DEF envVars
<1>1. CASE \/ InitImu \/ PreUpdate \/ FirstRecv \/ FirstRecvTimeout \/ Drain \/ Drained
  BY <1>1, Zenon DEF InitImu, PreUpdate, FirstRecv, FirstRecvTimeout, Drain, Drained,
                     RecvUnchanged
<1>2. CASE \/ MissOffline \/ MissCounted \/ MissTimeout
           \/ BadMagic \/ DuplicateFrame \/ AcceptFrame
  BY <1>2, Zenon DEF MissOffline, MissCounted, MissTimeout, BadMagic, DuplicateFrame,
                     AcceptFrame, ReceiveUnchanged
<1>3. CASE Update \/ PublishState \/ SkipPublish \/ ImuCb
  BY <1>3, Zenon DEF Update, PublishState, SkipPublish, ImuCb
<1>4. CASE FcResend \/ Reset \/ OnSignal \/ LoseState \/ Stray
  BY <1>4, Zenon DEF FcResend, Reset, OnSignal, LoseState, Stray
<1>5. CASE UNCHANGED vars
  BY <1>5 DEF vars
<1> QED
  BY <1>1, <1>2, <1>3, <1>4, <1>5 DEF Next, SimThread, FlightController, Environment, Finished

\* The datagram that is taken was in the queue, and those left were, too.
LEMMA TakenWasQueued ==
  ASSUME TypeOK, TakeDatagram
  PROVE  /\ 1 \in DOMAIN inbox /\ pkt' = inbox[1] /\ in_addr' = inbox[1].src
         /\ \A n \in DOMAIN inbox' : n + 1 \in DOMAIN inbox /\ inbox'[n] = inbox[n + 1]
<1>1. inbox \in Seq(Datagram) /\ inbox # <<>>
  BY DEF TypeOK, TakeDatagram
<1> QED
  BY <1>1 DEF TakeDatagram

\* The network adds the datagram at one end of the queue, or loses it.
LEMMA TransmitAdds ==
  ASSUME TypeOK, NEW d \in Datagram, Transmit(d)
  PROVE  inbox' \in {inbox, Append(inbox, d), <<d>> \o inbox}
BY Zenon DEF Transmit

----------------------------------------------------------------------------
(* NeverSendsEmptyState: only a controller that was started before the      *)
(* first IMU message is sent an empty state.                                *)

\* Packets come after the IMU message, and so does all they lead to.
PacketsAwaitImu ==
  ~imuMsgValid =>
    /\ pkt # NoPkt => ~pkt.good
    /\ \A n \in DOMAIN inbox : ~inbox[n].good
    /\ ~arduPilotOnline /\ ~Counted /\ ~fc.waiting

\* There is no state to resend only while the update that accepted the first
\* frame goes on to build one.
FirstStateComes ==
  json_str = NoState /\ (arduPilotOnline \/ Counted) =>
    arduPilotOnline /\ pc \in {"update", "post"} /\ ExchangeDue(simTime)

LEMMA PacketsAwaitImuStep ==
  ASSUME TypeOK, TypeOK', FcAwaitsImu, PacketsAwaitImu, [Next]_vars
  PROVE  PacketsAwaitImu'
<1> SUFFICES ASSUME ~imuMsgValid, ~imuMsgValid' PROVE PacketsAwaitImu'
  BY ImuStaysValid DEF PacketsAwaitImu
<1>1. /\ pkt # NoPkt => ~pkt.good
      /\ \A n \in DOMAIN inbox : ~inbox[n].good
      /\ ~arduPilotOnline /\ ~Counted /\ ~fc.waiting
  BY DEF PacketsAwaitImu
<1>2. ~arduPilotOnline' /\ ~Counted'
  <2>1. CASE UNCHANGED <<isLockStep, linkVars>>
    BY <1>1, <2>1 DEF linkVars, Counted
  <2>2. CASE MissCounted \/ MissTimeout
    BY <1>1, <2>2 DEF MissCounted, MissTimeout
  <2>3. CASE DuplicateFrame \/ AcceptFrame
    BY <1>1, <2>3 DEF DuplicateFrame, AcceptFrame, Received
  <2> QED
    BY <2>1, <2>2, <2>3, LinkChanges
<1>3. /\ pkt' # NoPkt => ~pkt'.good
      /\ \A n \in DOMAIN inbox' : ~inbox'[n].good
  <2>1. CASE FirstRecv \/ Drain
    BY <1>1, <2>1, TakenWasQueued DEF FirstRecv, Drain
  <2>2. ~FcSend
    BY DEF FcSend
  <2>3. ~FcResend
    BY <1>1 DEF FcResend
  <2>4. CASE Stray
    <3>1. PICK p \in Peers :
            inbox' = Append(inbox, [src |-> p, frame |-> 0, good |-> FALSE])
      BY <2>4 DEF Stray
    <3>2. inbox \in Seq(Datagram) /\ pkt' = pkt
      BY <2>4 DEF TypeOK, Stray, plugin, threadVars
    <3> QED
      BY <1>1, <3>1, <3>2
  <2>5. CASE UNCHANGED <<inbox, in_addr>> /\ (UNCHANGED pkt \/ pkt' = NoPkt)
    BY <1>1, <2>5
  <2> QED
    BY <2>1, <2>2, <2>3, <2>4, <2>5, PacketMoves
<1>4. ~fc'.waiting
  <2>1. CASE UNCHANGED fc
    BY <1>1, <2>1
  <2>2. CASE FcSend \/ FcReceive \/ FcRestart \/ FcStop
    BY <1>1, <2>2 DEF FcSend, FcReceive, FcRestart, FcStop, TypeOK
  <2> QED
    BY <2>1, <2>2, ControllerMoves
<1> QED
  BY <1>2, <1>3, <1>4 DEF PacketsAwaitImu

\* The receive that repeats a state has one to repeat.
LEMMA ServoHasState ==
  ASSUME TypeOK, FirstStateComes, MissCounted \/ MissTimeout \/ DuplicateFrame
  PROVE  json_str # NoState /\ UNCHANGED json_str
<1>1. pc = "servo" /\ UNCHANGED json_str
  BY DEF MissCounted, MissTimeout, Missed, DuplicateFrame, Received, ReceiveUnchanged,
         stateVars
<1>2. arduPilotOnline \/ Counted
  <2>1. CASE DuplicateFrame
    <3>1. pkt \in Datagram
      BY <2>1 DEF DuplicateFrame, Received, TypeOK
    <3> QED
      BY <2>1, <3>1, FirstFrameIsNew DEF DuplicateFrame, PktFrameCount, Datagram, Counted
  <2> QED
    BY <2>1 DEF MissCounted, MissTimeout
<1> QED
  BY <1>1, <1>2 DEF FirstStateComes

LEMMA FirstStateComesStep ==
  ASSUME TypeOK, PacketsAwaitImu, ReceiveDue, FirstStateComes, [Next]_vars
  PROVE  FirstStateComes'
<1> SUFFICES ASSUME json_str' = NoState, arduPilotOnline' \/ Counted'
             PROVE  arduPilotOnline' /\ pc' \in {"update", "post"} /\ ExchangeDue(simTime)'
  BY DEF FirstStateComes
<1> USE DEF clockVars, stateVars
<1>1. CASE PublishState
  <2>1. arduPilotOnline /\ imuMsgValid /\ json_str' = simTime
    BY <1>1 DEF PublishState, PacketsAwaitImu, CreateStateJSON
  <2>2. simTime > lastControllerUpdateTime /\ lastControllerUpdateTime >= 0 /\ simTime \in Int
    BY <1>1 DEF PublishState, ExchangeDue, TypeOK, Time
  <2> QED
    BY <2>1, <2>2 DEF NoState, TypeOK, Time
<1>2. CASE UNCHANGED stateVars /\ UNCHANGED <<isLockStep, linkVars>>
  <2>1. arduPilotOnline /\ pc \in {"update", "post"} /\ ExchangeDue(simTime)
    BY <1>2 DEF FirstStateComes, linkVars, Counted
  <2>2. CASE UNCHANGED <<pc, simTime, lastControllerUpdateTime>>
    BY <1>2, <2>1, <2>2 DEF linkVars, ExchangeDue
  <2>3. CASE Update
    BY <1>2, <2>1, <2>3 DEF Update, linkVars, ExchangeDue
  <2>4. ~InitImu /\ ~PreUpdate /\ ~Reset /\ ~SkipPublish /\ ~Receiving
    BY <2>1 DEF InitImu, PreUpdate, BeginUpdate, Reset, SkipPublish, Receiving
  <2> QED
    BY <1>1, <2>2, <2>3, <2>4, ClockMoves
<1>3. CASE AcceptFrame
  <2>1. pc = "servo" /\ arduPilotOnline' /\ UNCHANGED <<simTime, lastControllerUpdateTime>>
    BY <1>3 DEF AcceptFrame, Received, ReceiveUnchanged
  <2>2. pc' = "update"
    BY <1>3 DEF AcceptFrame, Return
  <2> QED
    BY <2>1, <2>2 DEF ReceiveDue, Receiving, ExchangeDue
<1>4. CASE MissCounted \/ MissTimeout \/ DuplicateFrame
  BY <1>4, ServoHasState
<1> QED
  BY <1>1, <1>2, <1>3, <1>4, LinkChanges, StateChanges

\* States are sent by a resend or by PostUpdate.
LEMMA StatesSent ==
  ASSUME [Next]_vars
  PROVE  toFc' \subseteq toFc \/ MissTimeout \/ DuplicateFrame \/ PublishState
<1>1. CASE \/ InitImu \/ PreUpdate \/ FirstRecv \/ FirstRecvTimeout \/ Drain \/ Drained
  BY <1>1, Zenon DEF InitImu, PreUpdate, FirstRecv, FirstRecvTimeout, Drain, Drained,
                     RecvUnchanged
<1>2. CASE MissOffline \/ MissCounted \/ BadMagic \/ AcceptFrame
  BY <1>2, Zenon DEF MissOffline, MissCounted, BadMagic, AcceptFrame
<1>3. CASE Update \/ SkipPublish \/ ImuCb
  BY <1>3, Zenon DEF Update, SkipPublish, ImuCb
<1>4. CASE FlightController
  BY <1>4 DEF FlightController, FcSend, FcResend, FcReceive
<1>5. CASE Environment
  BY <1>5 DEF Environment, Reset, OnSignal, FcRestart, FcStop, LoseState, Stray
<1>6. CASE UNCHANGED vars
  BY <1>6 DEF vars
<1> QED
  BY <1>1, <1>2, <1>3, <1>4, <1>5, <1>6 DEF Next, SimThread, Finished

LEMMA NoEmptyStep ==
  ASSUME TypeOK, PacketsAwaitImu, FirstStateComes, NeverSendsEmptyState, [Next]_vars
  PROVE  NeverSendsEmptyState'
<1> USE DEF NeverSendsEmptyState
<1>1. CASE toFc' \subseteq toFc
  BY <1>1
<1>2. CASE MissTimeout \/ DuplicateFrame
  <2>1. json_str # NoState
    BY <1>2, ServoHasState DEF ReceiveUnchanged, MissTimeout, DuplicateFrame
  <2>2. toFc' \subseteq toFc \cup {json_str}
    BY <1>2 DEF MissTimeout, TimeOut, DuplicateFrame, AnswerDuplicate, SendState
  <2> QED
    BY <2>1, <2>2
<1>3. CASE PublishState
  <2>1. arduPilotOnline /\ imuMsgValid /\ json_str' = simTime
    BY <1>3 DEF PublishState, PacketsAwaitImu, CreateStateJSON
  <2>2. simTime # NoState
    BY <1>3 DEF PublishState, ExchangeDue, TypeOK, Time, NoState
  <2>3. toFc' \subseteq toFc \cup {json_str'}
    BY <1>3 DEF PublishState, SendState
  <2> QED
    BY <2>1, <2>2, <2>3
<1> QED
  BY <1>1, <1>2, <1>3, StatesSent

\* A controller that is started after the first IMU message is never sent an
\* empty state, whatever is lost, repeated, restarted or reset: the check for a
\* valid message (line 1724) comes too late only for the ones started before.
THEOREM NoEmptyStateAfterImu ==
  ASSUME FcAwaitsImu
  PROVE  Spec => []NeverSendsEmptyState
<1> DEFINE Inv == /\ TypeOK /\ PacketsAwaitImu /\ ReceiveDue /\ FirstStateComes
                  /\ NeverSendsEmptyState
<1>1. Init => Inv
  <2>1. Init => ~fc.waiting /\ inbox = <<>> /\ toFc = {}
    BY DEF Init
  <2> QED
    BY <2>1, TypeInit DEF Init, PacketsAwaitImu, ReceiveDue, Receiving, FirstStateComes,
                          Counted, NeverSendsEmptyState
<1>2. Inv /\ [Next]_vars => Inv'
  BY TypeStep, PacketsAwaitImuStep, ReceiveDueStep, FirstStateComesStep, NoEmptyStep
<1>3. Inv => NeverSendsEmptyState
  OBVIOUS
<1> QED
  BY <1>1, <1>2, <1>3, PTL DEF Spec

----------------------------------------------------------------------------
(* ReplyAddressKnown: unknown only from the end of a receive to the next.   *)

\* Whoever was heard has an address.
SenderKnown == arduPilotOnline \/ Counted \/ pkt # NoPkt => in_addr # NoAddr

\* What a resend needs: at the end of a receive the address of a controller that
\* is online, or of which a frame has been counted, is known.
ResendAddressed ==
  pc \in {"drain", "servo"} => ReplyAddressKnown /\ (Counted => fcu_address # NoAddr)

LEMMA TakenFromPeer ==
  ASSUME TypeOK, TakeDatagram
  PROVE  in_addr' # NoAddr
<1>1. pkt' \in Datagram /\ in_addr' = pkt'.src
  BY TakeType, TakenWasQueued
<1>2. in_addr' \in Peers
  BY <1>1 DEF Datagram
<1> QED
  BY <1>2, PluginAssumption DEF PluginAssumption

LEMMA SenderKnownStep ==
  ASSUME TypeOK, SenderKnown, [Next]_vars
  PROVE  SenderKnown'
<1> USE DEF SenderKnown
<1>1. CASE FirstRecv \/ Drain
  BY <1>1, TakenFromPeer DEF FirstRecv, Drain
<1>2. arduPilotOnline' \/ Counted' => arduPilotOnline \/ Counted \/ pkt # NoPkt
  <2>1. CASE UNCHANGED <<isLockStep, linkVars>>
    BY <2>1 DEF linkVars, Counted
  <2>2. CASE MissCounted \/ MissTimeout
    BY <2>2 DEF MissCounted, MissTimeout
  <2>3. CASE DuplicateFrame \/ AcceptFrame
    BY <2>3 DEF DuplicateFrame, AcceptFrame, Received
  <2> QED
    BY <2>1, <2>2, <2>3, LinkChanges
<1>3. CASE FcSend \/ FcResend \/ Stray
  <2>1. UNCHANGED <<in_addr, pkt>>
    BY <1>3 DEF FcSend, FcResend, Stray, plugin, threadVars
  <2> QED
    BY <1>2, <2>1
<1>4. CASE UNCHANGED <<inbox, in_addr>> /\ (UNCHANGED pkt \/ pkt' = NoPkt)
  BY <1>2, <1>4
<1> QED
  BY <1>1, <1>3, <1>4, PacketMoves

\* The address is taken by the first receive and kept until the next.
LEMMA AddressMoves ==
  ASSUME [Next]_vars
  PROVE  \/ FirstRecv \/ FirstRecvTimeout \/ Drain \/ Drained
         \/ pc' \notin {"drain", "servo"}
         \/ UNCHANGED <<pc, fcu_address, linkVars>>
<1> USE DEF threadVars
<1>1. CASE \/ MissOffline \/ MissCounted \/ MissTimeout
           \/ BadMagic \/ DuplicateFrame \/ AcceptFrame
  <2>1. Return(TRUE) \/ Return(FALSE)
    BY <1>1 DEF MissOffline, MissCounted, MissTimeout, BadMagic, DuplicateFrame, AcceptFrame
  <2> QED
    BY <2>1, ReturnType
<1>2. CASE InitImu \/ PreUpdate \/ Update \/ PublishState \/ SkipPublish
  BY <1>2 DEF InitImu, PreUpdate, BeginUpdate, Update, PublishState, SkipPublish
<1>3. CASE ImuCb \/ FlightController \/ Environment
  BY <1>3, Zenon DEF ImuCb, FlightController, FcSend, FcResend, FcReceive, Environment,
                     Reset, OnSignal, FcRestart, FcStop, LoseState, Stray, plugin
<1>4. CASE UNCHANGED vars
  BY <1>4 DEF vars
<1> QED
  BY <1>1, <1>2, <1>3, <1>4 DEF Next, SimThread, Finished

LEMMA ResendAddressedStep ==
  ASSUME TypeOK, SenderKnown, ResendAddressed, [Next]_vars
  PROVE  ResendAddressed'
<1> USE DEF ResendAddressed, ReplyAddressKnown, Counted
<1>1. CASE FirstRecv
  BY <1>1, TakenFromPeer DEF FirstRecv
<1>2. CASE FirstRecvTimeout
  BY <1>2 DEF FirstRecvTimeout, RecvUnchanged, linkVars, SenderKnown
<1>3. CASE Drain \/ Drained
  BY <1>3 DEF Drain, Drained, RecvUnchanged, linkVars
<1>4. CASE pc' \notin {"drain", "servo"}
  BY <1>4
<1>5. CASE UNCHANGED <<pc, fcu_address, linkVars>>
  BY <1>5 DEF linkVars
<1> QED
  BY <1>1, <1>2, <1>3, <1>4, <1>5, AddressMoves

\* When ReceiveServoPacket resends a state the address it goes to is known; the
\* one that may go nowhere is what PostUpdate sends after an update whose first
\* receive (line 1432) had timed out and whose others brought the connection.
THEOREM ResendsAddressed == Spec => []ResendAddressed
<1> DEFINE Inv == TypeOK /\ SenderKnown /\ ResendAddressed
<1>1. Init => Inv
  BY TypeInit DEF Init, SenderKnown, ResendAddressed, Counted
<1>2. Inv /\ [Next]_vars => Inv'
  BY TypeStep, SenderKnownStep, ResendAddressedStep
<1>3. Inv => ResendAddressed
  OBVIOUS
<1> QED
  BY <1>1, <1>2, <1>3, PTL DEF Spec

----------------------------------------------------------------------------
(* The frame count goes back only by reordering, a restart or a wrap.       *)

\* Good packets, in hand and in the queue, are in the order they were sent in,
\* none is older than the last counted and none newer than the controller's.
CountNotAhead == Counted => fcu_frame_count <= fc.frame

HandInOrder ==
  pkt # NoPkt /\ pkt.good =>
    pkt.frame <= fc.frame /\ (Counted => fcu_frame_count <= pkt.frame)

QueueInOrder ==
  \A n \in DOMAIN inbox : inbox[n].good =>
    /\ inbox[n].frame <= fc.frame
    /\ Counted => fcu_frame_count <= inbox[n].frame
    /\ pkt # NoPkt /\ pkt.good => pkt.frame <= inbox[n].frame
    /\ \A m \in DOMAIN inbox : n < m /\ inbox[m].good => inbox[n].frame <= inbox[m].frame

OrderInv == CountNotAhead /\ HandInOrder /\ QueueInOrder

\* The controller's counter has not wrapped as the plugin counts (uint16_t).
NotWrapped == fc.frame < UInt16

\* "ArduPilot controller has reset" is logged of a packet that is then accepted.
LogsReset == PktFrameCount < fcu_frame_count

\* It is logged of the first frame, always, and of no frame after it: the counts
\* of the accepted frames go up.
ResetLoggedFirst ==
  [][AcceptFrame => IF Counted THEN ~LogsReset /\ fcu_frame_count' > fcu_frame_count
                    ELSE LogsReset]_vars

LEMMA FrameTypes ==
  ASSUME TypeOK
  PROVE  /\ fc.frame \in Nat /\ fcu_frame_count \in Nat
         /\ inbox \in Seq(Datagram) /\ \A n \in DOMAIN inbox : inbox[n].frame \in Nat
         /\ pkt # NoPkt => pkt.frame \in Nat
<1>1. Frame \subseteq Nat
  BY DEF Frame
<1>2. \A d \in Datagram : d.frame \in Nat
  BY <1>1 DEF Datagram
<1>3. fc.frame \in Nat /\ fcu_frame_count \in Nat
  BY <1>1 DEF TypeOK
<1>4. inbox \in Seq(Datagram) /\ pkt \in Datagram \cup {NoPkt}
  BY DEF TypeOK
<1>5. \A n \in DOMAIN inbox : inbox[n].frame \in Nat
  BY <1>2, <1>4
<1> QED
  BY <1>2, <1>3, <1>4, <1>5

\* What is taken from the front is the oldest.
LEMMA TakeInOrder ==
  ASSUME TypeOK, OrderInv, TakeDatagram, UNCHANGED <<fc, fcu_frame_count>>
  PROVE  OrderInv'
<1> USE DEF OrderInv, CountNotAhead, HandInOrder, QueueInOrder, Counted
<1>1. /\ 1 \in DOMAIN inbox /\ pkt' = inbox[1]
      /\ \A n \in DOMAIN inbox' : n + 1 \in DOMAIN inbox /\ inbox'[n] = inbox[n + 1]
  BY TakenWasQueued
<1>2. \A n \in DOMAIN inbox' : n \in Nat /\ n > 0
  BY DEF TakeDatagram, TypeOK
<1>3. CountNotAhead' /\ HandInOrder'
  BY <1>1
<1>4. QueueInOrder'
  BY <1>1, <1>2
<1> QED
  BY <1>3, <1>4

\* What is sent is the newest, and without reordering goes to the back.
LEMMA SendInOrder ==
  ASSUME TypeOK, OrderInv, "reorder" \notin Faults, FcSend \/ FcResend
  PROVE  OrderInv'
<1> USE DEF OrderInv, CountNotAhead, HandInOrder, QueueInOrder, Counted
<1>1. /\ inbox \in Seq(Datagram) /\ ServoPacket.frame = fc.frame
      /\ fc'.frame = fc.frame /\ UNCHANGED <<pkt, fcu_frame_count>>
  BY FrameTypes DEF FcSend, FcResend, plugin, threadVars, linkVars, ServoPacket, TypeOK
<1>2. Transmit(ServoPacket)
  BY DEF FcSend, FcResend
<1>3. inbox' = inbox \/ inbox' = Append(inbox, ServoPacket)
  BY <1>2, Zenon DEF Transmit, MayFault
<1>4. CASE inbox' = inbox
  BY <1>1, <1>4
<1>5. CASE inbox' = Append(inbox, ServoPacket)
  <2>1. \A n \in DOMAIN inbox' :
          \/ n \in DOMAIN inbox /\ inbox'[n] = inbox[n]
          \/ inbox'[n] = ServoPacket
    BY <1>1, <1>5
  <2>2. \A n \in DOMAIN inbox' : inbox'[n].good => inbox'[n].frame <= fc.frame
    BY <1>1, <2>1, FrameTypes
  <2>3. \A n, m \in DOMAIN inbox' : n < m => n \in DOMAIN inbox /\ inbox'[n] = inbox[n]
    BY <1>1, <1>5
  <2> QED
    BY <1>1, <2>1, <2>2, <2>3, FrameTypes
<1> QED
  BY <1>3, <1>4, <1>5

LEMMA StrayInOrder ==
  ASSUME TypeOK, OrderInv, Stray
  PROVE  OrderInv'
<1> USE DEF OrderInv, CountNotAhead, HandInOrder, QueueInOrder, Counted
<1>1. PICK p \in Peers :
        inbox' = Append(inbox, [src |-> p, frame |-> 0, good |-> FALSE])
  BY DEF Stray
<1>2. inbox \in Seq(Datagram) /\ UNCHANGED <<fc, pkt, fcu_frame_count>>
  BY DEF TypeOK, Stray, plugin, threadVars, linkVars
<1>3. \A n \in DOMAIN inbox' :
        inbox'[n].good => n \in DOMAIN inbox /\ inbox'[n] = inbox[n]
  BY <1>1, <1>2
<1> QED
  BY <1>2, <1>3

\* The controller's count goes up by one until it wraps.
LEMMA AnswerInOrder ==
  ASSUME TypeOK, OrderInv, NotWrapped, FcReceive
  PROVE  OrderInv'
<1> USE DEF OrderInv, CountNotAhead, HandInOrder, QueueInOrder, Counted
<1>1. UNCHANGED <<inbox, pkt, fcu_frame_count>>
  BY DEF FcReceive, plugin, sockVars, threadVars, linkVars
<1>2. fc' = fc \/ fc' = NextFrame
  BY DEF FcReceive
<1>3. fc'.frame >= fc.frame /\ fc'.frame \in Nat
  <2>1. CASE fc' = NextFrame
    <3>1. fc'.frame = (fc.frame + 1) % UInt32
      BY <2>1 DEF NextFrame, TypeOK
    <3>2. fc.frame + 1 \in 0 .. UInt32 - 1
      BY FrameTypes, PluginAssumption DEF NotWrapped, PluginAssumption
    <3>3. (fc.frame + 1) % UInt32 = fc.frame + 1
      BY <3>2, PluginAssumption DEF PluginAssumption
    <3> QED
      BY <3>1, <3>3, FrameTypes
  <2>2. CASE fc' = fc
    BY <2>2, FrameTypes
  <2> QED
    BY <1>2, <2>1, <2>2
<1> QED
  BY <1>1, <1>3, FrameTypes

\* The plugin counts the packet it has in hand, and drops it.
LEMMA CountInOrder ==
  ASSUME TypeOK, OrderInv, NotWrapped, AcceptFrame
  PROVE  /\ OrderInv'
         /\ IF Counted THEN ~LogsReset /\ fcu_frame_count' > fcu_frame_count
            ELSE LogsReset
<1> USE DEF OrderInv, CountNotAhead, HandInOrder, QueueInOrder, Counted
<1>1. /\ pkt # NoPkt /\ pkt.good /\ pkt' = NoPkt
      /\ fcu_frame_count' = PktFrameCount /\ fcu_frame_count # PktFrameCount
      /\ UNCHANGED <<inbox, fc>>
  BY DEF AcceptFrame, Received, ReceiveUnchanged, sockVars, envVars
<1>2. PktFrameCount = pkt.frame
  <2>1. pkt.frame \in 0 .. UInt16 - 1
    BY <1>1, FrameTypes, PluginAssumption DEF NotWrapped, PluginAssumption
  <2>2. pkt.frame % UInt16 = pkt.frame
    BY <2>1, PluginAssumption DEF PluginAssumption
  <2> QED
    BY <2>2 DEF PktFrameCount
<1>3. Counted => ~LogsReset /\ fcu_frame_count' > fcu_frame_count
  BY <1>1, <1>2, FrameTypes DEF LogsReset
<1>4. ~Counted => LogsReset
  <2>1. pkt.frame \in Frame
    BY <1>1 DEF TypeOK, Datagram
  <2>2. PktFrameCount \in Frame /\ PktFrameCount # UInt32Max
    BY <2>1, TruncationInFrame, FirstFrameIsNew DEF PktFrameCount
  <2> QED
    BY <2>2, PluginAssumption DEF LogsReset, Frame, UInt32Max, PluginAssumption
<1> QED
  BY <1>1, <1>2, <1>3, <1>4, FrameTypes

LEMMA OrderStep ==
  ASSUME TypeOK, OrderInv, NotWrapped, Faults \cap {"reorder", "restart"} = {}, [Next]_vars
  PROVE  /\ OrderInv'
         /\ AcceptFrame => IF Counted THEN ~LogsReset /\ fcu_frame_count' > fcu_frame_count
                           ELSE LogsReset
<1>1. CASE AcceptFrame
  BY <1>1, CountInOrder
<1> SUFFICES ASSUME ~AcceptFrame
             PROVE  OrderInv'
  BY <1>1
<1>2. fcu_frame_count' = fcu_frame_count
  BY LinkChanges DEF linkVars, MissCounted, MissTimeout, DuplicateFrame
<1>3. ~FcRestart
  BY DEF FcRestart, MayFault
<1>4. CASE FcSend \/ FcResend
  BY <1>2, <1>4, SendInOrder
<1>5. CASE FcReceive
  BY <1>2, <1>5, AnswerInOrder
<1>6. CASE Stray
  BY <1>2, <1>6, StrayInOrder
<1>7. CASE FirstRecv \/ Drain
  <2>1. TakeDatagram /\ UNCHANGED fc
    BY <1>7 DEF FirstRecv, Drain, RecvUnchanged, envVars
  <2> QED
    BY <1>2, <2>1, TakeInOrder
<1>8. CASE /\ UNCHANGED inbox /\ (UNCHANGED pkt \/ pkt' = NoPkt)
           /\ UNCHANGED fc \/ FcStop
  <2>1. fc'.frame = fc.frame
    BY <1>8 DEF FcStop, TypeOK
  <2> QED
    BY <1>2, <1>8, <2>1
    DEF OrderInv, CountNotAhead, HandInOrder, QueueInOrder, Counted
<1> QED
  BY <1>2, <1>3, <1>4, <1>5, <1>6, <1>7, <1>8, PacketMoves, ControllerMoves

\* Without reordering and restarts of the controller, and until its counter wraps,
\* "ArduPilot controller has reset" (line 1596) is logged of exactly one frame,
\* whatever is lost, repeated, drained, mixed with foreign packets or timed out: of
\* the first, which is compared with the initial 0xFFFFFFFF, without any reset.  The
\* frames after it have counts that go up.
THEOREM FramesInOrder ==
  ASSUME Faults \cap {"reorder", "restart"} = {}
  PROVE  Spec /\ []NotWrapped => ResetLoggedFirst
<1>1. Init => OrderInv
  <2>1. Init => inbox = <<>> /\ pkt = NoPkt /\ ~Counted
    BY DEF Init, Counted
  <2> QED
    BY <2>1 DEF OrderInv, CountNotAhead, HandInOrder, QueueInOrder
<1>2. TypeOK /\ OrderInv /\ NotWrapped /\ [Next]_vars
        => /\ OrderInv'
           /\ [AcceptFrame => IF Counted
                              THEN ~LogsReset /\ fcu_frame_count' > fcu_frame_count
                              ELSE LogsReset]_vars
  BY OrderStep
<1> QED
  BY <1>1, <1>2, TypeInit, TypeStep, PTL DEF Spec, ResetLoggedFirst
=============================================================================
