----------------------- MODULE ArduPilotPluginProofs -----------------------
(***************************************************************************)
(* Theorems about the exchange, for every value of the constants.  Each    *)
(* invariant of ArduPilotPlugin is proved over the steps of Next; the      *)
(* fairness of Spec is not needed.                                         *)
(***************************************************************************)
EXTENDS ArduPilotPlugin, TLAPS

\* The remainder by UInt16 is a uint16_t, and a uint16_t is a uint32_t.
LEMMA TruncationInFrame ==
  ASSUME NEW f \in Frame
  PROVE  f % UInt16 \in Frame
BY PluginAssumption, SMT DEF PluginAssumption, Frame

LEMMA NextFrameInFrame ==
  ASSUME NEW f \in Frame
  PROVE  (f + 1) % UInt32 \in Frame
BY PluginAssumption, SMT DEF PluginAssumption, Frame

\* Every way ReceiveServoPacket returns leads back to the loop or on to the
\* physics.
LEMMA ReturnType ==
  ASSUME NEW ok, Return(ok)
  PROVE  pc' \in {"recv", "update"}
BY DEF Return

LEMMA TypeInit == Init => TypeOK
<1> SUFFICES ASSUME Init PROVE TypeOK
  OBVIOUS
<1>1. /\ isLockStep \in BOOLEAN /\ pkt \in Datagram \cup {NoPkt}
      /\ connectionTimeoutCount \in 0 .. ConnectionTimeoutMaxCount
      /\ fcu_frame_count \in Frame /\ cmd \in Frame \cup {NoCmd}
      /\ faults \in 0 .. MaxFaults
  BY PluginAssumption DEF Init, PluginAssumption, UInt32Max, Frame
<1>2. /\ simTime \in Time /\ physTime \in Time /\ json_str \in Time
      /\ lastControllerUpdateTime \in Time /\ toFc \subseteq Time
  BY PluginAssumption DEF Init, PluginAssumption, Time, NoState
<1>3. /\ fcu_address \in Addr /\ in_addr \in Addr /\ inbox \in Seq(Datagram)
  BY DEF Init, Addr
<1>4. fc \in [addr : Peers, frame : Frame, waiting : BOOLEAN, up : BOOLEAN]
  <2>1. 0 \in Frame
    BY PluginAssumption DEF PluginAssumption, Frame
  <2> QED
    BY <2>1 DEF Init
<1> QED
  BY <1>1, <1>2, <1>3, <1>4 DEF Init, TypeOK

\* Taking a datagram keeps the queue a queue of datagrams and leaves the
\* address of a sender.
LEMMA TakeType ==
  ASSUME TypeOK, TakeDatagram
  PROVE  pkt' \in Datagram /\ inbox' \in Seq(Datagram) /\ in_addr' \in Addr
<1>1. inbox \in Seq(Datagram) /\ inbox # <<>>
  BY DEF TypeOK, TakeDatagram
<1>2. Head(inbox) \in Datagram /\ Tail(inbox) \in Seq(Datagram)
  BY <1>1
<1>3. Head(inbox).src \in Peers
  BY <1>2 DEF Datagram
<1> QED
  BY <1>2, <1>3 DEF TakeDatagram, Addr

\* Only states with a time are sent.
LEMMA SendType ==
  ASSUME TypeOK, NEW t \in Time, SendState(t)
  PROVE  toFc' \subseteq Time
BY DEF TypeOK, SendState

\* The network only brings datagrams, and uses at most one fault for it.
LEMMA TransmitType ==
  ASSUME TypeOK, NEW d \in Datagram, Transmit(d)
  PROVE  inbox' \in Seq(Datagram) /\ faults' \in 0 .. MaxFaults
<1>1. inbox \in Seq(Datagram) /\ faults \in 0 .. MaxFaults /\ MaxFaults \in Nat
  BY PluginAssumption DEF TypeOK, PluginAssumption
<1>2. Append(inbox, d) \in Seq(Datagram) /\ <<d>> \o inbox \in Seq(Datagram)
  BY <1>1
<1>3. inbox' \in Seq(Datagram)
  BY <1>1, <1>2, Zenon DEF Transmit
<1>4. faults' = faults \/ (faults > 0 /\ faults' = faults - 1)
  BY Zenon DEF Transmit, MayFault
<1> QED
  BY <1>1, <1>3, <1>4

LEMMA ServoPacketType == ASSUME TypeOK PROVE ServoPacket \in Datagram
BY DEF TypeOK, ServoPacket, Datagram

\* The invariant is inductive: one step per action of Next.
LEMMA TypeStep == TypeOK /\ [Next]_vars => TypeOK'
<1> SUFFICES ASSUME TypeOK, [Next]_vars PROVE TypeOK'
  OBVIOUS
<1> USE PluginAssumption
    DEF PluginAssumption, TypeOK, Time, threadVars, clockVars, linkVars, stateVars, imuVars, sockVars, envVars
<1>1. CASE InitImu
  <2>1. imuSubscribed' \in BOOLEAN
    BY <1>1 DEF InitImu
  <2>2. simTime' \in Time
    BY <1>1 DEF InitImu, BeginUpdate
  <2> QED
    BY <1>1, <2>1, <2>2 DEF InitImu, BeginUpdate
<1>2. CASE PreUpdate
  <2>1. pc' \in {"recv", "update"}
    BY <1>2 DEF PreUpdate, BeginUpdate
  <2>2. simTime' \in Time
    BY <1>2 DEF PreUpdate, BeginUpdate
  <2> QED
    BY <1>2, <2>1, <2>2 DEF PreUpdate, BeginUpdate, ExchangeDue
<1>3. CASE FirstRecv
  <2>1. pkt' \in Datagram /\ inbox' \in Seq(Datagram) /\ in_addr' \in Addr
    BY <1>3, TakeType DEF FirstRecv
  <2> QED
    BY <1>3, <2>1 DEF FirstRecv, RecvUnchanged
<1>4. CASE FirstRecvTimeout
  BY <1>4 DEF FirstRecvTimeout, RecvUnchanged
<1>5. CASE Drain
  <2>1. pkt' \in Datagram /\ inbox' \in Seq(Datagram) /\ in_addr' \in Addr
    BY <1>5, TakeType DEF Drain
  <2> QED
    BY <1>5, <2>1 DEF Drain, RecvUnchanged
<1>6. CASE Drained
  BY <1>6 DEF Drained, RecvUnchanged
<1>7. CASE MissOffline
  BY <1>7 DEF MissOffline, Missed, Return, ReceiveUnchanged
<1>8. CASE MissCounted
  BY <1>8 DEF MissCounted, Missed, TooManyMisses, Return, ReceiveUnchanged
<1>9. CASE MissTimeout
  <2>1. /\ toFc' \subseteq Time /\ arduPilotOnline' \in BOOLEAN
        /\ cmd' \in Frame \cup {NoCmd}
    BY <1>9, SendType DEF MissTimeout, TimeOut, ResetPIDs
  <2>2. pc' \in {"recv", "update"}
    BY <1>9, ReturnType DEF MissTimeout
  <2> QED
    BY <1>9, <2>1, <2>2 DEF MissTimeout, Missed, ReceiveUnchanged
<1>10. CASE BadMagic
  BY <1>10 DEF BadMagic, Received, Return, ReceiveUnchanged
<1>11. CASE DuplicateFrame
  <2>1. toFc' \subseteq Time
    BY <1>11, SendType DEF DuplicateFrame, AnswerDuplicate
  <2>2. pc' \in {"recv", "update"}
    BY <1>11, ReturnType DEF DuplicateFrame
  <2> QED
    BY <1>11, <2>1, <2>2 DEF DuplicateFrame, KeepCommands, Received, ReceiveUnchanged
<1>12. CASE AcceptFrame
  <2>1. pkt \in Datagram
    BY <1>12 DEF AcceptFrame, Received
  <2>2. PktFrameCount \in Frame
    BY <2>1, TruncationInFrame DEF PktFrameCount, Datagram
  <2>3. pc' \in {"recv", "update"}
    BY <1>12, ReturnType DEF AcceptFrame
  <2> QED
    BY <1>12, <2>2, <2>3
    DEF AcceptFrame, Received, UpdateMotorCommands, ReceiveUnchanged
<1>13. CASE Update
  BY <1>13 DEF Update
<1>14. CASE PublishState
  BY <1>14 DEF PublishState, ExchangeDue, CreateStateJSON, SendState, NoState
<1>15. CASE SkipPublish
  BY <1>15 DEF SkipPublish, ExchangeDue
<1>16. CASE ImuCb
  BY <1>16 DEF ImuCb
<1>17. CASE FcSend
  <2>1. inbox' \in Seq(Datagram) /\ faults' \in 0 .. MaxFaults
    BY <1>17, ServoPacketType, TransmitType DEF FcSend
  <2> QED
    BY <1>17, <2>1 DEF FcSend, plugin
<1>18. CASE FcResend
  <2>1. inbox' \in Seq(Datagram) /\ faults' \in 0 .. MaxFaults
    BY <1>18, ServoPacketType, TransmitType DEF FcResend
  <2> QED
    BY <1>18, <2>1 DEF FcResend, plugin
<1>19. CASE FcReceive
  <2>1. toFc' \subseteq toFc /\ fc' \in {fc, NextFrame}
    BY <1>19 DEF FcReceive
  <2>2. (fc.frame + 1) % UInt32 \in Frame
    BY NextFrameInFrame
  <2>3. NextFrame \in [addr : Peers, frame : Frame, waiting : BOOLEAN, up : BOOLEAN]
    BY <2>2 DEF NextFrame
  <2> QED
    BY <1>19, <2>1, <2>3 DEF FcReceive, plugin
<1>20. CASE Reset
  BY <1>20 DEF Reset, MayFault
<1>21. CASE OnSignal
  BY <1>21 DEF OnSignal, MayFault
<1>22. CASE FcRestart
  <2>1. 0 \in Frame
    BY DEF Frame
  <2>2. fc' \in [addr : Peers, frame : Frame, waiting : BOOLEAN, up : BOOLEAN]
    BY <1>22, <2>1 DEF FcRestart
  <2> QED
    BY <1>22, <2>2 DEF FcRestart, MayFault, plugin
<1>23. CASE FcStop
  <2>1. fc' \in [addr : Peers, frame : Frame, waiting : BOOLEAN, up : BOOLEAN]
    BY <1>23 DEF FcStop
  <2> QED
    BY <1>23, <2>1 DEF FcStop, MayFault, plugin
<1>24. CASE LoseState
  BY <1>24 DEF LoseState, MayFault, plugin
<1>25. CASE Stray
  <2>1. PICK p \in Peers :
          inbox' = Append(inbox, [src |-> p, frame |-> 0, good |-> FALSE])
    BY <1>25 DEF Stray
  <2>2. [src |-> p, frame |-> 0, good |-> FALSE] \in Datagram
    BY DEF Datagram, Frame
  <2>3. inbox' \in Seq(Datagram)
    BY <2>1, <2>2
  <2> QED
    BY <1>25, <2>3 DEF Stray, MayFault, plugin
<1>26. CASE UNCHANGED vars
  BY <1>26 DEF vars
<1> QED
  BY <1>1, <1>2, <1>3, <1>4, <1>5, <1>6, <1>7, <1>8, <1>9, <1>10, <1>11, <1>12, <1>13, <1>14, <1>15, <1>16, <1>17, <1>18, <1>19, <1>20, <1>21, <1>22, <1>23, <1>24, <1>25, <1>26
  DEF Next, SimThread, FlightController, Environment, Finished

\* TypeOK holds in every reachable state: among the rest, the miss counter
\* stays within <connectionTimeoutMaxCount> and the frame count within its type.
THEOREM TypeCorrect == Spec => []TypeOK
<1> QED
  BY TypeInit, TypeStep, PTL DEF Spec

----------------------------------------------------------------------------
(* Which steps change what.                                                 *)

\* The connection changes only in ReceiveServoPacket.
LEMMA LinkChanges ==
  ASSUME [Next]_vars
  PROVE  \/ UNCHANGED <<isLockStep, linkVars>>
         \/ isLockStep' = isLockStep
              /\ (MissCounted \/ MissTimeout \/ DuplicateFrame \/ AcceptFrame)
<1> USE DEF linkVars
<1>1. CASE \/ InitImu \/ PreUpdate \/ FirstRecv \/ FirstRecvTimeout \/ Drain \/ Drained
  BY <1>1, Zenon DEF InitImu, PreUpdate, FirstRecv, FirstRecvTimeout, Drain, Drained, RecvUnchanged
<1>2. CASE MissOffline \/ BadMagic
  BY <1>2 DEF MissOffline, BadMagic, ReceiveUnchanged
<1>3. CASE MissCounted \/ MissTimeout \/ DuplicateFrame \/ AcceptFrame
  BY <1>3 DEF MissCounted, MissTimeout, DuplicateFrame, AcceptFrame, ReceiveUnchanged
<1>4. CASE Update \/ PublishState \/ SkipPublish \/ ImuCb
  BY <1>4 DEF Update, PublishState, SkipPublish, ImuCb
<1>5. CASE FlightController
  BY <1>5 DEF FlightController, FcSend, FcResend, FcReceive, plugin
<1>6. CASE Environment
  BY <1>6 DEF Environment, Reset, OnSignal, FcRestart, FcStop, LoseState, Stray, plugin
<1>7. CASE UNCHANGED vars
  BY <1>7 DEF vars
<1> QED
  BY <1>1, <1>2, <1>3, <1>4, <1>5, <1>6, <1>7 DEF Next, SimThread, Finished

\* The stored state and the plugin's clock change only in PostUpdate.
LEMMA StateChanges ==
  ASSUME [Next]_vars
  PROVE  UNCHANGED stateVars \/ PublishState
<1>1. CASE \/ InitImu \/ PreUpdate \/ FirstRecv \/ FirstRecvTimeout \/ Drain \/ Drained
  BY <1>1, Zenon DEF InitImu, PreUpdate, FirstRecv, FirstRecvTimeout, Drain, Drained, RecvUnchanged
<1>2. CASE \/ MissOffline \/ MissCounted \/ MissTimeout
           \/ BadMagic \/ DuplicateFrame \/ AcceptFrame
  BY <1>2, Zenon DEF MissOffline, MissCounted, MissTimeout, BadMagic, DuplicateFrame,
                     AcceptFrame, ReceiveUnchanged
<1>3. CASE Update \/ SkipPublish \/ ImuCb
  BY <1>3, Zenon DEF Update, SkipPublish, ImuCb
<1>4. CASE FlightController
  BY <1>4, Zenon DEF FlightController, FcSend, FcResend, FcReceive, plugin
<1>5. CASE Environment
  BY <1>5, Zenon DEF Environment, Reset, OnSignal, FcRestart, FcStop, LoseState,
                     Stray, plugin
<1>6. CASE UNCHANGED vars
  BY <1>6 DEF vars
<1> QED
  BY <1>1, <1>2, <1>3, <1>4, <1>5, <1>6 DEF Next, SimThread, Finished

\* The IMU never becomes invalid again.
LEMMA ImuStaysValid ==
  ASSUME [Next]_vars
  PROVE  imuMsgValid => imuMsgValid'
<1> USE DEF imuVars
<1>1. CASE \/ InitImu \/ PreUpdate \/ FirstRecv \/ FirstRecvTimeout \/ Drain \/ Drained
  BY <1>1, Zenon DEF InitImu, PreUpdate, FirstRecv, FirstRecvTimeout, Drain, Drained, RecvUnchanged
<1>2. CASE \/ MissOffline \/ MissCounted \/ MissTimeout
           \/ BadMagic \/ DuplicateFrame \/ AcceptFrame
  BY <1>2, Zenon DEF MissOffline, MissCounted, MissTimeout, BadMagic, DuplicateFrame,
                     AcceptFrame, ReceiveUnchanged
<1>3. CASE Update \/ PublishState \/ SkipPublish \/ ImuCb
  BY <1>3, Zenon DEF Update, PublishState, SkipPublish, ImuCb
<1>4. CASE FlightController
  BY <1>4, Zenon DEF FlightController, FcSend, FcResend, FcReceive, plugin
<1>5. CASE Environment
  BY <1>5, Zenon DEF Environment, Reset, OnSignal, FcRestart, FcStop, LoseState,
                     Stray, plugin
<1>6. CASE UNCHANGED vars
  BY <1>6 DEF vars
<1> QED
  BY <1>1, <1>2, <1>3, <1>4, <1>5, <1>6 DEF Next, SimThread, Finished

----------------------------------------------------------------------------
(* The safety properties.  Three of them are inductive on top of TypeOK;    *)
(* ResendIsLastState needs that nothing is stored before the first IMU      *)
(* message, LockStepped that nothing is received before the IMU lookup.     *)

StartsEmpty  == ~imuMsgValid => json_str = NoState
NotYetOnline == ~imuInitialized => ~arduPilotOnline /\ pc = "idle"

\* A lock-step connection is never given up.
LEMMA StaysOnlineStep ==
  ASSUME TypeOK, [Next]_vars
  PROVE  isLockStep /\ arduPilotOnline => arduPilotOnline'
<1>1. CASE UNCHANGED <<isLockStep, linkVars>>
  BY <1>1 DEF linkVars
<1>2. CASE MissCounted \/ MissTimeout \/ DuplicateFrame \/ AcceptFrame
  BY <1>2 DEF MissCounted, MissTimeout, TimeOut, DuplicateFrame, AcceptFrame
<1> QED
  BY <1>1, <1>2, LinkChanges

LEMMA CommandStep ==
  ASSUME CommandIsLastFrame, [Next]_vars
  PROVE  CommandIsLastFrame'
<1> USE DEF CommandIsLastFrame
<1>1. CASE UNCHANGED <<isLockStep, linkVars>>
  BY <1>1 DEF linkVars
<1>2. CASE MissCounted \/ DuplicateFrame
  BY <1>2 DEF MissCounted, DuplicateFrame, KeepCommands
<1>3. CASE MissTimeout
  BY <1>3 DEF MissTimeout, TimeOut, ResetPIDs
<1>4. CASE AcceptFrame
  BY <1>4 DEF AcceptFrame, UpdateMotorCommands
<1> QED
  BY <1>1, <1>2, <1>3, <1>4, LinkChanges

LEMMA OfflineStep ==
  ASSUME OfflineIsIdle, [Next]_vars
  PROVE  OfflineIsIdle'
<1> USE DEF OfflineIsIdle
<1>1. CASE UNCHANGED <<isLockStep, linkVars>>
  BY <1>1 DEF linkVars
<1>2. CASE DuplicateFrame \/ AcceptFrame
  BY <1>2 DEF DuplicateFrame, AcceptFrame
<1>4. CASE MissCounted
  <2>1. arduPilotOnline /\ arduPilotOnline' = arduPilotOnline
    BY <1>4, Zenon DEF MissCounted
  <2> QED
    BY <2>1
<1>3. CASE MissTimeout
  BY <1>3 DEF MissTimeout, TimeOut, ResetPIDs
<1> QED
  BY <1>1, <1>2, <1>3, <1>4, LinkChanges

LEMMA ResendStep ==
  ASSUME StartsEmpty, ResendIsLastState, [Next]_vars
  PROVE  StartsEmpty' /\ ResendIsLastState'
<1> USE DEF StartsEmpty, ResendIsLastState
<1>1. imuMsgValid => imuMsgValid'
  BY ImuStaysValid
<1>2. CASE UNCHANGED stateVars
  BY <1>1, <1>2 DEF stateVars
<1>3. CASE PublishState
  <2>1. imuMsgValid' = imuMsgValid
    BY <1>3 DEF PublishState, imuVars
  <2> QED
    BY <1>3, <2>1 DEF PublishState, CreateStateJSON
<1> QED
  BY <1>2, <1>3, StateChanges

\* Nothing happens between the first update and the IMU lookup.
LEMMA LookupStep ==
  ASSUME NotYetOnline, [Next]_vars
  PROVE  NotYetOnline'
<1> USE DEF NotYetOnline, imuVars, threadVars, linkVars
<1>1. CASE InitImu
  BY <1>1 DEF InitImu
<1>2. CASE PreUpdate
  BY <1>2, Zenon DEF PreUpdate
<1>3. CASE FirstRecv \/ FirstRecvTimeout \/ Drain \/ Drained
  <2>1. pc # "idle" /\ imuInitialized' = imuInitialized
    BY <1>3, Zenon DEF FirstRecv, FirstRecvTimeout, Drain, Drained, RecvUnchanged
  <2> QED
    BY <2>1
<1>4. CASE \/ MissOffline \/ MissCounted \/ MissTimeout
           \/ BadMagic \/ DuplicateFrame \/ AcceptFrame
  <2>1. pc # "idle" /\ imuInitialized' = imuInitialized
    BY <1>4 DEF MissOffline, MissCounted, MissTimeout, Missed, BadMagic, DuplicateFrame,
                AcceptFrame, Received, ReceiveUnchanged
  <2> QED
    BY <2>1
<1>5. CASE Update \/ PublishState \/ SkipPublish
  <2>1. pc # "idle" /\ imuInitialized' = imuInitialized
    BY <1>5 DEF Update, PublishState, SkipPublish
  <2> QED
    BY <2>1
<1>6. CASE UNCHANGED <<pc, arduPilotOnline, imuInitialized>>
  BY <1>6
<1>7. CASE ImuCb \/ FlightController \/ Environment
  <2>1. UNCHANGED <<pc, arduPilotOnline, imuInitialized>>
    BY <1>7, Zenon DEF ImuCb, FlightController, FcSend, FcResend, FcReceive, Environment,
                Reset, OnSignal, FcRestart, FcStop, LoseState, Stray, plugin
  <2> QED
    BY <2>1
<1> QED
  BY <1>1, <1>2, <1>3, <1>4, <1>5, <1>6, <1>7 DEF Next, SimThread, Finished, vars

\* What a return from ReceiveServoPacket to the physics means: a frame was
\* accepted, or lock-step does not bind this update.
LEMMA ReturnStep ==
  ASSUME NEW ok, Return(ok), pc' = "update", isLockStep, arduPilotOnline', ~signal
  PROVE  ok
BY DEF Return

LEMMA LockSteppedStep ==
  ASSUME TypeOK, NotYetOnline, LockStepped, [Next]_vars
  PROVE  LockStepped'
<1> SUFFICES ASSUME isLockStep', arduPilotOnline', ~signal', pc' \in {"update", "post"}
             PROVE  accepted' \/ ~ExchangeDue(simTime)'
  BY DEF LockStepped
<1> USE DEF threadVars, clockVars, stateVars, linkVars
<1>1. CASE InitImu
  <2>1. arduPilotOnline' = arduPilotOnline /\ ~imuInitialized
    BY <1>1 DEF InitImu
  <2> QED
    BY <2>1 DEF NotYetOnline
<1>2. CASE PreUpdate
  BY <1>2 DEF PreUpdate, BeginUpdate, ExchangeDue
<1>3. CASE FirstRecv \/ FirstRecvTimeout \/ Drain \/ Drained
  <2>1. pc' \in {"drain", "servo"}
    BY <1>3 DEF FirstRecv, FirstRecvTimeout, Drain, Drained
  <2> QED
    BY <2>1
<1>4. CASE MissOffline \/ MissCounted \/ MissTimeout \/ BadMagic \/ DuplicateFrame
  <2>1. Return(FALSE) /\ isLockStep' = isLockStep /\ signal' = signal
    BY <1>4, Zenon DEF MissOffline, MissCounted, MissTimeout, BadMagic, DuplicateFrame,
                       ReceiveUnchanged
  <2>2. pc' \in {"recv", "update"}
    BY <2>1, ReturnType
  <2> QED
    BY <2>1, <2>2, ReturnStep
<1>5. CASE AcceptFrame
  BY <1>5 DEF AcceptFrame
<1>6. CASE Update
  <2>1. pc = "update" /\ UNCHANGED <<isLockStep, accepted, arduPilotOnline, signal, simTime,
                                    lastControllerUpdateTime>>
    BY <1>6 DEF Update
  <2> QED
    BY <2>1 DEF LockStepped, ExchangeDue
<1>7. CASE PublishState \/ SkipPublish
  BY <1>7 DEF PublishState, SkipPublish
<1>8. CASE Reset
  BY <1>8 DEF Reset
<1>9. CASE OnSignal
  BY <1>9 DEF OnSignal
<1>10. CASE UNCHANGED <<isLockStep, pc, accepted, arduPilotOnline, signal, simTime,
                       lastControllerUpdateTime>>
  BY <1>10 DEF LockStepped, ExchangeDue
<1>11. CASE ImuCb \/ FlightController \/ FcRestart \/ FcStop \/ LoseState \/ Stray
  <2>1. UNCHANGED <<isLockStep, pc, accepted, arduPilotOnline, signal, simTime,
                    lastControllerUpdateTime>>
    BY <1>11, Zenon DEF ImuCb, FlightController, FcSend, FcResend, FcReceive,
                        FcRestart, FcStop, LoseState, Stray, plugin
  <2> QED
    BY <2>1, <1>10
<1> QED
  BY <1>1, <1>2, <1>3, <1>4, <1>5, <1>6, <1>7, <1>8, <1>9, <1>10, <1>11
  DEF Next, SimThread, Environment, Finished, vars

\* The inductive invariant.
SafetyInv ==
  /\ TypeOK /\ StartsEmpty /\ NotYetOnline
  /\ LockStepped /\ OfflineIsIdle /\ CommandIsLastFrame /\ ResendIsLastState

LEMMA SafetyInit == Init => SafetyInv
<1> SUFFICES ASSUME Init PROVE SafetyInv
  OBVIOUS
<1>1. TypeOK
  BY TypeInit
<1> QED
  BY <1>1 DEF Init, SafetyInv, StartsEmpty, NotYetOnline, LockStepped, OfflineIsIdle,
              CommandIsLastFrame, ResendIsLastState

LEMMA SafetyStep == SafetyInv /\ [Next]_vars => SafetyInv'
<1> SUFFICES ASSUME SafetyInv, [Next]_vars PROVE SafetyInv'
  OBVIOUS
<1> QED
  BY TypeStep, ResendStep, LookupStep, LockSteppedStep, OfflineStep, CommandStep
  DEF SafetyInv

\* The named invariants hold in every reachable state: after any sequence of
\* receives, misses, duplicates, world resets, signals and network faults.
THEOREM Safety == Spec => []SafetyInv
<1> QED
  BY SafetyInit, SafetyStep, PTL DEF Spec

\* In lock-step the physics never moves without a new servo frame while an
\* exchange is due.
THEOREM LockStepCorrect == Spec => []LockStepped
<1>1. SafetyInv => LockStepped
  BY DEF SafetyInv
<1> QED
  BY Safety, <1>1, PTL

\* No motor command survives the loss of the connection.
THEOREM OfflineCorrect == Spec => []OfflineIsIdle
<1>1. SafetyInv => OfflineIsIdle
  BY DEF SafetyInv
<1> QED
  BY Safety, <1>1, PTL

\* The motor commands are those of the last counted frame.
THEOREM CommandCorrect == Spec => []CommandIsLastFrame
<1>1. SafetyInv => CommandIsLastFrame
  BY DEF SafetyInv
<1> QED
  BY Safety, <1>1, PTL

\* A resend repeats the state of the last exchange.
THEOREM ResendCorrect == Spec => []ResendIsLastState
<1>1. SafetyInv => ResendIsLastState
  BY DEF SafetyInv
<1> QED
  BY Safety, <1>1, PTL

\* A lock-step connection never times out, however many receives miss.
THEOREM StaysOnline == Spec => LockStepStaysOnline
<1>1. TypeOK /\ [Next]_vars => [isLockStep /\ arduPilotOnline => arduPilotOnline']_vars
  BY StaysOnlineStep
<1> QED
  BY TypeCorrect, <1>1, PTL DEF Spec, LockStepStaysOnline

----------------------------------------------------------------------------
(* The exchange takes turns as LockStep says, when the world is not reset.  *)

\* The clock: an update moves simTime first and the physics later, and the
\* plugin's own clock never runs ahead of the physics.
ClockInv ==
  /\ lastControllerUpdateTime <= physTime
  /\ pc \in {"idle", "post"} => simTime = physTime
  /\ pc \in {"recv", "drain", "servo", "update"} => simTime = physTime + 1

\* Until a lock-step connection exists no frame has been counted.
FirstFrameInv == isLockStep /\ ~arduPilotOnline => fcu_frame_count = UInt32Max

TurnInv == SafetyInv /\ ClockInv /\ FirstFrameInv

\* A uint16_t count never equals the initial (uint32_t) -1: the first packet is
\* no duplicate.
LEMMA FirstFrameIsNew ==
  ASSUME NEW f \in Frame
  PROVE  f % UInt16 # UInt32Max
BY PluginAssumption, SMT DEF PluginAssumption, Frame, UInt32Max

LEMMA ClockStep ==
  ASSUME TypeOK, ClockInv, "worldReset" \notin Faults, [Next]_vars
  PROVE  ClockInv'
<1> USE DEF ClockInv, clockVars, stateVars
<1>1. simTime \in Nat /\ physTime \in Nat /\ lastControllerUpdateTime \in Nat
  BY DEF TypeOK, Time
<1>2. CASE InitImu \/ PreUpdate
  <2>1. /\ pc = "idle" /\ pc' # "idle" /\ pc' # "post" /\ simTime' = simTime + 1
        /\ UNCHANGED <<physTime, lastControllerUpdateTime>>
    BY <1>2 DEF InitImu, PreUpdate, BeginUpdate
  <2> QED
    BY <1>1, <2>1
<1>3. CASE FirstRecv \/ FirstRecvTimeout \/ Drain \/ Drained
  <2>1. /\ pc \in {"recv", "drain"} /\ pc' \in {"drain", "servo"}
        /\ UNCHANGED <<simTime, physTime, lastControllerUpdateTime>>
    BY <1>3 DEF FirstRecv, FirstRecvTimeout, Drain, Drained, RecvUnchanged
  <2> QED
    BY <2>1
<1>4. CASE \/ MissOffline \/ MissCounted \/ MissTimeout
           \/ BadMagic \/ DuplicateFrame \/ AcceptFrame
  <2>1. /\ pc = "servo" /\ (Return(TRUE) \/ Return(FALSE))
        /\ UNCHANGED <<simTime, physTime, lastControllerUpdateTime>>
    BY <1>4 DEF MissOffline, MissCounted, MissTimeout, Missed, BadMagic, DuplicateFrame,
                AcceptFrame, Received, ReceiveUnchanged
  <2>2. pc' \in {"recv", "update"}
    BY <2>1, ReturnType
  <2> QED
    BY <2>1, <2>2
<1>5. CASE Update
  BY <1>1, <1>5 DEF Update
<1>6. CASE PublishState \/ SkipPublish
  BY <1>1, <1>6 DEF PublishState, SkipPublish
<1>7. CASE UNCHANGED <<pc, simTime, physTime, lastControllerUpdateTime>>
  BY <1>7
<1>8. CASE \/ ImuCb \/ FlightController \/ OnSignal \/ FcRestart
           \/ FcStop \/ LoseState \/ Stray
  <2>1. UNCHANGED <<pc, simTime, physTime, lastControllerUpdateTime>>
    BY <1>8, Zenon DEF ImuCb, FlightController, FcSend, FcResend, FcReceive, OnSignal,
                       FcRestart, FcStop, LoseState, Stray, plugin, threadVars
  <2> QED
    BY <2>1
<1>9. ~Reset
  BY DEF Reset, MayFault
<1> QED
  BY <1>2, <1>3, <1>4, <1>5, <1>6, <1>7, <1>8, <1>9
  DEF Next, SimThread, Environment, Finished, vars, threadVars

LEMMA FirstFrameStep ==
  ASSUME TypeOK, FirstFrameInv, [Next]_vars
  PROVE  FirstFrameInv'
<1> USE DEF FirstFrameInv
<1>1. CASE UNCHANGED <<isLockStep, linkVars>>
  BY <1>1 DEF linkVars
<1>2. CASE DuplicateFrame \/ AcceptFrame
  BY <1>2 DEF DuplicateFrame, AcceptFrame
<1>3. CASE MissCounted \/ MissTimeout
  BY <1>3 DEF MissCounted, MissTimeout, TimeOut, ReceiveUnchanged
<1> QED
  BY <1>1, <1>2, <1>3, LinkChanges

\* Each step of the exchange is a step of LockStep or leaves its state alone.
LEMMA TurnStep ==
  ASSUME TurnInv, "worldReset" \notin Faults, [Next]_vars
  PROVE  [Turns!Next]_<<Turn, physTime>>
<1> USE DEF Turn, threadVars, clockVars, linkVars
<1>1. /\ TypeOK /\ ClockInv /\ FirstFrameInv /\ LockStepped /\ NotYetOnline
      /\ simTime \in 0 .. MaxTime /\ physTime \in 0 .. MaxTime
  BY DEF TurnInv, SafetyInv, TypeOK, Time
<1>2. CASE InitImu \/ PreUpdate
  <2>1. /\ pc = "idle" /\ accepted' = FALSE
        /\ UNCHANGED <<isLockStep, arduPilotOnline, signal, physTime>>
    BY <1>2 DEF InitImu, PreUpdate, BeginUpdate
  <2> QED
    BY <2>1
<1>3. CASE FirstRecv \/ FirstRecvTimeout \/ Drain \/ Drained
  <2>1. /\ pc # "update" /\ pc' # "update"
        /\ UNCHANGED <<isLockStep, arduPilotOnline, signal, physTime>>
    BY <1>3 DEF FirstRecv, FirstRecvTimeout, Drain, Drained, RecvUnchanged
  <2> QED
    BY <2>1
<1>4. CASE AcceptFrame
  <2>1. /\ pc = "servo" /\ accepted' /\ arduPilotOnline' /\ pc' = "update"
        /\ UNCHANGED <<isLockStep, signal, physTime>>
    BY <1>4 DEF AcceptFrame, Received, Return, ReceiveUnchanged
  <2> QED
    BY <2>1 DEF Turns!Next, Turns!Grant
<1>5. CASE MissOffline \/ MissCounted \/ MissTimeout \/ BadMagic \/ DuplicateFrame
  <2>1. /\ pc = "servo" /\ Return(FALSE)
        /\ UNCHANGED <<isLockStep, signal, physTime>>
    BY <1>5 DEF MissOffline, MissCounted, MissTimeout, Missed, BadMagic, DuplicateFrame,
                Received, ReceiveUnchanged
  <2>2. isLockStep => arduPilotOnline' = arduPilotOnline
    <3>1. CASE MissOffline \/ MissCounted \/ MissTimeout \/ BadMagic
      BY <3>1 DEF MissOffline, MissCounted, MissTimeout, TimeOut, BadMagic
    <3>2. CASE DuplicateFrame
      <4>1. pkt \in Datagram
        BY <1>1, <3>2 DEF DuplicateFrame, Received, TypeOK
      <4>2. PktFrameCount # UInt32Max
        BY <4>1, FirstFrameIsNew DEF PktFrameCount, Datagram
      <4>3. isLockStep => arduPilotOnline = TRUE
        BY <1>1, <3>2, <4>2 DEF DuplicateFrame, FirstFrameInv, TypeOK
      <4> QED
        BY <3>2, <4>3 DEF DuplicateFrame
    <3> QED
      BY <1>5, <3>1, <3>2
  <2>3. Turn' = Turn
    BY <2>1, <2>2 DEF Return
  <2> QED
    BY <2>1, <2>3
<1>6. CASE Update
  <2>1. /\ pc = "update" /\ pc' = "post" /\ physTime' = simTime
        /\ UNCHANGED <<isLockStep, arduPilotOnline, signal, accepted>>
    BY <1>6 DEF Update
  <2>2. physTime' = physTime + 1 /\ physTime < MaxTime
    <3>1. simTime = physTime + 1
      BY <1>1, <2>1 DEF ClockInv
    <3> QED
      BY <1>1, <2>1, <3>1, PluginAssumption
  <2>3. CASE Turn = "free"
    BY <2>1, <2>2, <2>3 DEF Turns!Next, Turns!FreeStep
  <2>4. CASE Turn # "free"
    <3>1. accepted
      BY <1>1, <2>1, <2>2, <2>4 DEF LockStepped, ExchangeDue, ClockInv, TypeOK, Time
    <3> QED
      BY <2>1, <2>2, <2>4, <3>1 DEF Turns!Next, Turns!Step
  <2> QED
    BY <2>3, <2>4
<1>7. CASE PublishState \/ SkipPublish
  <2>1. /\ pc # "update" /\ pc' # "update"
        /\ UNCHANGED <<isLockStep, arduPilotOnline, signal, physTime>>
    BY <1>7 DEF PublishState, SkipPublish
  <2> QED
    BY <2>1
<1>8. CASE OnSignal
  BY <1>8 DEF OnSignal, Turns!Next, Turns!Interrupt
<1>9. CASE UNCHANGED <<isLockStep, pc, accepted, arduPilotOnline, signal, physTime>>
  BY <1>9
<1>10. CASE ImuCb \/ FlightController \/ FcRestart \/ FcStop \/ LoseState \/ Stray
  <2>1. UNCHANGED <<isLockStep, pc, accepted, arduPilotOnline, signal, physTime>>
    BY <1>10, Zenon DEF ImuCb, FlightController, FcSend, FcResend, FcReceive,
                        FcRestart, FcStop, LoseState, Stray, plugin
  <2> QED
    BY <2>1
<1>11. ~Reset
  BY DEF Reset, MayFault
<1> QED
  BY <1>2, <1>3, <1>4, <1>5, <1>6, <1>7, <1>8, <1>9, <1>10, <1>11
  DEF Next, SimThread, Environment, Finished, vars

\* Without world resets the exchange implements the taking of turns: each step
\* of the world in a lock-step connection is paid for by one new servo frame.
THEOREM Refinement ==
  ASSUME "worldReset" \notin Faults
  PROVE  Spec => TakesTurns
<1>1. Init => TurnInv
  <2>1. Init => SafetyInv
    BY SafetyInit
  <2> QED
    BY <2>1 DEF Init, TurnInv, ClockInv, FirstFrameInv
<1>2. TurnInv /\ [Next]_vars => TurnInv'
  BY SafetyStep, ClockStep, FirstFrameStep DEF TurnInv, SafetyInv
<1>3. Init => Turns!Init
  BY DEF Init, Turns!Init, Turn
<1>4. TurnInv /\ [Next]_vars => [Turns!Next]_<<Turn, physTime>>
  BY TurnStep
<1> QED
  BY <1>1, <1>2, <1>3, <1>4, PTL DEF Spec, TakesTurns, Turns!Spec

----------------------------------------------------------------------------
(* The exchange keeps the promises of ServoLink, whatever faults happen.    *)

LEMMA ServoStep ==
  ASSUME TypeOK, [Next]_vars
  PROVE  [Servo!Next]_<<arduPilotOnline, fcu_frame_count, Asks, cmd>>
<1>1. CASE UNCHANGED <<isLockStep, linkVars>>
  BY <1>1 DEF linkVars, Asks
<1>2. CASE MissCounted
  BY <1>2 DEF MissCounted, Asks
<1>3. CASE MissTimeout
  <2>1. CASE isLockStep
    BY <1>3, <2>1 DEF MissTimeout, TimeOut, Asks
  <2>2. CASE ~isLockStep
    <3>1. arduPilotOnline /\ arduPilotOnline' = FALSE /\ cmd' = NoCmd
          /\ fcu_frame_count' = fcu_frame_count
      BY <1>3, <2>2 DEF MissTimeout, TimeOut, ResetPIDs
    <3> QED
      BY <3>1 DEF Servo!Next, Servo!Lose, Asks
  <2> QED
    BY <2>1, <2>2
<1>4. ASSUME Received(TRUE)
      PROVE  PktFrameCount \in Frame /\ PktFrameCount # UInt32Max
  <2>1. pkt.frame \in Frame
    BY <1>4 DEF TypeOK, Received, Datagram
  <2> QED
    BY <2>1, TruncationInFrame, FirstFrameIsNew DEF PktFrameCount
<1>5. CASE DuplicateFrame
  <2>1. fcu_frame_count # UInt32Max
    BY <1>4, <1>5 DEF DuplicateFrame
  <2> QED
    BY <1>5, <2>1 DEF DuplicateFrame, KeepCommands, Servo!Next, Servo!Repeat, Asks
<1>6. CASE AcceptFrame
  <2>1. /\ arduPilotOnline' = TRUE /\ fcu_frame_count' = PktFrameCount
        /\ cmd' = PktFrameCount /\ PktFrameCount # fcu_frame_count
    BY <1>6 DEF AcceptFrame, UpdateMotorCommands
  <2>2. PktFrameCount \in Frame /\ PktFrameCount # UInt32Max
    BY <1>4, <1>6 DEF AcceptFrame
  <2> QED
    BY <2>1, <2>2 DEF Servo!Next, Servo!Accept, Asks
<1> QED
  BY <1>1, <1>2, <1>3, <1>5, <1>6, LinkChanges

\* Whatever faults happen: a new frame loads the commands it asks for, nothing
\* else loads any; a duplicate brings back a connection that existed, and no
\* commands; they are dropped in the step that loses the connection.
THEOREM ExchangeFollows == Spec => FollowsServoLink
<1>1. Init => Servo!Init
  BY DEF Init, Servo!Init, Asks
<1>2. TypeOK /\ [Next]_vars
        => [Servo!Next]_<<arduPilotOnline, fcu_frame_count, Asks, cmd>>
  BY ServoStep
<1> QED
  BY <1>1, <1>2, TypeInit, TypeStep, PTL DEF Spec, FollowsServoLink, Servo!Spec
=============================================================================
