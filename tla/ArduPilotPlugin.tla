-------------------------- MODULE ArduPilotPlugin --------------------------
(***************************************************************************)
(* The exchange between the Gazebo plugin (src/src/ArduPilotPlugin.cc) and *)
(* an ArduPilot SITL flight controller over UDP: PreUpdate waits for a     *)
(* servo packet, PostUpdate answers with the vehicle state.                *)
(*                                                                         *)
(* The simulation thread is sequential; its position is `pc`.  It          *)
(* interleaves with the flight controller, the network, the transport      *)
(* thread that runs ImuCb, and the signal handler.  Each receive of the    *)
(* socket is a step of its own: a datagram may arrive between any two.     *)
(*                                                                         *)
(* Abstractions: a servo packet is its source, its frame count and whether *)
(* its magic is right; a JSON state is the simulation time it was built    *)
(* at; a motor command is the frame it came from (module MotorControl has  *)
(* the arithmetic).  Simulation time counts update steps.  A paused world  *)
(* runs PreUpdate and PostUpdate to no effect and is left out.             *)
(***************************************************************************)
EXTENDS Integers, Sequences, FiniteSets

CONSTANTS
  Peers,        \* addresses (ip:port) flight controllers send from
  NoAddr,       \* 0.0.0.0:0, SocketUDP::in_addr before the first datagram
  NoPkt,        \* what a receive that returned -1 leaves
  NoCmd,        \* Control::cmd = 0
  UInt16,       \* number of values of uint16_t (65536 in the code)
  UInt32,       \* number of values of uint32_t, a multiple of UInt16
  ConnectionTimeoutMaxCount,  \* <connectionTimeoutMaxCount>
  LockStepModes,\* the values of <lock_step> considered
  ImuPresent,   \* whether the model has the named IMU: a subset of BOOLEAN
  FcAwaitsImu,  \* TRUE: the controller is started after the first IMU message
  MaxTime,      \* bound: simulation steps of a run
  InboxCap,     \* bound: datagrams on their way to the plugin
  Faults,       \* the kinds of fault the environment may do
  MaxFaults     \* bound: how many faults it does in a run

FaultKinds == {"loss", "reorder", "stray", "worldReset", "restart", "stop", "signal"}

UInt32Max == UInt32 - 1                   \* uint32_t fcu_frame_count = -1

Addr     == Peers \cup {NoAddr}
Frame    == 0 .. UInt32 - 1
Datagram == [src : Peers, frame : Frame, good : BOOLEAN]
NoState  == 0                             \* json_str = ""
Time     == 0 .. MaxTime

ASSUME PluginAssumption ==
  /\ NoAddr \notin Peers /\ NoPkt \notin Datagram /\ NoCmd \notin Frame
  /\ UInt16 \in Nat \ {0} /\ UInt32 \in Nat /\ UInt32 > UInt16
  /\ UInt32 % UInt16 = 0
  /\ ConnectionTimeoutMaxCount \in Nat
  /\ LockStepModes \subseteq BOOLEAN /\ ImuPresent \subseteq BOOLEAN
  /\ FcAwaitsImu \in BOOLEAN
  /\ MaxTime \in Nat /\ InboxCap \in Nat \ {0}
  /\ Faults \subseteq FaultKinds /\ MaxFaults \in Nat

VARIABLES
  isLockStep,          \* <lock_step>, fixed by Configure
  pc,                  \* where the simulation thread is
  pkt,                 \* the packet ReceiveServoPacket works on
  accepted,            \* history: a new frame was accepted in this update
  simTime,             \* UpdateInfo::simTime
  physTime,            \* time the physics has been advanced to
  arduPilotOnline, connectionTimeoutCount,
  fcu_frame_count,     \* last received frame count
  fcu_address,         \* fcu_address and fcu_port_out
  json_str,            \* last state built, by its time
  lastControllerUpdateTime,
  cmd,                 \* the frame the motor commands come from
  imuInitialized, imuSubscribed, imuMsgValid,
  signal,
  inbox,               \* datagrams sent to the plugin, oldest first
  in_addr,             \* SocketUDP::in_addr, source of the last recv
  toFc,                \* states sent to the controller and not read yet
  fc,                  \* flight controller: address, frame, waiting, up
  faults               \* how many faults the environment may still do

threadVars == <<pc, pkt, accepted>>
clockVars  == <<simTime, physTime>>
linkVars   == <<arduPilotOnline, connectionTimeoutCount, fcu_frame_count, cmd>>
stateVars  == <<json_str, lastControllerUpdateTime>>
imuVars    == <<imuInitialized, imuSubscribed, imuMsgValid>>
sockVars   == <<inbox, in_addr>>
envVars    == <<fc, faults>>
vars == <<isLockStep, threadVars, clockVars, linkVars, fcu_address, stateVars,
          imuVars, signal, sockVars, toFc, envVars>>

Init ==
  /\ isLockStep \in LockStepModes
  /\ pc = "idle" /\ pkt = NoPkt /\ accepted = FALSE
  /\ simTime = 0 /\ physTime = 0
  /\ arduPilotOnline = FALSE /\ connectionTimeoutCount = 0
  /\ fcu_frame_count = UInt32Max /\ cmd = NoCmd
  /\ fcu_address = NoAddr
  /\ json_str = NoState /\ lastControllerUpdateTime = 0
  /\ imuInitialized = FALSE /\ imuSubscribed = FALSE /\ imuMsgValid = FALSE
  /\ signal = FALSE
  /\ inbox = <<>> /\ in_addr = NoAddr
  /\ toFc = {}
  /\ fc \in [addr : Peers, frame : {0}, waiting : {FALSE}, up : {TRUE}]
  /\ faults = MaxFaults

MayFault(kind) == kind \in Faults /\ faults > 0

----------------------------------------------------------------------------
(* The Gazebo server around the plugin.                                     *)

\* The server advances the clock and calls PreUpdate, which goes on at `next`.
BeginUpdate(next) ==
  /\ pc = "idle" /\ simTime < MaxTime
  /\ simTime' = simTime + 1
  /\ accepted' = FALSE
  /\ pc' = next

\* Between PreUpdate and PostUpdate the physics moves the world by one step.
Update ==
  /\ pc = "update"
  /\ physTime' = simTime
  /\ pc' = "post"
  /\ UNCHANGED <<isLockStep, pkt, accepted, simTime, linkVars, fcu_address,
                 stateVars, imuVars, signal, sockVars, toFc, envVars>>

\* The user rewinds the world.  Reset touches entity components only: the
\* plugin's own clock, lastControllerUpdateTime, keeps its value.
Reset ==
  /\ pc = "idle" /\ MayFault("worldReset")
  /\ simTime' = 0 /\ physTime' = 0
  /\ faults' = faults - 1
  /\ UNCHANGED <<isLockStep, threadVars, linkVars, fcu_address, stateVars,
                 imuVars, signal, sockVars, toFc, fc>>

----------------------------------------------------------------------------
(* PreUpdate.                                                               *)

\* The first PreUpdate only looks the IMU up, once, found or not.
InitImu ==
  /\ ~imuInitialized
  /\ BeginUpdate("update")
  /\ imuInitialized' = TRUE
  /\ imuSubscribed' \in ImuPresent
  /\ UNCHANGED <<isLockStep, pkt, physTime, linkVars, fcu_address, stateVars,
                 imuMsgValid, signal, sockVars, toFc, envVars>>

ExchangeDue(t) == t > lastControllerUpdateTime

\* Later ones exchange data with the controller.
PreUpdate ==
  /\ imuInitialized
  /\ BeginUpdate(IF ExchangeDue(simTime + 1) THEN "recv" ELSE "update")
  /\ UNCHANGED <<isLockStep, pkt, physTime, linkVars, fcu_address, stateVars,
                 imuVars, signal, sockVars, toFc, envVars>>

----------------------------------------------------------------------------
(* getServoPacket: one blocking receive, then the address of its sender,    *)
(* then receives that do not block until the queue is empty.                *)

\* `inbox` holds what is in flight and what is queued: a receive may find that
\* nothing has arrived yet whenever it does not take the oldest datagram.
TakeDatagram ==
  /\ inbox # <<>>
  /\ pkt' = Head(inbox) /\ inbox' = Tail(inbox) /\ in_addr' = Head(inbox).src

RecvUnchanged == <<isLockStep, accepted, clockVars, linkVars, stateVars, imuVars,
                   signal, toFc, envVars>>

FirstRecv ==
  /\ pc = "recv"
  /\ TakeDatagram
  /\ fcu_address' = in_addr'               \* get_client_address
  /\ pc' = "drain"
  /\ UNCHANGED RecvUnchanged

FirstRecvTimeout ==                        \* select() timed out
  /\ pc = "recv"
  /\ pkt' = NoPkt
  /\ fcu_address' = in_addr
  /\ pc' = "drain"
  /\ UNCHANGED <<RecvUnchanged, sockVars>>

\* The last datagram wins; the address is not taken again.
Drain ==
  /\ pc = "drain"
  /\ TakeDatagram
  /\ UNCHANGED <<RecvUnchanged, pc, fcu_address>>

Drained ==
  /\ pc = "drain"
  /\ pc' = "servo"
  /\ UNCHANGED <<RecvUnchanged, pkt, fcu_address, sockVars>>

----------------------------------------------------------------------------
(* ReceiveServoPacket, what it does with the datagram it has (or has not).  *)

\* sendto: only a controller that listens on the stored address hears it.
SendState(t) ==
  toFc' = IF fc.up /\ fcu_address = fc.addr THEN toFc \cup {t} ELSE toFc

\* Return to PreUpdate, where lock-step retries until a packet is accepted.
ReturnWithoutRetry(ok) == pc' = "update"                            \* mutant
Return(ok) ==
  pc' = IF isLockStep /\ ~ok /\ arduPilotOnline' /\ ~signal
        THEN "recv" ELSE "update"

\* What no outcome of ReceiveServoPacket changes.
ReceiveUnchanged ==
  UNCHANGED <<isLockStep, clockVars, fcu_address, stateVars, imuVars, signal,
              sockVars, envVars>>

Missed == pc = "servo" /\ pkt = NoPkt /\ UNCHANGED <<pkt, accepted>>

TooManyMissesLate(n) == n > ConnectionTimeoutMaxCount + 1           \* mutant
TooManyMisses(n) == n > ConnectionTimeoutMaxCount

ResetPIDsForgotten == UNCHANGED cmd                                 \* mutant
ResetPIDs == cmd' = NoCmd

\* Lock-step sends the last state again, otherwise the controller is declared
\* offline and its motor commands are zeroed.
TimeOutAlways ==                                                    \* mutant
  arduPilotOnline' = FALSE /\ ResetPIDs /\ UNCHANGED toFc
TimeOut ==
  IF isLockStep
  THEN SendState(json_str) /\ UNCHANGED <<arduPilotOnline, cmd>>
  ELSE arduPilotOnline' = FALSE /\ ResetPIDs /\ UNCHANGED toFc

\* Nothing received.
MissOffline ==
  /\ Missed /\ ~arduPilotOnline
  /\ UNCHANGED <<linkVars, toFc>>
  /\ Return(FALSE) /\ ReceiveUnchanged

MissCounted ==
  /\ Missed /\ arduPilotOnline /\ ~TooManyMisses(connectionTimeoutCount + 1)
  /\ connectionTimeoutCount' = connectionTimeoutCount + 1
  /\ UNCHANGED <<arduPilotOnline, fcu_frame_count, cmd, toFc>>
  /\ Return(FALSE) /\ ReceiveUnchanged

MissTimeout ==
  /\ Missed /\ arduPilotOnline /\ TooManyMisses(connectionTimeoutCount + 1)
  /\ connectionTimeoutCount' = 0
  /\ TimeOut
  /\ UNCHANGED fcu_frame_count
  /\ Return(FALSE) /\ ReceiveUnchanged

Received(good) == pc = "servo" /\ pkt # NoPkt /\ pkt.good = good /\ pkt' = NoPkt

BadMagic ==
  /\ Received(FALSE)
  /\ UNCHANGED <<linkVars, toFc, accepted>>
  /\ Return(FALSE) /\ ReceiveUnchanged

\* uint16_t pkt_frame_count = pkt.frame_count
PktFrameCount == pkt.frame % UInt16

\* A duplicate brings the controller online, too; lock-step answers it.
IgnoreDuplicate == UNCHANGED toFc                                   \* mutant
AnswerDuplicate == IF isLockStep THEN SendState(json_str) ELSE UNCHANGED toFc

LoadDuplicate == cmd' = PktFrameCount                               \* mutant
KeepCommands == UNCHANGED cmd

DuplicateFrame ==
  /\ Received(TRUE) /\ PktFrameCount = fcu_frame_count
  /\ arduPilotOnline' = TRUE
  /\ AnswerDuplicate /\ KeepCommands
  /\ UNCHANGED <<connectionTimeoutCount, fcu_frame_count, accepted>>
  /\ Return(FALSE) /\ ReceiveUnchanged

LoadPreviousFrame == cmd' = fcu_frame_count                         \* mutant
UpdateMotorCommands == cmd' = PktFrameCount

\* A smaller count (a controller that restarted, a counter that wrapped) is
\* only logged; the packet is accepted like any other.
AcceptFrame ==
  /\ Received(TRUE) /\ PktFrameCount # fcu_frame_count
  /\ arduPilotOnline' = TRUE
  /\ fcu_frame_count' = PktFrameCount
  /\ connectionTimeoutCount' = 0
  /\ UpdateMotorCommands
  /\ accepted' = TRUE
  /\ UNCHANGED toFc
  /\ Return(TRUE) /\ ReceiveUnchanged

----------------------------------------------------------------------------
(* PostUpdate, ImuCb and OnSignal.                                          *)

\* Without a valid IMU message the string stays as it is.
BuildStateOnce ==                                                   \* mutant
  json_str' = IF imuMsgValid /\ json_str = NoState THEN simTime ELSE json_str
CreateStateJSON == json_str' = IF imuMsgValid THEN simTime ELSE json_str

PublishState ==
  /\ pc = "post" /\ ExchangeDue(simTime) /\ arduPilotOnline
  /\ CreateStateJSON
  /\ SendState(json_str')
  /\ lastControllerUpdateTime' = simTime
  /\ pc' = "idle"
  /\ UNCHANGED <<isLockStep, pkt, accepted, clockVars, linkVars, fcu_address,
                 imuVars, signal, sockVars, envVars>>

SkipPublish ==
  /\ pc = "post" /\ ~(ExchangeDue(simTime) /\ arduPilotOnline)
  /\ pc' = "idle"
  /\ UNCHANGED <<isLockStep, pkt, accepted, clockVars, linkVars, fcu_address,
                 stateVars, toFc, imuVars, signal, sockVars, envVars>>

\* Transport thread: the IMU sensor publishes once the physics has run.
ImuCb ==
  /\ imuSubscribed /\ physTime > 0 /\ ~imuMsgValid
  /\ imuMsgValid' = TRUE
  /\ UNCHANGED <<isLockStep, threadVars, clockVars, linkVars, fcu_address,
                 stateVars, imuInitialized, imuSubscribed, signal, sockVars,
                 toFc, envVars>>

OnSignal ==
  /\ ~signal /\ MayFault("signal")
  /\ signal' = TRUE
  /\ faults' = faults - 1
  /\ UNCHANGED <<isLockStep, threadVars, clockVars, linkVars, fcu_address,
                 stateVars, imuVars, sockVars, toFc, fc>>

----------------------------------------------------------------------------
(* The flight controller (external): it sends a numbered servo packet,      *)
(* waits for a state, sends the packet again while none comes, and goes on  *)
(* to the next frame when one does.  A restart counts from 0 on a new port. *)

plugin == <<isLockStep, threadVars, clockVars, linkVars, fcu_address, stateVars,
            imuVars, signal>>

ServoPacket == [src |-> fc.addr, frame |-> fc.frame, good |-> TRUE]

\* The network delivers in order, loses a datagram, or lets it overtake.  (One
\* that it duplicates looks like one that the controller sent again.)
Transmit(d) ==
  \/ Len(inbox) < InboxCap /\ inbox' = Append(inbox, d) /\ UNCHANGED faults
  \/ MayFault("loss") /\ UNCHANGED inbox /\ faults' = faults - 1
  \/ /\ MayFault("reorder") /\ Len(inbox) \in 1 .. InboxCap - 1
     /\ inbox' = <<d>> \o inbox /\ faults' = faults - 1

FcSend ==
  /\ fc.up /\ ~fc.waiting
  /\ FcAwaitsImu => imuMsgValid
  /\ Transmit(ServoPacket)
  /\ fc' = [fc EXCEPT !.waiting = TRUE]
  /\ UNCHANGED <<plugin, in_addr, toFc>>

FcResend ==
  /\ fc.up /\ fc.waiting
  /\ Transmit(ServoPacket)
  /\ UNCHANGED <<plugin, in_addr, toFc, fc>>

NextFrame == [fc EXCEPT !.frame = (@ + 1) % UInt32, !.waiting = FALSE]

\* An empty datagram carries no state: the controller keeps waiting.
FcReceive ==
  /\ fc.up /\ fc.waiting
  /\ \E t \in toFc :
       toFc' = toFc \ {t} /\ fc' = IF t = NoState THEN fc ELSE NextFrame
  /\ UNCHANGED <<plugin, sockVars, faults>>

FcRestart ==
  /\ MayFault("restart")
  /\ \E a \in Peers \ {fc.addr} :
       fc' = [addr |-> a, frame |-> 0, waiting |-> FALSE, up |-> TRUE]
  /\ toFc' = {}                            \* the old port is closed
  /\ faults' = faults - 1
  /\ UNCHANGED <<plugin, sockVars>>

FcStop ==
  /\ fc.up /\ MayFault("stop")
  /\ fc' = [fc EXCEPT !.up = FALSE]
  /\ toFc' = {}
  /\ faults' = faults - 1
  /\ UNCHANGED <<plugin, sockVars>>

LoseState ==
  /\ MayFault("loss")
  /\ \E t \in toFc : toFc' = toFc \ {t}
  /\ faults' = faults - 1
  /\ UNCHANGED <<plugin, sockVars, fc>>

\* A program that does not speak this protocol (or speaks it with the other
\* number of channels, so with the other magic) sends to the plugin's port.
Stray ==
  /\ MayFault("stray") /\ Len(inbox) < InboxCap
  /\ \E p \in Peers :
       inbox' = Append(inbox, [src |-> p, frame |-> 0, good |-> FALSE])
  /\ faults' = faults - 1
  /\ UNCHANGED <<plugin, in_addr, toFc, fc>>

----------------------------------------------------------------------------
SimThread ==
  \/ InitImu \/ PreUpdate
  \/ FirstRecv \/ FirstRecvTimeout \/ Drain \/ Drained
  \/ MissOffline \/ MissCounted \/ MissTimeout
  \/ BadMagic \/ DuplicateFrame \/ AcceptFrame
  \/ Update \/ PublishState \/ SkipPublish

FlightController == FcSend \/ FcResend \/ FcReceive

Environment ==
  \/ Reset \/ OnSignal \/ FcRestart \/ FcStop \/ LoseState \/ Stray

\* The run ends when its simulated time is used up.
Finished == pc = "idle" /\ simTime = MaxTime /\ UNCHANGED vars

Next ==
  \/ SimThread \/ ImuCb \/ FlightController \/ Environment
  \/ Finished

\* The server calls the plugin step after step, the controller keeps sending
\* and reading, what is sent arrives; no fault need happen.  Strong fairness
\* of FirstRecv: not every datagram is late.  Strong fairness of Drained: the
\* plugin empties its queue faster than a controller fills it.
Fairness ==
  /\ WF_vars(SimThread) /\ SF_vars(FirstRecv) /\ SF_vars(Drained)
  /\ WF_vars(ImuCb)
  /\ WF_vars(FcSend) /\ WF_vars(FcResend) /\ WF_vars(FcReceive)

Spec == Init /\ [][Next]_vars /\ Fairness

----------------------------------------------------------------------------
(* Properties.                                                              *)

\* The plugin's and the environment's state has the declared types, and the
\* miss counter never exceeds <connectionTimeoutMaxCount>.
TypeOK ==
  /\ isLockStep \in BOOLEAN
  /\ pc \in {"idle", "recv", "drain", "servo", "update", "post"}
  /\ pkt \in Datagram \cup {NoPkt}
  /\ accepted \in BOOLEAN
  /\ simTime \in Time /\ physTime \in Time
  /\ arduPilotOnline \in BOOLEAN
  /\ connectionTimeoutCount \in 0 .. ConnectionTimeoutMaxCount
  /\ fcu_frame_count \in Frame
  /\ fcu_address \in Addr
  /\ json_str \in Time /\ lastControllerUpdateTime \in Time
  /\ cmd \in Frame \cup {NoCmd}
  /\ imuInitialized \in BOOLEAN /\ imuSubscribed \in BOOLEAN
  /\ imuMsgValid \in BOOLEAN /\ signal \in BOOLEAN
  /\ inbox \in Seq(Datagram) /\ in_addr \in Addr
  /\ toFc \subseteq Time
  /\ fc \in [addr : Peers, frame : Frame, waiting : BOOLEAN, up : BOOLEAN]
  /\ faults \in 0 .. MaxFaults

\* Lock-step (README.md:17, "True simulation lockstepping"): once the
\* controller is online and unless SIGINT arrived, the physics moves only in
\* an update that accepted a new servo frame.  The exception is the time
\* after a world reset, until the clock passes lastControllerUpdateTime.
LockStepped ==
  isLockStep /\ arduPilotOnline /\ ~signal /\ pc \in {"update", "post"}
    => accepted \/ ~ExchangeDue(simTime)

\* While the controller is offline no motor command is loaded and no misses
\* are carried over to the next connection.
OfflineIsIdle ==
  ~arduPilotOnline => cmd = NoCmd /\ connectionTimeoutCount = 0

\* The loaded motor command is the one of the last counted frame: a duplicate,
\* a foreign or a missed datagram never changes one without the other.
CommandIsLastFrame == cmd \in {NoCmd, fcu_frame_count}

\* What a resend sends is the state of the last exchange, or the empty string
\* (ArduPilotPlugin.cc:368, "Last sent JSON string, so we can resend if needed").
ResendIsLastState == json_str \in {NoState, lastControllerUpdateTime}

\* In lock-step the connection does not time out (ArduPilotPlugin.cc:1532,
\* "for lock-step resend last state rather than time out").
LockStepStaysOnline == [][isLockStep /\ arduPilotOnline => arduPilotOnline']_vars

\* The exchange implements taking turns (module LockStep): in lock-step every
\* step of the physics is paid for by one new servo frame.
Turn ==
  IF ~(isLockStep /\ arduPilotOnline) \/ signal THEN "free"
  ELSE IF pc = "update" /\ accepted THEN "world" ELSE "controller"

Turns == INSTANCE LockStep WITH turn <- Turn, time <- physTime
TakesTurns == Turns!Spec

\* The exchange keeps the promises of module ServoLink: a new frame loads its
\* own commands; a duplicate, however the frame counter wrapped or started,
\* brings back a connection but no commands; a lost connection takes the
\* commands with it.  A frame's commands have its count for a name here.
Asks == IF fcu_frame_count = UInt32Max THEN NoCmd ELSE fcu_frame_count

Servo == INSTANCE ServoLink WITH
  Never <- UInt32Max, None <- NoCmd, Loads <- Frame,
  online <- arduPilotOnline, last <- fcu_frame_count, asks <- Asks, loaded <- cmd
FollowsServoLink == Servo!Spec

\* Progress: the simulation never gets stuck waiting for a live controller.
\* Lost, repeated and reordered packets, a restart of the controller on a new
\* port and a captured reply address are all overcome by the resends.
SimulationProceeds == <>(simTime = MaxTime \/ ~fc.up)

\* A controller that fell silent is noticed while the simulation has enough
\* steps left to count the misses (without lock-step; with it, never).
SilenceNoticed ==
  ( /\ ~isLockStep /\ ~fc.up /\ inbox = <<>> /\ pc = "idle"
    /\ simTime + ConnectionTimeoutMaxCount + 1 <= MaxTime )
  ~> ~arduPilotOnline \/ fc.up \/ inbox # <<>>

\* No state without an IMU message (ArduPilotPlugin.cc:1724, "Wait until we've
\* received a valid message."): no empty datagram is sent to the controller.
NeverSendsEmptyState == NoState \notin toFc

\* The reply address is known once the controller is online
\* (ArduPilotPlugin.cc:232, "the SITL flight controller - auto detected").
ReplyAddressKnown == arduPilotOnline => fcu_address # NoAddr

\* Lock-step without the exception of LockStepped, a world reset.
LockSteppedAlways ==
  isLockStep /\ arduPilotOnline /\ ~signal /\ pc \in {"update", "post"}
    => accepted
=============================================================================
