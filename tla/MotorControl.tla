---------------------------- MODULE MotorControl ----------------------------
(***************************************************************************)
(* From servo packets to joints (src/src/ArduPilotPlugin.cc):              *)
(* UpdateMotorCommands turns the PWM of a packet into commands, and        *)
(* ApplyMotorForces, in every update while the controller is online, turns *)
(* commands into joint forces, joint velocities and messages to plugins.   *)
(*                                                                         *)
(* Abstractions: what module ArduPilotPlugin says of packets, timeouts and *)
(* lock-step is here one of four outcomes of a receive; both modules keep  *)
(* to ServoLink.  Commands are integers, in units of 1/(servo_max -        *)
(* servo_min).  A PID has its P and I terms; rotorVelocitySlowdownSim is   *)
(* 1.  Each control has its own joint.                                     *)
(***************************************************************************)
EXTENDS Integers, Sequences

CONSTANTS
  ControlLists,   \* the lists of <control> blocks considered
  ServoChannels,  \* 16, or 32 with <have_32_channels>
  MaxMotors,      \* MAX_MOTORS (255)
  PwmValues,      \* the PWM values of packets: a subset of uint16_t
  Rates,          \* readings of joint positions and velocities
  Frames,         \* frame counts of packets
  NoFrame, NoPacket, NoValue,
  MaxTime         \* bound: simulation steps of a run

Types == {"VELOCITY", "POSITION", "EFFORT", "COMMAND"}

Gains == [p : Int, i : Int, iMax : Int, iMin : Int, cmdMax : Int, cmdMin : Int]

\* `sensed`: some plugin of the model keeps the joint's position and velocity.
Control ==
  [type : Types, useForce : BOOLEAN, channel : Nat, multiplier : Int, offset : Int,
   servo_min : Int, servo_max : Int, gains : Gains, sensed : BOOLEAN]

Packets == [0 .. ServoChannels - 1 -> PwmValues]

ASSUME MotorAssumption ==
  /\ ServoChannels \in Nat \ {0} /\ MaxMotors \in Nat /\ MaxTime \in Nat \ {0}
  /\ PwmValues \subseteq Nat /\ Rates \subseteq Int /\ Rates # {}
  /\ ControlLists \subseteq Seq(Control)
  /\ \A list \in ControlLists : \A n \in DOMAIN list :
       list[n].servo_min # list[n].servo_max
  /\ NoFrame \notin Frames /\ NoPacket \notin Packets /\ NoValue \notin Int

VARIABLES
  controls,       \* the controls, as LoadControlChannels read them
  pc,             \* the part of the update the simulation is in
  simTime, lastControllerUpdateTime,
  arduPilotOnline,
  cmd,            \* Control::cmd
  outputReady,    \* Control::outputReady
  iErr,           \* the integral error of Control::pid
  force,          \* JointForceCmd of the joints, 0 when there is none
  velocity,       \* JointVelocityCmd of the joints, 0 when there is none
  published,      \* last value on the topics of COMMAND controls
  rate,           \* position or velocity of the joints
  frame,          \* history: frame count of the last accepted packet
  packet,         \* history: its PWM
  zeroed          \* history: the commands were reset after that packet

inputVars  == <<cmd, outputReady, frame, packet, zeroed>>
outputVars == <<iErr, force, velocity, published>>
vars == <<controls, pc, simTime, lastControllerUpdateTime, arduPilotOnline,
          inputVars, outputVars, rate>>

Motors == DOMAIN controls

ControlInit(list) ==
  /\ controls = list
  /\ cmd = [n \in DOMAIN list |-> 0]
  /\ outputReady = [n \in DOMAIN list |-> FALSE]
  /\ iErr = [n \in DOMAIN list |-> 0]
  /\ force = [n \in DOMAIN list |-> 0]
  /\ velocity = [n \in DOMAIN list |-> 0]
  /\ published = [n \in DOMAIN list |-> NoValue]
  /\ rate \in [DOMAIN list -> Rates]

Init ==
  /\ \E list \in ControlLists : ControlInit(list)
  /\ pc = "receive" /\ simTime = 1 /\ lastControllerUpdateTime = 0
  /\ arduPilotOnline = FALSE
  /\ frame = NoFrame /\ packet = NoPacket /\ zeroed = FALSE

Clamp(v, lo, hi) == IF v < lo THEN lo ELSE IF v > hi THEN hi ELSE v

----------------------------------------------------------------------------
(* What ReceiveServoPacket makes of a packet.                               *)

\* [servo_min, servo_max] is mapped to [0, 1], whichever of the two is larger.
RawUnclamped(c, pwm) == pwm - c.servo_min                           \* mutant
Raw(c, pwm) ==
  IF c.servo_min < c.servo_max
  THEN Clamp(pwm - c.servo_min, 0, c.servo_max - c.servo_min)
  ELSE Clamp(c.servo_min - pwm, 0, c.servo_min - c.servo_max)

Command(c, pwm) == c.multiplier * (Raw(c, pwm) + c.offset)

\* Controls beyond MAX_MOTORS or with a channel the packet lacks keep their
\* state; a PWM of 0 is "no servo output".
Driven(n) == n <= MaxMotors /\ controls[n].channel < ServoChannels
Pwm(n, pwm) == pwm[controls[n].channel]

UpdateReadyOnly(pwm) ==                                             \* mutant
  /\ outputReady' = [n \in Motors |-> outputReady[n] \/ (Driven(n) /\ Pwm(n, pwm) # 0)]
  /\ cmd' = [n \in Motors |->
       IF ~Driven(n) THEN cmd[n]
       ELSE IF Pwm(n, pwm) = 0 THEN 0 ELSE Command(controls[n], Pwm(n, pwm))]
UpdateMotorCommands(pwm) ==
  /\ outputReady' = [n \in Motors |->
       IF Driven(n) THEN Pwm(n, pwm) # 0 ELSE outputReady[n]]
  /\ cmd' = [n \in Motors |->
       IF ~Driven(n) THEN cmd[n]
       ELSE IF Pwm(n, pwm) = 0 THEN 0 ELSE Command(controls[n], Pwm(n, pwm))]

Apply == pc' = IF arduPilotOnline' THEN "apply" ELSE "physics"
ReceiveUnchanged ==
  UNCHANGED <<controls, simTime, lastControllerUpdateTime, outputVars, rate>>

AcceptFrame ==
  /\ pc = "receive"
  /\ frame' \in Frames \ {frame}
  /\ \E pwm \in Packets : UpdateMotorCommands(pwm) /\ packet' = pwm
  /\ zeroed' = FALSE
  /\ arduPilotOnline' = TRUE
  /\ Apply /\ ReceiveUnchanged

\* The command a packet asks of a control.
Asked(n, pwm) ==
  IF pwm = NoPacket \/ ~Driven(n) \/ Pwm(n, pwm) = 0
  THEN 0 ELSE Command(controls[n], Pwm(n, pwm))

\* A duplicate, after a timeout too, brings the controller online without
\* touching the commands.
ReloadCommands ==                                                   \* mutant
  cmd' = [n \in Motors |-> Asked(n, packet)] /\ zeroed' = FALSE
KeepCommands == UNCHANGED <<cmd, zeroed>>

DuplicateFrame ==
  /\ pc = "receive" /\ frame # NoFrame
  /\ arduPilotOnline' = TRUE
  /\ KeepCommands
  /\ UNCHANGED <<outputReady, frame, packet>>
  /\ Apply /\ ReceiveUnchanged

\* Nothing at all, or nothing with the magic number, while the misses are not
\* too many or lock-step sends its state again.
NothingNew ==
  /\ pc = "receive"
  /\ UNCHANGED <<arduPilotOnline, inputVars>>
  /\ Apply /\ ReceiveUnchanged

\* ResetPIDs zeroes the commands and leaves outputReady, pid and the topics.
ResetFirstOnly == cmd' = [cmd EXCEPT ![1] = 0]                      \* mutant
ResetPIDs == cmd' = [n \in Motors |-> 0]

ConnectionLost ==
  /\ pc = "receive" /\ arduPilotOnline
  /\ arduPilotOnline' = FALSE
  /\ ResetPIDs /\ zeroed' = TRUE
  /\ UNCHANGED <<outputReady, frame, packet>>
  /\ Apply /\ ReceiveUnchanged

----------------------------------------------------------------------------
(* ApplyMotorForces.                                                        *)

\* gz::math::PID::Update (external), without its D term; dt is never 0 here.  A
\* maximum below the minimum turns the limits off.
Limit(v, lo, hi) == IF lo <= hi THEN Clamp(v, lo, hi) ELSE v

IntegralUnlimited(n, error, dt) ==                                  \* mutant
  iErr[n] + controls[n].gains.i * dt * error
Integral(n, error, dt) ==
  LET g == controls[n].gains IN Limit(iErr[n] + g.i * dt * error, g.iMin, g.iMax)
PidForce(n, error, integral) ==
  LET g == controls[n].gains IN Limit(-(g.p * error) - integral, g.cmdMin, g.cmdMax)

Active(n) == outputReady[n]

Relays(n)   == Active(n) /\ controls[n].type = "COMMAND"
ByPid(n)    == Active(n) /\ controls[n].useForce /\ controls[n].sensed
                 /\ controls[n].type \in {"VELOCITY", "POSITION"}
ByEffort(n) == Active(n) /\ controls[n].useForce /\ controls[n].type = "EFFORT"
ByRate(n)   == Active(n) /\ ~controls[n].useForce /\ controls[n].type = "VELOCITY"

\* EFFORT without useForce fetches the force component and then writes through
\* the velocity one, which is null.
WritesNull(n) == Active(n) /\ ~controls[n].useForce /\ controls[n].type = "EFFORT"

Error(n) == rate[n] - cmd[n]
Dt == simTime - lastControllerUpdateTime

ApplyMotorForces ==
  /\ pc = "apply" /\ \A n \in Motors : ~WritesNull(n)
  /\ iErr' = [n \in Motors |->
       IF ByPid(n) THEN Integral(n, Error(n), Dt) ELSE iErr[n]]
  /\ force' = [n \in Motors |->
       IF ByPid(n) THEN PidForce(n, Error(n), iErr'[n])
       ELSE IF ByEffort(n) THEN cmd[n] ELSE force[n]]
  /\ velocity' = [n \in Motors |-> IF ByRate(n) THEN cmd[n] ELSE velocity[n]]
  /\ published' = [n \in Motors |-> IF Relays(n) THEN cmd[n] ELSE published[n]]
  /\ pc' = "physics"
  /\ UNCHANGED <<controls, simTime, lastControllerUpdateTime, arduPilotOnline,
                 inputVars, rate>>

Crash ==
  /\ pc = "apply" /\ \E n \in Motors : WritesNull(n)
  /\ pc' = "crashed"
  /\ UNCHANGED <<controls, simTime, lastControllerUpdateTime, arduPilotOnline,
                 inputVars, outputVars, rate>>

----------------------------------------------------------------------------
\* The physics (external) uses the joint commands up and moves the joints.
Physics ==
  /\ pc = "physics"
  /\ force' = [n \in Motors |-> 0] /\ velocity' = [n \in Motors |-> 0]
  /\ rate' \in [Motors -> Rates]
  /\ pc' = "post"
  /\ UNCHANGED <<controls, simTime, lastControllerUpdateTime, arduPilotOnline,
                 inputVars, iErr, published>>

\* Only an update with the controller online moves the time base of the PIDs.
PostUpdate ==
  /\ pc = "post" /\ simTime < MaxTime
  /\ lastControllerUpdateTime' =
       IF arduPilotOnline THEN simTime ELSE lastControllerUpdateTime
  /\ simTime' = simTime + 1
  /\ pc' = "receive"
  /\ UNCHANGED <<controls, arduPilotOnline, inputVars, outputVars, rate>>

Stopped == pc = "crashed" \/ (pc = "post" /\ simTime = MaxTime)
Finished == Stopped /\ UNCHANGED vars

Next ==
  \/ AcceptFrame \/ DuplicateFrame \/ NothingNew \/ ConnectionLost
  \/ ApplyMotorForces \/ Crash \/ Physics \/ PostUpdate
  \/ Finished

Spec == Init /\ [][Next]_vars

----------------------------------------------------------------------------
(* Properties.                                                              *)

IntegralLimited(n, v) ==
  LET g == controls[n].gains
  IN  g.iMin <= g.iMax => v \in {0} \cup (g.iMin .. g.iMax)

\* The state has the declared types; a PID's integral, which starts at 0, keeps
\* its limits from the first update on, where it has any.
TypeOK ==
  /\ controls \in ControlLists
  /\ pc \in {"receive", "apply", "physics", "post", "crashed"}
  /\ simTime \in 0 .. MaxTime /\ lastControllerUpdateTime \in 0 .. MaxTime
  /\ arduPilotOnline \in BOOLEAN /\ zeroed \in BOOLEAN
  /\ cmd \in [Motors -> Int] /\ outputReady \in [Motors -> BOOLEAN]
  /\ iErr \in [Motors -> Int]
  /\ \A n \in Motors : IntegralLimited(n, iErr[n])
  /\ force \in [Motors -> Int] /\ velocity \in [Motors -> Int]
  /\ published \in [Motors -> Int \cup {NoValue}]
  /\ rate \in [Motors -> Rates]
  /\ frame \in Frames \cup {NoFrame} /\ packet \in Packets \cup {NoPacket}

\* All motors obey one and the same packet: each command is the one the last
\* accepted packet gives, or all are 0 after a timeout, or before any packet.
OnePacket == \A n \in Motors : cmd[n] = IF zeroed THEN 0 ELSE Asked(n, packet)

\* A command never leaves the range its <control> block describes, whatever
\* PWM arrives.
Within(v, a, b) == (a <= v /\ v <= b) \/ (b <= v /\ v <= a)
Span(c) == IF c.servo_min < c.servo_max THEN c.servo_max - c.servo_min
           ELSE c.servo_min - c.servo_max
CommandInRange ==
  \A n \in Motors :
    LET c == controls[n]
    IN  cmd[n] = 0 \/ Within(cmd[n], c.multiplier * c.offset,
                                     c.multiplier * (Span(c) + c.offset))

\* Nothing drives a joint, in the step of the physics, unless the controller is
\* online and its last packet had a servo output for it (line 1310, "skip servo
\* output while not ready"), reconnections by a duplicate included.
SilentUnlessReady ==
  pc = "physics" =>
    \A n \in Motors : force[n] # 0 \/ velocity[n] # 0 =>
      arduPilotOnline /\ packet # NoPacket /\ Driven(n) /\ Pwm(n, packet) # 0

\* What the receive loads and drops is what module ServoLink promises, seen in
\* the commands of all the motors together: a new frame loads what its own PWM
\* asks for, a duplicate loads nothing, and a lost connection drops them all.
AsLoaded(commands) ==
  IF \A n \in Motors : commands[n] = 0 THEN NoValue ELSE commands

Servo == INSTANCE ServoLink WITH
  Never <- NoFrame, None <- NoValue, Loads <- Seq(Int),
  online <- arduPilotOnline, last <- frame,
  asks <- AsLoaded([n \in Motors |-> Asked(n, packet)]), loaded <- AsLoaded(cmd)
FollowsServoLink == Servo!Spec
=============================================================================
