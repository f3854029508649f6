-------------------------- MODULE MotorControlProofs --------------------------
(***************************************************************************)
(* Proofs of the safety properties of MotorControl, for every list of      *)
(* controls, every packet and every length of a run.                       *)
(*                                                                         *)
(* TypeOK and OnePacket are inductive together; CommandInRange follows     *)
(* from them, since a command is a function of the PWM.  SilentUnlessReady *)
(* needs two facts more: who is ready has a servo output in the packet,    *)
(* and no joint is driven outside the step of the physics.                 *)
(***************************************************************************)
EXTENDS MotorControl, TLAPS

\* A control is ready only by a servo output of the last packet.
ReadyByPacket ==
  \A n \in Motors : outputReady[n] =>
    packet # NoPacket /\ Driven(n) /\ Pwm(n, packet) # 0

\* Joint commands exist only while the physics is to use them up.
QuietElsewhere ==
  pc # "physics" => \A n \in Motors : force[n] = 0 /\ velocity[n] = 0

\* Forces are applied only online.
AppliesOnline == pc = "apply" => arduPilotOnline

DriveInv == ReadyByPacket /\ QuietElsewhere /\ AppliesOnline /\ SilentUnlessReady

----------------------------------------------------------------------------
(* The parameters.                                                          *)

\* What MotorAssumption says of one control of a list.
LEMMA ControlTyped ==
  ASSUME NEW list \in ControlLists, NEW n \in DOMAIN list
  PROVE  /\ list[n] \in Control
         /\ list[n].gains \in Gains
         /\ list[n].servo_min \in Int /\ list[n].servo_max \in Int
         /\ list[n].multiplier \in Int /\ list[n].offset \in Int
         /\ list[n].channel \in Nat
         /\ list[n].gains.iMin \in Int /\ list[n].gains.iMax \in Int
         /\ list[n].gains.cmdMin \in Int /\ list[n].gains.cmdMax \in Int
         /\ list[n].gains.p \in Int /\ list[n].gains.i \in Int
<1>1. list \in Seq(Control)
  BY MotorAssumption
<1>2. list[n] \in Control
  BY <1>1
<1>3. list[n].gains \in Gains
  BY <1>2 DEF Control
<1> QED
  BY <1>2, <1>3 DEF Control, Gains

\* A packet has a PWM for every channel.
LEMMA PwmTyped ==
  ASSUME NEW pwm \in Packets, NEW ch \in 0 .. ServoChannels - 1
  PROVE  pwm[ch] \in Nat
BY MotorAssumption DEF Packets

\* std::clamp keeps its limits (ArduPilotPlugin.cc:1677 and the PID's limits).
LEMMA ClampWithin ==
  ASSUME NEW v \in Int, NEW lo \in Int, NEW hi \in Int, lo <= hi
  PROVE  Clamp(v, lo, hi) \in lo .. hi
BY DEF Clamp

\* So do the limits of a PID, where it has any.
LEMMA LimitWithin ==
  ASSUME NEW v \in Int, NEW lo \in Int, NEW hi \in Int
  PROVE  /\ Limit(v, lo, hi) \in Int
         /\ lo <= hi => Limit(v, lo, hi) \in lo .. hi
BY ClampWithin DEF Limit

\* The raw command of a control is between 0 and the span of its servo range.
LEMMA RawInSpan ==
  ASSUME NEW list \in ControlLists, NEW n \in DOMAIN list, NEW p \in Int
  PROVE  /\ Span(list[n]) \in Nat
         /\ Raw(list[n], p) \in 0 .. Span(list[n])
<1>1. /\ list[n].servo_min \in Int /\ list[n].servo_max \in Int
  BY ControlTyped
<1> QED
  BY <1>1 DEF Raw, Span, Clamp

\* Multiplication keeps or reverses order.
LEMMA ScaledWithin ==
  ASSUME NEW m \in Int, NEW a \in Int, NEW b \in Int, NEW c \in Int, a <= b, b <= c
  PROVE  Within(m * b, m * a, m * c)
<1>1. CASE m >= 0
  <2>1. m * (b - a) >= 0 /\ m * (c - b) >= 0
    BY <1>1
  <2>2. m * (b - a) = m * b - m * a /\ m * (c - b) = m * c - m * b
    OBVIOUS
  <2>3. m * a \in Int /\ m * b \in Int /\ m * c \in Int
    OBVIOUS
  <2> QED
    BY <2>1, <2>2, <2>3 DEF Within
<1>2. CASE m < 0
  <2>1. m * (b - a) <= 0 /\ m * (c - b) <= 0
    BY <1>2
  <2>2. m * (b - a) = m * b - m * a /\ m * (c - b) = m * c - m * b
    OBVIOUS
  <2>3. m * a \in Int /\ m * b \in Int /\ m * c \in Int
    OBVIOUS
  <2> QED
    BY <2>1, <2>2, <2>3 DEF Within
<1> QED
  BY <1>1, <1>2

\* Whatever the PWM, a command is in the range of its <control> block.
LEMMA CommandWithin ==
  ASSUME NEW list \in ControlLists, NEW n \in DOMAIN list, NEW p \in Int
  PROVE  LET c == list[n]
         IN  /\ Command(c, p) \in Int
             /\ Within(Command(c, p), c.multiplier * c.offset,
                                      c.multiplier * (Span(c) + c.offset))
<1> DEFINE c == list[n]
<1>1. /\ c.multiplier \in Int /\ c.offset \in Int
  BY ControlTyped
<1>2. Span(c) \in Nat /\ Raw(c, p) \in 0 .. Span(c)
  BY RawInSpan
<1> HIDE DEF c
<1>3. /\ Raw(c, p) + c.offset \in Int /\ Span(c) + c.offset \in Int
      /\ c.offset <= Raw(c, p) + c.offset
      /\ Raw(c, p) + c.offset <= Span(c) + c.offset
  BY <1>1, <1>2
<1>4. Command(c, p) \in Int
  BY <1>1, <1>3 DEF Command
<1>5. Within(Command(c, p), c.multiplier * c.offset, c.multiplier * (Span(c) + c.offset))
  BY <1>1, <1>3, ScaledWithin DEF Command
<1> QED
  BY <1>4, <1>5 DEF c

----------------------------------------------------------------------------
(* Type correctness.                                                        *)

LEMMA ReadingTyped ==
  ASSUME TypeOK, NEW n \in Motors
  PROVE  iErr[n] \in Int /\ Error(n) \in Int /\ Dt \in Int
<1>1. iErr[n] \in Int /\ cmd[n] \in Int /\ rate[n] \in Rates
  BY DEF TypeOK
<1>2. rate[n] \in Int
  BY <1>1, MotorAssumption
<1>3. simTime \in Int /\ lastControllerUpdateTime \in Int
  BY DEF TypeOK
<1> QED
  BY <1>1, <1>2, <1>3 DEF Error, Dt

\* What a control's reading and command give for its PID, one update later.
LEMMA IntegralTyped ==
  ASSUME TypeOK, pc = "apply", NEW n \in Motors
  PROVE  LET v == Integral(n, Error(n), Dt) IN v \in Int /\ IntegralLimited(n, v)
<1>1. /\ controls[n].gains.iMin \in Int /\ controls[n].gains.iMax \in Int
      /\ controls[n].gains.i \in Int
  BY ControlTyped DEF TypeOK, Motors
<1>2. iErr[n] \in Int /\ Error(n) \in Int /\ Dt \in Int
  BY ReadingTyped
<1>3. controls[n].gains.i * Dt * Error(n) \in Int
  BY <1>1, <1>2
<1>4. iErr[n] + controls[n].gains.i * Dt * Error(n) \in Int
  BY <1>2, <1>3
<1> QED
  BY <1>1, <1>4, LimitWithin DEF Integral, IntegralLimited

LEMMA PidForceTyped ==
  ASSUME TypeOK, pc = "apply", NEW n \in Motors, NEW integral \in Int
  PROVE  PidForce(n, Error(n), integral) \in Int
<1>1. /\ controls[n].gains.cmdMin \in Int /\ controls[n].gains.cmdMax \in Int
      /\ controls[n].gains.p \in Int
  BY ControlTyped DEF TypeOK, Motors
<1>2. Error(n) \in Int
  BY ReadingTyped
<1>3. controls[n].gains.p * Error(n) \in Int
  BY <1>1, <1>2
<1>4. -(controls[n].gains.p * Error(n)) - integral \in Int
  BY <1>3
<1> QED
  BY <1>1, <1>4, LimitWithin DEF PidForce

LEMMA TypeInit == Init => TypeOK
<1> SUFFICES ASSUME Init PROVE TypeOK
  OBVIOUS
<1>1. PICK list \in ControlLists : ControlInit(list)
  BY DEF Init
<1>2. \A n \in Motors : IntegralLimited(n, iErr[n])
  BY <1>1 DEF ControlInit, Motors, IntegralLimited
<1>3. /\ controls \in ControlLists
      /\ cmd \in [Motors -> Int] /\ outputReady \in [Motors -> BOOLEAN]
      /\ iErr \in [Motors -> Int]
      /\ force \in [Motors -> Int] /\ velocity \in [Motors -> Int]
      /\ published \in [Motors -> Int \cup {NoValue}]
      /\ rate \in [Motors -> Rates]
  BY <1>1 DEF ControlInit, Motors
<1>4. simTime \in 0 .. MaxTime /\ lastControllerUpdateTime \in 0 .. MaxTime
  BY MotorAssumption DEF Init
<1> QED
  BY <1>2, <1>3, <1>4 DEF Init, TypeOK

\* UpdateMotorCommands gives every motor a command and a readiness.
LEMMA UpdateTyped ==
  ASSUME TypeOK, NEW pwm \in Packets, UpdateMotorCommands(pwm)
  PROVE  cmd' \in [Motors -> Int] /\ outputReady' \in [Motors -> BOOLEAN]
<1>1. controls \in ControlLists /\ cmd \in [Motors -> Int]
        /\ outputReady \in [Motors -> BOOLEAN]
  BY DEF TypeOK
<1>2. \A n \in Motors : Driven(n) => Pwm(n, pwm) \in Nat
  <2> SUFFICES ASSUME NEW n \in Motors, Driven(n) PROVE Pwm(n, pwm) \in Nat
    OBVIOUS
  <2>1. controls[n].channel \in Nat
    BY <1>1, ControlTyped DEF Motors
  <2>2. controls[n].channel \in 0 .. ServoChannels - 1
    BY <2>1, MotorAssumption DEF Driven
  <2> QED
    BY <2>2, PwmTyped DEF Pwm
<1>3. \A n \in Motors : Driven(n) => Command(controls[n], Pwm(n, pwm)) \in Int
  <2> SUFFICES ASSUME NEW n \in Motors, Driven(n)
               PROVE  Command(controls[n], Pwm(n, pwm)) \in Int
    OBVIOUS
  <2>1. n \in DOMAIN controls /\ Pwm(n, pwm) \in Int
    BY <1>2 DEF Motors
  <2> QED
    BY <1>1, <2>1, CommandWithin
<1>4. cmd' \in [Motors -> Int]
  BY <1>1, <1>3 DEF UpdateMotorCommands
<1>5. outputReady' \in [Motors -> BOOLEAN]
  <2>1. \A n \in Motors :
          (IF Driven(n) THEN Pwm(n, pwm) # 0 ELSE outputReady[n]) \in BOOLEAN
    BY <1>1
  <2> QED
    BY <2>1, Zenon DEF UpdateMotorCommands
<1> QED
  BY <1>4, <1>5

LEMMA TypeApply ==
  ASSUME TypeOK, ApplyMotorForces
  PROVE  TypeOK'
<1>1. \A n \in Motors : LET v == Integral(n, Error(n), Dt)
                       IN  v \in Int /\ IntegralLimited(n, v)
  BY IntegralTyped DEF ApplyMotorForces
<1>2. /\ cmd \in [Motors -> Int] /\ iErr \in [Motors -> Int]
      /\ force \in [Motors -> Int] /\ velocity \in [Motors -> Int]
      /\ published \in [Motors -> Int \cup {NoValue}]
      /\ \A n \in Motors : IntegralLimited(n, iErr[n])
  BY DEF TypeOK
<1>3. /\ iErr' \in [Motors -> Int]
      /\ \A n \in Motors : IntegralLimited(n, iErr'[n])
  BY <1>1, <1>2 DEF ApplyMotorForces
<1>4. force' \in [Motors -> Int]
  <2>1. \A n \in Motors : PidForce(n, Error(n), iErr'[n]) \in Int
    BY <1>3, PidForceTyped DEF ApplyMotorForces
  <2> QED
    BY <1>2, <2>1 DEF ApplyMotorForces
<1>5. velocity' \in [Motors -> Int] /\ published' \in [Motors -> Int \cup {NoValue}]
  BY <1>2 DEF ApplyMotorForces
<1>6. controls' = controls /\ pc' = "physics"
  BY DEF ApplyMotorForces
<1> QED
  BY <1>3, <1>4, <1>5, <1>6
  DEF ApplyMotorForces, TypeOK, Motors, inputVars, IntegralLimited

LEMMA TypeStep == TypeOK /\ [Next]_vars => TypeOK'
<1> SUFFICES ASSUME TypeOK, [Next]_vars PROVE TypeOK'
  OBVIOUS
<1>1. CASE AcceptFrame
  <2>1. PICK pwm \in Packets : UpdateMotorCommands(pwm) /\ packet' = pwm
    BY <1>1 DEF AcceptFrame
  <2>2. cmd' \in [Motors -> Int] /\ outputReady' \in [Motors -> BOOLEAN]
    BY <2>1, UpdateTyped
  <2> QED
    BY <1>1, <2>1, <2>2
    DEF AcceptFrame, ReceiveUnchanged, outputVars, Apply, TypeOK, Motors, IntegralLimited
<1>2. CASE DuplicateFrame \/ NothingNew
  BY <1>2 DEF DuplicateFrame, KeepCommands, NothingNew, ReceiveUnchanged, inputVars,
              outputVars, Apply, TypeOK, Motors, IntegralLimited
<1>3. CASE ConnectionLost
  <2>1. cmd' \in [Motors -> Int] /\ UNCHANGED <<controls, outputReady>>
    BY <1>3 DEF ConnectionLost, ResetPIDs, ReceiveUnchanged
  <2> QED
    BY <1>3, <2>1 DEF ConnectionLost, ReceiveUnchanged, outputVars, Apply, TypeOK, Motors,
                          IntegralLimited
<1>4. CASE ApplyMotorForces
  BY <1>4, TypeApply
<1>5. CASE Crash
  BY <1>5 DEF Crash, inputVars, outputVars, TypeOK, Motors, IntegralLimited
<1>6. CASE Physics
  BY <1>6 DEF Physics, inputVars, TypeOK, Motors, IntegralLimited
<1>7. CASE PostUpdate
  <2>1. simTime' \in 0 .. MaxTime /\ lastControllerUpdateTime' \in 0 .. MaxTime
    BY <1>7, MotorAssumption DEF PostUpdate, TypeOK
  <2> QED
    BY <1>7, <2>1 DEF PostUpdate, inputVars, outputVars, TypeOK, Motors, IntegralLimited
<1>8. CASE UNCHANGED vars
  BY <1>8 DEF vars, inputVars, outputVars, TypeOK, Motors, IntegralLimited
<1> QED
  BY <1>1, <1>2, <1>3, <1>4, <1>5, <1>6, <1>7, <1>8 DEF Next, Finished

\* The state keeps its types, and no PID's integral leaves the limits it has,
\* whatever the packets, the readings and the gains are.
THEOREM TypeCorrect == Spec => []TypeOK
<1> QED
  BY TypeInit, TypeStep, PTL DEF Spec

----------------------------------------------------------------------------
(* All motors obey one packet.                                              *)

LEMMA OnePacketStep == TypeOK /\ OnePacket /\ [Next]_vars => OnePacket'
<1> SUFFICES ASSUME TypeOK, OnePacket, [Next]_vars PROVE OnePacket'
  OBVIOUS
<1>1. CASE AcceptFrame
  <2>1. PICK pwm \in Packets : UpdateMotorCommands(pwm) /\ packet' = pwm
    BY <1>1 DEF AcceptFrame
  <2>2. controls' = controls /\ zeroed' = FALSE /\ packet' # NoPacket
    BY <1>1, <2>1, MotorAssumption DEF AcceptFrame, ReceiveUnchanged
  <2>3. \A n \in Motors : ~Driven(n) => cmd[n] = 0
    BY DEF OnePacket, Asked
  <2> QED
    BY <2>1, <2>2, <2>3 DEF UpdateMotorCommands, OnePacket, Asked, Motors, Driven, Pwm
<1>2. CASE ConnectionLost
  BY <1>2 DEF ConnectionLost, ResetPIDs, ReceiveUnchanged, OnePacket, Motors
<1>3. CASE UNCHANGED <<controls, cmd, packet, zeroed>>
  BY <1>3 DEF OnePacket, Asked, Motors, Driven, Pwm
<1> QED
  BY <1>1, <1>2, <1>3
  DEF Next, DuplicateFrame, KeepCommands, NothingNew, ReceiveUnchanged, inputVars,
      ApplyMotorForces, Crash, Physics, PostUpdate, Finished, vars

\* Every command is the one the last accepted packet gives, or all are 0.
THEOREM CommandsOfOnePacket == Spec => []OnePacket
<1>1. Init => OnePacket
  BY DEF Init, ControlInit, OnePacket, Asked, Motors
<1> QED
  BY <1>1, TypeInit, TypeStep, OnePacketStep, PTL DEF Spec

\* A command is a function of the PWM, so it has the range of its control.
LEMMA OnePacketInRange == TypeOK /\ OnePacket => CommandInRange
<1> SUFFICES ASSUME TypeOK, OnePacket, NEW n \in Motors, cmd[n] # 0
             PROVE  LET c == controls[n]
                    IN  Within(cmd[n], c.multiplier * c.offset,
                                       c.multiplier * (Span(c) + c.offset))
  BY DEF CommandInRange
<1>1. /\ packet # NoPacket /\ Driven(n)
      /\ cmd[n] = Command(controls[n], Pwm(n, packet))
  BY DEF OnePacket, Asked
<1>2. controls \in ControlLists /\ packet \in Packets /\ n \in DOMAIN controls
  BY <1>1 DEF TypeOK, Motors
<1>3. controls[n].channel \in 0 .. ServoChannels - 1
  BY <1>1, <1>2, ControlTyped, MotorAssumption DEF Driven
<1>4. Pwm(n, packet) \in Int
  BY <1>2, <1>3, PwmTyped DEF Pwm
<1> QED
  BY <1>1, <1>2, <1>4, CommandWithin

\* No PWM drives a command out of the range of its <control> block.
THEOREM CommandsInRange == Spec => []CommandInRange
<1> QED
  BY TypeCorrect, CommandsOfOnePacket, OnePacketInRange, PTL

----------------------------------------------------------------------------
(* Nothing is driven unless ready.                                          *)

LEMMA DriveInit == Init => DriveInv
BY DEF Init, ControlInit, DriveInv, ReadyByPacket, QuietElsewhere, AppliesOnline,
       SilentUnlessReady, Motors

LEMMA DriveStep == TypeOK /\ DriveInv /\ [Next]_vars => DriveInv'
<1> SUFFICES ASSUME TypeOK, DriveInv, [Next]_vars PROVE DriveInv'
  OBVIOUS
<1> USE DEF DriveInv
<1>1. CASE AcceptFrame
  <2>1. PICK pwm \in Packets : UpdateMotorCommands(pwm) /\ packet' = pwm
    BY <1>1 DEF AcceptFrame
  <2>2. controls' = controls /\ packet' # NoPacket
    BY <1>1, <2>1, MotorAssumption DEF AcceptFrame, ReceiveUnchanged
  <2>3. ReadyByPacket'
    BY <2>1, <2>2 DEF UpdateMotorCommands, ReadyByPacket, Motors, Driven, Pwm
  <2>4. (QuietElsewhere /\ AppliesOnline /\ SilentUnlessReady)'
    BY <1>1, <2>2 DEF AcceptFrame, ReceiveUnchanged, outputVars, Apply, QuietElsewhere,
                      AppliesOnline, SilentUnlessReady, Motors
  <2> QED
    BY <2>3, <2>4
<1>2. CASE DuplicateFrame \/ NothingNew
  BY <1>2 DEF DuplicateFrame, NothingNew, ReceiveUnchanged, inputVars, outputVars, Apply,
              ReadyByPacket, QuietElsewhere, AppliesOnline, SilentUnlessReady, Motors,
              Driven, Pwm
<1>3. CASE ConnectionLost
  BY <1>3 DEF ConnectionLost, ReceiveUnchanged, outputVars, Apply, ReadyByPacket,
              QuietElsewhere, AppliesOnline, SilentUnlessReady, Motors, Driven, Pwm
<1>4. CASE ApplyMotorForces
  <2>1. arduPilotOnline /\ arduPilotOnline' = arduPilotOnline /\ pc' = "physics"
    BY <1>4 DEF ApplyMotorForces, AppliesOnline
  <2>2. UNCHANGED <<controls, inputVars>>
    BY <1>4 DEF ApplyMotorForces
  <2>3. \A n \in Motors : force[n] = 0 /\ velocity[n] = 0
    BY <1>4 DEF ApplyMotorForces, QuietElsewhere
  <2>4. \A n \in Motors : force'[n] # 0 \/ velocity'[n] # 0 => outputReady[n]
    BY <1>4, <2>3 DEF ApplyMotorForces, ByPid, ByEffort, ByRate, Active
  <2>5. ReadyByPacket'
    BY <2>2 DEF inputVars, ReadyByPacket, Motors, Driven, Pwm
  <2> QED
    BY <2>1, <2>2, <2>4, <2>5
    DEF inputVars, ReadyByPacket, QuietElsewhere, AppliesOnline, SilentUnlessReady, Motors
<1>5. CASE Crash
  BY <1>5 DEF Crash, inputVars, outputVars, ReadyByPacket, QuietElsewhere, AppliesOnline,
              SilentUnlessReady, Motors, Driven, Pwm
<1>6. CASE Physics
  BY <1>6 DEF Physics, inputVars, ReadyByPacket, QuietElsewhere, AppliesOnline,
              SilentUnlessReady, Motors, Driven, Pwm
<1>7. CASE PostUpdate
  BY <1>7 DEF PostUpdate, inputVars, outputVars, ReadyByPacket, QuietElsewhere,
              AppliesOnline, SilentUnlessReady, Motors, Driven, Pwm
<1>8. CASE UNCHANGED vars
  BY <1>8 DEF vars, inputVars, outputVars, ReadyByPacket, QuietElsewhere,
              AppliesOnline, SilentUnlessReady, Motors, Driven, Pwm
<1> QED
  BY <1>1, <1>2, <1>3, <1>4, <1>5, <1>6, <1>7, <1>8 DEF Next, Finished

\* A joint is driven only online and by a servo output of the last packet.
THEOREM DrivenOnlyWhenReady == Spec => []SilentUnlessReady
<1>1. DriveInv => SilentUnlessReady
  BY DEF DriveInv
<1> QED
  BY <1>1, TypeInit, TypeStep, DriveInit, DriveStep, PTL DEF Spec

----------------------------------------------------------------------------
(* The receive keeps the promises of ServoLink.                             *)

\* The commands of all motors are a sequence of integers.
LEMMA CommandsTyped ==
  ASSUME NEW list \in Seq(Control), NEW commands \in [DOMAIN list -> Int]
  PROVE  commands \in Seq(Int)
<1>1. DOMAIN list = 1 .. Len(list) /\ Len(list) \in Nat
  OBVIOUS
<1> QED
  BY <1>1

\* All commands of one packet, as ServoLink sees them.
AskedOf(pwm) == AsLoaded([n \in Motors |-> Asked(n, pwm)])

LEMMA ServoStep ==
  ASSUME TypeOK, TypeOK', OnePacket', [Next]_vars
  PROVE  [Servo!Next]_<<arduPilotOnline, frame, AskedOf(packet), AsLoaded(cmd)>>
<1>1. CASE AcceptFrame
  <2>1. /\ arduPilotOnline' = TRUE /\ frame' # frame /\ frame' # NoFrame
        /\ zeroed' = FALSE
    BY <1>1, MotorAssumption DEF AcceptFrame
  <2>2. cmd' \in Seq(Int)
    <3>1. controls' \in Seq(Control) /\ cmd' \in [DOMAIN controls' -> Int]
      BY MotorAssumption DEF TypeOK, Motors
    <3> QED
      BY <3>1, CommandsTyped
  <2>3. cmd' = [n \in Motors' |-> Asked(n, packet)']
    BY <2>1 DEF OnePacket, TypeOK
  <2>4. AsLoaded(cmd)' = AskedOf(packet)'
    BY <2>3 DEF AskedOf
  <2>5. AsLoaded(cmd)' \in Seq(Int) \cup {NoValue}
    BY <2>2 DEF AsLoaded
  <2> QED
    BY <2>1, <2>4, <2>5 DEF Servo!Next, Servo!Accept, AskedOf
<1>2. CASE DuplicateFrame
  <2>1. UNCHANGED <<frame, AskedOf(packet), AsLoaded(cmd)>>
    BY <1>2 DEF DuplicateFrame, KeepCommands, ReceiveUnchanged, AskedOf, AsLoaded, Asked,
                Driven, Pwm, Motors
  <2>2. frame # NoFrame
    BY <1>2 DEF DuplicateFrame
  <2> QED
    BY <1>2, <2>1 DEF DuplicateFrame, Servo!Next, Servo!Repeat, AskedOf
<1>3. CASE ConnectionLost
  <2>1. \A n \in Motors' : cmd'[n] = 0
    BY <1>3 DEF ConnectionLost, ResetPIDs, ReceiveUnchanged, Motors
  <2>2. AsLoaded(cmd)' = NoValue
    BY <2>1 DEF AsLoaded
  <2>3. UNCHANGED <<frame, AskedOf(packet)>>
    BY <1>3 DEF ConnectionLost, ReceiveUnchanged, AskedOf, AsLoaded, Asked, Driven, Pwm,
                Motors
  <2> QED
    BY <1>3, <2>2, <2>3 DEF ConnectionLost, Servo!Next, Servo!Lose, AskedOf
<1>4. CASE UNCHANGED <<controls, arduPilotOnline, inputVars>>
  <2>1. UNCHANGED <<arduPilotOnline, frame, AskedOf(packet), AsLoaded(cmd)>>
    BY <1>4 DEF inputVars, AskedOf, AsLoaded, Asked, Driven, Pwm, Motors
  <2> QED
    BY <2>1
<1> QED
  BY <1>1, <1>2, <1>3, <1>4
  DEF Next, NothingNew, ReceiveUnchanged, ApplyMotorForces, Crash, Physics, PostUpdate,
      Finished, vars

\* What MotorControl takes a receive for is what ServoLink promises, and so, by
\* ExchangeFollows, what the exchange makes of it: the commands that a new frame
\* asks for are all loaded with it, by nothing else, and dropped together.
THEOREM ReceiveFollows == Spec => FollowsServoLink
<1>1. Init => Servo!Init
  <2>1. Init => AsLoaded(cmd) = NoValue /\ AskedOf(packet) = NoValue
    BY DEF Init, ControlInit, AsLoaded, AskedOf, Asked, Motors
  <2> QED
    BY <2>1 DEF Init, Servo!Init, AskedOf
<1>2. TypeOK /\ TypeOK' /\ OnePacket' /\ [Next]_vars
        => [Servo!Next]_<<arduPilotOnline, frame, AskedOf(packet), AsLoaded(cmd)>>
  BY ServoStep
<1> QED
  BY <1>1, <1>2, TypeCorrect, CommandsOfOnePacket, PTL
  DEF Spec, FollowsServoLink, Servo!Spec, AskedOf

----------------------------------------------------------------------------
(* What it takes to crash, and the time step of the PIDs.                   *)

\* An EFFORT control without useForce has a servo output in the last packet.
BareEffort(n) ==
  /\ controls[n].type = "EFFORT" /\ ~controls[n].useForce
  /\ Driven(n) /\ packet # NoPacket /\ Pwm(n, packet) # 0
CrashCause == pc = "crashed" => arduPilotOnline /\ \E n \in Motors : BareEffort(n)

LEMMA CrashStep == TypeOK /\ DriveInv /\ CrashCause /\ [Next]_vars => CrashCause'
<1> SUFFICES ASSUME DriveInv, CrashCause, [Next]_vars, pc' = "crashed"
             PROVE  arduPilotOnline' /\ \E n \in Motors' : BareEffort(n)'
  BY DEF CrashCause
<1>1. CASE Crash
  <2>1. PICK n \in Motors : WritesNull(n)
    BY <1>1 DEF Crash
  <2>2. BareEffort(n) /\ arduPilotOnline
    BY <1>1, <2>1 DEF DriveInv, ReadyByPacket, AppliesOnline, WritesNull, Active, BareEffort,
                      Crash
  <2>3. UNCHANGED <<controls, packet, arduPilotOnline>>
    BY <1>1 DEF Crash, inputVars
  <2>4. n \in Motors' /\ BareEffort(n)'
    BY <2>1, <2>2, <2>3 DEF Motors, BareEffort, Driven, Pwm
  <2> QED
    BY <2>2, <2>3, <2>4
<1>2. CASE UNCHANGED vars
  BY <1>2 DEF vars, inputVars, CrashCause, Motors, BareEffort, Driven, Pwm
<1> QED
  BY <1>1, <1>2 DEF Next, AcceptFrame, DuplicateFrame, NothingNew, ConnectionLost, Apply,
                    ApplyMotorForces, Physics, PostUpdate, Finished

\* The simulation crashes (line 1408) only online, on an EFFORT control with useForce false
\* for which the last packet has a servo output; with no such control it never does.
THEOREM CrashOnlyByBareEffort == Spec => []CrashCause
<1>1. Init => CrashCause
  BY DEF Init, CrashCause
<1> QED
  BY <1>1, TypeInit, TypeStep, DriveInit, DriveStep, CrashStep, PTL DEF Spec

\* The last online update is in the past.
TimeMoves == lastControllerUpdateTime < simTime

LEMMA TimeStep == TypeOK /\ TimeMoves /\ [Next]_vars => TimeMoves'
<1> SUFFICES ASSUME TypeOK, TimeMoves, [Next]_vars PROVE TimeMoves'
  OBVIOUS
<1>1. simTime \in Int /\ lastControllerUpdateTime \in Int
  BY DEF TypeOK
<1>2. CASE PostUpdate
  BY <1>1, <1>2 DEF PostUpdate, TimeMoves
<1>3. CASE UNCHANGED <<simTime, lastControllerUpdateTime>>
  BY <1>3 DEF TimeMoves
<1> QED
  BY <1>2, <1>3 DEF Next, AcceptFrame, DuplicateFrame, NothingNew, ConnectionLost,
     ReceiveUnchanged, ApplyMotorForces, Crash, Physics, Finished, vars

\* The PIDs are given a time step above 0 in every update (line 1224), the first one and
\* those after a lost connection included: as long as simulation time is not reset, the
\* test at line 1201 is always true, and this module can leave it out.
THEOREM PidTimeStep == Spec => [](Dt > 0)
<1>1. Init => TimeMoves
  BY DEF Init, TimeMoves
<1>2. TypeOK /\ TimeMoves => Dt > 0
  <2> SUFFICES ASSUME TypeOK, TimeMoves PROVE Dt > 0
    OBVIOUS
  <2>1. simTime \in Int /\ lastControllerUpdateTime \in Int
    BY DEF TypeOK
  <2> QED
    BY <2>1 DEF TimeMoves, Dt
<1> QED
  BY <1>1, <1>2, TypeInit, TypeStep, TimeStep, PTL DEF Spec
=============================================================================
