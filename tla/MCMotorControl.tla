--------------------------- MODULE MCMotorControl ---------------------------
(* Instances of MotorControl for TLC.                                       *)
EXTENDS MotorControl

Plain == [p |-> 1, i |-> 0, iMax |-> 0, iMin |-> 0, cmdMax |-> 2, cmdMin |-> -2]
WithI == [Plain EXCEPT !.i = 1, !.iMax = 1, !.iMin = -1]
\* Limits that are off, and limits that leave out 0.
Free  == [WithI EXCEPT !.iMax = -1, !.iMin = 0, !.cmdMax = -1, !.cmdMin = 0]
Bound == [WithI EXCEPT !.iMax = 3, !.iMin = 1]

Base == [type |-> "VELOCITY", useForce |-> TRUE, channel |-> 0, multiplier |-> 1,
         offset |-> 0, servo_min |-> 2, servo_max |-> 4, gains |-> WithI,
         sensed |-> TRUE]

\* A rotor, a reversed flap, a joint set directly, a motor by its torque, a
\* relayed command, a control whose channel no packet has; PIDs with other
\* limits, one that no plugin senses, and the EFFORT control that crashes.
Rotor  == Base
Flap   == [Base EXCEPT !.type = "POSITION", !.channel = 1, !.multiplier = -1,
                       !.offset = -1, !.servo_min = 4, !.servo_max = 2, !.gains = Plain]
Wheel  == [Base EXCEPT !.useForce = FALSE, !.multiplier = 2]
Torque == [Base EXCEPT !.type = "EFFORT", !.channel = 1]
Relay  == [Base EXCEPT !.type = "COMMAND", !.channel = 1]
Unwired == [Torque EXCEPT !.channel = 2]
Loose  == [Base EXCEPT !.gains = Free]
Tight  == [Base EXCEPT !.gains = Bound]
Blind  == [Base EXCEPT !.sensed = FALSE]
Broken == [Torque EXCEPT !.useForce = FALSE]

\* A fourth control is one more than MaxMotors.
MCControlLists ==
  {<<Rotor, Flap, Relay>>, <<Wheel, Torque, Unwired>>, <<Blind, Relay, Rotor, Torque>>,
   <<Torque, Broken>>, <<Loose, Tight>>}

MCPwmValues == {0, 1, 3, 5}
MCRates == {0, 1}
MCFrames == {1, 2}
=============================================================================
