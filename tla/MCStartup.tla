------------------------------ MODULE MCStartup ------------------------------
(* Instances of Startup for TLC: two vehicles, a and b.                      *)
EXTENDS Startup, TLC

Block(type, joint) == [type |-> type, jointName |-> joint]
Rotor == Block("VELOCITY", <<"rotor">>)

\* A block for every default and conversion of LoadControlChannels, in three
\* lists; the last ends at a link that is named as a joint.
FullList ==
  << [channel |-> 1] @@ [multiplier |-> 2, offset |-> 1] @@ Rotor,
     [id |-> 3, turningDirection |-> "cw", vel_p_gain |-> 4, p_gain |-> 5] @@ Rotor,
     [turningDirection |-> "two", rotorVelocitySlowdownSim |-> 0, vel_i_gain |-> 6]
       @@ Block("COMMAND", <<"sub", "flap">>) >>
OddList ==
  << [useForce |-> FALSE, turningDirection |-> "ccw"] @@ Block("SERVO", <<"rotor">>),
     [cmd_topic |-> <<"zoom">>] @@ Block("COMMAND", <<"rotor">>),
     Block("EFFORT", <<"link">>), Rotor >>
OldList == <<[jointName |-> <<"rotor">>], Rotor>>

Range1 == [index |-> 1, topic |-> <<"range">>]
Range2 == [Range1 EXCEPT !.index = 2]
Range3 == [Range1 EXCEPT !.index = 3]
Unnumbered == [topic |-> <<"range">>]
Silent == [index |-> 2]

\* Both vehicles have the same entities: a joint, a link with sensors, and an
\* inner model with a joint and a second sensor of each name.
Kinds(m) ==
     (<<m>> :> "model") @@ (<<m, "rotor">> :> "joint")
  @@ (<<m, "link">> :> "link") @@ (<<m, "link", "imu">> :> "imu")
  @@ (<<m, "link", "wind">> :> "anemometer")
  @@ (<<m, "sub">> :> "model") @@ (<<m, "sub", "flap">> :> "joint")
  @@ (<<m, "sub", "base">> :> "link") @@ (<<m, "sub", "base", "imu">> :> "imu")

Plain(m) ==
  [model |-> <<m>>, valid |-> TRUE, control |-> <<Rotor>>, rotor |-> <<>>,
   sensors |-> <<>>, imuName |-> <<"imu">>, anemometer |-> NullEntity,
   fdm_port_in |-> IF m = "a" THEN 1 ELSE 2, lock_step |-> FALSE]

World(a, b) == [kinds |-> Kinds("a") @@ Kinds("b"), vehicles |-> <<a, b>>]

\* Two complete vehicles; two on one port that both want an anemometer; failed
\* look-ups, and range sensors that are not numbered.
MCWorlds ==
  { World([Plain("a") EXCEPT !.control = FullList, !.sensors = <<Range2, Range1>>,
                             !.anemometer = <<"link", "wind">>],
          [Plain("b") EXCEPT !.sensors = <<Range1>>, !.lock_step = TRUE]),
    World([Plain("a") EXCEPT !.lock_step = TRUE, !.sensors = <<Range3, Range2, Range1>>],
          [Plain("b") EXCEPT !.control = OddList, !.imuName = <<"link", "imu">>,
                             !.anemometer = <<"wind">>, !.lock_step = TRUE]),
    World([Plain("a") EXCEPT !.control = <<>>, !.rotor = OldList, !.anemometer = <<"wind">>],
          [Plain("b") EXCEPT !.anemometer = <<"wind">>, !.fdm_port_in = 5]),
    World([Plain("a") EXCEPT !.valid = FALSE],
          [Plain("b") EXCEPT !.sensors = <<Unnumbered, Silent>>, !.imuName = <<"gps">>,
                             !.anemometer = <<"imu">>]),
    World([Plain("a") EXCEPT !.anemometer = <<"gps">>, !.imuName = <<"wind">>],
          Plain("b")) }

MCDoubleOf == [two |-> 2]
MCAnyIndex == {-1, 0, 1, 3}
=============================================================================
