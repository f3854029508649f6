------------------------------ MODULE Startup ------------------------------
(***************************************************************************)
(* The vehicles of one Gazebo server: constructor, Configure, the look-ups *)
(* of the first PreUpdate, and the destructor of ArduPilotPlugin, with the *)
(* sockets (src/src/SocketUDP.cc) and names (src/src/Util.cc) they use.    *)
(*                                                                         *)
(* The server thread configures a vehicle when it is spawned, calls every  *)
(* PreUpdate in turn, and may remove a vehicle between two updates.  Range *)
(* messages arrive in another thread.  Each vehicle has a flight           *)
(* controller, which sends to the vehicle's port.                          *)
(*                                                                         *)
(* Abstractions: a file is the vehicle whose socket it is; a range reading *)
(* is the number of the sensor it comes from; of the exchange (module      *)
(* ArduPilotPlugin) remains whose packets a vehicle takes.                 *)
(***************************************************************************)
EXTENDS EntityNames, FiniteSets

CONSTANTS
  NumVehicles,  \* vehicles spawned, in this order
  Worlds,       \* the worlds considered: entities, and the vehicles' SDF
  DoubleOf,     \* what a text reads as a number: Get<double>
  UInt16,       \* number of values of uint16_t (65536 in the code)
  RangeFields,  \* range sensors the state has fields for (6 in the code)
  AnyIndex      \* what an <index> that is missing may be: an int nobody set

Vehicles    == 1 .. NumVehicles
Descriptors == 1 .. NumVehicles
Free    == 0            \* of a descriptor: no file is open under it
NoRange == 0            \* -1.0, what a slot of `ranges` starts with

\* A block of SDF maps the elements and attributes it has to their values.
Types     == {"VELOCITY", "POSITION", "EFFORT", "COMMAND"}
GainNames == {"p_gain", "i_gain", "d_gain", "i_max", "i_min", "cmd_max", "cmd_min"}
OldName   == [p_gain |-> "vel_p_gain", i_gain |-> "vel_i_gain", d_gain |-> "vel_d_gain",
              i_max |-> "vel_i_max", i_min |-> "vel_i_min",
              cmd_max |-> "vel_cmd_max", cmd_min |-> "vel_cmd_min"]
IntKeys   == {"channel", "id", "multiplier", "offset", "servo_min", "servo_max",
              "rotorVelocitySlowdownSim",
              "index"} \cup GainNames \cup {OldName[g] : g \in GainNames}
PathKeys  == {"jointName", "cmd_topic", "topic"}
Paths     == Seq(STRING)

WellTyped(b) == \A k \in DOMAIN b :
  /\ k \in IntKeys  => b[k] \in Int
  /\ k \in PathKeys => b[k] \in Paths
  /\ k = "useForce" => b[k] \in BOOLEAN
  /\ k = "turningDirection" => b[k] \in {"cw", "ccw"} \cup DOMAIN DoubleOf

BlockList(s) ==
  /\ s \in Seq({s[n] : n \in DOMAIN s})
  /\ \A n \in DOMAIN s : WellTyped(s[n])

ASSUME StartupAssumption ==
  /\ NumVehicles \in Nat \ {0} /\ UInt16 \in Nat \ {0} /\ RangeFields \in Nat
  /\ AnyIndex \subseteq Int /\ AnyIndex # {}
  /\ \A t \in DOMAIN DoubleOf : DoubleOf[t] \in Int
  /\ \A w \in Worlds :
       /\ DOMAIN w.kinds \subseteq Paths \ {NullEntity}
       /\ DOMAIN w.vehicles = Vehicles
       /\ \A v \in Vehicles :
            LET p == w.vehicles[v]
            IN  /\ p.model \in Paths /\ p.valid \in BOOLEAN
                /\ p.valid => p.model \in DOMAIN w.kinds /\ w.kinds[p.model] = "model"
                /\ BlockList(p.control) /\ BlockList(p.rotor) /\ BlockList(p.sensors)
                /\ p.imuName \in Paths /\ p.anemometer \in Paths
                /\ p.fdm_port_in \in Nat /\ p.lock_step \in BOOLEAN

VARIABLES
  world,          \* the world that is simulated
  pc, cur,        \* what the server thread does, for which vehicle
  life,           \* of each vehicle: how far Configure came, or its removal
  aborted,        \* history: vehicles whose bind failed
  fd,             \* SocketUDP::fd
  files,          \* the kernel's table of open files
  listeners,      \* the sockets that are bound (in the order of their numbers)
  queue,          \* per socket: the controllers whose packets wait there
  controls,       \* ArduPilotPluginPrivate::controls
  sensed,         \* joints with a JointVelocity component
  subscribed,     \* per vehicle: the slots its range callbacks are bound to
  ranges,         \* ArduPilotPluginPrivate::ranges
  grown,          \* the copy of `ranges` that push_back makes to grow it
  heard,          \* history: sensors heard since all were loaded
  calledInitAnemometerOnce,               \* one for the whole process
  anemometer,     \* the anemometer: initialised or not, entity, topic
  imu,            \* the IMU: initialised or not, link, topic
  isLockStep,
  arduPilotOnline,
  controller      \* whose packet was taken last

fileVars  == <<aborted, fd, files, listeners>>
rangeVars == <<subscribed, ranges, grown, heard>>
windVars  == <<calledInitAnemometerOnce, anemometer>>
linkVars  == <<queue, arduPilotOnline, controller>>
vars == <<world, pc, cur, life, fileVars, controls, sensed, rangeVars, windVars,
          imu, isLockStep, linkVars>>

SDF(v)   == world.vehicles[v]
Model(v) == SDF(v).model

Unset == [init |-> FALSE, entity |-> NullEntity, topic |-> NullEntity]

Init ==
  /\ world \in Worlds
  /\ pc = "idle" /\ cur = 1
  /\ life = [v \in Vehicles |-> "none"]
  /\ aborted = {}
  /\ fd = [v \in Vehicles |-> 0] /\ files = [f \in Descriptors |-> Free]
  /\ listeners = {}
  /\ queue = [v \in Vehicles |-> {}]
  /\ controls = [v \in Vehicles |-> <<>>] /\ sensed = {}
  /\ subscribed = [v \in Vehicles |-> <<>>] /\ ranges = [v \in Vehicles |-> <<>>]
  /\ grown = <<>> /\ heard = [v \in Vehicles |-> {}]
  /\ calledInitAnemometerOnce = FALSE
  /\ anemometer = [v \in Vehicles |-> Unset] /\ imu = [v \in Vehicles |-> Unset]
  /\ isLockStep = [v \in Vehicles |-> FALSE]
  /\ arduPilotOnline = [v \in Vehicles |-> FALSE]
  /\ controller = [v \in Vehicles |-> v]

\* The server thread is at `from` and goes on at `to` with the same vehicle.
Goto(from, to) == pc = from /\ pc' = to /\ UNCHANGED <<world, cur>>
Becomes(l) == life' = [life EXCEPT ![cur] = l]

----------------------------------------------------------------------------
(* Constructor, Configure and LoadControlChannels.                          *)

\* The temporary that `sock` is initialised from is not destroyed (it is the same
\* object), or its destructor would close the file.
OpenTemporary(v, f) == UNCHANGED files                              \* mutant
OpenSocket(v, f) == files' = [files EXCEPT ![f] = v]

\* SocketUDP's constructor opens a socket.  The kernel gives it the lowest free
\* descriptor; other files of the server may have taken lower ones.
Construct ==
  /\ pc = "idle" /\ pc' = "configure"
  /\ \E v \in Vehicles :
       /\ life[v] = "none" /\ \A u \in Vehicles : u < v => life[u] # "none"
       /\ cur' = v
       /\ life' = [life EXCEPT ![v] = "loading"]
       /\ \E f \in Descriptors :
            /\ files[f] = Free
            /\ fd' = [fd EXCEPT ![v] = f] /\ OpenSocket(v, f)
  /\ UNCHANGED <<world, aborted, listeners, controls, sensed, rangeVars, windVars,
                 imu, isLockStep, linkVars>>

ConfigUnchanged == UNCHANGED <<fileVars, rangeVars, windVars, imu, isLockStep, linkVars>>

\* Not attached to a model, or no world: reported, and Configure returns.
NoModel ==
  /\ ~SDF(cur).valid
  /\ Goto("configure", "idle") /\ Becomes("failed")
  /\ UNCHANGED <<controls, sensed>> /\ ConfigUnchanged

HasModel ==
  /\ SDF(cur).valid
  /\ Goto("configure", "controls")
  /\ UNCHANGED <<life, controls, sensed>> /\ ConfigUnchanged

\* <control> blocks, or the first <rotor> block: the element after that one is
\* looked for under the name "control".
FirstOf(s) == IF s = <<>> THEN <<>> ELSE <<s[1]>>
Blocks(v) ==
  IF SDF(v).control # <<>> THEN SDF(v).control ELSE FirstOf(SDF(v).rotor)

Has(b, k) == k \in DOMAIN b
Get(b, k, default) == IF Has(b, k) THEN b[k] ELSE default

Direction(d) == IF d = "cw" THEN -1 ELSE IF d = "ccw" THEN 1 ELSE DoubleOf[d]

\* pid.Init(0.1, 0, 0, 0, 0, 1.0, -1.0), in tenths, as all gains are here.
DefaultGain == [p_gain |-> 1, i_gain |-> 0, d_gain |-> 0, i_max |-> 0, i_min |-> 0,
                cmd_max |-> 10, cmd_min |-> -10]

ControlType(b) ==
  IF Has(b, "type") /\ b["type"] \in Types THEN b["type"] ELSE "VELOCITY"

SlowdownAsGiven(b) == Get(b, "rotorVelocitySlowdownSim", 1)          \* mutant
Slowdown(b) ==
  IF Get(b, "rotorVelocitySlowdownSim", 1) = 0 THEN 1
  ELSE Get(b, "rotorVelocitySlowdownSim", 1)

\* A cmd_topic of its own, or one that is named after world, model and joint.
CommandTopic(b, joint) ==
  IF ControlType(b) = "COMMAND" THEN Get(b, "cmd_topic", joint) ELSE NullEntity

Multiplier(b) ==
  IF Has(b, "multiplier") THEN b["multiplier"]
  ELSE IF Has(b, "turningDirection") THEN Direction(b["turningDirection"])
  ELSE 1

\* The new name of a gain overrides the old one, and that the default.
Gains(b) == [g \in GainNames |-> Get(b, g, Get(b, OldName[g], DefaultGain[g]))]

\* The control that the n-th block describes, counted from 0.
LoadedControl(b, n, joint) ==
  [channel    |-> Get(b, "channel", Get(b, "id", n)),
   type       |-> ControlType(b),
   useForce   |-> Get(b, "useForce", TRUE),
   joint      |-> joint,
   cmdTopic   |-> CommandTopic(b, joint),
   multiplier |-> Multiplier(b),
   offset     |-> Get(b, "offset", 0),
   servo_min  |-> Get(b, "servo_min", 1000),
   servo_max  |-> Get(b, "servo_max", 2000),
   slowdown   |-> Slowdown(b),
   gains      |-> Gains(b)]

PositionFromOne(v) == Len(controls[v]) + 1                          \* mutant
Position(v) == Len(controls[v])

NextBlock(v) == Len(controls[v]) + 1
JointOf(v, n) ==
  JointsByName(world.kinds, Model(v), Get(Blocks(v)[n], "jointName", NullEntity))

LoadControl ==
  /\ Goto("controls", "controls")
  /\ NextBlock(cur) <= Len(Blocks(cur))
  /\ \E j \in JointOf(cur, NextBlock(cur)) :
       /\ controls' = [controls EXCEPT ![cur] =
            Append(@, LoadedControl(Blocks(cur)[NextBlock(cur)], Position(cur), j))]
       /\ sensed' = sensed \cup {j}
  /\ UNCHANGED life /\ ConfigUnchanged

\* A missing joint ends the loading, and nothing else.
ControlsDone ==
  /\ Goto("controls", "sensors")
  /\ NextBlock(cur) <= Len(Blocks(cur)) => JointOf(cur, NextBlock(cur)) = {}
  /\ UNCHANGED <<life, controls, sensed>> /\ ConfigUnchanged

----------------------------------------------------------------------------
(* LoadRangeSensors, against the callbacks it has subscribed already.       *)

Sensors(v) == DOMAIN SDF(v).sensors
NextSensor(v) == Len(subscribed[v]) + 1

SlotAsIndexed(index) == index                                       \* mutant
Slot(index) == index - 1                     \* from unit to zero offset

\* A sensor whose <index> is missing is reported as skipped and kept, with
\* whatever its index happens to be.
Indices(v, s) ==
  IF Has(SDF(v).sensors[s], "index") THEN {SDF(v).sensors[s]["index"]} ELSE AnyIndex

SensorsUnchanged ==
  UNCHANGED <<life, fileVars, controls, sensed, windVars, imu, isLockStep, linkVars>>

\* push_back may have to copy the vector before it appends.
Subscribe ==
  /\ Goto("sensors", "grow")
  /\ NextSensor(cur) \in Sensors(cur)
  /\ \E i \in Indices(cur, NextSensor(cur)) :
       subscribed' = [subscribed EXCEPT ![cur] = Append(@, Slot(i))]
  /\ grown' = ranges[cur]
  /\ UNCHANGED <<ranges, heard>> /\ SensorsUnchanged

AppendSlot ==
  /\ Goto("grow", "sensors")
  /\ \E old \in {grown, ranges[cur]} :
       ranges' = [ranges EXCEPT ![cur] = Append(old, NoRange)]
  /\ grown' = <<>>
  /\ UNCHANGED <<subscribed, heard>> /\ SensorsUnchanged

SensorsDone ==
  /\ Goto("sensors", "bind")
  /\ NextSensor(cur) \notin Sensors(cur)
  /\ UNCHANGED rangeVars /\ SensorsUnchanged

\* All slots exist and the vehicle is not being taken apart.
RangesLoaded(v) ==
  /\ Len(ranges[v]) = Len(SDF(v).sensors)
  /\ life[v] # "dying"

\* Transport thread: a message of sensor s.  `slot` counts from 0.
Hears(v, s) ==
  /\ pc # "crashed"
  /\ s \in DOMAIN subscribed[v] /\ Has(SDF(v).sensors[s], "topic")

RangeCb(v, s) ==
  /\ Hears(v, s) /\ subscribed[v][s] + 1 \in DOMAIN ranges[v]
  /\ ranges' = [ranges EXCEPT ![v][subscribed[v][s] + 1] = s]
  /\ heard' = IF RangesLoaded(v) THEN [heard EXCEPT ![v] = @ \cup {s}] ELSE heard
  /\ UNCHANGED <<world, pc, cur, life, fileVars, controls, sensed, subscribed, grown,
                 windVars, imu, isLockStep, linkVars>>

\* There is no such slot, or none any more: undefined.  The message is lost (no
\* step), or the server crashes.
RangeCbOutside(v, s) ==
  /\ Hears(v, s) /\ subscribed[v][s] + 1 \notin DOMAIN ranges[v]
  /\ pc' = "crashed"
  /\ UNCHANGED <<world, cur, life, fileVars, controls, sensed, rangeVars, windVars,
                 imu, isLockStep, linkVars>>

\* The fields rng_1, rng_2, ... of the state.
RangeFieldsOf(v) ==
  [k \in {k \in DOMAIN ranges[v] : k <= RangeFields} |-> ranges[v][k]]

----------------------------------------------------------------------------
(* InitSockets and the rest of Configure.                                   *)

Port(v) == SDF(v).fdm_port_in % UInt16      \* uint16_t fdm_port_in
SamePort(u, v) == Port(u) = Port(v)

BindUnchanged ==
  UNCHANGED <<fd, controls, sensed, rangeVars, windVars, imu, linkVars>>

\* With SO_REUSEADDR a port that another vehicle uses is no obstacle.
Bound(v) == listeners' = listeners \cup {v}

BindAndLoad ==
  /\ Goto("bind", "idle")
  /\ Bound(cur)
  /\ isLockStep' = [isLockStep EXCEPT ![cur] = SDF(cur).lock_step]
  /\ Becomes("ready")
  /\ UNCHANGED <<aborted, files>> /\ BindUnchanged

\* A bind that fails closes the descriptor and keeps its number.
CloseUnbound(v) == files' = [files EXCEPT ![fd[v]] = Free]

\* Configure returns before it has read the timeout, lock-step and the channels;
\* the callbacks go on.
BindFails ==
  /\ Goto("bind", "idle")
  /\ CloseUnbound(cur)
  /\ aborted' = aborted \cup {cur}
  /\ Becomes("failed")
  /\ UNCHANGED <<listeners, isLockStep>> /\ BindUnchanged

----------------------------------------------------------------------------
(* PreUpdate, for one vehicle after the other.                              *)

Running == {v \in Vehicles : life[v] \in {"ready", "failed"}}
After(v) == {u \in Running : u > v}

\* The vehicle to be updated next, or back to the server.
UpdateFirstOf(S) ==
  IF S = {} THEN pc' = "idle" /\ UNCHANGED cur
  ELSE pc' = "preUpdate" /\ \E v \in S : (\A u \in S : v <= u) /\ cur' = v
Return == UpdateFirstOf(After(cur))

BeginUpdate ==
  /\ pc = "idle" /\ Running # {}
  /\ UpdateFirstOf(Running)
  /\ UNCHANGED <<world, life, fileVars, controls, sensed, rangeVars, windVars, imu,
                 isLockStep, linkVars>>

\* Configure read the names only if it came so far.
AnemometerName(v) == IF SDF(v).valid THEN SDF(v).anemometer ELSE NullEntity
ImuName(v) == IF SDF(v).valid THEN SDF(v).imuName ELSE NullEntity
Found(v, name) == SensorsByName(world.kinds, name, Model(v))

\* What is found must be a sensor of that kind and belong to a link; if not,
\* that is reported and the sensor is initialised all the same.
OnLink(e) == Parent(e) \in DOMAIN world.kinds /\ world.kinds[Parent(e)] = "link"
IsSensor(e, kind) == world.kinds[e] = kind /\ OnLink(e)

LookUpUnchanged ==
  UNCHANGED <<world, life, fileVars, controls, sensed, rangeVars, isLockStep, linkVars>>

LooksWithoutName(v) == ~anemometer[v].init /\ ~calledInitAnemometerOnce  \* mutant
LooksForAnemometer(v) ==
  /\ AnemometerName(v) # NullEntity /\ ~anemometer[v].init
  /\ ~calledInitAnemometerOnce

NoAnemometerDue ==
  /\ ~LooksForAnemometer(cur)
  /\ Goto("preUpdate", "imu")
  /\ UNCHANGED <<life, fileVars, controls, sensed, rangeVars, windVars, imu,
                 isLockStep, linkVars>>

\* "abort ArduPilot plugin": this call of PreUpdate returns.
AnemometerMissing ==
  /\ pc = "preUpdate" /\ LooksForAnemometer(cur) /\ Found(cur, AnemometerName(cur)) = {}
  /\ calledInitAnemometerOnce' = TRUE
  /\ Return
  /\ UNCHANGED <<anemometer, imu>> /\ LookUpUnchanged

AnemometerFound ==
  /\ LooksForAnemometer(cur)
  /\ calledInitAnemometerOnce' = TRUE
  /\ \E e \in Found(cur, AnemometerName(cur)) :
       anemometer' = [anemometer EXCEPT ![cur] =
         [init |-> TRUE, entity |-> e,
          topic |-> IF IsSensor(e, "anemometer") THEN e ELSE NullEntity]]
  /\ Goto("preUpdate", "imu")
  /\ UNCHANGED <<life, fileVars, controls, sensed, rangeVars, imu, isLockStep, linkVars>>

\* The IMU is looked up once, and that update does no more.
TryImuAgain(v) == UNCHANGED imu                                     \* mutant
ImuTried(v) == imu' = [imu EXCEPT ![v].init = TRUE]

ImuMissing ==
  /\ pc = "imu" /\ ~imu[cur].init /\ Found(cur, ImuName(cur)) = {}
  /\ ImuTried(cur)
  /\ Return
  /\ UNCHANGED windVars /\ LookUpUnchanged

ImuFound ==
  /\ pc = "imu" /\ ~imu[cur].init
  /\ \E e \in Found(cur, ImuName(cur)) :
       imu' = [imu EXCEPT ![cur] =
         IF IsSensor(e, "imu") THEN [init |-> TRUE, entity |-> Parent(e), topic |-> e]
         ELSE [@ EXCEPT !.init = TRUE]]
  /\ Return
  /\ UNCHANGED windVars /\ LookUpUnchanged

\* The socket behind the descriptor, whoever opened it.
Waiting(v) == IF files[fd[v]] = Free THEN {} ELSE queue[files[fd[v]]]

ExchangeUnchanged ==
  UNCHANGED <<world, life, fileVars, controls, sensed, rangeVars, windVars, imu,
              isLockStep>>

\* The last packet wins, the others are drained.
TakePacket ==
  /\ pc = "imu" /\ imu[cur].init
  /\ \E c \in Waiting(cur) : controller' = [controller EXCEPT ![cur] = c]
  /\ queue' = [queue EXCEPT ![files[fd[cur]]] = {}]
  /\ arduPilotOnline' = [arduPilotOnline EXCEPT ![cur] = TRUE]
  /\ Return /\ ExchangeUnchanged

\* Nothing came: lock-step waits, otherwise the connection may time out.
NoPacket ==
  /\ pc = "imu" /\ imu[cur].init
  /\ Waiting(cur) = {} /\ ~(isLockStep[cur] /\ arduPilotOnline[cur])
  /\ \E o \in {FALSE, arduPilotOnline[cur]} :
       arduPilotOnline' = [arduPilotOnline EXCEPT ![cur] = o]
  /\ UNCHANGED <<queue, controller>>
  /\ Return /\ ExchangeUnchanged

----------------------------------------------------------------------------
(* Removal of a vehicle.  The members are destroyed in the reverse order of *)
(* their declaration: first `ranges`, later `node` with its subscriptions,  *)
(* last `sock`.                                                             *)

DestroyRanges ==
  /\ pc = "idle" /\ pc' = "destroy"
  /\ \E v \in Running :
       /\ cur' = v
       /\ life' = [life EXCEPT ![v] = "dying"]
       /\ ranges' = [ranges EXCEPT ![v] = <<>>]
       /\ heard' = [heard EXCEPT ![v] = {}]
  /\ UNCHANGED <<world, fileVars, controls, sensed, subscribed, grown, windVars, imu,
                 isLockStep, linkVars>>

\* ~SocketUDP closes the number it has, after a failed bind too: no file, or the
\* file that has it now.
DestroySocket ==
  LET open == files[fd[cur]]
  IN  /\ Goto("destroy", "idle")
      /\ Becomes("gone")
      /\ subscribed' = [subscribed EXCEPT ![cur] = <<>>]
      /\ files' = [files EXCEPT ![fd[cur]] = Free] /\ fd' = [fd EXCEPT ![cur] = 0]
      /\ listeners' = listeners \ {open}
      /\ queue' = [v \in Vehicles |-> IF v = open THEN {} ELSE queue[v]]
      /\ UNCHANGED <<aborted, controls, sensed, ranges, grown, heard, windVars, imu,
                     isLockStep, arduPilotOnline, controller>>

----------------------------------------------------------------------------
(* Flight controllers (external).  Of several sockets on one port, the one  *)
(* bound last gets the datagrams.                                           *)

OnPort(v) == {u \in listeners : SamePort(u, v)}

FcSend(v) ==
  /\ pc # "crashed"
  /\ \E u \in OnPort(v) :
       /\ \A w \in OnPort(v) : w <= u
       /\ queue' = [queue EXCEPT ![u] = @ \cup {v}]
  /\ UNCHANGED <<world, pc, cur, life, fileVars, controls, sensed, rangeVars, windVars,
                 imu, isLockStep, arduPilotOnline, controller>>

----------------------------------------------------------------------------
Configure ==
  \/ NoModel \/ HasModel \/ LoadControl \/ ControlsDone
  \/ Subscribe \/ AppendSlot \/ SensorsDone
  \/ BindAndLoad \/ BindFails

PreUpdate ==
  \/ BeginUpdate
  \/ NoAnemometerDue \/ AnemometerMissing \/ AnemometerFound
  \/ ImuMissing \/ ImuFound
  \/ TakePacket \/ NoPacket

Callback == \E v \in Vehicles : \E s \in Sensors(v) : RangeCb(v, s) \/ RangeCbOutside(v, s)

\* The end: all vehicles removed, the server crashed, or (for good, but for a
\* signal) the lock-step wait of a vehicle whose descriptor another one closed.
WaitsInVain ==
  pc = "imu" /\ files[fd[cur]] = Free /\ isLockStep[cur] /\ arduPilotOnline[cur]
Finished ==
  /\ (\A v \in Vehicles : life[v] = "gone") \/ pc = "crashed" \/ WaitsInVain
  /\ UNCHANGED vars

Next ==
  \/ Construct \/ Configure \/ PreUpdate
  \/ DestroyRanges \/ DestroySocket
  \/ Callback
  \/ \E v \in Vehicles : FcSend(v)
  \/ Finished

\* The server does not stop, and controllers keep sending.  Nothing need ever
\* be spawned, removed or measured.
Fairness ==
  /\ WF_vars(Configure) /\ WF_vars(PreUpdate) /\ WF_vars(DestroySocket)
  /\ \A v \in Vehicles : WF_vars(FcSend(v))

Spec == Init /\ [][Next]_vars /\ Fairness

----------------------------------------------------------------------------
(* Properties.                                                              *)

Control ==
  [channel : Int, type : Types, useForce : BOOLEAN, joint : Paths, cmdTopic : Paths,
   multiplier : Int, offset : Int, servo_min : Int, servo_max : Int,
   slowdown : Int \ {0}, gains : [GainNames -> Int]]
Sensor == [init : BOOLEAN, entity : Paths, topic : Paths]

\* The state has the declared types.
TypeOK ==
  /\ world \in Worlds
  /\ pc \in {"idle", "configure", "controls", "sensors", "grow", "bind", "preUpdate",
             "imu", "destroy", "crashed"}
  /\ cur \in Vehicles
  /\ life \in [Vehicles -> {"none", "loading", "ready", "failed", "dying", "gone"}]
  /\ aborted \subseteq Vehicles
  /\ fd \in [Vehicles -> Descriptors \cup {0}]
  /\ files \in [Descriptors -> Vehicles \cup {Free}]
  /\ listeners \subseteq Vehicles
  /\ queue \in [Vehicles -> SUBSET Vehicles]
  /\ controls \in [Vehicles -> Seq(Control)]
  /\ sensed \subseteq Paths
  /\ subscribed \in [Vehicles -> Seq(Int)]
  /\ ranges \in [Vehicles -> Seq(Nat)] /\ grown \in Seq(Nat)
  /\ heard \in [Vehicles -> SUBSET Nat]
  /\ calledInitAnemometerOnce \in BOOLEAN
  /\ anemometer \in [Vehicles -> Sensor] /\ imu \in [Vehicles -> Sensor]
  /\ isLockStep \in [Vehicles -> BOOLEAN]
  /\ arduPilotOnline \in [Vehicles -> BOOLEAN]
  /\ controller \in [Vehicles -> Vehicles]

\* A vehicle's joints, IMU and anemometer are its own, however many vehicles have
\* entities of those names (Util.hh:46, "a joint entity which is a descendent of
\* this model").
OwnEntities ==
  \A v \in Vehicles :
    /\ \A n \in DOMAIN controls[v] : Below(Model(v), controls[v][n].joint)
    /\ anemometer[v].entity # NullEntity => Below(Model(v), anemometer[v].entity)
    /\ imu[v].topic # NullEntity => Below(Model(v), imu[v].topic)

\* The controls are those of the blocks in their order, as many as there are up
\* to the first whose joint is missing, also when that was reported as "This
\* plugin will not run" (line 624).  A block without a channel gets its position.
NamedJoint(v, b) == Model(v) \o Get(b, "jointName", NullEntity)
IsJoint(j) == j \in DOMAIN world.kinds /\ world.kinds[j] = "joint"
ControlsAsListed ==
  \A v \in Vehicles :
    LET blocks == Blocks(v)
        loaded == DOMAIN controls[v]
    IN  /\ \A n \in loaded :
             /\ n \in DOMAIN blocks /\ IsJoint(NamedJoint(v, blocks[n]))
             /\ controls[v][n] = LoadedControl(blocks[n], n - 1, NamedJoint(v, blocks[n]))
        /\ \A n \in DOMAIN blocks :
             life[v] = "ready" /\ (\A k \in 1 .. n : IsJoint(NamedJoint(v, blocks[k])))
               => n \in loaded

\* If the <index> elements of a vehicle number its range sensors, each field of
\* the state holds the readings of the sensor it is numbered for, and none that
\* came after all were loaded is lost, while other vehicles are loaded.
IndexOf(v, s) == SDF(v).sensors[s]["index"]
WellIndexed(v) ==
  /\ \A s \in Sensors(v) :
       Has(SDF(v).sensors[s], "index") /\ IndexOf(v, s) \in Sensors(v)
  /\ \A s, t \in Sensors(v) : s # t => IndexOf(v, s) # IndexOf(v, t)
RangesInOwnField ==
  \A v \in Vehicles : WellIndexed(v) =>
    /\ \A k \in DOMAIN RangeFieldsOf(v) :
         RangeFieldsOf(v)[k] # NoRange =>
           RangeFieldsOf(v)[k] \in Sensors(v) /\ IndexOf(v, RangeFieldsOf(v)[k]) = k
    /\ \A s \in heard[v] : IndexOf(v, s) <= RangeFields =>
         RangeFieldsOf(v)[IndexOf(v, s)] = s

\* The only vehicle of a server that names an anemometer has it, if there is one
\* of that name, once its first update has passed the look-up: another vehicle
\* does not use up the one try of the process (calledInitAnemometerOnce is
\* static; of several vehicles that name one, only the first to look is served).
OnlyNamer(v) == \A u \in Vehicles \ {v} : AnemometerName(u) = NullEntity
AnemometerLookedUp ==
  \A v \in Vehicles :
    imu[v].init /\ AnemometerName(v) # NullEntity /\ OnlyNamer(v)
      => anemometer[v].init \/ Found(v, AnemometerName(v)) = {}

\* A vehicle's descriptor leads to its own socket until it is removed, and it
\* obeys its own controller, or one that sends to the same port.  Exceptions: a
\* vehicle whose bind failed, and any vehicle once one of those was removed:
\* the destructor closes the number again, whatever file has it by then.
ClosedTwice == \E u \in aborted : life[u] = "gone"
Intact(v) == v \notin aborted /\ ~ClosedTwice
ObeysOwnController ==
  \A v \in Vehicles : Intact(v) =>
    /\ life[v] \notin {"none", "gone"} => files[fd[v]] = v
    /\ arduPilotOnline[v] => SamePort(controller[v], v)

\* Each configured vehicle finds its controller: failed look-ups, vehicles that
\* wait in lock-step and vehicles without a model or a socket do not keep it
\* from it.  Exceptions: its descriptor is also that of a failed bind, or was
\* closed twice, or its port is another vehicle's.
SharesSocket(v) ==
  \/ \E u \in Vehicles \ {v} : SamePort(u, v)
  \/ \E u \in aborted : fd[u] = fd[v]
  \/ ClosedTwice
EveryVehicleConnects ==
  \A v \in Vehicles :
    life[v] = "ready"
      ~> arduPilotOnline[v] \/ life[v] = "gone" \/ pc = "crashed" \/ SharesSocket(v)

\* "failed to bind ... aborting plugin" (line 1289): a vehicle whose bind failed
\* takes no part in the exchange.
AbortedStaysOffline == \A v \in aborted : ~arduPilotOnline[v]
=============================================================================
