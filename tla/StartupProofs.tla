--------------------------- MODULE StartupProofs ---------------------------
(***************************************************************************)
(* Proofs of the safety properties of Startup for any number of vehicles,  *)
(* any worlds and any width of a port.                                     *)
(***************************************************************************)
EXTENDS Startup, SequenceTheorems, TLAPS

----------------------------------------------------------------------------
(* What is known of a world and of a vehicle's SDF.                         *)

LEMMA WorldFacts ==
  ASSUME world \in Worlds, NEW v \in Vehicles
  PROVE  /\ DOMAIN world.kinds \subseteq Paths \ {NullEntity}
         /\ Model(v) \in Paths /\ SDF(v).valid \in BOOLEAN
         /\ SDF(v).valid => Model(v) \in DOMAIN world.kinds
                            /\ world.kinds[Model(v)] = "model"
         /\ BlockList(SDF(v).control) /\ BlockList(SDF(v).rotor)
         /\ BlockList(SDF(v).sensors)
         /\ SDF(v).imuName \in Paths /\ SDF(v).anemometer \in Paths
         /\ SDF(v).fdm_port_in \in Nat /\ SDF(v).lock_step \in BOOLEAN
BY StartupAssumption DEF Model, SDF

LEMMA EmptyPath == NullEntity \in Paths
BY EmptySeq DEF NullEntity, Paths

LEMMA BlocksTyped ==
  ASSUME world \in Worlds, NEW v \in Vehicles
  PROVE  /\ Len(Blocks(v)) \in Nat /\ DOMAIN Blocks(v) = 1 .. Len(Blocks(v))
         /\ \A n \in DOMAIN Blocks(v) : WellTyped(Blocks(v)[n])
<1>1. BlockList(SDF(v).control) /\ BlockList(SDF(v).rotor)
  BY WorldFacts
<1>2. CASE SDF(v).control # <<>>
  BY <1>1, <1>2 DEF Blocks, BlockList
<1>3. CASE SDF(v).control = <<>>
  <2> DEFINE r == SDF(v).rotor
             R == {r[n] : n \in DOMAIN r}
  <2>1. r \in Seq(R) /\ \A n \in DOMAIN r : WellTyped(r[n])
    BY <1>1 DEF BlockList
  <2>2. CASE r = <<>>
    BY <1>3, <2>2 DEF Blocks, FirstOf
  <2>3. CASE r # <<>>
    <3>1. Blocks(v) = <<r[1]>>
      BY <1>3, <2>3 DEF Blocks, FirstOf
    <3>2. WellTyped(r[1])
      <4>1. Len(r) \in Nat \ {0} /\ DOMAIN r = 1 .. Len(r)
        BY <2>1, <2>3, EmptySeq, LenProperties
      <4> QED
        BY <2>1, <4>1
    <3> QED
      BY <3>1, <3>2
  <2> QED
    BY <2>2, <2>3
<1> QED
  BY <1>2, <1>3

\* Whatever elements a <control> block has or lacks, a proper control is loaded.
LEMMA LoadedControlTyped ==
  ASSUME NEW b, WellTyped(b), NEW n \in Int, NEW joint \in Paths
  PROVE  LoadedControl(b, n, joint) \in Control
<1> DEFINE c == LoadedControl(b, n, joint)
<1>1. \A k \in DOMAIN b : k \in IntKeys => b[k] \in Int
  BY DEF WellTyped
<1>2. {"channel", "id", "multiplier", "offset", "servo_min", "servo_max",
       "rotorVelocitySlowdownSim"} \subseteq IntKeys
  BY DEF IntKeys
<1>3. ControlType(b) \in Types
  BY DEF ControlType, Types
<1>4. Get(b, "useForce", TRUE) \in BOOLEAN
  BY DEF Get, Has, WellTyped
<1>5. CommandTopic(b, joint) \in Paths
  BY EmptyPath DEF CommandTopic, Get, Has, WellTyped, PathKeys
<1>6. Multiplier(b) \in Int
  <2>1. Has(b, "turningDirection") => Direction(b["turningDirection"]) \in Int
    BY StartupAssumption DEF Has, WellTyped, Direction
  <2> QED
    BY <1>1, <1>2, <2>1 DEF Multiplier, Has
<1>7. Slowdown(b) \in Int \ {0}
  BY <1>1, <1>2 DEF Slowdown, Get, Has
<1>8. Gains(b) \in [GainNames -> Int]
  <2>1. \A g \in GainNames : g \in IntKeys /\ OldName[g] \in IntKeys
    BY DEF IntKeys
  <2>2. \A g \in GainNames : DefaultGain[g] \in Int
    BY DEF DefaultGain, GainNames
  <2>3. \A g \in GainNames : Get(b, g, Get(b, OldName[g], DefaultGain[g])) \in Int
    BY <1>1, <2>1, <2>2 DEF Get, Has
  <2> QED
    BY <2>3 DEF Gains
<1>9. /\ Get(b, "channel", Get(b, "id", n)) \in Int /\ Get(b, "offset", 0) \in Int
      /\ Get(b, "servo_min", 1000) \in Int /\ Get(b, "servo_max", 2000) \in Int
  BY <1>1, <1>2 DEF Get, Has
<1> QED
  <2> DEFINE channel == Get(b, "channel", Get(b, "id", n))
             useForce == Get(b, "useForce", TRUE)
             offset == Get(b, "offset", 0)
             servo_min == Get(b, "servo_min", 1000)
             servo_max == Get(b, "servo_max", 2000)
  <2>1. c = [channel |-> channel, type |-> ControlType(b), useForce |-> useForce,
             joint |-> joint, cmdTopic |-> CommandTopic(b, joint),
             multiplier |-> Multiplier(b), offset |-> offset, servo_min |-> servo_min,
             servo_max |-> servo_max, slowdown |-> Slowdown(b), gains |-> Gains(b)]
    BY DEF LoadedControl
  <2> HIDE DEF c, channel, useForce, offset, servo_min, servo_max
  <2>2. channel \in Int /\ offset \in Int /\ servo_min \in Int /\ servo_max \in Int
    BY <1>9 DEF channel, offset, servo_min, servo_max
  <2>3. useForce \in BOOLEAN
    BY <1>4, Zenon DEF useForce
  <2>5. c \in Control
    BY <1>3, <1>5, <1>6, <1>7, <1>8, <2>1, <2>2, <2>3, Zenon DEF Control
  <2> QED
    BY <2>5 DEF c

\* A name that is appended to a model's leads below the model.
LEMMA ScopedBelow ==
  ASSUME NEW m \in Paths, NEW name \in Paths, name # <<>>
  PROVE  Below(m, m \o name)
<1>1. m \in Seq(STRING) /\ name \in Seq(STRING)
  BY DEF Paths
<1>2. Len(m) \in Nat /\ Len(name) \in Nat \ {0}
  BY <1>1, LenProperties, EmptySeq
<1> DEFINE e == m \o name
           p == SubSeq(e, 1, Len(m))
<1>3. /\ e \in Seq(STRING) /\ Len(e) = Len(m) + Len(name)
      /\ \A i \in 1 .. Len(m) + Len(name) :
           e[i] = IF i <= Len(m) THEN m[i] ELSE name[i - Len(m)]
  BY <1>1, ConcatProperties
<1>4. \A i \in 1 .. Len(m) : e[i] \in STRING
  BY <1>2, <1>3, ElementOfSeq
<1> HIDE DEF e
<1>5. /\ p \in Seq(STRING)
      /\ Len(p) = IF 1 <= Len(m) THEN Len(m) - 1 + 1 ELSE 0
      /\ \A i \in 1 .. Len(m) - 1 + 1 : p[i] = e[1 + i - 1]
  BY <1>2, <1>4, SubSeqProperties
<1>6. Len(p) = Len(m) /\ \A i \in 1 .. Len(m) : p[i] = m[i]
  BY <1>2, <1>3, <1>5
<1>7. p = m
  BY <1>1, <1>5, <1>6, SeqEqual
<1>8. Len(m) < Len(e)
  BY <1>2, <1>3
<1> QED
  BY <1>7, <1>8 DEF Below, e

\* What the look-ups return is in the world, and inside the model.
LEMMA FoundFacts ==
  ASSUME world \in Worlds, NEW v \in Vehicles, NEW name \in Paths,
         NEW e \in Found(v, name)
  PROVE  e \in DOMAIN world.kinds /\ e \in Paths /\ Below(Model(v), e)
<1>1. e \in DOMAIN world.kinds /\ e \in Paths
  BY WorldFacts DEF Found, SensorsByName, entitiesFromScopedName, EntitiesFromUnscopedName
<1>2. CASE e \in EntitiesFromUnscopedName(world.kinds, name, Model(v))
  BY <1>1, <1>2 DEF EntitiesFromUnscopedName
<1>3. CASE e \in entitiesFromScopedName(world.kinds, name, Model(v))
  BY <1>1, <1>3, ScopedBelow, WorldFacts DEF entitiesFromScopedName
<1> QED
  BY <1>2, <1>3 DEF Found, SensorsByName

----------------------------------------------------------------------------
(* Types.  Between its constructor and its destructor a vehicle has the     *)
(* number of a descriptor; what the server thread does tells how far the    *)
(* vehicle came.                                                            *)

Loading == {"configure", "controls", "sensors", "grow", "bind"}
Alive(v) == life[v] \notin {"none", "gone"}

Stages ==
  /\ pc \in Loading => life[cur] = "loading"
  /\ pc \in {"preUpdate", "imu"} => life[cur] \in {"ready", "failed"}
  /\ pc = "destroy" => life[cur] = "dying"
  /\ \A v \in Vehicles : Alive(v) => fd[v] \in Descriptors
  /\ \A v \in aborted : life[v] \in {"failed", "dying", "gone"}

TypeInv == TypeOK /\ Stages

LEMMA TypeInit == Init => TypeInv
<1> SUFFICES ASSUME Init PROVE TypeInv
  OBVIOUS
<1>1. 1 \in Vehicles
  BY StartupAssumption DEF Vehicles
<1>2. Unset \in Sensor
  BY EmptyPath DEF Unset, Sensor
<1>3. /\ <<>> \in Seq(Control) /\ <<>> \in Seq(Int) /\ <<>> \in Seq(Nat)
  BY EmptySeq
<1>4. TypeOK
  BY <1>1, <1>2, <1>3 DEF Init, TypeOK, Free
<1>5. Stages
  BY DEF Init, Stages, Alive, Loading
<1> QED
  BY <1>4, <1>5 DEF TypeInv

\* UpdateFirstOf and Return name a vehicle whose PreUpdate is called, or none.
LEMMA UpdateFirstFacts ==
  ASSUME TypeOK, NEW S \in SUBSET Running, UpdateFirstOf(S)
  PROVE  /\ cur' \in Vehicles
         /\ \/ pc' = "idle"
            \/ pc' = "preUpdate" /\ life[cur'] \in {"ready", "failed"}
BY DEF TypeOK, UpdateFirstOf, Running

LEMMA ReturnFacts ==
  ASSUME TypeOK, Return
  PROVE  /\ cur' \in Vehicles
         /\ \/ pc' = "idle"
            \/ pc' = "preUpdate" /\ life[cur'] \in {"ready", "failed"}
BY UpdateFirstFacts DEF Return, After

LEMMA TypeConstruct == TypeInv /\ Construct => TypeInv'
<1> SUFFICES ASSUME TypeInv, Construct PROVE TypeInv'
  OBVIOUS
<1> USE DEF TypeInv, TypeOK, Construct, OpenSocket
<1>1. TypeOK'
  BY DEF rangeVars, windVars, linkVars
<1>2. Stages'
  BY DEF Stages, Alive, Loading
<1> QED
  BY <1>1, <1>2

LEMMA TypeConfigure == TypeInv /\ Configure => TypeInv'
<1> SUFFICES ASSUME TypeInv, Configure PROVE TypeInv'
  OBVIOUS
<1> USE DEF TypeInv, TypeOK, Goto, Becomes, Stages, Alive, Loading
<1>1. CASE NoModel
  BY <1>1 DEF NoModel, ConfigUnchanged, fileVars, rangeVars, windVars, linkVars
<1>2. CASE HasModel
  BY <1>2 DEF HasModel, ConfigUnchanged, fileVars, rangeVars, windVars, linkVars
<1>3. CASE LoadControl
  <2>1. PICK j \in JointOf(cur, NextBlock(cur)) :
          /\ controls' = [controls EXCEPT ![cur] =
               Append(@, LoadedControl(Blocks(cur)[NextBlock(cur)], Position(cur), j))]
          /\ sensed' = sensed \cup {j}
    BY <1>3 DEF LoadControl
  <2>2. Len(controls[cur]) \in Nat
    BY LenProperties
  <2>3. NextBlock(cur) \in DOMAIN Blocks(cur)
    BY <1>3, <2>2, BlocksTyped DEF LoadControl, NextBlock
  <2>4. WellTyped(Blocks(cur)[NextBlock(cur)])
    BY <2>3, BlocksTyped
  <2>5. j \in Paths
    BY <2>1, WorldFacts DEF JointOf, JointsByName, entitiesFromScopedName
  <2>6. LoadedControl(Blocks(cur)[NextBlock(cur)], Position(cur), j) \in Control
    BY <2>2, <2>4, <2>5, LoadedControlTyped DEF Position
  <2>7. controls' \in [Vehicles -> Seq(Control)]
    BY <2>1, <2>6, AppendProperties
  <2> QED
    BY <1>3, <2>1, <2>5, <2>7
       DEF LoadControl, ConfigUnchanged, fileVars, rangeVars, windVars, linkVars
<1>4. CASE ControlsDone
  BY <1>4 DEF ControlsDone, ConfigUnchanged, fileVars, rangeVars, windVars, linkVars
<1>5. CASE Subscribe
  <2>1. PICK i \in Indices(cur, NextSensor(cur)) :
          subscribed' = [subscribed EXCEPT ![cur] = Append(@, Slot(i))]
    BY <1>5 DEF Subscribe
  <2>2. WellTyped(SDF(cur).sensors[NextSensor(cur)])
    BY <1>5, WorldFacts DEF Subscribe, Sensors, BlockList
  <2>3. "index" \in IntKeys
    BY DEF IntKeys
  <2>4. i \in Int
    BY <2>1, <2>2, <2>3, StartupAssumption DEF Indices, Has, WellTyped
  <2>5. subscribed' \in [Vehicles -> Seq(Int)]
    BY <2>1, <2>4, AppendProperties DEF Slot
  <2> QED
    BY <1>5, <2>5 DEF Subscribe, SensorsUnchanged, fileVars, windVars, linkVars
<1>6. CASE AppendSlot
  <2>1. PICK old \in {grown, ranges[cur]} :
          ranges' = [ranges EXCEPT ![cur] = Append(old, NoRange)]
    BY <1>6 DEF AppendSlot
  <2>2. old \in Seq(Nat)
    BY <2>1
  <2>3. ranges' \in [Vehicles -> Seq(Nat)] /\ <<>> \in Seq(Nat)
    BY <2>1, <2>2, AppendProperties, EmptySeq DEF NoRange
  <2> QED
    BY <1>6, <2>3 DEF AppendSlot, SensorsUnchanged, fileVars, windVars, linkVars
<1>7. CASE SensorsDone
  BY <1>7 DEF SensorsDone, SensorsUnchanged, fileVars, rangeVars, windVars, linkVars
<1>8. CASE BindAndLoad
  <2>1. SDF(cur).lock_step \in BOOLEAN
    BY WorldFacts
  <2>2. isLockStep' \in [Vehicles -> BOOLEAN]
    BY <1>8, <2>1 DEF BindAndLoad
  <2> QED
    BY <1>8, <2>2 DEF BindAndLoad, Bound, BindUnchanged, rangeVars, windVars, linkVars
<1>9. CASE BindFails
  BY <1>9 DEF BindFails, CloseUnbound, Free, BindUnchanged, rangeVars, windVars, linkVars
<1> QED
  BY <1>1, <1>2, <1>3, <1>4, <1>5, <1>6, <1>7, <1>8, <1>9 DEF Configure

LEMMA TypePreUpdate == TypeInv /\ PreUpdate => TypeInv'
<1> SUFFICES ASSUME TypeInv, PreUpdate PROVE TypeInv'
  OBVIOUS
<1> USE DEF TypeInv
<1>1. AnemometerName(cur) \in Paths /\ ImuName(cur) \in Paths
  BY WorldFacts, EmptyPath DEF AnemometerName, ImuName, TypeOK
<1>2. ASSUME Return PROVE cur' \in Vehicles /\ (pc' = "idle" \/ pc' = "preUpdate")
                          /\ (pc' = "preUpdate" => life[cur'] \in {"ready", "failed"})
  BY <1>2, ReturnFacts
<1>3. CASE BeginUpdate
  <2>1. /\ cur' \in Vehicles /\ (pc' = "idle" \/ pc' = "preUpdate")
        /\ pc' = "preUpdate" => life[cur'] \in {"ready", "failed"}
    BY <1>3, UpdateFirstFacts DEF BeginUpdate
  <2> QED
    BY <1>3, <2>1 DEF BeginUpdate, TypeOK, Stages, Alive, Loading, fileVars, rangeVars,
                      windVars, linkVars
<1>4. CASE NoAnemometerDue
  BY <1>4 DEF NoAnemometerDue, Goto, TypeOK, Stages, Alive, Loading, fileVars,
              rangeVars, windVars, linkVars
<1>5. CASE AnemometerMissing
  BY <1>2, <1>5 DEF AnemometerMissing, LookUpUnchanged, TypeOK, Stages, Alive, Loading,
                    fileVars, rangeVars, linkVars
<1>6. CASE AnemometerFound
  <2>1. PICK e \in Found(cur, AnemometerName(cur)) :
          anemometer' = [anemometer EXCEPT ![cur] =
            [init |-> TRUE, entity |-> e,
             topic |-> IF IsSensor(e, "anemometer") THEN e ELSE NullEntity]]
    BY <1>6 DEF AnemometerFound
  <2>2. e \in Paths
    BY <1>1, <2>1, FoundFacts DEF TypeOK
  <2>3. (IF IsSensor(e, "anemometer") THEN e ELSE NullEntity) \in Paths
    BY <2>2, EmptyPath
  <2>4. anemometer' \in [Vehicles -> Sensor]
    BY <2>1, <2>2, <2>3 DEF TypeOK, Sensor
  <2> QED
    BY <1>6, <2>4 DEF AnemometerFound, Goto, TypeOK, Stages, Alive, Loading, fileVars,
                      rangeVars, linkVars
<1>7. CASE ImuMissing
  <2>1. imu' \in [Vehicles -> Sensor]
    BY <1>7 DEF ImuMissing, ImuTried, TypeOK, Sensor
  <2> QED
    BY <1>2, <1>7, <2>1 DEF ImuMissing, LookUpUnchanged, TypeOK, Stages, Alive, Loading,
                            fileVars, rangeVars, windVars, linkVars
<1>8. CASE ImuFound
  <2>1. PICK e \in Found(cur, ImuName(cur)) :
          imu' = [imu EXCEPT ![cur] =
            IF IsSensor(e, "imu") THEN [init |-> TRUE, entity |-> Parent(e), topic |-> e]
            ELSE [@ EXCEPT !.init = TRUE]]
    BY <1>8 DEF ImuFound
  <2>2. e \in Paths
    BY <1>1, <2>1, FoundFacts DEF TypeOK
  <2>3. IsSensor(e, "imu") => Parent(e) \in Paths
    BY WorldFacts DEF IsSensor, OnLink, TypeOK
  <2>4. imu' \in [Vehicles -> Sensor]
    BY <2>1, <2>2, <2>3 DEF TypeOK, Sensor
  <2> QED
    BY <1>2, <1>8, <2>4 DEF ImuFound, LookUpUnchanged, TypeOK, Stages, Alive, Loading,
                            fileVars, rangeVars, windVars, linkVars
<1>9. CASE TakePacket
  <2>1. PICK c \in Waiting(cur) : controller' = [controller EXCEPT ![cur] = c]
    BY <1>9 DEF TakePacket
  <2>2. fd[cur] \in Descriptors
    BY <1>9 DEF TakePacket, TypeOK, Stages, Alive
  <2>3. c \in Vehicles
    BY <2>1, <2>2 DEF Waiting, TypeOK, Free
  <2> QED
    BY <1>2, <1>9, <2>1, <2>3
       DEF TakePacket, ExchangeUnchanged, TypeOK, Stages, Alive, Loading, fileVars,
           rangeVars, windVars
<1>10. CASE NoPacket
  <2>1. arduPilotOnline' \in [Vehicles -> BOOLEAN]
    BY <1>10 DEF NoPacket, TypeOK
  <2> QED
    BY <1>2, <1>10, <2>1
       DEF NoPacket, ExchangeUnchanged, TypeOK, Stages, Alive, Loading, fileVars,
           rangeVars, windVars
<1> QED
  BY <1>3, <1>4, <1>5, <1>6, <1>7, <1>8, <1>9, <1>10 DEF PreUpdate

\* Removal of a vehicle, range messages and flight controllers.
LEMMA TypeOthers ==
  ASSUME TypeInv,
         DestroyRanges \/ DestroySocket \/ Callback \/ (\E v \in Vehicles : FcSend(v))
  PROVE  TypeInv'
<1> USE DEF TypeInv
<1>1. CASE DestroyRanges
  <2>1. PICK v \in Running :
          /\ cur' = v /\ life' = [life EXCEPT ![v] = "dying"]
          /\ ranges' = [ranges EXCEPT ![v] = <<>>] /\ heard' = [heard EXCEPT ![v] = {}]
    BY <1>1 DEF DestroyRanges
  <2>2. v \in Vehicles /\ <<>> \in Seq(Nat)
    BY EmptySeq DEF Running
  <2>3. TypeOK'
    BY <1>1, <2>1, <2>2 DEF DestroyRanges, TypeOK, fileVars, windVars, linkVars
  <2>4. Stages'
    BY <1>1, <2>1, <2>2
       DEF DestroyRanges, Running, TypeOK, Stages, Alive, Loading, fileVars
  <2> QED
    BY <2>3, <2>4
<1>2. CASE DestroySocket
  <2>1. <<>> \in Seq(Int)
    BY EmptySeq
  <2>2. queue' \in [Vehicles -> SUBSET Vehicles]
    BY <1>2 DEF DestroySocket, TypeOK
  <2>3. TypeOK'
    BY <1>2, <2>1, <2>2 DEF DestroySocket, Goto, Becomes, TypeOK, Free, windVars
  <2>4. Stages'
    BY <1>2 DEF DestroySocket, Goto, Becomes, TypeOK, Stages, Alive, Loading
  <2> QED
    BY <2>3, <2>4
<1>3. ASSUME NEW v \in Vehicles, NEW s \in Sensors(v), RangeCb(v, s)
      PROVE  TypeInv'
  <2>1. s \in 1 .. Len(SDF(v).sensors) /\ Len(SDF(v).sensors) \in Nat
    BY <1>3, WorldFacts, LenProperties DEF Sensors, BlockList, TypeOK
  <2>2. ranges[v] \in Seq(Nat) /\ s \in Nat
    BY <2>1 DEF TypeOK
  <2>3. [ranges[v] EXCEPT ![subscribed[v][s] + 1] = s] \in Seq(Nat)
    BY <1>3, <2>2, ExceptSeq, LenProperties DEF RangeCb
  <2>4. ranges' \in [Vehicles -> Seq(Nat)]
    BY <1>3, <2>3 DEF RangeCb, TypeOK
  <2>5. heard' \in [Vehicles -> SUBSET Nat]
    BY <1>3, <2>2 DEF RangeCb, TypeOK
  <2> QED
    BY <1>3, <2>4, <2>5 DEF RangeCb, TypeOK, Stages, Alive, Loading, fileVars, windVars,
                            linkVars
<1>4. ASSUME NEW v \in Vehicles, NEW s \in Sensors(v), RangeCbOutside(v, s)
      PROVE  TypeInv'
  BY <1>4 DEF RangeCbOutside, TypeOK, Stages, Alive, Loading, fileVars, rangeVars,
              windVars, linkVars
<1>5. ASSUME NEW v \in Vehicles, FcSend(v)
      PROVE  TypeInv'
  <2>1. queue' \in [Vehicles -> SUBSET Vehicles]
    BY <1>5 DEF FcSend, OnPort, TypeOK
  <2> QED
    BY <1>5, <2>1 DEF FcSend, TypeOK, Stages, Alive, Loading, fileVars, rangeVars,
                      windVars
<1> QED
  BY <1>1, <1>2, <1>3, <1>4, <1>5 DEF Callback

LEMMA TypeNext == TypeInv /\ [Next]_vars => TypeInv'
<1> SUFFICES ASSUME TypeInv, [Next]_vars PROVE TypeInv'
  OBVIOUS
<1>1. CASE UNCHANGED vars
  BY <1>1 DEF vars, TypeInv, TypeOK, Stages, Alive, Loading, fileVars, rangeVars,
              windVars, linkVars
<1>2. CASE Finished
  BY <1>1, <1>2 DEF Finished
<1> QED
  BY <1>1, <1>2, TypeConstruct, TypeConfigure, TypePreUpdate, TypeOthers DEF Next

LEMMA TypeAlways == Spec => []TypeInv
BY TypeInit, TypeNext, PTL DEF Spec

\* The state keeps its types: every control that is loaded, with any elements
\* missing, is a proper one, and every descriptor, index and name a proper one.
THEOREM TypeCorrect == Spec => []TypeOK
BY TypeAlways, PTL DEF TypeInv

----------------------------------------------------------------------------
(* Which actions change what.                                               *)

RangeCallback == \E v \in Vehicles : \E s \in Sensors(v) : RangeCb(v, s)
Sends == \E v \in Vehicles : FcSend(v)

LEMMA Frame ==
  ASSUME [Next]_vars
  PROVE  /\ world' = world
         /\ LoadControl \/ controls' = controls
         /\ \/ Subscribe \/ DestroySocket
            \/ subscribed' = subscribed
         /\ \/ Subscribe \/ AppendSlot \/ DestroyRanges \/ RangeCallback
            \/ UNCHANGED <<ranges, grown, heard>>
         /\ AnemometerMissing \/ AnemometerFound \/ UNCHANGED windVars
         /\ ImuMissing \/ ImuFound \/ imu' = imu
         /\ \/ Construct \/ BindAndLoad \/ BindFails \/ DestroySocket
            \/ UNCHANGED fileVars
         /\ TakePacket \/ NoPacket \/ DestroySocket \/ Sends \/ UNCHANGED linkVars
<1> USE DEF fileVars, rangeVars, windVars, linkVars
<1>1. CASE Construct
  BY <1>1 DEF Construct
<1>2. CASE Configure
  BY <1>2 DEF Configure, NoModel, HasModel, LoadControl, ControlsDone, ConfigUnchanged,
     Subscribe, AppendSlot, SensorsDone, SensorsUnchanged, BindAndLoad, BindFails,
     BindUnchanged, Goto
<1>3. CASE PreUpdate
  <2>1. CASE BeginUpdate \/ NoAnemometerDue
    BY <2>1 DEF BeginUpdate, NoAnemometerDue, Goto
  <2>2. CASE AnemometerMissing \/ AnemometerFound
    BY <2>2 DEF AnemometerMissing, AnemometerFound, Goto, LookUpUnchanged
  <2>3. CASE ImuMissing \/ ImuFound
    BY <2>3 DEF ImuMissing, ImuFound, LookUpUnchanged
  <2>4. CASE TakePacket \/ NoPacket
    BY <2>4 DEF TakePacket, NoPacket, ExchangeUnchanged
  <2> QED
    BY <1>3, <2>1, <2>2, <2>3, <2>4 DEF PreUpdate
<1>4. CASE DestroyRanges \/ DestroySocket
  BY <1>4 DEF DestroyRanges, DestroySocket, Goto
<1>5. CASE Callback
  <2>0. PICK v \in Vehicles : \E s \in Sensors(v) : RangeCb(v, s) \/ RangeCbOutside(v, s)
    BY <1>5 DEF Callback
  <2>1. PICK s \in Sensors(v) : RangeCb(v, s) \/ RangeCbOutside(v, s)
    BY <2>0
  <2>2. CASE RangeCb(v, s)
    <3>1. RangeCallback
      BY <2>2 DEF RangeCallback
    <3> QED
      BY <2>2, <3>1 DEF RangeCb
  <2>3. CASE RangeCbOutside(v, s)
    BY <2>3 DEF RangeCbOutside
  <2> QED
    BY <2>1, <2>2, <2>3
<1>6. CASE Sends
  BY <1>6 DEF Sends, FcSend
<1>7. CASE Finished \/ UNCHANGED vars
  BY <1>7 DEF Finished, vars
<1> QED
  BY <1>1, <1>2, <1>3, <1>4, <1>5, <1>6, <1>7 DEF Next, Sends

\* The world does not change, and so neither does what is read from it.
LEMMA WorldConstant ==
  ASSUME [Next]_vars, NEW v
  PROVE  /\ world' = world
         /\ SDF(v)' = SDF(v) /\ Model(v)' = Model(v) /\ Sensors(v)' = Sensors(v)
         /\ Blocks(v)' = Blocks(v)
         /\ AnemometerName(v)' = AnemometerName(v) /\ ImuName(v)' = ImuName(v)
         /\ Port(v)' = Port(v)
<1>1. world' = world
  BY Frame
<1> QED
  BY <1>1 DEF SDF, Model, Sensors, Blocks, FirstOf, AnemometerName, ImuName, Port

----------------------------------------------------------------------------
(* Names.                                                                   *)

LEMMA OwnInit == Init => OwnEntities
<1> SUFFICES ASSUME Init PROVE OwnEntities
  OBVIOUS
<1>1. \A v \in Vehicles : DOMAIN controls[v] = {}
  BY EmptySeq, LenProperties DEF Init
<1> QED
  BY <1>1 DEF Init, OwnEntities, Unset

LEMMA OwnNext ==
  ASSUME TypeOK, OwnEntities, [Next]_vars
  PROVE  OwnEntities'
<1> SUFFICES ASSUME NEW v \in Vehicles
             PROVE  /\ \A n \in DOMAIN controls'[v] : Below(Model(v), controls'[v][n].joint)
                    /\ anemometer'[v].entity # NullEntity
                         => Below(Model(v), anemometer'[v].entity)
                    /\ imu'[v].topic # NullEntity => Below(Model(v), imu'[v].topic)
  BY WorldConstant DEF OwnEntities
<1>1. ASSUME NEW n \in DOMAIN controls'[v]
      PROVE  Below(Model(v), controls'[v][n].joint)
  <2>1. CASE controls' = controls
    BY <1>1, <2>1 DEF OwnEntities
  <2>2. CASE LoadControl /\ v = cur
    <3>1. PICK j \in JointOf(v, NextBlock(v)) :
            controls' = [controls EXCEPT ![v] =
              Append(@, LoadedControl(Blocks(v)[NextBlock(v)], Position(v), j))]
      BY <2>2 DEF LoadControl
    <3> DEFINE c == LoadedControl(Blocks(v)[NextBlock(v)], Position(v), j)
    <3>2. c.joint = j
      BY DEF LoadedControl
    <3>3. Below(Model(v), j)
      <4>1. NextBlock(v) \in DOMAIN Blocks(v)
        <5>1. Len(controls[v]) \in Nat
          BY LenProperties DEF TypeOK
        <5> QED
          BY <2>2, <5>1, BlocksTyped DEF LoadControl, NextBlock, TypeOK
      <4> DEFINE name == Get(Blocks(v)[NextBlock(v)], "jointName", NullEntity)
      <4>2. name \in Paths
        BY <4>1, BlocksTyped, EmptyPath DEF TypeOK, WellTyped, PathKeys, Get, Has
      <4>3. name # <<>> /\ j = Model(v) \o name
        BY <3>1 DEF JointOf, JointsByName, entitiesFromScopedName
      <4> HIDE DEF name
      <4>4. Model(v) \in Paths
        BY WorldFacts DEF TypeOK
      <4> QED
        BY <4>2, <4>3, <4>4, ScopedBelow
    <3> HIDE DEF c
    <3>4. controls[v] \in Seq(Control \cup {c})
      BY SeqMonotonic DEF TypeOK
    <3>5. controls'[v] = Append(controls[v], c)
      BY <3>1 DEF c, TypeOK
    <3>6. Len(controls[v]) \in Nat /\ DOMAIN controls[v] = 1 .. Len(controls[v])
      BY <3>4, LenProperties
    <3>7. /\ DOMAIN controls'[v] = 1 .. Len(controls[v]) + 1
          /\ \A i \in DOMAIN controls[v] : controls'[v][i] = controls[v][i]
          /\ controls'[v][Len(controls[v]) + 1] = c
      BY <3>4, <3>5, <3>6, AppendProperties, LenProperties
    <3>8. CASE n \in DOMAIN controls[v]
      BY <3>7, <3>8 DEF OwnEntities
    <3>9. CASE n = Len(controls[v]) + 1
      BY <3>2, <3>3, <3>7, <3>9
    <3> QED
      BY <1>1, <3>6, <3>7, <3>8, <3>9
  <2>3. CASE LoadControl /\ v # cur
    <3>1. controls'[v] = controls[v]
      BY <2>3 DEF LoadControl, TypeOK
    <3> QED
      BY <1>1, <3>1 DEF OwnEntities
  <2> QED
    BY <2>1, <2>2, <2>3, Frame
<1>2. AnemometerName(v) \in Paths /\ ImuName(v) \in Paths
  BY WorldFacts, EmptyPath DEF AnemometerName, ImuName, TypeOK
<1>3. anemometer'[v].entity # NullEntity => Below(Model(v), anemometer'[v].entity)
  <2>1. CASE anemometer'[v] = anemometer[v]
    BY <2>1 DEF OwnEntities
  <2>2. CASE AnemometerFound /\ v = cur
    <3>1. PICK e \in Found(v, AnemometerName(v)) : anemometer'[v].entity = e
      BY <2>2 DEF AnemometerFound, TypeOK
    <3> QED
      BY <1>2, <3>1, FoundFacts DEF TypeOK
  <2>3. CASE AnemometerFound /\ v # cur
    BY <2>3 DEF AnemometerFound, TypeOK, OwnEntities
  <2> QED
    BY <2>1, <2>2, <2>3, Frame DEF AnemometerMissing, windVars
<1>4. imu'[v].topic # NullEntity => Below(Model(v), imu'[v].topic)
  <2>1. CASE imu'[v].topic = imu[v].topic
    BY <2>1 DEF OwnEntities
  <2>2. CASE ImuFound /\ v = cur
    <3>1. PICK e \in Found(v, ImuName(v)) : imu'[v].topic = e \/ imu'[v].topic = imu[v].topic
      BY <2>2 DEF ImuFound, TypeOK, Sensor
    <3> QED
      BY <1>2, <2>1, <3>1, FoundFacts DEF TypeOK
  <2>3. CASE ImuFound /\ v # cur
    BY <2>3 DEF ImuFound, TypeOK, OwnEntities
  <2>4. CASE ImuMissing
    BY <2>4 DEF ImuMissing, ImuTried, TypeOK, Sensor, OwnEntities
  <2> QED
    BY <2>1, <2>2, <2>3, <2>4, Frame
<1> QED
  BY <1>1, <1>3, <1>4

\* A vehicle's joints, IMU and anemometer are inside its own model.
THEOREM OwnEntitiesCorrect == Spec => []OwnEntities
BY TypeCorrect, OwnInit, OwnNext, PTL DEF Spec

----------------------------------------------------------------------------
(* The list of controls.  While it is loaded it is a prefix of the blocks;  *)
(* afterwards it goes up to the first block without a joint.                *)

ListLoaded(v) == life[v] = "ready" \/ (v = cur /\ pc \in {"sensors", "grow", "bind"})

Named(v, n) == NamedJoint(v, Blocks(v)[n])
Prefix ==
  \A v \in Vehicles : \A n \in DOMAIN controls[v] :
    /\ n \in DOMAIN Blocks(v) /\ IsJoint(Named(v, n))
    /\ controls[v][n] = LoadedControl(Blocks(v)[n], n - 1, Named(v, n))
UpToMissing ==
  \A v \in Vehicles : ListLoaded(v) /\ NextBlock(v) \in DOMAIN Blocks(v)
    => ~IsJoint(Named(v, NextBlock(v)))
OnlyValid == pc \in Loading \ {"configure"} => SDF(cur).valid

ListInv == Prefix /\ UpToMissing /\ OnlyValid

\* JointByName finds the joint a block names, if there is one.
LEMMA JointOfNamed ==
  ASSUME TypeOK, NEW v \in Vehicles, NEW n \in DOMAIN Blocks(v)
  PROVE  /\ \A j \in JointOf(v, n) : j = Named(v, n) /\ IsJoint(j)
         /\ SDF(v).valid /\ JointOf(v, n) = {} => ~IsJoint(Named(v, n))
<1> DEFINE name == Get(Blocks(v)[n], "jointName", NullEntity)
<1>1. /\ Named(v, n) = Model(v) \o name
      /\ JointOf(v, n) = {e \in DOMAIN world.kinds :
           (name # <<>> /\ e = Model(v) \o name) /\ world.kinds[e] = "joint"}
  BY DEF Named, NamedJoint, JointOf, JointsByName, entitiesFromScopedName
<1> HIDE DEF name
<1>2. \A j \in JointOf(v, n) : j = Named(v, n) /\ IsJoint(j)
  BY <1>1 DEF IsJoint
<1>3. ASSUME SDF(v).valid, JointOf(v, n) = {}, IsJoint(Named(v, n))
      PROVE  FALSE
  <2>1. CASE name # <<>>
    BY <1>1, <1>3, <2>1 DEF IsJoint
  <2>2. CASE name = <<>>
    <3>1. Model(v) \o <<>> = Model(v)
      BY WorldFacts, ConcatEmptySeq DEF TypeOK, Paths
    <3> QED
      BY <1>1, <1>3, <2>2, <3>1, WorldFacts DEF TypeOK, IsJoint
  <2> QED
    BY <2>1, <2>2
<1> QED
  BY <1>2, <1>3

LEMMA ListInit == Init => ListInv
<1> SUFFICES ASSUME Init PROVE ListInv
  OBVIOUS
<1>1. \A v \in Vehicles : DOMAIN controls[v] = {}
  BY EmptySeq, LenProperties DEF Init
<1> QED
  BY <1>1 DEF Init, ListInv, Prefix, UpToMissing, OnlyValid, ListLoaded, Loading

LEMMA ListLoadedNext ==
  ASSUME TypeInv, [Next]_vars, NEW v \in Vehicles, ListLoaded(v)'
  PROVE  \/ ListLoaded(v) /\ controls'[v] = controls[v]
         \/ ControlsDone /\ v = cur
<1> USE DEF ListLoaded, TypeInv
<1>1. CASE Construct
  BY <1>1 DEF Construct, TypeOK
<1>2. CASE NoModel \/ HasModel \/ ControlsDone
  BY <1>2 DEF NoModel, HasModel, ControlsDone, Goto, Becomes, TypeOK
<1>3. CASE LoadControl
  BY <1>3 DEF LoadControl, Goto, TypeOK, Stages, Loading
<1>4. CASE Subscribe \/ AppendSlot \/ SensorsDone
  BY <1>4 DEF Subscribe, AppendSlot, SensorsDone, SensorsUnchanged, Goto
<1>5. CASE BindAndLoad \/ BindFails
  BY <1>5 DEF BindAndLoad, BindFails, BindUnchanged, Goto, Becomes, TypeOK
<1>6. CASE BeginUpdate \/ NoAnemometerDue \/ AnemometerFound
  BY <1>6 DEF BeginUpdate, UpdateFirstOf, NoAnemometerDue, AnemometerFound, Goto
<1>7. CASE AnemometerMissing \/ ImuMissing \/ ImuFound
  BY <1>7 DEF AnemometerMissing, ImuMissing, ImuFound, Return, UpdateFirstOf,
              LookUpUnchanged
<1>8. CASE TakePacket \/ NoPacket
  BY <1>8 DEF TakePacket, NoPacket, Return, UpdateFirstOf, ExchangeUnchanged
<1>9. CASE DestroyRanges \/ DestroySocket
  BY <1>9 DEF DestroyRanges, DestroySocket, Goto, Becomes, TypeOK, Running
<1>10. CASE Callback \/ Sends
  BY <1>10 DEF Callback, RangeCb, RangeCbOutside, Sends, FcSend
<1>11. CASE Finished \/ UNCHANGED vars
  BY <1>11 DEF Finished, vars
<1> QED
  BY <1>1, <1>2, <1>3, <1>4, <1>5, <1>6, <1>7, <1>8, <1>9, <1>10, <1>11
     DEF Next, Configure, PreUpdate, Sends

LEMMA OnlyValidNext ==
  ASSUME TypeInv, OnlyValid, [Next]_vars
  PROVE  OnlyValid'
<1>1. world' = world
  BY Frame
<1>2. pc' \in Loading \ {"configure"} =>
        cur' = cur /\ (pc \in Loading \ {"configure"} \/ SDF(cur).valid)
  <2> USE DEF Loading
  <2>1. CASE Construct
    BY <2>1 DEF Construct
  <2>2. CASE Configure
    BY <2>2 DEF Configure, NoModel, HasModel, LoadControl, ControlsDone, Subscribe,
       AppendSlot, SensorsDone, BindAndLoad, BindFails, Goto
  <2>3. CASE PreUpdate
    BY <2>3 DEF PreUpdate, BeginUpdate, NoAnemometerDue, AnemometerMissing,
       AnemometerFound, ImuMissing, ImuFound, TakePacket, NoPacket, Goto, Return,
       UpdateFirstOf
  <2>4. CASE DestroyRanges \/ DestroySocket
    BY <2>4 DEF DestroyRanges, DestroySocket, Goto
  <2>5. CASE Callback \/ Sends
    BY <2>5 DEF Callback, RangeCb, RangeCbOutside, Sends, FcSend
  <2>6. CASE Finished \/ UNCHANGED vars
    BY <2>6 DEF Finished, vars
  <2> QED
    BY <2>1, <2>2, <2>3, <2>4, <2>5, <2>6 DEF Next, Sends
<1> QED
  BY <1>1, <1>2 DEF OnlyValid, SDF

\* The control that is appended is that of the next block.
LEMMA PrefixNext ==
  ASSUME TypeInv, Prefix, [Next]_vars
  PROVE  Prefix'
<1> USE DEF TypeInv
<1>1. world' = world
  BY Frame
<1> SUFFICES ASSUME NEW v \in Vehicles, NEW n \in DOMAIN controls'[v]
             PROVE  /\ n \in DOMAIN Blocks(v) /\ IsJoint(Named(v, n))
                    /\ controls'[v][n] = LoadedControl(Blocks(v)[n], n - 1, Named(v, n))
  BY <1>1 DEF Prefix, Named, NamedJoint, Model, SDF, IsJoint, Blocks, FirstOf
<1>2. CASE controls'[v] = controls[v]
  BY <1>2 DEF Prefix
<1>3. CASE LoadControl /\ v = cur
  <2> DEFINE k == NextBlock(v)
             c == LoadedControl(Blocks(v)[k], Position(v), Named(v, k))
  <2>1. controls[v] \in Seq(Control) /\ Len(controls[v]) \in Nat
    BY LenProperties DEF TypeOK
  <2>2. k \in DOMAIN Blocks(v)
    BY <1>3, <2>1, BlocksTyped DEF TypeOK, LoadControl, NextBlock
  <2>3. PICK j \in JointOf(v, k) : controls' = [controls EXCEPT ![v] =
          Append(@, LoadedControl(Blocks(v)[k], Position(v), j))]
    BY <1>3 DEF LoadControl
  <2>4. j = Named(v, k) /\ IsJoint(j)
    BY <2>2, <2>3, JointOfNamed
  <2>5. controls'[v] = Append(controls[v], c)
    BY <2>3, <2>4 DEF TypeOK
  <2>6. k = Len(controls[v]) + 1 /\ Position(v) = k - 1
    BY <2>1 DEF NextBlock, Position
  <2> HIDE DEF c, k
  <2>7. controls[v] \in Seq(Control \cup {c}) /\ DOMAIN controls[v] = 1 .. Len(controls[v])
    BY <2>1, SeqMonotonic, LenProperties
  <2>8. /\ DOMAIN controls'[v] = 1 .. Len(controls[v]) + 1
        /\ \A i \in DOMAIN controls[v] : controls'[v][i] = controls[v][i]
        /\ controls'[v][Len(controls[v]) + 1] = c
    BY <2>1, <2>5, <2>7, AppendProperties, LenProperties
  <2>9. CASE n \in DOMAIN controls[v]
    BY <2>8, <2>9 DEF Prefix
  <2>10. CASE n = k
    BY <2>2, <2>4, <2>6, <2>8, <2>10 DEF c
  <2> QED
    BY <2>1, <2>6, <2>7, <2>8, <2>9, <2>10
<1>4. CASE LoadControl /\ v # cur
  BY <1>2, <1>4 DEF LoadControl, TypeOK
<1> QED
  BY <1>2, <1>3, <1>4, Frame

LEMMA UpToMissingNext ==
  ASSUME TypeInv, OnlyValid, UpToMissing, [Next]_vars
  PROVE  UpToMissing'
<1> SUFFICES ASSUME NEW v \in Vehicles, ListLoaded(v)', NextBlock(v)' \in DOMAIN Blocks(v)
             PROVE  ~IsJoint(Named(v, NextBlock(v)'))
  <2>1. world' = world
    BY Frame
  <2> QED
    BY <2>1 DEF UpToMissing, Named, NamedJoint, Model, SDF, IsJoint, Blocks, FirstOf
<1>1. CASE ListLoaded(v) /\ controls'[v] = controls[v]
  BY <1>1 DEF UpToMissing, NextBlock
<1>2. CASE ControlsDone /\ v = cur
  <2>1. NextBlock(v)' = NextBlock(v)
    BY <1>2 DEF ControlsDone, NextBlock
  <2>2. SDF(v).valid
    BY <1>2 DEF ControlsDone, Goto, OnlyValid, Loading
  <2>3. NextBlock(v) <= Len(Blocks(v))
    BY <2>1, BlocksTyped DEF TypeInv, TypeOK
  <2> QED
    BY <1>2, <2>1, <2>2, <2>3, JointOfNamed DEF ControlsDone, TypeInv
<1> QED
  BY <1>1, <1>2, ListLoadedNext

LEMMA ListAlways == Spec => []ListInv
<1>1. ListInv /\ TypeInv /\ [Next]_vars => ListInv'
  BY PrefixNext, UpToMissingNext, OnlyValidNext DEF ListInv
<1> QED
  BY <1>1, ListInit, TypeAlways, PTL DEF Spec

\* The controls are those of the blocks in their order, up to the first block
\* whose joint is missing, each with its channel and its defaults.
THEOREM ControlsCorrect == Spec => []ControlsAsListed
<1>1. ASSUME TypeOK, ListInv PROVE ControlsAsListed
  <2> SUFFICES ASSUME NEW v \in Vehicles, NEW n \in DOMAIN Blocks(v), life[v] = "ready",
                      \A k \in 1 .. n : IsJoint(Named(v, k))
               PROVE  n \in DOMAIN controls[v]
    BY <1>1 DEF ControlsAsListed, ListInv, Prefix, Named
  <2>1. /\ Len(controls[v]) \in Nat /\ DOMAIN controls[v] = 1 .. Len(controls[v])
        /\ Len(Blocks(v)) \in Nat /\ DOMAIN Blocks(v) = 1 .. Len(Blocks(v))
    BY <1>1, LenProperties, BlocksTyped DEF TypeOK
  <2>2. ~(NextBlock(v) <= n)
    BY <1>1, <2>1 DEF ListInv, UpToMissing, ListLoaded, NextBlock
  <2> QED
    BY <2>1, <2>2 DEF NextBlock
<1> QED
  BY <1>1, TypeCorrect, ListAlways, PTL

----------------------------------------------------------------------------
(* The anemometer: the flag of the process is only ever used up by a        *)
(* vehicle that names one, and the IMU look-up comes after that try.        *)

Served(v) == anemometer[v].init \/ Found(v, AnemometerName(v)) = {}

UsedUp ==
  calledInitAnemometerOnce =>
    \E u \in Vehicles : AnemometerName(u) # NullEntity /\ Served(u)
TriedBefore ==
  pc = "imu" /\ AnemometerName(cur) # NullEntity =>
    calledInitAnemometerOnce \/ anemometer[cur].init

WindInv == UsedUp /\ TriedBefore /\ AnemometerLookedUp

LEMMA WindInit == Init => WindInv
BY DEF Init, WindInv, UsedUp, TriedBefore, AnemometerLookedUp, Unset

LEMMA ServedStays ==
  ASSUME TypeOK, [Next]_vars, NEW v \in Vehicles, Served(v)
  PROVE  Served(v)'
<1>1. Found(v, AnemometerName(v))' = Found(v, AnemometerName(v))
  BY WorldConstant DEF Found
<1>2. anemometer[v].init => anemometer'[v].init
  <2>1. CASE AnemometerFound /\ v = cur
    BY <2>1 DEF AnemometerFound, TypeOK
  <2>2. CASE AnemometerFound /\ v # cur
    <3>1. anemometer'[v] = anemometer[v]
      BY <2>2 DEF AnemometerFound, TypeOK
    <3> QED
      BY <3>1
  <2>3. CASE anemometer' = anemometer
    BY <2>3
  <2> QED
    BY <2>1, <2>2, <2>3, Frame DEF windVars, AnemometerMissing
<1> QED
  BY <1>1, <1>2 DEF Served

LEMMA UsedUpNext ==
  ASSUME TypeInv, UsedUp, [Next]_vars
  PROVE  UsedUp'
<1>1. ASSUME NEW u \in Vehicles, AnemometerName(u) # NullEntity, Served(u)
      PROVE  UsedUp'
  BY <1>1, ServedStays, WorldConstant DEF UsedUp, TypeInv
<1>2. CASE AnemometerMissing
  BY <1>1, <1>2 DEF AnemometerMissing, LooksForAnemometer, Served, TypeInv, TypeOK
<1>3. CASE AnemometerFound
  <2>1. anemometer'[cur].init /\ AnemometerName(cur) # NullEntity /\ cur \in Vehicles
    BY <1>3 DEF AnemometerFound, LooksForAnemometer, TypeInv, TypeOK
  <2>2. AnemometerName(cur)' = AnemometerName(cur) /\ cur' = cur
    BY <1>3 DEF AnemometerFound, Goto, AnemometerName, SDF
  <2> QED
    BY <2>1, <2>2 DEF UsedUp, Served
<1>4. CASE UNCHANGED windVars
  BY <1>1, <1>4 DEF windVars, UsedUp
<1> QED
  BY <1>2, <1>3, <1>4, Frame

LEMMA TriedBeforeNext ==
  ASSUME TypeInv, TriedBefore, [Next]_vars
  PROVE  TriedBefore'
<1>1. pc' = "imu" =>
        /\ cur' = cur
        /\ \/ pc = "imu" /\ UNCHANGED windVars
           \/ NoAnemometerDue \/ AnemometerFound
  <2>1. CASE Construct
    BY <2>1 DEF Construct
  <2>2. CASE Configure
    BY <2>2 DEF Configure, NoModel, HasModel, LoadControl, ControlsDone, Subscribe,
       AppendSlot, SensorsDone, BindAndLoad, BindFails, Goto
  <2>3. CASE PreUpdate
    BY <2>3 DEF PreUpdate, BeginUpdate, NoAnemometerDue, AnemometerMissing,
       AnemometerFound, ImuMissing, ImuFound, TakePacket, NoPacket, Goto, Return,
       UpdateFirstOf
  <2>4. CASE DestroyRanges \/ DestroySocket
    BY <2>4 DEF DestroyRanges, DestroySocket, Goto
  <2>5. CASE Callback \/ Sends
    BY <2>5 DEF Callback, RangeCb, RangeCbOutside, Sends, FcSend
  <2>6. CASE Finished \/ UNCHANGED vars
    BY <2>6 DEF Finished, vars, windVars
  <2> QED
    BY <2>1, <2>2, <2>3, <2>4, <2>5, <2>6 DEF Next, Sends
<1>2. AnemometerName(cur)' = AnemometerName(cur) \/ cur' # cur
  BY Frame DEF AnemometerName, SDF
<1>3. NoAnemometerDue /\ AnemometerName(cur) # NullEntity =>
        calledInitAnemometerOnce' \/ anemometer'[cur].init
  BY DEF NoAnemometerDue, LooksForAnemometer, windVars
<1>4. AnemometerFound => calledInitAnemometerOnce'
  BY DEF AnemometerFound
<1> QED
  BY <1>1, <1>2, <1>3, <1>4 DEF TriedBefore, windVars

LEMMA LookedUpNext ==
  ASSUME TypeInv, UsedUp, TriedBefore, AnemometerLookedUp, [Next]_vars
  PROVE  AnemometerLookedUp'
<1> SUFFICES ASSUME NEW v \in Vehicles, imu'[v].init,
                    AnemometerName(v) # NullEntity, OnlyNamer(v)
             PROVE  Served(v)'
  BY WorldConstant DEF AnemometerLookedUp, OnlyNamer, Served
<1>1. CASE imu[v].init
  BY <1>1, ServedStays DEF AnemometerLookedUp, Served, TypeInv
<1>2. CASE ~imu[v].init
  <2>1. (ImuMissing \/ ImuFound) /\ v = cur
    <3>1. ImuMissing \/ ImuFound
      BY <1>2, Frame
    <3>2. v # cur => imu'[v] = imu[v]
      BY <3>1 DEF ImuMissing, ImuTried, ImuFound, TypeInv, TypeOK
    <3> QED
      BY <1>2, <3>1, <3>2
  <2>2. pc = "imu"
    BY <2>1 DEF ImuMissing, ImuFound
  <2>3. Served(v)
    BY <2>1, <2>2 DEF TriedBefore, UsedUp, OnlyNamer, Served
  <2> QED
    BY <2>3, ServedStays DEF TypeInv
<1> QED
  BY <1>1, <1>2

\* The only vehicle that names an anemometer is served before its IMU is looked up.
THEOREM AnemometerCorrect == Spec => []AnemometerLookedUp
<1>1. WindInv /\ TypeInv /\ [Next]_vars => WindInv'
  BY UsedUpNext, TriedBeforeNext, LookedUpNext DEF WindInv
<1>2. WindInv => AnemometerLookedUp
  BY DEF WindInv
<1> QED
  BY <1>1, <1>2, WindInit, TypeAlways, PTL DEF Spec

----------------------------------------------------------------------------
(* Sockets.  As long as no vehicle whose bind failed has been removed, the  *)
(* descriptor of each other vehicle is its own socket's, so that no two of  *)
(* them have one; what waits in a socket was sent to its port.              *)

OwnSocket ==
  ~ClosedTwice => \A v \in Vehicles \ aborted : Alive(v) => files[fd[v]] = v
QueuedByPort == \A v \in Vehicles : \A c \in queue[v] : SamePort(c, v)
OwnPort == \A v \in Vehicles : Intact(v) => (arduPilotOnline[v] => SamePort(controller[v], v))

LinkInv == OwnSocket /\ QueuedByPort /\ OwnPort

LEMMA LinkInit == Init => LinkInv
BY DEF Init, LinkInv, OwnSocket, QueuedByPort, OwnPort, Alive

\* Who was closed twice, or failed to bind, remains so.
LEMMA ClosedStays ==
  ASSUME TypeInv, [Next]_vars
  PROVE  aborted \subseteq aborted' /\ (ClosedTwice => ClosedTwice')
<1>1. aborted \subseteq aborted'
  BY Frame DEF Construct, BindAndLoad, BindFails, DestroySocket, BindUnchanged, fileVars
<1>2. \A v \in Vehicles : life[v] = "gone" => life'[v] = "gone"
  <2> USE DEF TypeInv, TypeOK, Stages, Loading
  <2>1. CASE Construct
    BY <2>1 DEF Construct
  <2>2. CASE Configure
    BY <2>2 DEF Configure, NoModel, HasModel, LoadControl, ControlsDone, Subscribe,
       AppendSlot, SensorsDone, BindAndLoad, BindFails, Goto, Becomes, SensorsUnchanged
  <2>3. CASE PreUpdate
    BY <2>3 DEF PreUpdate, BeginUpdate, NoAnemometerDue, AnemometerMissing,
       AnemometerFound, ImuMissing, ImuFound, TakePacket, NoPacket, LookUpUnchanged,
       ExchangeUnchanged
  <2>4. CASE DestroyRanges \/ DestroySocket
    BY <2>4 DEF DestroyRanges, DestroySocket, Goto, Becomes, Running
  <2>5. CASE Callback \/ Sends
    BY <2>5 DEF Callback, RangeCb, RangeCbOutside, Sends, FcSend
  <2>6. CASE Finished \/ UNCHANGED vars
    BY <2>6 DEF Finished, vars
  <2> QED
    BY <2>1, <2>2, <2>3, <2>4, <2>5, <2>6 DEF Next, Sends
<1> QED
  BY <1>1, <1>2 DEF ClosedTwice, TypeInv, TypeOK

LEMMA AliveBefore ==
  ASSUME TypeInv, [Next]_vars, NEW v \in Vehicles, Alive(v)'
  PROVE  Construct \/ Alive(v)
<1> USE DEF TypeInv, TypeOK, Stages, Loading, Alive
<1>1. CASE Configure
  BY <1>1 DEF Configure, NoModel, HasModel, LoadControl, ControlsDone, Subscribe,
     AppendSlot, SensorsDone, BindAndLoad, BindFails, Goto, Becomes, SensorsUnchanged
<1>2. CASE PreUpdate
  BY <1>2 DEF PreUpdate, BeginUpdate, NoAnemometerDue, AnemometerMissing,
     AnemometerFound, ImuMissing, ImuFound, TakePacket, NoPacket, LookUpUnchanged,
     ExchangeUnchanged
<1>3. CASE DestroyRanges \/ DestroySocket
  BY <1>3 DEF DestroyRanges, DestroySocket, Goto, Becomes, Running
<1>4. CASE Callback \/ Sends
  BY <1>4 DEF Callback, RangeCb, RangeCbOutside, Sends, FcSend
<1>5. CASE Finished \/ UNCHANGED vars
  BY <1>5 DEF Finished, vars
<1> QED
  BY <1>1, <1>2, <1>3, <1>4, <1>5 DEF Next, Sends

\* What a failed bind or a destructor closes is its own vehicle's socket.
LEMMA OwnSocketNext ==
  ASSUME TypeInv, OwnSocket, [Next]_vars
  PROVE  OwnSocket'
<1> SUFFICES ASSUME ~ClosedTwice', NEW v \in Vehicles, v \notin aborted', Alive(v)'
             PROVE  files'[fd'[v]] = v
  BY DEF OwnSocket
<1>1. ~ClosedTwice /\ v \notin aborted
  BY ClosedStays
<1>2. \A u \in Vehicles \ aborted : Alive(u) => files[fd[u]] = u /\ fd[u] \in Descriptors
  BY <1>1 DEF OwnSocket, TypeInv, Stages
<1>3. \A u \in Vehicles : u # Free
  BY DEF Vehicles, Free
<1>4. CASE Construct
  <2>1. PICK u \in Vehicles : /\ life[u] = "none" /\ life' = [life EXCEPT ![u] = "loading"]
                             /\ \E f \in Descriptors :
                                  /\ files[f] = Free
                                  /\ fd' = [fd EXCEPT ![u] = f] /\ OpenSocket(u, f)
    BY <1>4 DEF Construct
  <2>2. PICK f \in Descriptors : /\ files[f] = Free
                                 /\ fd' = [fd EXCEPT ![u] = f] /\ OpenSocket(u, f)
    BY <2>1
  <2>3. CASE v = u
    BY <2>2, <2>3 DEF OpenSocket, TypeInv, TypeOK
  <2>4. CASE v # u
    <3>1. Alive(v)
      BY <2>1, <2>4 DEF Alive, TypeInv, TypeOK
    <3>2. files[fd[v]] = v /\ fd[v] \in Descriptors /\ fd[v] # f
      BY <1>1, <1>2, <1>3, <2>2, <3>1
    <3> QED
      BY <2>2, <2>4, <3>2 DEF OpenSocket, TypeInv, TypeOK
  <2> QED
    BY <2>3, <2>4
<1>5. CASE BindAndLoad
  <2>1. UNCHANGED <<files, fd>> /\ Alive(v)
    BY <1>5, AliveBefore DEF BindAndLoad, BindUnchanged, Construct, Goto
  <2> QED
    BY <1>1, <1>2, <2>1
<1>6. CASE BindFails
  <2>1. v # cur /\ Alive(v)
    BY <1>6, AliveBefore DEF BindFails, Construct, Goto
  <2>2. cur \in Vehicles \ aborted /\ Alive(cur)
    BY <1>6 DEF BindFails, Goto, TypeInv, TypeOK, Stages, Loading, Alive
  <2>3. fd[v] # fd[cur]
    BY <1>1, <1>2, <2>1, <2>2
  <2>4. files' = [files EXCEPT ![fd[cur]] = Free] /\ fd' = fd
    BY <1>6 DEF BindFails, CloseUnbound, BindUnchanged
  <2> QED
    BY <1>1, <1>2, <2>1, <2>3, <2>4 DEF TypeInv, TypeOK
<1>7. CASE DestroySocket
  <2>1. /\ pc = "destroy" /\ aborted' = aborted
        /\ life' = [life EXCEPT ![cur] = "gone"]
        /\ files' = [files EXCEPT ![fd[cur]] = Free] /\ fd' = [fd EXCEPT ![cur] = 0]
    BY <1>7 DEF DestroySocket, Goto, Becomes
  <2>2. cur \in Vehicles /\ life[cur] = "dying" /\ life'[cur] = "gone"
    BY <2>1 DEF TypeInv, TypeOK, Stages
  <2>3. v # cur /\ Alive(v)
    BY <2>1, <2>2 DEF Alive, TypeInv, TypeOK
  <2>4. cur \notin aborted
    BY <2>1, <2>2 DEF ClosedTwice
  <2>5. fd[v] # fd[cur]
    BY <1>1, <1>2, <2>2, <2>3, <2>4 DEF Alive
  <2> QED
    BY <1>1, <1>2, <2>1, <2>3, <2>5 DEF TypeInv, TypeOK
<1>8. CASE UNCHANGED fileVars
  <2>1. CASE Construct
    BY <1>4, <2>1
  <2>2. CASE Alive(v)
    BY <1>1, <1>2, <1>8, <2>2 DEF fileVars
  <2> QED
    BY <2>1, <2>2, AliveBefore
<1> QED
  BY <1>4, <1>5, <1>6, <1>7, <1>8, Frame

LEMMA QueuedByPortNext ==
  ASSUME TypeInv, QueuedByPort, [Next]_vars
  PROVE  QueuedByPort'
<1> SUFFICES ASSUME NEW v \in Vehicles, NEW c \in queue'[v]
             PROVE  SamePort(c, v)
  BY WorldConstant DEF QueuedByPort, SamePort
<1>1. CASE c \in queue[v]
  BY <1>1 DEF QueuedByPort
<1>2. CASE Sends
  <2>1. PICK w \in Vehicles : FcSend(w)
    BY <1>2 DEF Sends
  <2>2. PICK u \in OnPort(w) : queue' = [queue EXCEPT ![u] = @ \cup {w}]
    BY <2>1 DEF FcSend
  <2>3. c \in queue[v] \/ (v = u /\ c = w)
    BY <2>2 DEF TypeInv, TypeOK
  <2> QED
    BY <1>1, <2>2, <2>3 DEF OnPort, SamePort
<1>3. CASE TakePacket \/ NoPacket \/ DestroySocket
  BY <1>1, <1>3 DEF TakePacket, NoPacket, DestroySocket, TypeInv, TypeOK
<1> QED
  BY <1>1, <1>2, <1>3, Frame DEF linkVars

LEMMA OwnPortNext ==
  ASSUME TypeInv, LinkInv, [Next]_vars
  PROVE  OwnPort'
<1> USE DEF TypeInv
<1> SUFFICES ASSUME NEW v \in Vehicles, Intact(v)', arduPilotOnline'[v]
             PROVE  SamePort(controller'[v], v)
  BY WorldConstant DEF OwnPort, SamePort
<1>1. Intact(v)
  BY ClosedStays DEF Intact
<1>2. CASE arduPilotOnline[v] /\ controller'[v] = controller[v]
  BY <1>1, <1>2 DEF LinkInv, OwnPort
<1>3. CASE TakePacket /\ v = cur
  <2>1. PICK c \in Waiting(v) : controller' = [controller EXCEPT ![v] = c]
    BY <1>3 DEF TakePacket
  <2>2. Alive(v)
    BY <1>3 DEF TakePacket, Stages, Alive
  <2>3. files[fd[v]] = v
    BY <1>1, <2>2 DEF LinkInv, OwnSocket, Intact
  <2>4. c \in queue[v]
    BY <2>1, <2>3 DEF Waiting
  <2> QED
    BY <2>1, <2>4 DEF LinkInv, QueuedByPort, TypeOK
<1>4. CASE TakePacket /\ v # cur
  <2>1. arduPilotOnline'[v] = arduPilotOnline[v] /\ controller'[v] = controller[v]
    BY <1>4 DEF TakePacket, TypeOK
  <2> QED
    BY <1>2, <2>1
<1>5. CASE NoPacket
  <2>1. PICK o \in {FALSE, arduPilotOnline[cur]} :
          arduPilotOnline' = [arduPilotOnline EXCEPT ![cur] = o]
    BY <1>5 DEF NoPacket
  <2>2. arduPilotOnline[v]
    BY <2>1 DEF TypeOK
  <2> QED
    BY <1>2, <1>5, <2>2 DEF NoPacket
<1>6. CASE DestroySocket \/ Sends
  BY <1>2, <1>6 DEF DestroySocket, Sends, FcSend
<1> QED
  BY <1>2, <1>3, <1>4, <1>5, <1>6, Frame DEF linkVars

\* A vehicle's descriptor leads to its own socket, and it obeys only controllers
\* that send to its port, unless its bind failed or one that failed was removed.
THEOREM OwnController == Spec => []ObeysOwnController
<1>1. LinkInv /\ TypeInv /\ [Next]_vars => LinkInv'
  BY OwnSocketNext, QueuedByPortNext, OwnPortNext DEF LinkInv
<1>2. LinkInv => ObeysOwnController
  BY DEF LinkInv, OwnSocket, OwnPort, ObeysOwnController, Intact, Alive
<1> QED
  BY <1>1, <1>2, LinkInit, TypeAlways, PTL DEF Spec

----------------------------------------------------------------------------
(* Range sensors.  Counts: a vector that still grows is shorter than the    *)
(* list of sensors, so that nothing of it has been counted as heard.        *)

NumSensors(v) == Len(SDF(v).sensors)

Counts ==
  /\ \A v \in Vehicles :
       life[v] = "none" \/ (v = cur /\ pc \in {"configure", "controls"})
         => ranges[v] = <<>> /\ subscribed[v] = <<>>
  /\ pc = "sensors" => Len(ranges[cur]) = Len(subscribed[cur])
  /\ pc = "grow" => /\ Len(ranges[cur]) + 1 = Len(subscribed[cur])
                    /\ Len(subscribed[cur]) <= NumSensors(cur)
                    /\ Len(grown) = Len(ranges[cur])
  /\ \A v \in Vehicles : heard[v] # {} => Len(ranges[v]) = NumSensors(v)

Slots ==
  \A v \in Vehicles : WellIndexed(v) => \A s \in DOMAIN subscribed[v] :
    s \in Sensors(v) /\ subscribed[v][s] = Slot(IndexOf(v, s))

\* Each entry is from the sensor it is numbered for.
Sorted(v, r) ==
  \A k \in DOMAIN r : r[k] # NoRange => r[k] \in Sensors(v) /\ IndexOf(v, r[k]) = k
Fields ==
  /\ \A v \in Vehicles : WellIndexed(v) => Sorted(v, ranges[v])
  /\ pc = "grow" /\ WellIndexed(cur) => Sorted(cur, grown)

Kept ==
  \A v \in Vehicles : WellIndexed(v) => \A s \in heard[v] :
    /\ s \in Sensors(v) /\ IndexOf(v, s) \in DOMAIN ranges[v]
    /\ ranges[v][IndexOf(v, s)] = s

RangeInv == Counts /\ Slots /\ Fields /\ Kept

LEMMA SeqsTyped ==
  ASSUME TypeOK
  PROVE  /\ \A v \in Vehicles :
              /\ ranges[v] \in Seq(Nat) /\ subscribed[v] \in Seq(Int)
              /\ Len(ranges[v]) \in Nat /\ DOMAIN ranges[v] = 1 .. Len(ranges[v])
              /\ Len(subscribed[v]) \in Nat
              /\ DOMAIN subscribed[v] = 1 .. Len(subscribed[v])
         /\ grown \in Seq(Nat) /\ Len(grown) \in Nat /\ DOMAIN grown = 1 .. Len(grown)
         /\ \A v \in Vehicles :
              NumSensors(v) \in Nat /\ Sensors(v) = 1 .. NumSensors(v)
BY LenProperties, WorldFacts DEF TypeOK, Sensors, NumSensors, BlockList

LEMMA RangeInit == Init => RangeInv
<1> SUFFICES ASSUME Init PROVE RangeInv
  OBVIOUS
<1>1. \A v \in Vehicles : DOMAIN ranges[v] = {} /\ DOMAIN subscribed[v] = {}
  BY EmptySeq, LenProperties DEF Init
<1> QED
  BY <1>1 DEF Init, RangeInv, Counts, Slots, Fields, Kept, Sorted

LEMMA IndexConstant ==
  ASSUME [Next]_vars, NEW v
  PROVE  /\ WellIndexed(v)' = WellIndexed(v) /\ NumSensors(v)' = NumSensors(v)
         /\ \A s : IndexOf(v, s)' = IndexOf(v, s)
<1>1. world' = world
  BY Frame
<1> QED
  BY <1>1 DEF WellIndexed, NumSensors, IndexOf, Sensors, SDF

\* A reading is stored at the index of its sensor, and the vector keeps its length.
LEMMA Stored ==
  ASSUME TypeOK, Slots, NEW v \in Vehicles, NEW s \in Sensors(v), RangeCb(v, s)
  PROVE  /\ Len(ranges'[v]) = Len(ranges[v]) /\ DOMAIN ranges'[v] = DOMAIN ranges[v]
         /\ \A u \in Vehicles \ {v} : ranges'[u] = ranges[u] /\ heard'[u] = heard[u]
         /\ WellIndexed(v) =>
              /\ IndexOf(v, s) \in DOMAIN ranges[v]
              /\ \A k \in DOMAIN ranges[v] :
                   ranges'[v][k] = IF k = IndexOf(v, s) THEN s ELSE ranges[v][k]
<1> DEFINE i == subscribed[v][s] + 1
<1>1. /\ i \in 1 .. Len(ranges[v]) /\ ranges[v] \in Seq(Nat) /\ s \in Nat
      /\ DOMAIN ranges[v] = 1 .. Len(ranges[v])
  BY SeqsTyped DEF RangeCb
<1>2. ranges'[v] = [ranges[v] EXCEPT ![i] = s]
  BY DEF RangeCb, TypeOK
<1>3. /\ ranges'[v] \in Seq(Nat) /\ Len(ranges'[v]) = Len(ranges[v])
      /\ \A k \in 1 .. Len(ranges[v]) : ranges'[v][k] = IF k = i THEN s ELSE ranges[v][k]
  BY <1>1, <1>2, ExceptSeq
<1>4. DOMAIN ranges'[v] = DOMAIN ranges[v]
  BY <1>2
<1>5. \A u \in Vehicles \ {v} : ranges'[u] = ranges[u] /\ heard'[u] = heard[u]
  BY DEF RangeCb, TypeOK
<1>6. WellIndexed(v) => i = IndexOf(v, s)
  <2>1. WellIndexed(v) => IndexOf(v, s) \in Sensors(v)
    BY DEF WellIndexed
  <2> QED
    BY <2>1, SeqsTyped DEF RangeCb, Hears, Slots, Slot
<1> QED
  BY <1>1, <1>3, <1>4, <1>5, <1>6

LEMMA Extended ==
  ASSUME NEW r \in Seq(Nat)
  PROVE  /\ DOMAIN r = 1 .. Len(r) /\ Len(r) \in Nat
         /\ Len(Append(r, NoRange)) = Len(r) + 1
         /\ DOMAIN Append(r, NoRange) = 1 .. Len(r) + 1
         /\ \A k \in DOMAIN r : Append(r, NoRange)[k] = r[k]
         /\ Append(r, NoRange)[Len(r) + 1] = NoRange
<1>1. NoRange \in Nat
  BY DEF NoRange
<1> QED
  BY <1>1, LenProperties, AppendProperties

LEMMA SlotsNext ==
  ASSUME TypeOK, Slots, [Next]_vars
  PROVE  Slots'
<1> SUFFICES ASSUME NEW v \in Vehicles, WellIndexed(v), NEW s \in DOMAIN subscribed'[v]
             PROVE  s \in Sensors(v) /\ subscribed'[v][s] = Slot(IndexOf(v, s))
  BY IndexConstant, WorldConstant DEF Slots, Slot
<1>1. CASE subscribed'[v] = subscribed[v]
  BY <1>1 DEF Slots
<1>2. CASE Subscribe /\ v = cur
  <2> DEFINE n == NextSensor(v)
  <2>1. PICK i \in Indices(v, n) : subscribed'[v] = Append(subscribed[v], Slot(i))
    BY <1>2 DEF Subscribe, TypeOK
  <2>2. n \in Sensors(v)
    BY <1>2 DEF Subscribe
  <2>3. i = IndexOf(v, n) /\ i \in Int
    BY <2>1, <2>2, SeqsTyped DEF Indices, WellIndexed, IndexOf
  <2>4. /\ DOMAIN subscribed'[v] = 1 .. Len(subscribed[v]) + 1
        /\ \A k \in DOMAIN subscribed[v] : subscribed'[v][k] = subscribed[v][k]
        /\ subscribed'[v][Len(subscribed[v]) + 1] = Slot(i)
    BY <2>1, <2>3, SeqsTyped, AppendProperties, LenProperties DEF Slot
  <2>5. CASE s \in DOMAIN subscribed[v]
    BY <2>4, <2>5 DEF Slots
  <2>6. CASE s = n
    BY <2>2, <2>3, <2>4, <2>6 DEF NextSensor
  <2> QED
    BY <2>4, <2>5, <2>6, SeqsTyped DEF NextSensor
<1>3. CASE DestroySocket /\ v = cur
  <2>1. subscribed'[v] = <<>> /\ DOMAIN subscribed'[v] = {}
    BY <1>3, EmptySeq, LenProperties DEF DestroySocket, TypeOK
  <2> QED
    BY <2>1
<1>4. CASE (Subscribe \/ DestroySocket) /\ v # cur
  BY <1>1, <1>4 DEF Subscribe, DestroySocket, TypeOK
<1> QED
  BY <1>1, <1>2, <1>3, <1>4, Frame

\* How the thread comes to where the sensors are loaded.
LEMMA LoaderNext ==
  ASSUME [Next]_vars
  PROVE  /\ pc' = "grow" => cur' = cur /\ (Subscribe \/ (pc = "grow" /\ grown' = grown))
         /\ pc' = "sensors" => cur' = cur /\ (pc = "sensors" \/ ControlsDone \/ AppendSlot)
         /\ Subscribe => pc' = "grow"
         /\ AppendSlot => pc' = "sensors"
         /\ DestroyRanges \/ DestroySocket => pc' \in {"destroy", "idle"}
<1>1. CASE Construct
  BY <1>1 DEF Construct, Subscribe, AppendSlot, DestroyRanges, DestroySocket, Goto
<1>2. CASE Configure
  BY <1>2 DEF Configure, NoModel, HasModel, LoadControl, ControlsDone, Subscribe,
     AppendSlot, SensorsDone, BindAndLoad, BindFails, Goto, DestroyRanges, DestroySocket
<1>3. CASE PreUpdate
  BY <1>3 DEF PreUpdate, BeginUpdate, NoAnemometerDue, AnemometerMissing,
     AnemometerFound, ImuMissing, ImuFound, TakePacket, NoPacket, Goto, Return,
     UpdateFirstOf, Subscribe, AppendSlot, DestroyRanges, DestroySocket
<1>4. CASE DestroyRanges \/ DestroySocket
  BY <1>4 DEF DestroyRanges, DestroySocket, Goto, Subscribe, AppendSlot
<1>5. CASE Callback
  BY <1>5 DEF Callback, RangeCb, RangeCbOutside, rangeVars, Subscribe, AppendSlot,
     DestroyRanges, DestroySocket, Goto
<1>6. CASE Sends
  BY <1>6 DEF Sends, FcSend, rangeVars, Subscribe, AppendSlot, DestroyRanges,
     DestroySocket, Goto
<1>7. CASE Finished \/ UNCHANGED vars
  BY <1>7 DEF Finished, vars, rangeVars, Subscribe, AppendSlot, DestroyRanges,
     DestroySocket, Goto
<1> QED
  BY <1>1, <1>2, <1>3, <1>4, <1>5, <1>6, <1>7 DEF Next, Sends

LEMMA SortedExtended ==
  ASSUME NEW v, NEW r \in Seq(Nat), Sorted(v, r)
  PROVE  Sorted(v, Append(r, NoRange))
BY Extended DEF Sorted

LEMMA FieldsNext ==
  ASSUME TypeOK, Slots, Fields, [Next]_vars
  PROVE  Fields'
<1>1. ASSUME NEW v \in Vehicles, WellIndexed(v) PROVE Sorted(v, ranges'[v])
  <2>1. CASE ranges'[v] = ranges[v]
    BY <1>1, <2>1 DEF Fields
  <2>2. CASE AppendSlot
    <3>1. PICK old \in {grown, ranges[cur]} :
            ranges' = [ranges EXCEPT ![cur] = Append(old, NoRange)]
      BY <2>2 DEF AppendSlot
    <3>2. CASE v = cur
      <4>1. Sorted(v, old) /\ old \in Seq(Nat)
        BY <1>1, <2>2, <3>1, <3>2, SeqsTyped DEF Fields, AppendSlot, Goto
      <4> QED
        BY <3>1, <3>2, <4>1, SortedExtended DEF TypeOK
    <3> QED
      BY <2>1, <3>1, <3>2 DEF TypeOK
  <2>3. CASE DestroyRanges
    <3>1. ranges'[v] = ranges[v] \/ ranges'[v] = <<>>
      BY <2>3 DEF DestroyRanges, TypeOK
    <3>2. Sorted(v, <<>>)
      BY EmptySeq, LenProperties DEF Sorted
    <3> QED
      BY <2>1, <3>1, <3>2
  <2>4. CASE RangeCallback
    <3>1. PICK u \in Vehicles : \E s \in Sensors(u) : RangeCb(u, s)
      BY <2>4 DEF RangeCallback
    <3>2. PICK s \in Sensors(u) : RangeCb(u, s)
      BY <3>1
    <3>3. CASE u # v
      BY <2>1, <3>2, <3>3, Stored
    <3>4. CASE u = v
      BY <1>1, <3>2, <3>4, Stored DEF Sorted, Fields
    <3> QED
      BY <3>3, <3>4
  <2>5. CASE Subscribe \/ UNCHANGED <<ranges, grown, heard>>
    BY <2>1, <2>5 DEF Subscribe
  <2> QED
    BY <2>2, <2>3, <2>4, <2>5, Frame
<1>2. ASSUME pc' = "grow", WellIndexed(cur') PROVE Sorted(cur', grown')
  <2>1. cur' = cur /\ (Subscribe \/ (pc = "grow" /\ grown' = grown))
    BY <1>2, LoaderNext
  <2>2. CASE Subscribe
    BY <1>2, <2>1, <2>2 DEF Subscribe, Fields, TypeOK
  <2>3. CASE pc = "grow" /\ grown' = grown
    BY <1>2, <2>1, <2>3 DEF Fields
  <2> QED
    BY <2>1, <2>2, <2>3
<1>3. \A v \in Vehicles : WellIndexed(v)' => Sorted(v, ranges[v])'
  BY <1>1, IndexConstant, WorldConstant DEF Sorted
<1>4. (pc = "grow" /\ WellIndexed(cur) => Sorted(cur, grown))'
  <2> SUFFICES ASSUME pc' = "grow", WellIndexed(cur)'
               PROVE  Sorted(cur, grown)'
    OBVIOUS
  <2>1. cur' = cur
    BY LoaderNext
  <2>2. world' = world
    BY Frame
  <2>3. WellIndexed(cur')
    BY <2>1, <2>2 DEF WellIndexed, IndexOf, Sensors, SDF
  <2>4. Sorted(cur', grown')
    BY <1>2, <2>3
  <2> QED
    BY <2>1, <2>2, <2>4 DEF Sorted, Sensors, IndexOf, SDF
<1> QED
  BY <1>3, <1>4 DEF Fields

LEMMA Early ==
  ASSUME TypeInv, Counts, [Next]_vars, NEW v \in Vehicles,
         \/ life'[v] = "none"
         \/ v = cur' /\ pc' \in {"configure", "controls"}
  PROVE  ranges'[v] = <<>> /\ subscribed'[v] = <<>>
<1> USE DEF TypeInv, TypeOK, Stages, Loading
<1>1. /\ life[v] = "none" \/ (v = cur /\ pc \in {"configure", "controls"})
      /\ (Subscribe \/ AppendSlot \/ DestroyRanges \/ DestroySocket) =>
           ranges'[v] = ranges[v] /\ subscribed'[v] = subscribed[v]
  <2>1. CASE Construct
    BY <2>1 DEF Construct, Subscribe, AppendSlot, DestroyRanges, DestroySocket, Goto
  <2>2. CASE Configure
    BY <2>2 DEF Configure, NoModel, HasModel, LoadControl, ControlsDone, Subscribe,
       AppendSlot, SensorsDone, BindAndLoad, BindFails, Goto, Becomes, SensorsUnchanged,
       DestroyRanges, DestroySocket
  <2>3. CASE PreUpdate
    BY <2>3 DEF PreUpdate, BeginUpdate, NoAnemometerDue, AnemometerMissing,
       AnemometerFound, ImuMissing, ImuFound, TakePacket, NoPacket, LookUpUnchanged,
       ExchangeUnchanged, Goto, Return, UpdateFirstOf, Subscribe, AppendSlot,
       DestroyRanges, DestroySocket
  <2>4. CASE DestroyRanges
    BY <2>4 DEF DestroyRanges, Running, Subscribe, AppendSlot, DestroySocket, Goto
  <2>5. CASE DestroySocket
    BY <2>5 DEF DestroySocket, Goto, Becomes, Subscribe, AppendSlot, DestroyRanges
  <2>6. CASE Callback \/ Sends
    BY <2>6 DEF Callback, RangeCb, RangeCbOutside, Sends, FcSend, rangeVars, Subscribe,
       AppendSlot, DestroyRanges, DestroySocket, Goto, Running
  <2>7. CASE Finished \/ UNCHANGED vars
    BY <2>7 DEF Finished, vars, rangeVars, Subscribe, AppendSlot, DestroyRanges,
       DestroySocket, Goto, Running
  <2> QED
    BY <2>1, <2>2, <2>3, <2>4, <2>5, <2>6, <2>7 DEF Next, Sends
<1>2. ranges[v] = <<>> /\ subscribed[v] = <<>> /\ DOMAIN subscribed[v] = {}
  BY <1>1, EmptySeq, LenProperties DEF Counts
<1>3. RangeCallback => ranges'[v] = ranges[v]
  BY <1>2 DEF RangeCallback, RangeCb, Hears
<1>4. ranges'[v] = ranges[v]
  BY <1>1, <1>3, Frame
<1>5. subscribed'[v] = subscribed[v]
  BY <1>1, Frame
<1> QED
  BY <1>2, <1>4, <1>5

\* Only AppendSlot and the destructor change the length of `ranges`.
LEMMA LengthKept ==
  ASSUME TypeOK, Slots, [Next]_vars, ~AppendSlot, ~DestroyRanges, NEW v \in Vehicles
  PROVE  Len(ranges'[v]) = Len(ranges[v])
<1>1. CASE RangeCallback
  <2>1. PICK u \in Vehicles : \E s \in Sensors(u) : RangeCb(u, s)
    BY <1>1 DEF RangeCallback
  <2>2. PICK s \in Sensors(u) : RangeCb(u, s)
    BY <2>1
  <2> QED
    BY <2>2, Stored
<1>2. CASE Subscribe \/ UNCHANGED <<ranges, grown, heard>>
  BY <1>2 DEF Subscribe
<1> QED
  BY <1>1, <1>2, Frame

LEMMA CountsNext ==
  ASSUME TypeInv, Counts, Slots, [Next]_vars
  PROVE  Counts'
<1> USE DEF TypeInv
<1>1. CASE AppendSlot
  <2>1. PICK old \in {grown, ranges[cur]} :
          ranges' = [ranges EXCEPT ![cur] = Append(old, NoRange)]
    BY <1>1 DEF AppendSlot
  <2>2. /\ pc = "grow" /\ pc' = "sensors" /\ cur' = cur /\ cur \in Vehicles
        /\ subscribed' = subscribed /\ heard' = heard
    BY <1>1 DEF AppendSlot, Goto, TypeOK
  <2>3. old \in Seq(Nat) /\ Len(old) = Len(ranges[cur])
    BY <2>1, <2>2, SeqsTyped DEF Counts
  <2>4. Len(ranges'[cur]) = Len(ranges[cur]) + 1
    BY <2>1, <2>3, Extended DEF TypeOK
  <2>5. Len(ranges[cur]) # NumSensors(cur)
    BY <2>2, SeqsTyped DEF Counts
  <2>6. \A v \in Vehicles : heard'[v] # {} => Len(ranges'[v]) = NumSensors(v)
    BY <2>1, <2>2, <2>5 DEF Counts, TypeOK
  <2>7. Len(ranges'[cur']) = Len(subscribed'[cur'])
    BY <2>2, <2>4 DEF Counts
  <2> QED
    BY <2>2, <2>6, <2>7, Early, IndexConstant DEF Counts
<1>2. CASE Subscribe
  <2>1. /\ pc = "sensors" /\ pc' = "grow" /\ cur' = cur /\ cur \in Vehicles
        /\ ranges' = ranges /\ grown' = ranges[cur] /\ heard' = heard
        /\ NextSensor(cur) \in Sensors(cur)
    BY <1>2 DEF Subscribe, Goto, TypeOK
  <2>2. Len(subscribed'[cur]) = Len(subscribed[cur]) + 1
    <3>1. PICK i \in Indices(cur, NextSensor(cur)) :
            subscribed' = [subscribed EXCEPT ![cur] = Append(@, Slot(i))]
      BY <1>2 DEF Subscribe
    <3>2. Slot(i) \in Int \cup {Slot(i)} /\ subscribed[cur] \in Seq(Int \cup {Slot(i)})
      BY <2>1, SeqMonotonic DEF TypeOK
    <3>3. subscribed'[cur] = Append(subscribed[cur], Slot(i))
      BY <2>1, <3>1 DEF TypeOK
    <3> QED
      BY <3>2, <3>3, AppendProperties
  <2>3. /\ Len(ranges'[cur']) + 1 = Len(subscribed'[cur'])
        /\ Len(subscribed'[cur']) <= NumSensors(cur)
        /\ Len(grown') = Len(ranges'[cur'])
    BY <2>1, <2>2, SeqsTyped DEF Counts, NextSensor
  <2>4. \A v \in Vehicles : heard'[v] # {} => Len(ranges'[v]) = NumSensors(v)
    BY <2>1 DEF Counts
  <2>5. NumSensors(cur)' = NumSensors(cur)
    BY <2>1, Frame DEF NumSensors, SDF
  <2> QED
    BY <2>1, <2>3, <2>4, <2>5, Early, IndexConstant DEF Counts
<1>3. CASE DestroyRanges
  <2>1. \A v \in Vehicles : heard'[v] # {} => Len(ranges'[v]) = NumSensors(v)
    BY <1>3 DEF DestroyRanges, Running, Counts, TypeOK
  <2>2. pc' = "destroy"
    BY <1>3 DEF DestroyRanges
  <2> QED
    BY <2>1, <2>2, Early, IndexConstant DEF Counts
<1>4. CASE ~AppendSlot /\ ~Subscribe /\ ~DestroyRanges
  <2>1. \A v \in Vehicles : Len(ranges'[v]) = Len(ranges[v])
    BY <1>4, LengthKept
  <2>2. \A v \in Vehicles : heard'[v] # {} => Len(ranges'[v]) = NumSensors(v)
    <3>1. CASE RangeCallback
      <4>1. PICK u \in Vehicles : \E s \in Sensors(u) : RangeCb(u, s)
        BY <3>1 DEF RangeCallback
      <4>2. PICK s \in Sensors(u) : RangeCb(u, s)
        BY <4>1
      <4>3. heard'[u] = heard[u] \/ Len(ranges[u]) = NumSensors(u)
        BY <4>2 DEF RangeCb, RangesLoaded, NumSensors, TypeOK
      <4>4. \A v \in Vehicles \ {u} : heard'[v] = heard[v]
        BY <4>2, Stored
      <4> QED
        BY <2>1, <4>3, <4>4 DEF Counts
    <3>2. CASE heard' = heard
      BY <2>1, <3>2 DEF Counts
    <3> QED
      BY <1>4, <3>1, <3>2, Frame
  <2>3. pc' = "sensors" => Len(ranges'[cur']) = Len(subscribed'[cur'])
    <3> SUFFICES ASSUME pc' = "sensors"
                 PROVE  Len(ranges'[cur]) = Len(subscribed'[cur]) /\ cur' = cur
      OBVIOUS
    <3>1. cur' = cur /\ (pc = "sensors" \/ ControlsDone) /\ cur \in Vehicles
      BY <1>4, LoaderNext DEF TypeOK
    <3>2. subscribed' = subscribed
      BY <1>4, Frame, LoaderNext
    <3>3. Len(ranges[cur]) = Len(subscribed[cur])
      BY <3>1 DEF Counts, ControlsDone, Goto
    <3> QED
      BY <2>1, <3>1, <3>2, <3>3
  <2>4. pc' = "grow" => /\ cur' = cur /\ Len(ranges'[cur]) + 1 = Len(subscribed'[cur])
                       /\ Len(subscribed'[cur]) <= NumSensors(cur)
                       /\ Len(grown') = Len(ranges'[cur])
    <3> SUFFICES ASSUME pc' = "grow"
                 PROVE  /\ cur' = cur /\ Len(ranges'[cur]) + 1 = Len(subscribed'[cur])
                        /\ Len(subscribed'[cur]) <= NumSensors(cur)
                        /\ Len(grown') = Len(ranges'[cur])
      OBVIOUS
    <3>1. cur' = cur /\ pc = "grow" /\ grown' = grown /\ cur \in Vehicles
      BY <1>4, LoaderNext DEF TypeOK
    <3>2. subscribed' = subscribed
      BY <1>4, Frame, LoaderNext
    <3> QED
      BY <2>1, <3>1, <3>2 DEF Counts
  <2>5. \A v \in Vehicles : NumSensors(v)' = NumSensors(v)
    BY IndexConstant
  <2>6. cur' = cur => NumSensors(cur)' = NumSensors(cur)
    BY Frame DEF NumSensors, SDF
  <2> QED
    BY <2>2, <2>3, <2>4, <2>5, <2>6, Early DEF Counts
<1> QED
  BY <1>1, <1>2, <1>3, <1>4

LEMMA KeptNext ==
  ASSUME TypeOK, Counts, Slots, Kept, [Next]_vars
  PROVE  Kept'
<1> SUFFICES ASSUME NEW v \in Vehicles, WellIndexed(v), NEW t \in heard'[v]
             PROVE  /\ t \in Sensors(v) /\ IndexOf(v, t) \in DOMAIN ranges'[v]
                    /\ ranges'[v][IndexOf(v, t)] = t
  BY WorldConstant, IndexConstant DEF Kept
<1>1. CASE ranges'[v] = ranges[v] /\ heard'[v] = heard[v]
  BY <1>1 DEF Kept
<1>2. CASE AppendSlot
  <2>1. v # cur
    <3>1. heard'[v] = heard[v] /\ heard[v] # {} /\ pc = "grow"
      BY <1>2 DEF AppendSlot, Goto
    <3> QED
      BY <3>1, SeqsTyped DEF Counts
  <2> QED
    BY <1>1, <1>2, <2>1 DEF AppendSlot, TypeOK
<1>3. CASE DestroyRanges
  BY <1>1, <1>3 DEF DestroyRanges, TypeOK
<1>4. CASE RangeCallback
  <2>1. PICK u \in Vehicles : \E s \in Sensors(u) : RangeCb(u, s)
    BY <1>4 DEF RangeCallback
  <2>2. PICK s \in Sensors(u) : RangeCb(u, s)
    BY <2>1
  <2>3. CASE u # v
    BY <1>1, <2>2, <2>3, Stored
  <2>4. CASE u = v
    <3>1. t \in heard[v] \/ t = s
      BY <2>2, <2>4 DEF RangeCb, TypeOK
    <3>2. CASE t = s
      BY <2>2, <2>4, <3>2, Stored
    <3>3. CASE t \in heard[v] /\ t # s
      <4>1. /\ t \in Sensors(v) /\ IndexOf(v, t) \in DOMAIN ranges[v]
            /\ ranges[v][IndexOf(v, t)] = t
        BY <3>3 DEF Kept
      <4>2. IndexOf(v, t) # IndexOf(v, s)
        BY <2>2, <2>4, <3>3, <4>1 DEF WellIndexed
      <4> QED
        BY <2>2, <2>4, <4>1, <4>2, Stored
    <3> QED
      BY <3>1, <3>2, <3>3
  <2> QED
    BY <2>3, <2>4
<1>5. CASE Subscribe \/ UNCHANGED <<ranges, grown, heard>>
  BY <1>1, <1>5 DEF Subscribe
<1> QED
  BY <1>2, <1>3, <1>4, <1>5, Frame

\* Each range field of the state holds the readings of the sensor that is numbered
\* for it, and none that came after all were loaded is lost, whatever copies of
\* the growing vector the callbacks wrote to.
THEOREM RangesCorrect == Spec => []RangesInOwnField
<1>1. RangeInv /\ TypeInv /\ [Next]_vars => RangeInv'
  BY CountsNext, SlotsNext, FieldsNext, KeptNext DEF RangeInv, TypeInv
<1>2. ASSUME RangeInv, TypeOK PROVE RangesInOwnField
  <2> SUFFICES ASSUME NEW v \in Vehicles, WellIndexed(v)
               PROVE  /\ \A k \in DOMAIN RangeFieldsOf(v) :
                           RangeFieldsOf(v)[k] # NoRange =>
                             /\ RangeFieldsOf(v)[k] \in Sensors(v)
                             /\ IndexOf(v, RangeFieldsOf(v)[k]) = k
                      /\ \A s \in heard[v] : IndexOf(v, s) <= RangeFields =>
                           RangeFieldsOf(v)[IndexOf(v, s)] = s
    BY DEF RangesInOwnField
  <2>1. Sorted(v, ranges[v])
    BY <1>2 DEF RangeInv, Fields
  <2> QED
    BY <1>2, <2>1 DEF RangeInv, Kept, Sorted, RangeFieldsOf
<1> QED
  BY <1>1, <1>2, RangeInit, TypeAlways, PTL DEF Spec, TypeInv
=============================================================================
