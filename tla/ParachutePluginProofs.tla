----------------------- MODULE ParachutePluginProofs -----------------------
(***************************************************************************)
(* Proofs of the safety properties of ParachutePlugin, for any poses and   *)
(* any outcomes of the creation service.                                   *)
(*                                                                         *)
(* AskedFor says of every flag on the way to a parachute that a command    *)
(* came first.  Following says what keeps the parachute at the vehicle: as *)
(* long as no creation timed out, a parachute that has been seen once is   *)
(* sent to the vehicle in every update until it is joined.                 *)
(***************************************************************************)
EXTENDS ParachutePlugin, TLAPS

\* No command, no trace of one.
AskedFor ==
  \/ released
  \/ /\ ~attachRequested /\ ~shouldAttach /\ ~parachuteCreated /\ ~queued
     /\ child = NoPose /\ worldPoseCmd = NoPose /\ joint = NoJoint
     /\ pc \notin {"create", "attach"}

\* Commands reach only a plugin whose Configure succeeded.
Configured ==
  /\ released => validConfig
  /\ pc = "configure" => ~validConfig

\* The parachute is being joined only while it is not.
Attaching == pc \in {"create", "attach"} => ~attached

TypeInv == TypeOK /\ AskedFor /\ Configured /\ Attaching

\* A creation goes on until the parachute is joined.
Persistent ==
  /\ parachuteCreated => shouldAttach \/ attached
  /\ ~parachuteCreated => ~queued /\ child = NoPose
  /\ parachuteCreated /\ ~queued => child # NoPose
  /\ queued => child = NoPose /\ pc \in {"attach", "latch", "clear", "server"}
  /\ pc = "create" => ~parachuteCreated

\* A parachute nobody has seen has not been moved.
Unseen ==
  /\ child = NoPose => initialPos = NoPose /\ worldPoseCmd = NoPose
  /\ initialPos = NoPose => ~modelOk

\* A parachute that has been seen is told to be at the vehicle by each update,
\* and is where it was told to be when the next one looks.
Sent ==
  initialPos # NoPose /\ ~attached =>
    /\ pc \in {"latch", "clear", "server"} => worldPoseCmd # NoPose
    /\ pc \in {"update", "create", "attach"} => child = sentTo

Following == ~gaveUp => Persistent /\ Unseen /\ Sent /\ JoinedAtVehicle

----------------------------------------------------------------------------
LEMMA TypeInit == Init => TypeInv
BY ParachuteAssumption DEF Init, TypeInv, TypeOK, AskedFor, Configured, Attaching

LEMMA TypeStep == TypeInv /\ [Next]_vars => TypeInv'
<1> SUFFICES ASSUME TypeInv, [Next]_vars PROVE TypeInv'
  OBVIOUS
<1> USE DEF TypeInv, TypeOK, AskedFor, Configured, Attaching, config, plugin, world,
            history
<1>1. CASE OnCommand
  BY <1>1 DEF OnCommand
<1>10. CASE Configure
  <2>1. validConfig' \in BOOLEAN
    BY <1>10 DEF Configure
  <2>2. ~released
    BY <1>10 DEF Configure
  <2> QED
    BY <1>10, <2>1, <2>2 DEF Configure
<1>2. CASE ServerStep
  <2>1. child' \in Poses \cup {NoPose} /\ sentTo' \in Poses \cup {NoPose}
    BY <1>2, ParachuteAssumption DEF ServerStep
  <2>2. child = NoPose /\ ~queued /\ worldPoseCmd = NoPose => child' = NoPose
    BY <1>2 DEF ServerStep
  <2> QED
    BY <1>2, <2>1, <2>2 DEF ServerStep
<1>3. CASE BeginPreUpdate
  BY <1>3 DEF BeginPreUpdate, AttachDue
<1>4. CASE Create
  BY <1>4 DEF Create
<1>5. CASE ChildAbsent
  BY <1>5 DEF ChildAbsent
<1>6. CASE ChildPresent
  <2>1. modelOk' \in BOOLEAN /\ initialPos' \in Poses \cup {NoPose}
    BY <1>6 DEF ChildPresent, Ready
  <2>2. CASE hasChildLink /\ modelOk'
    <3>1. /\ joint' = [child |-> child, sentTo |-> sentTo]
          /\ shouldAttach' = FALSE /\ attached' = TRUE
      BY <1>6, <2>2 DEF ChildPresent, Join
    <3>2. child \in Poses /\ sentTo \in Poses \cup {NoPose}
      BY <1>6 DEF ChildPresent
    <3>3. joint' \in [child : Poses, sentTo : Poses \cup {NoPose}]
      BY <3>1, <3>2
    <3>4. joint' # NoJoint
      BY <3>3, ParachuteAssumption
    <3> QED
      BY <1>6, <2>1, <3>1, <3>2, <3>3, <3>4 DEF ChildPresent
  <2>3. CASE ~(hasChildLink /\ modelOk')
    BY <1>6, <2>3, <2>1 DEF ChildPresent
  <2> QED
    BY <2>2, <2>3
<1>7. CASE Latch
  BY <1>7 DEF Latch, LatchDue
<1>8. CASE Clear
  BY <1>8 DEF Clear, ClearRequest
<1>9. CASE UNCHANGED vars
  BY <1>9 DEF vars
<1> QED
  BY <1>1, <1>2, <1>3, <1>4, <1>5, <1>6, <1>7, <1>8, <1>9, <1>10
  DEF Next, PreUpdate

\* The state keeps its types, and there is a joint exactly when `attached` says.
THEOREM TypeCorrect == Spec => []TypeOK
<1>1. TypeInv => TypeOK
  BY DEF TypeInv
<1> QED
  BY <1>1, TypeInit, TypeStep, PTL DEF Spec

\* No parachute is created, moved or attached without a command.
THEOREM NoneUnasked == Spec => []OnlyIfReleased
<1>1. TypeInv => OnlyIfReleased
  BY DEF TypeInv, AskedFor, OnlyIfReleased
<1> QED
  BY <1>1, TypeInit, TypeStep, PTL DEF Spec

----------------------------------------------------------------------------
LEMMA FollowingInit == Init => Following
BY DEF Init, Following, Persistent, Unseen, Sent, JoinedAtVehicle

\* The step in which the parachute may be joined.
LEMMA JoinFollows == TypeInv /\ Following /\ ChildPresent => Following'
<1> SUFFICES ASSUME TypeInv, Following, ChildPresent, ~gaveUp PROVE Following'
  BY DEF Following, ChildPresent, history
<1>1. /\ Persistent /\ Unseen /\ Sent /\ JoinedAtVehicle
      /\ child # NoPose /\ child' = child /\ sentTo' = sentTo /\ ~attached
      /\ pc = "attach" /\ pc' = "latch" /\ UNCHANGED <<parachuteCreated, queued>>
  BY DEF Following, TypeInv, Attaching, ChildPresent
<1>2. initialPos' # NoPose /\ worldPoseCmd' # NoPose
  BY <1>1, ParachuteAssumption DEF ChildPresent, TypeInv, TypeOK
<1>3. Unseen' /\ Sent'
  BY <1>1, <1>2 DEF Unseen, Sent
<1>4. modelOk' => child = sentTo
  <2>1. CASE initialPos = NoPose
    BY <1>1, <2>1 DEF ChildPresent, Ready, Unseen
  <2>2. CASE initialPos # NoPose
    BY <1>1, <2>2 DEF Sent
  <2> QED
    BY <2>1, <2>2
<1>5. Persistent' /\ JoinedAtVehicle'
  <2>1. CASE hasChildLink /\ modelOk'
    BY <1>1, <1>4, <2>1 DEF ChildPresent, Join, Persistent, JoinedAtVehicle
  <2>2. CASE ~(hasChildLink /\ modelOk')
    BY <1>1, <2>2 DEF ChildPresent, Persistent, JoinedAtVehicle
  <2> QED
    BY <2>1, <2>2
<1> QED
  BY <1>3, <1>5 DEF Following

LEMMA FollowingStep == TypeInv /\ Following /\ [Next]_vars => Following'
<1> SUFFICES ASSUME TypeInv, Following, [Next]_vars PROVE Following'
  OBVIOUS
<1> USE DEF Following, Persistent, Unseen, Sent, JoinedAtVehicle, config, plugin, world,
            history
<1>1. CASE OnCommand
  BY <1>1 DEF OnCommand
<1>10. CASE Configure
  <2>1. pc = "configure" /\ pc' = "server" /\ UNCHANGED <<plugin, world, history>>
    BY <1>10 DEF Configure
  <2>2. ~released
    BY <2>1 DEF TypeInv, Configured
  <2>3. ~queued /\ child = NoPose /\ joint = NoJoint /\ ~parachuteCreated
    BY <2>2 DEF TypeInv, AskedFor
  <2>4. ~gaveUp => initialPos = NoPose
    BY <2>3
  <2> QED
    BY <2>1, <2>3, <2>4
<1>2. CASE ServerStep
  <2>1. /\ worldPoseCmd # NoPose => child' = worldPoseCmd /\ sentTo' = worldPoseCmd
        /\ child = NoPose /\ ~queued /\ worldPoseCmd = NoPose => child' = NoPose
        /\ child # NoPose \/ queued => child' # NoPose
    BY <1>2, ParachuteAssumption DEF ServerStep, TypeInv, TypeOK
  <2> QED
    BY <1>2, <2>1 DEF ServerStep
<1>3. CASE BeginPreUpdate
  <2>1. ~gaveUp /\ initialPos # NoPose /\ ~attached => AttachDue /\ parachuteCreated
    BY DEF AttachDue, TypeInv, AskedFor, Configured
  <2> QED
    BY <1>3, <2>1 DEF BeginPreUpdate, AttachDue
<1>4. CASE Create
  <2>1. PICK answer \in Outcomes :
          /\ parachuteCreated' = (answer = "created")
          /\ shouldAttach' = (answer = "created")
          /\ queued' = (answer \in {"created", "timedOutLater"})
          /\ gaveUp' = (gaveUp \/ answer \in {"timedOut", "timedOutLater"})
    BY <1>4 DEF Create
  <2>2. CASE answer = "created"
    BY <1>4, <2>1, <2>2 DEF Create
  <2>3. CASE answer \in {"timedOut", "timedOutLater"}
    BY <2>1, <2>3
  <2>4. CASE answer \notin {"created", "timedOut", "timedOutLater"}
    BY <1>4, <2>1, <2>4 DEF Create
  <2> QED
    BY <2>2, <2>3, <2>4
<1>5. CASE ChildAbsent
  BY <1>5 DEF ChildAbsent
<1>6. CASE ChildPresent
  BY <1>6, JoinFollows
<1>7. CASE Latch
  BY <1>7 DEF Latch, LatchDue
<1>8. CASE Clear
  BY <1>8 DEF Clear, ClearRequest
<1>9. CASE UNCHANGED vars
  BY <1>9 DEF vars
<1> QED
  BY <1>1, <1>2, <1>3, <1>4, <1>5, <1>6, <1>7, <1>8, <1>9, <1>10
  DEF Next, PreUpdate

\* Unless a creation timed out, the parachute is joined where the vehicle last
\* was, neither where it was created nor where it fell to.
THEOREM JoinedInPlace == Spec => []JoinedAtVehicle
<1>1. Following => JoinedAtVehicle
  BY DEF Following, JoinedAtVehicle
<1> QED
  BY <1>1, TypeInit, TypeStep, FollowingInit, FollowingStep, PTL DEF Spec

----------------------------------------------------------------------------
(* What becomes of a request.                                               *)

\* A request that has been latched is pursued until the parachute is joined or its
\* creation fails.
Pursued ==
  /\ parachuteCreated => shouldAttach \/ attached
  /\ pc = "create" => ~parachuteCreated /\ shouldAttach
  /\ pc = "clear" => shouldAttach

\* attachRequested is cleared only once it has been latched, whenever commands come.
NotLost == attachRequested /\ ~attachRequested' => shouldAttach'
\* The latch is taken back only by the joint or by a failed creation.
NotDropped == shouldAttach /\ ~shouldAttach' => attached' \/ ~parachuteCreated'
\* No second parachute is asked for.
CreatedOnce == parachuteCreated => parachuteCreated'
\* No second joint is made, and none is undone.
JoinedOnce == joint # NoJoint => joint' = joint /\ attached'

RequestStep == NotLost /\ NotDropped /\ CreatedOnce /\ JoinedOnce

LEMMA PursuedStep ==
  TypeInv /\ Pursued /\ [Next]_vars => Pursued' /\ (RequestStep \/ UNCHANGED vars)
<1> SUFFICES ASSUME TypeInv, Pursued, [Next]_vars
             PROVE  Pursued' /\ (RequestStep \/ UNCHANGED vars)
  OBVIOUS
<1> USE DEF Pursued, RequestStep, NotLost, NotDropped, CreatedOnce, JoinedOnce, config,
            plugin, world, history
<1>0. attached = (joint # NoJoint) /\ (pc \in {"create", "attach"} => ~attached)
  BY DEF TypeInv, TypeOK, Attaching
<1>1. CASE Configure \/ OnCommand \/ ServerStep
  <2>1. CASE Configure
    BY <1>0, <2>1 DEF Configure
  <2>2. CASE OnCommand
    BY <1>0, <2>2 DEF OnCommand
  <2>3. CASE ServerStep
    <3>1. pc' = "update" /\ UNCHANGED <<attachRequested, plugin>>
      BY <2>3 DEF ServerStep
    <3> QED
      BY <1>0, <3>1
  <2> QED
    BY <1>1, <2>1, <2>2, <2>3
<1>2. CASE BeginPreUpdate
  BY <1>0, <1>2 DEF BeginPreUpdate, AttachDue
<1>3. CASE Create
  <2>1. PICK answer \in Outcomes :
          /\ parachuteCreated' = (answer = "created")
          /\ shouldAttach' = (answer = "created")
    BY <1>3 DEF Create
  <2> QED
    BY <1>0, <1>3, <2>1 DEF Create
<1>4. CASE ChildAbsent
  BY <1>0, <1>4 DEF ChildAbsent
<1>5. CASE ChildPresent
  <2>1. ~attached /\ joint = NoJoint
    BY <1>0, <1>5 DEF ChildPresent
  <2>2. CASE hasChildLink /\ modelOk'
    BY <1>5, <2>1, <2>2 DEF ChildPresent, Join
  <2>3. CASE ~(hasChildLink /\ modelOk')
    BY <1>5, <2>1, <2>3 DEF ChildPresent
  <2> QED
    BY <2>2, <2>3
<1>6. CASE Latch
  BY <1>0, <1>6 DEF Latch, LatchDue
<1>7. CASE Clear
  BY <1>0, <1>7 DEF Clear, ClearRequest
<1>8. CASE UNCHANGED vars
  BY <1>8 DEF vars
<1> QED
  BY <1>1, <1>2, <1>3, <1>4, <1>5, <1>6, <1>7, <1>8 DEF Next, PreUpdate

\* However commands interleave with the last statements of PreUpdate (lines 368-375), none is
\* cleared unlatched; what was latched is dropped only by a failed creation; and there is
\* one parachute, joined once and for all.
THEOREM RequestKept == Spec => [][RequestStep]_vars
<1>1. Init => Pursued
  BY DEF Init, Pursued
<1>2. TypeInv /\ Pursued /\ [Next]_vars => Pursued' /\ [RequestStep]_vars
  BY PursuedStep
<1> QED
  BY <1>1, <1>2, TypeInit, TypeStep, PTL DEF Spec

\* A parachute that was created is joined or still to be joined, in every state: an abort
\* half-way never leaves it to fall for good, unless the answer to its creation was lost.
THEOREM CreatedIsPursued == Spec => [](parachuteCreated => shouldAttach \/ attached)
<1>1. Init => Pursued
  BY DEF Init, Pursued
<1>2. TypeInv /\ Pursued /\ [Next]_vars => Pursued'
  BY PursuedStep
<1>3. Pursued => (parachuteCreated => shouldAttach \/ attached)
  BY DEF Pursued
<1> QED
  BY <1>1, <1>2, <1>3, TypeInit, TypeStep, PTL DEF Spec
=============================================================================
