-------------------------- MODULE ParachutePlugin --------------------------
(***************************************************************************)
(* The release of a parachute (src/src/ParachutePlugin.cc).  Configure     *)
(* checks what the plugin needs and subscribes.  A command on the topic    *)
(* asks for the release; PreUpdate then has the server create the model of *)
(* the parachute, moves it to the vehicle, and joins the two once it got   *)
(* there.                                                                  *)
(*                                                                         *)
(* Three parties interleave: the transport thread in OnCommand, PreUpdate  *)
(* (in parts, since the creation request blocks for up to 5 s, and since   *)
(* its last three statements race with OnCommand), and the server, which   *)
(* creates models and moves everything between two updates.                *)
(*                                                                         *)
(* Abstractions: poses are model values and <child_pose> is the identity.  *)
(* A command of 0.9 or less changes nothing and is left out.               *)
(***************************************************************************)
EXTENDS Naturals

CONSTANTS
  Poses,        \* where a model can be
  Spawn,        \* where the server puts a new model
  NoPose,
  NoJoint,      \* kNullEntity
  Outcomes      \* what the creation service may answer

ASSUME ParachuteAssumption ==
  /\ Spawn \in Poses /\ NoPose \notin Poses
  /\ NoJoint \notin [child : Poses, sentTo : Poses \cup {NoPose}]
  /\ Outcomes \subseteq {"created", "refused", "timedOut", "timedOutLater"}

VARIABLES
  hasChildLink,                      \* the model to be created has <child_link>
  validConfig,
  pc,                                \* part of the update
  attachRequested, shouldAttach, attached, parachuteCreated, modelOk,
  initialPos,                        \* NoPose: initPosSaved is false
  joint,                             \* detachableJointEntity: where the models
                                     \* were when they were joined
  queued,                            \* the server has a creation to carry out
  vehicle,                           \* pose of the vehicle
  child,                             \* pose of the parachute, NoPose: none
  worldPoseCmd,                      \* pose the server is to give the child
  sentTo,                            \* history: the last pose it gave the child
  released,                          \* history: a command asked for the release
  gaveUp                             \* history: a request for creation timed out

config  == <<validConfig, hasChildLink>>
plugin  == <<shouldAttach, attached, parachuteCreated, modelOk, initialPos, joint>>
world   == <<queued, vehicle, child, worldPoseCmd, sentTo>>
history == <<released, gaveUp>>
vars == <<config, pc, attachRequested, plugin, world, history>>

Init ==
  /\ validConfig = FALSE /\ hasChildLink \in BOOLEAN
  /\ pc = "configure"
  /\ attachRequested = FALSE /\ shouldAttach = FALSE /\ attached = FALSE
  /\ parachuteCreated = FALSE /\ modelOk = FALSE
  /\ initialPos = NoPose /\ joint = NoJoint
  /\ queued = FALSE /\ vehicle = Spawn
  /\ child = NoPose /\ worldPoseCmd = NoPose /\ sentTo = NoPose
  /\ released = FALSE /\ gaveUp = FALSE

----------------------------------------------------------------------------
\* What Configure asks for; it returns at the first it misses.  (The links of
\* the parachute itself are looked for when there is one.)
Requirements == {"model", "world", "<parent_link>", "<child_model>", "<child_link>",
                 "parent link"}

Configure ==
  /\ pc = "configure" /\ pc' = "server"
  /\ \E met \in SUBSET Requirements : validConfig' = (met = Requirements)
  /\ UNCHANGED <<hasChildLink, attachRequested, plugin, world, history>>

\* Transport thread, a command above 0.9; Configure subscribes last.
OnCommand ==
  /\ validConfig
  /\ attachRequested' = TRUE /\ released' = TRUE
  /\ UNCHANGED <<config, pc, plugin, world, gaveUp>>

\* The server (external) carries out a creation, then moves the models: the
\* parachute to where it was told to be, else it falls or lies where it is.
ServerStep ==
  /\ pc = "server"
  /\ queued' = FALSE
  /\ worldPoseCmd' = NoPose
  /\ IF worldPoseCmd # NoPose THEN child' = worldPoseCmd /\ sentTo' = worldPoseCmd
     ELSE /\ child' \in IF child # NoPose THEN Poses
                        ELSE IF queued THEN {Spawn} ELSE {NoPose}
          /\ UNCHANGED sentTo
  /\ vehicle' \in Poses
  /\ pc' = "update"
  /\ UNCHANGED <<config, attachRequested, plugin, history>>

----------------------------------------------------------------------------
(* PreUpdate.                                                               *)

AttachDue == validConfig /\ shouldAttach /\ ~attached

BeginPreUpdate ==
  /\ pc = "update"
  /\ pc' = IF ~AttachDue THEN "latch"
           ELSE IF parachuteCreated THEN "attach" ELSE "create"
  /\ UNCHANGED <<config, attachRequested, plugin, world, history>>

\* The answer to the creation request.  A request that timed out here may be
\* carried out all the same.  Neither failure ends PreUpdate.
Create ==
  /\ pc = "create"
  /\ \E answer \in Outcomes :
       /\ parachuteCreated' = (answer = "created")
       /\ shouldAttach' = (answer = "created")
       /\ queued' = (answer \in {"created", "timedOutLater"})
       /\ gaveUp' = (gaveUp \/ answer \in {"timedOut", "timedOutLater"})
  /\ pc' = "attach"
  /\ UNCHANGED <<config, attachRequested, attached, modelOk, initialPos, joint,
                 vehicle, child, worldPoseCmd, sentTo, released>>

\* No parachute model is in the world yet.
ChildAbsent ==
  /\ pc = "attach" /\ child = NoPose
  /\ pc' = "latch"
  /\ UNCHANGED <<config, attachRequested, plugin, world, history>>

\* The parachute is told to be at the vehicle and is ready once it has left the
\* pose it was first seen at.
ReadyAtOnce == modelOk' = TRUE                                      \* mutant
Ready == modelOk' = (modelOk \/ initialPos' # child)

JoinUnmarked ==                                                     \* mutant
  /\ joint' = [child |-> child, sentTo |-> sentTo]
  /\ shouldAttach' = FALSE /\ UNCHANGED attached
Join ==
  /\ joint' = [child |-> child, sentTo |-> sentTo]
  /\ shouldAttach' = FALSE /\ attached' = TRUE

ChildPresent ==
  /\ pc = "attach" /\ child # NoPose
  /\ worldPoseCmd' = vehicle
  /\ initialPos' = IF initialPos = NoPose THEN child ELSE initialPos
  /\ Ready
  /\ IF hasChildLink /\ modelOk'
     THEN Join
     ELSE UNCHANGED <<joint, attached, shouldAttach>>
  /\ pc' = "latch"
  /\ UNCHANGED <<config, attachRequested, parachuteCreated, queued, vehicle, child,
                 sentTo, history>>

\* The last three statements of PreUpdate.
LatchUnasked == joint = NoJoint /\ ~shouldAttach                    \* mutant
LatchDue == attachRequested /\ joint = NoJoint /\ ~shouldAttach

Latch ==
  /\ pc = "latch"
  /\ IF LatchDue THEN shouldAttach' = TRUE /\ pc' = "clear"
     ELSE UNCHANGED shouldAttach /\ pc' = "server"
  /\ UNCHANGED <<config, attachRequested, attached, parachuteCreated, modelOk,
                 initialPos, joint, world, history>>

ClearAndForget == attachRequested' = FALSE /\ shouldAttach' = FALSE \* mutant
ClearRequest   == attachRequested' = FALSE /\ UNCHANGED shouldAttach

Clear ==
  /\ pc = "clear"
  /\ ClearRequest
  /\ pc' = "server"
  /\ UNCHANGED <<config, attached, parachuteCreated, modelOk, initialPos, joint,
                 world, history>>

----------------------------------------------------------------------------
PreUpdate ==
  BeginPreUpdate \/ Create \/ ChildAbsent \/ ChildPresent \/ Latch \/ Clear

Next == Configure \/ OnCommand \/ ServerStep \/ PreUpdate

\* The server steps for ever.  The release command is repeated: the COMMAND
\* control of ArduPilotPlugin publishes it in every update.  The service does
\* not fail for ever.
Fairness ==
  /\ WF_vars(Configure) /\ WF_vars(ServerStep) /\ WF_vars(PreUpdate) /\ WF_vars(OnCommand)
  /\ SF_vars(Create /\ parachuteCreated')

Spec == Init /\ [][Next]_vars /\ Fairness

----------------------------------------------------------------------------
(* Properties.                                                              *)

\* The state has the declared types, and a joint is what `attached` says.
TypeOK ==
  /\ pc \in {"configure", "server", "update", "create", "attach", "latch", "clear"}
  /\ {validConfig, hasChildLink, attachRequested, shouldAttach, attached,
      parachuteCreated, modelOk, queued, released, gaveUp} \subseteq BOOLEAN
  /\ {initialPos, child, worldPoseCmd, sentTo} \subseteq Poses \cup {NoPose}
  /\ vehicle \in Poses
  /\ joint \in [child : Poses, sentTo : Poses \cup {NoPose}] \cup {NoJoint}
  /\ attached <=> joint # NoJoint

\* A parachute is created, moved or attached only if a command asked for it,
\* however the callback and the parts of PreUpdate interleave.
OnlyIfReleased == queued \/ child # NoPose \/ joint # NoJoint => released

\* The parachute is joined where the vehicle last was, not where it was created
\* or where it fell to (ParachutePlugin.cc:116, "the parachute pose is set and it
\* is ready to attach"), unless a request for its creation has timed out.
JoinedAtVehicle ==
  joint # NoJoint /\ ~gaveUp => joint.child = joint.sentTo

\* A release leads to an attached parachute: neither a refused nor a timed out
\* creation is the last word, and no command is lost for good.  (A vehicle that
\* stays at the very pose its parachute was first seen at never gets it.)
ReleaseHonoured ==
  hasChildLink /\ []<>(vehicle # initialPos)
    => (released ~> attached)
=============================================================================
