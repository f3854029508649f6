-------------------------- MODULE CameraZoomPlugin --------------------------
(***************************************************************************)
(* Camera zoom (src/src/CameraZoomPlugin.cc).  Configure checks what the   *)
(* plugin needs and subscribes.  OnZoom stores a command and raises a      *)
(* flag; PreUpdate turns it into a goal and moves the camera's field of    *)
(* view towards the goal, slowly if a slew rate is given.                  *)
(*                                                                         *)
(* Three threads share the state without a lock: the transport thread      *)
(* (OnZoom), the simulation thread (PreUpdate, PostUpdate) and the         *)
(* rendering thread (OnRenderTeardown).  Each atomic access is a step.     *)
(*                                                                         *)
(* Slewing: PreUpdate takes the focal length F of the SDF, never writes it *)
(* (only the field of view h), and works out the width of the sensor from  *)
(* F and h anew.  With z = 1/tan(h/2) and r = slew_rate * dt / F it        *)
(* computes z' = z + min(z * r, zGoal - z) to zoom in and                  *)
(* z' = z - min(z * r, z - zGoal) to zoom out: a step is relative to the   *)
(* view it starts from, neither "meters" (line 142) of a sensor whose      *)
(* width is "static every iteration" (line 447) nor steps of equal size.   *)
(*                                                                         *)
(* Abstractions: a field of view is its place on a scale of log z, where 1 *)
(* is refHfov and relative steps add up: to zoom in adds at most           *)
(* log(1 + r), to zoom out takes away at most -log(1 - r), which has no    *)
(* bound from r = 1 on.  Every update has the same dt.  The sensor is a    *)
(* camera.                                                                 *)
(***************************************************************************)
EXTENDS Integers

CONSTANTS
  Zooms,        \* commands, any factor, by its place: a subset of Int
  MaxZooms,     \* the values of <max_zoom> considered
  SlewRates,    \* what an update may add (in) or take away (out), of any sign
  InitialZooms, \* places of <horizontal_fov> considered
  MaxCommands   \* bound: zoom commands of a run

minZoom == 1

ASSUME ZoomAssumption ==
  /\ Zooms \subseteq Int /\ InitialZooms \subseteq Int
  /\ MaxZooms \subseteq Nat \ {0} /\ SlewRates \subseteq [in : Int, out : Int]
  /\ MaxCommands \in Nat

VARIABLES
  maxZoom, slewRate,     \* the parameters of the SDF
  configured,            \* Configure subscribed and connected the callbacks
  isValidConfig,
  cameraName,            \* TRUE: PostUpdate has found the name
  rendering,             \* the render engine and its scene are up
  camera,                \* TRUE: the pointer to the rendering camera is set
  zoomCommand, zoomChanged,
  goal,                  \* goalHfov
  sdfFov,                \* HorizontalFov of the sensor's component
  cameraFov,             \* HFOV of the rendering camera
  pc, requestedZoomCmd,  \* simulation thread
  onZoom,                \* transport thread: TRUE between its two stores
  teardown,              \* rendering thread: what is left of OnRenderTeardown
  commands,              \* how many more commands will come
  raced                  \* history: a command came between load and clear

params   == <<maxZoom, slewRate, configured>>
commandVars == <<zoomCommand, zoomChanged, onZoom, commands>>
fovVars  == <<goal, sdfFov, cameraFov>>
simVars  == <<pc, requestedZoomCmd>>
sceneVars == <<isValidConfig, rendering, camera, teardown>>
vars == <<params, cameraName, commandVars, fovVars, simVars, sceneVars, raced>>

Init ==
  /\ maxZoom \in MaxZooms /\ slewRate \in SlewRates
  /\ configured = FALSE /\ isValidConfig = FALSE /\ cameraName = FALSE
  /\ rendering = FALSE /\ camera = FALSE
  /\ zoomCommand = 1 /\ zoomChanged = FALSE
  /\ goal = 1
  /\ sdfFov \in InitialZooms /\ cameraFov = sdfFov
  /\ pc = "configure" /\ requestedZoomCmd = 1
  /\ onZoom = FALSE /\ teardown = "no"
  /\ commands = MaxCommands /\ raced = FALSE

Clamp(v, lo, hi) == IF v < lo THEN lo ELSE IF v > hi THEN hi ELSE v

----------------------------------------------------------------------------
\* What Configure asks for; it returns at the first it misses.
Requirements == {"sensor", "name", "parent model", "world"}

Configure ==
  /\ pc = "configure" /\ pc' = "preUpdate"
  /\ \E met \in SUBSET Requirements :
       configured' = (met = Requirements) /\ isValidConfig' = (met = Requirements)
  /\ UNCHANGED <<maxZoom, slewRate, cameraName, commandVars, fovVars, requestedZoomCmd,
                 rendering, camera, teardown, raced>>

----------------------------------------------------------------------------
(* OnZoom: the command first, then the flag.                                *)

StoreCommand ==
  /\ configured /\ ~onZoom /\ commands > 0
  /\ zoomCommand' \in Zooms
  /\ commands' = commands - 1
  /\ onZoom' = TRUE
  /\ raced' = (raced \/ (pc = "goal" /\ zoomCommand' # requestedZoomCmd))
  /\ UNCHANGED <<params, cameraName, zoomChanged, fovVars, simVars, sceneVars>>

MarkIfWider == zoomChanged' = (zoomChanged \/ zoomCommand < requestedZoomCmd) \* mutant
MarkChanged == zoomChanged' = TRUE

RaiseFlag ==
  /\ onZoom
  /\ MarkChanged
  /\ onZoom' = FALSE
  /\ UNCHANGED <<params, cameraName, zoomCommand, commands, fovVars, simVars,
                 sceneVars, raced>>

----------------------------------------------------------------------------
(* The simulation thread.                                                   *)

CheckConfig ==
  /\ pc = "preUpdate"
  /\ pc' = IF isValidConfig THEN "camera" ELSE "postUpdate"
  /\ UNCHANGED <<params, cameraName, commandVars, fovVars, requestedZoomCmd,
                 sceneVars, raced>>

\* Without a camera this update only looks for one.
InitialiseCamera ==
  /\ pc = "camera" /\ ~camera
  /\ camera' = (rendering /\ cameraName)
  /\ pc' = "postUpdate"
  /\ UNCHANGED <<params, cameraName, commandVars, fovVars, requestedZoomCmd,
                 isValidConfig, rendering, teardown, raced>>

LoadCommand ==
  /\ pc = "camera" /\ camera
  /\ IF zoomChanged THEN requestedZoomCmd' = zoomCommand /\ pc' = "goal"
     ELSE UNCHANGED requestedZoomCmd /\ pc' = "slew"
  /\ UNCHANGED <<params, cameraName, commandVars, fovVars, sceneVars, raced>>

GoalUnclamped == goal' = requestedZoomCmd                           \* mutant
Goal == goal' = Clamp(requestedZoomCmd, minZoom, maxZoom)

SetGoal ==
  /\ pc = "goal"
  /\ Goal
  /\ zoomChanged' = FALSE
  /\ pc' = "slew"
  /\ UNCHANGED <<params, cameraName, zoomCommand, onZoom, commands, sdfFov, cameraFov,
                 requestedZoomCmd, sceneVars, raced>>

\* Towards the goal and no further.  A slew rate below 0, which Configure does not
\* refuse, leads away from it.
Least(a, b) == IF a <= b THEN a ELSE b                   \* std::min

SlewPast ==                                                         \* mutant
  IF goal > sdfFov THEN sdfFov + slewRate.in ELSE sdfFov - slewRate.out
NewFov ==
  IF goal > sdfFov THEN sdfFov + Least(slewRate.in, goal - sdfFov)
                   ELSE sdfFov - Least(slewRate.out, sdfFov - goal)

Slew ==
  /\ pc = "slew"
  /\ IF sdfFov = goal THEN UNCHANGED sdfFov /\ pc' = "postUpdate"
     ELSE sdfFov' = NewFov /\ pc' = "render"
  /\ UNCHANGED <<params, cameraName, commandVars, goal, cameraFov, requestedZoomCmd,
                 sceneVars, raced>>

RenderGoal == goal                                                  \* mutant
RenderFov  == sdfFov

\* The camera's pointer was tested at the start of the update.
SetHFOV ==
  /\ pc = "render"
  /\ IF camera THEN cameraFov' = RenderFov /\ pc' = "postUpdate"
     ELSE UNCHANGED cameraFov /\ pc' = "crashed"
  /\ UNCHANGED <<params, cameraName, commandVars, goal, sdfFov, requestedZoomCmd,
                 sceneVars, raced>>

PostUpdate ==
  /\ pc = "postUpdate"
  /\ cameraName' = TRUE
  /\ pc' = "preUpdate"
  /\ UNCHANGED <<params, commandVars, fovVars, requestedZoomCmd, sceneVars, raced>>

----------------------------------------------------------------------------
(* The rendering thread.                                                    *)

RenderingStarts ==
  /\ ~rendering /\ teardown = "no"
  /\ rendering' = TRUE
  /\ UNCHANGED <<params, cameraName, commandVars, fovVars, simVars, isValidConfig,
                 camera, teardown, raced>>

ResetCamera ==
  /\ configured /\ rendering /\ teardown = "no"
  /\ camera' = FALSE
  /\ teardown' = "disable"
  /\ UNCHANGED <<params, cameraName, commandVars, fovVars, simVars, isValidConfig,
                 rendering, raced>>

Disable ==
  /\ teardown = "disable"
  /\ isValidConfig' = FALSE
  /\ teardown' = "done"
  /\ UNCHANGED <<params, cameraName, commandVars, fovVars, simVars, rendering,
                 camera, raced>>

----------------------------------------------------------------------------
SimThread ==
  \/ CheckConfig \/ InitialiseCamera \/ LoadCommand \/ SetGoal \/ Slew \/ SetHFOV
  \/ PostUpdate
OnZoom == StoreCommand \/ RaiseFlag
OnRenderTeardown == ResetCamera \/ Disable

Finished == pc = "crashed" /\ UNCHANGED vars

Next == Configure \/ SimThread \/ OnZoom \/ RenderingStarts \/ OnRenderTeardown \/ Finished

\* The server goes on updating, a callback that began ends, rendering starts.
Fairness ==
  /\ WF_vars(Configure) /\ WF_vars(SimThread)
  /\ WF_vars(RaiseFlag) /\ WF_vars(RenderingStarts)

Spec == Init /\ [][Next]_vars /\ Fairness

----------------------------------------------------------------------------
(* Properties.                                                              *)

\* The state has the declared types; the goal keeps the limits of the zoom,
\* whatever is commanded.
TypeOK ==
  /\ {configured, isValidConfig, cameraName, rendering, camera, zoomChanged, onZoom, raced}
       \subseteq BOOLEAN
  /\ goal \in minZoom .. maxZoom
  /\ {zoomCommand, requestedZoomCmd} \subseteq Zooms \cup {1}
  /\ {sdfFov, cameraFov} \subseteq Int
  /\ pc \in {"configure", "preUpdate", "camera", "goal", "slew", "render", "postUpdate", "crashed"}
  /\ teardown \in {"no", "disable", "done"}
  /\ commands \in 0 .. MaxCommands

\* The rendering camera shows what the component says, between two updates.
CameraShowsSdf == pc = "preUpdate" => cameraFov = sdfFov

\* What the rendering camera shows closes in on the goal, never passes it, and
\* changes per update by no more than the factor 1 + r or 1 - r of what it showed
\* before, if the slew rate is not below 0.
Between(v, a, b) == (a <= v /\ v <= b) \/ (b <= v /\ v <= a)
ClosesIn ==
  [][ slewRate.in >= 0 /\ slewRate.out >= 0 =>
        /\ Between(cameraFov', cameraFov, goal)
        /\ cameraFov' \in cameraFov - slewRate.out .. cameraFov + slewRate.in ]_cameraFov

\* With a slew rate above 0, the last command reaches a camera that is configured, unless a
\* command raced with PreUpdate or rendering ends: the flag, raised after the command, loses
\* none otherwise.
LastCommandShows ==
  ( /\ slewRate.in > 0 /\ slewRate.out > 0
    /\ <>configured /\ [](teardown = "no" /\ ~raced) )
  => <>[](cameraFov = Clamp(zoomCommand, minZoom, maxZoom))

\* "Flag to mark if zoom command has changed" (CameraZoomPlugin.cc:124): while it
\* is down, and no callback or update is under way, the goal is the command.
FlagMarksChange ==
  pc = "preUpdate" /\ ~onZoom /\ ~zoomChanged
    => goal = Clamp(zoomCommand, minZoom, maxZoom)
=============================================================================
