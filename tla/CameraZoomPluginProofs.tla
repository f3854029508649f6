----------------------- MODULE CameraZoomPluginProofs -----------------------
(***************************************************************************)
(* Proofs of the safety properties of CameraZoomPlugin, for all limits,    *)
(* slew rates and commands.  That the two fields of view agree is          *)
(* inductive once it is said for every position of the simulation thread.  *)
(* ClosesIn needs it, and what the step of the component's view, which     *)
(* comes first, leaves for the rendering camera to show.                   *)
(***************************************************************************)
EXTENDS CameraZoomPlugin, TLAPS

\* What the parameters and the initial view are.
ParamsOK == maxZoom \in MaxZooms /\ slewRate \in SlewRates

TypeInv == TypeOK /\ ParamsOK

\* The two views differ only while the rendering camera is still to be set, or
\* was gone when it was to be set.
ViewsAgree == pc \notin {"render", "crashed"} => cameraFov = sdfFov

\* Clamped between ordered limits, a value is between them.
LEMMA ClampWithin ==
  ASSUME NEW v \in Int, NEW lo \in Int, NEW hi \in Int, lo <= hi
  PROVE  Clamp(v, lo, hi) \in lo .. hi
BY DEF Clamp

\* A command becomes a goal within the limits, whatever it is (lines 420-428).
LEMMA GoalInLimits ==
  ASSUME TypeInv, Goal
  PROVE  goal' \in minZoom .. maxZoom
<1>1. requestedZoomCmd \in Int
  <2>1. requestedZoomCmd \in Zooms \cup {1}
    BY DEF TypeInv, TypeOK
  <2>2. Zooms \cup {1} \subseteq Int
    BY ZoomAssumption
  <2> QED
    BY <2>1, <2>2
<1>2. minZoom \in Int /\ maxZoom \in Int /\ minZoom <= maxZoom
  BY ZoomAssumption DEF TypeInv, ParamsOK, minZoom
<1> QED
  BY <1>1, <1>2, ClampWithin DEF Goal

\* The view v is closer to the goal than the view from is, and within a step of it.
Forward == slewRate.in >= 0 /\ slewRate.out >= 0
Closer(v, from) ==
  Between(v, from, goal) /\ v \in from - slewRate.out .. from + slewRate.in

LEMMA FovTypes ==
  ASSUME TypeInv
  PROVE  /\ sdfFov \in Int /\ cameraFov \in Int /\ goal \in Int
         /\ slewRate.in \in Int /\ slewRate.out \in Int
BY ZoomAssumption DEF TypeInv, TypeOK, ParamsOK, minZoom

\* A step ends between where it began and the goal, and is no longer than the slew
\* rate makes it (lines 438-475), unless that is below 0.
LEMMA NewFovCloser ==
  ASSUME TypeInv
  PROVE  NewFov \in Int /\ (Forward => Closer(NewFov, sdfFov))
<1>1. CASE goal > sdfFov
  BY <1>1, FovTypes DEF NewFov, Least, Between, Forward, Closer
<1>2. CASE ~(goal > sdfFov)
  BY <1>2, FovTypes DEF NewFov, Least, Between, Forward, Closer
<1> QED
  BY <1>1, <1>2

LEMMA TypeInit == Init => TypeInv
<1> SUFFICES ASSUME Init PROVE TypeInv
  OBVIOUS
<1>1. goal \in minZoom .. maxZoom
  BY ZoomAssumption DEF Init, minZoom
<1>2. {sdfFov, cameraFov} \subseteq Int
  BY ZoomAssumption DEF Init
<1>3. commands \in 0 .. MaxCommands
  BY ZoomAssumption DEF Init
<1> QED
  BY <1>1, <1>2, <1>3 DEF Init, TypeInv, TypeOK, ParamsOK

LEMMA TypeStep == TypeInv /\ [Next]_vars => TypeInv'
<1> SUFFICES ASSUME TypeInv, [Next]_vars PROVE TypeInv'
  OBVIOUS
<1> USE DEF TypeInv, TypeOK, ParamsOK, vars, params, commandVars, fovVars, simVars,
            sceneVars
<1>1. CASE StoreCommand
  <2>1. commands' \in 0 .. MaxCommands
    BY <1>1, ZoomAssumption DEF StoreCommand
  <2> QED
    BY <1>1, <2>1 DEF StoreCommand
<1>2. CASE RaiseFlag
  BY <1>2 DEF RaiseFlag, MarkChanged
<1>3. CASE CheckConfig
  BY <1>3 DEF CheckConfig
<1>4. CASE InitialiseCamera
  BY <1>4 DEF InitialiseCamera
<1>5. CASE LoadCommand
  BY <1>5 DEF LoadCommand
<1>6. CASE SetGoal
  <2>1. goal' \in minZoom .. maxZoom
    BY <1>6, GoalInLimits DEF SetGoal
  <2> QED
    BY <1>6, <2>1 DEF SetGoal
<1>7. CASE Slew
  <2>1. sdfFov' \in Int
    BY <1>7, NewFovCloser DEF Slew
  <2> QED
    BY <1>7, <2>1 DEF Slew
<1>8. CASE SetHFOV
  BY <1>8 DEF SetHFOV, RenderFov
<1>9. CASE PostUpdate
  BY <1>9 DEF PostUpdate
<1>10. CASE RenderingStarts
  BY <1>10 DEF RenderingStarts
<1>11. CASE ResetCamera
  BY <1>11 DEF ResetCamera
<1>12. CASE Disable
  BY <1>12 DEF Disable
<1>13. CASE UNCHANGED vars
  BY <1>13
<1>14. CASE Configure
  <2>1. configured' \in BOOLEAN /\ isValidConfig' \in BOOLEAN
    BY <1>14 DEF Configure
  <2> QED
    BY <1>14, <2>1 DEF Configure
<1> QED
  BY <1>1, <1>2, <1>3, <1>4, <1>5, <1>6, <1>7, <1>8, <1>9, <1>10, <1>11, <1>12, <1>13,
     <1>14
  DEF Next, SimThread, OnZoom, OnRenderTeardown, Finished

\* The state keeps its types, and the goal its limits, whatever is commanded.
THEOREM TypeCorrect == Spec => []TypeOK
<1>1. TypeInv => TypeOK
  BY DEF TypeInv
<1> QED
  BY <1>1, TypeInit, TypeStep, PTL DEF Spec

----------------------------------------------------------------------------
(* The two views.                                                           *)

LEMMA ViewsStep == TypeInv /\ ViewsAgree /\ [Next]_vars => ViewsAgree'
<1> SUFFICES ASSUME TypeInv, ViewsAgree, [Next]_vars PROVE ViewsAgree'
  OBVIOUS
<1> USE DEF ViewsAgree, vars, fovVars, simVars
<1>1. CASE Slew
  BY <1>1 DEF Slew
<1>2. CASE SetHFOV
  BY <1>2 DEF SetHFOV, RenderFov
<1>3. CASE OnZoom \/ RenderingStarts \/ OnRenderTeardown \/ UNCHANGED vars
  BY <1>3 DEF OnZoom, StoreCommand, RaiseFlag, RenderingStarts, OnRenderTeardown,
              ResetCamera, Disable
<1>4. CASE Configure \/ CheckConfig \/ InitialiseCamera \/ LoadCommand \/ SetGoal \/ PostUpdate
  BY <1>4 DEF Configure, CheckConfig, InitialiseCamera, LoadCommand, SetGoal, PostUpdate
<1> QED
  BY <1>1, <1>2, <1>3, <1>4 DEF Next, SimThread, Finished

\* Between two updates the rendering camera shows what the component says.
THEOREM CameraCorrect == Spec => []CameraShowsSdf
<1>1. Init => ViewsAgree
  BY DEF Init, ViewsAgree
<1>2. ViewsAgree => CameraShowsSdf
  BY DEF ViewsAgree, CameraShowsSdf
<1> QED
  BY <1>1, <1>2, TypeInit, TypeStep, ViewsStep, PTL DEF Spec

\* What the rendering camera is about to show is closer to the goal.
StepDue == pc = "render" /\ Forward => Closer(sdfFov, cameraFov)

LEMMA StepDueKept == TypeInv /\ ViewsAgree /\ StepDue /\ [Next]_vars => StepDue'
<1> SUFFICES ASSUME TypeInv, ViewsAgree, StepDue, [Next]_vars PROVE StepDue'
  OBVIOUS
<1> USE DEF StepDue, Forward, vars, params, fovVars, simVars
<1>1. CASE Slew
  <2>1. UNCHANGED <<slewRate, goal, cameraFov>> /\ cameraFov = sdfFov
    BY <1>1 DEF Slew, ViewsAgree
  <2>2. pc' = "render" => sdfFov' = NewFov
    BY <1>1 DEF Slew
  <2> QED
    BY <2>1, <2>2, NewFovCloser DEF Closer, Between
<1>2. CASE SetHFOV
  BY <1>2 DEF SetHFOV
<1>3. CASE OnZoom \/ RenderingStarts \/ OnRenderTeardown \/ UNCHANGED vars
  BY <1>3 DEF OnZoom, StoreCommand, RaiseFlag, RenderingStarts, OnRenderTeardown,
              ResetCamera, Disable, Closer, Between
<1>4. CASE Configure \/ CheckConfig \/ InitialiseCamera \/ LoadCommand \/ SetGoal \/ PostUpdate
  BY <1>4 DEF Configure, CheckConfig, InitialiseCamera, LoadCommand, SetGoal, PostUpdate
<1> QED
  BY <1>1, <1>2, <1>3, <1>4 DEF Next, SimThread, Finished

\* Only SetHFOV changes what the rendering camera shows.
LEMMA StepClosesIn ==
  ASSUME StepDue, [Next]_vars, cameraFov' # cameraFov, Forward
  PROVE  Closer(cameraFov', cameraFov)
<1>1. SetHFOV
  BY DEF Next, Configure, SimThread, OnZoom, OnRenderTeardown, Finished, StoreCommand, RaiseFlag,
         CheckConfig, InitialiseCamera, LoadCommand, SetGoal, Slew, PostUpdate,
         RenderingStarts, ResetCamera, Disable, vars, fovVars
<1> QED
  BY <1>1 DEF SetHFOV, RenderFov, StepDue

\* Every update brings what the rendering camera shows towards the goal, never past
\* it, and by a step relative to what it showed before, for every slew rate that is
\* not below 0.
THEOREM ViewClosesIn == Spec => ClosesIn
<1>1. Init => ViewsAgree /\ StepDue
  BY DEF Init, ViewsAgree, StepDue
<1>2. StepDue /\ [Next]_vars =>
        [ slewRate.in >= 0 /\ slewRate.out >= 0 =>
            /\ Between(cameraFov', cameraFov, goal)
            /\ cameraFov' \in cameraFov - slewRate.out .. cameraFov + slewRate.in ]_cameraFov
  BY StepClosesIn DEF Closer, Forward
<1> QED
  BY <1>1, <1>2, TypeInit, TypeStep, ViewsStep, StepDueKept, PTL DEF Spec, ClosesIn

----------------------------------------------------------------------------
(* What it takes to lose a command, and to crash.                           *)

\* As long as no command raced with an update, the command that PreUpdate has loaded is
\* still the last one, and the flag is down only when the goal is the last command.
Loaded == pc = "goal" => requestedZoomCmd = zoomCommand
Marked ==
  pc # "goal" /\ ~onZoom /\ ~zoomChanged => goal = Clamp(zoomCommand, minZoom, maxZoom)
CommandInv == ~raced => Loaded /\ Marked

LEMMA CommandInit == Init => CommandInv
<1> SUFFICES ASSUME Init PROVE CommandInv
  OBVIOUS
<1>1. maxZoom \in Nat \ {0}
  BY ZoomAssumption DEF Init
<1>2. Clamp(1, minZoom, maxZoom) = 1
  BY <1>1 DEF Clamp, minZoom
<1> QED
  BY <1>2 DEF Init, CommandInv, Loaded, Marked

LEMMA CommandStep == TypeInv /\ CommandInv /\ [Next]_vars => CommandInv'
<1> SUFFICES ASSUME TypeInv, CommandInv, [Next]_vars, ~raced'
             PROVE  Loaded' /\ Marked'
  BY DEF CommandInv
<1> USE DEF vars, params, commandVars, fovVars, simVars, sceneVars
<1>1. CASE StoreCommand
  <2>1. ~raced /\ (pc = "goal" => zoomCommand' = requestedZoomCmd)
    BY <1>1 DEF StoreCommand, TypeInv, TypeOK
  <2> QED
    BY <1>1, <2>1 DEF StoreCommand, Loaded, Marked
<1>2. CASE ~StoreCommand
  <2>1. ~raced
    BY <1>2 DEF Next, Configure, SimThread, OnZoom, OnRenderTeardown, Finished, RaiseFlag,
       CheckConfig, InitialiseCamera, LoadCommand, SetGoal, Slew, SetHFOV, PostUpdate,
       RenderingStarts, ResetCamera, Disable
  <2>2. Loaded /\ Marked
    BY <2>1 DEF CommandInv
  <2>3. CASE RaiseFlag
    BY <2>2, <2>3 DEF RaiseFlag, MarkChanged, Loaded, Marked
  <2>4. CASE LoadCommand
    BY <2>2, <2>4 DEF LoadCommand, Loaded, Marked
  <2>5. CASE SetGoal
    BY <2>2, <2>5 DEF SetGoal, Goal, Loaded, Marked
  <2>6. CASE Slew \/ SetHFOV
    BY <2>2, <2>6 DEF Slew, SetHFOV, Loaded, Marked
  <2>7. CASE Configure \/ CheckConfig \/ InitialiseCamera \/ PostUpdate
    BY <2>2, <2>7 DEF Configure, CheckConfig, InitialiseCamera, PostUpdate, Loaded, Marked
  <2>8. CASE RenderingStarts \/ OnRenderTeardown \/ UNCHANGED vars
    BY <2>2, <2>8 DEF RenderingStarts, OnRenderTeardown, ResetCamera, Disable, Loaded, Marked
  <2> QED
    BY <1>2, <2>3, <2>4, <2>5, <2>6, <2>7, <2>8 DEF Next, SimThread, OnZoom, Finished
<1> QED
  BY <1>1, <1>2

\* "Flag to mark if zoom command has changed" (line 124) is true until a command comes
\* between the load of the last one and the clearing of the flag: there is no other way to
\* lose one.
THEOREM FlagMarksChangeUnlessRaced == Spec => [](~raced => FlagMarksChange)
<1>1. CommandInv => (~raced => FlagMarksChange)
  BY DEF CommandInv, Marked, FlagMarksChange
<1> QED
  BY <1>1, TypeInit, TypeStep, CommandInit, CommandStep, PTL DEF Spec

\* An update past the test of the camera pointer has the camera, or rendering ends; a
\* crash is the use of a pointer that was reset.
Torn == teardown # "no"
CameraInv ==
  /\ pc \in {"goal", "slew", "render"} => camera \/ Torn
  /\ pc = "crashed" => ~camera /\ Torn

LEMMA CameraStep == CameraInv /\ [Next]_vars => CameraInv'
<1> SUFFICES ASSUME CameraInv, [Next]_vars PROVE CameraInv'
  OBVIOUS
<1> USE DEF CameraInv, Torn, vars, sceneVars, simVars
<1>1. CASE Configure \/ CheckConfig \/ InitialiseCamera \/ PostUpdate
  BY <1>1 DEF Configure, CheckConfig, InitialiseCamera, PostUpdate
<1>2. CASE LoadCommand \/ SetGoal \/ Slew \/ SetHFOV
  BY <1>2 DEF LoadCommand, SetGoal, Slew, SetHFOV
<1>3. CASE OnZoom \/ RenderingStarts \/ UNCHANGED vars
  BY <1>3 DEF OnZoom, StoreCommand, RaiseFlag, RenderingStarts
<1>4. CASE OnRenderTeardown
  BY <1>4 DEF OnRenderTeardown, ResetCamera, Disable
<1> QED
  BY <1>1, <1>2, <1>3, <1>4 DEF Next, SimThread, Finished

\* PreUpdate uses a camera pointer that is not set (line 485) only when the end of rendering
\* has reset it since the test at the start of that update.
THEOREM CrashOnlyAfterTeardown == Spec => [](pc = "crashed" => ~camera /\ teardown # "no")
<1>1. Init => CameraInv
  BY DEF Init, CameraInv
<1>2. CameraInv => (pc = "crashed" => ~camera /\ teardown # "no")
  BY DEF CameraInv, Torn
<1> QED
  BY <1>1, <1>2, CameraStep, PTL DEF Spec
=============================================================================
