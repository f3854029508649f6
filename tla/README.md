# Verification of the ArduPilot Gazebo plugins

TLA+ specifications of the four plugins of this repository, the TLC runs that model-check them on small
instances, and TLAPS proofs of their safety properties for every value of the constants. Line numbers are those of
the files under `src/` of this repository (`A` = `src/src/ArduPilotPlugin.cc`).

## 1. The system

`ArduPilotPlugin` couples a Gazebo simulation with an ArduPilot flight controller that runs as software in the
loop (SITL). In every update of the simulation it waits for a servo packet on a UDP socket, turns its PWM values
into joint forces, lets the physics move the world, and sends the resulting vehicle state back as JSON. Three
smaller plugins serve payloads; they receive their commands on transport topics, usually from a `COMMAND` control
of `ArduPilotPlugin`.

| Component | State | Operations | Called by |
|---|---|---|---|
| SITL exchange (`A` 1130-1635, 1717-1745) | `arduPilotOnline`, `connectionTimeoutCount`, `fcu_frame_count`, `fcu_address`, `json_str`, `lastControllerUpdateTime`, IMU flags, `signal` | `PreUpdate`, `ReceiveServoPacket`, `getServoPacket`, `SendState`, `PostUpdate`, `ResetPIDs`, `Reset`, `ImuCb`, `OnSignal` | simulation thread, transport thread, signal handler |
| Motor control (`A` 1303-1416, 1637-1712) | per control: `cmd`, `outputReady`, `pid`; joint commands | `UpdateMotorCommands`, `ApplyMotorForces` | the exchange |
| Set-up (`A` 214-310, 443-1197, `Util.cc`) | `controls`, `ranges`, `rangeCbs`, `imuName`, `anemometerName`, `calledInitAnemometerOnce`, `isLockStep` | constructor, `Configure`, `LoadControlChannels`, `LoadRangeSensors`, `RangeCb`, `InitSockets`, look-ups, destructor | server, transport thread |
| Socket (`SocketUDP.cc`) | `fd`, `in_addr` | constructor, `bind`, destructor; `recv`, `pollin`, `sendto`, `get_client_address` | set-up; exchange |
| JSON state (`A` 1747-2010) | `json_str` | `CreateStateJSON` | `PostUpdate` |
| `ParachutePlugin.cc` | `validConfig`, `attachRequested`, `shouldAttach`, `attached`, `parachuteCreated`, `modelOk`, joint | `Configure`, `OnCommand`, `PreUpdate` | transport thread, simulation thread |
| `CameraZoomPlugin.cc` | `isValidConfig`, `zoomCommand`, `zoomChanged`, `goalHfov`, camera | `Configure`, `OnZoom`, `PreUpdate`, `PostUpdate`, `OnRenderTeardown` | transport, simulation, rendering threads |
| `GstCameraPlugin.cc` | `requestedStartStreaming`, `isGstMainLoopActive`, `threadId`, `gst_loop`, `source`, camera | `Configure`, `PreUpdate`, `OnVideoStreamEnable`, `OnImage`, `OnRenderTeardown`, `StartStreaming`, `StopStreaming`, `StartGstThread` | transport and rendering threads, streaming threads |
| `SelectionBuffer.hh`, models, worlds, scripts | none | none | |

**What is hard.** The exchange is a protocol over a lossy, reordering network between two parties that wait for each
other: in lock-step the simulation waits without a bound (`A` 1206). Its state survives duplicates, timeouts, restarts
of the controller and resets of the world. The payload plugins share plain or atomic members between threads without
locks, in sequences (store the command, raise the flag; test the flag, start the thread, clear the flag) that
interleave. The vehicles of one server are configured one after the other while messages for the earlier ones arrive;
they share the process's table of open files, a `static` flag, entity names and ports, and a vehicle whose set-up
failed is updated all the same. `PROJECT.json` lists each hazard at its line, with the property that would catch it or
the reason that none does.

**What makes each component correct.**

- Exchange: in lock-step the physics moves only against a new servo frame; nobody waits for ever; going offline
  zeroes the motors with it; a resend is the state of the last exchange; a command and its frame count go together.
- Set-up: each vehicle gets the controls its SDF lists, its own joints, sensors, range fields and socket, and finds its
  controller, whatever fails for another vehicle.
- Motor control: all motors obey one packet, within their configured range, and silence means no servo output.
- Parachute: none without a command, attached at the vehicle, and a release is honoured in the end.
- Zoom: the view approaches the goal within its limits and the last command is the one shown.
- Streaming: one stream at a time, an asked-for stream is started, and stopping it returns.

## 2. Modules

| Module | Models | Kind |
|---|---|---|
| `LockStep` | what lock-step promises: world and controller take turns | abstract specification |
| `ServoLink` | what the receiving half promises: when commands are loaded, kept and dropped | abstract specification |
| `ArduPilotPlugin` | the exchange, with flight controller, network, server and user as environment | detailed specification |
| `ArduPilotPluginProofs` | theorems on the exchange, and that it implements `LockStep` and `ServoLink` | proofs |
| `ArduPilotPluginCauses` | the causes of findings 1-3, and the order of frames; EXTENDS `ArduPilotPluginProofs` | proofs |
| `MotorControl` | from PWM to joint commands | specification |
| `MotorControlProofs` | theorems on motor control, and that it implements `ServoLink` | proofs |
| `EntityNames` | the look-ups by name of `Util.cc`, as pure operators | definitions |
| `Startup` | the vehicles of a server from constructor to destructor; EXTENDS `EntityNames` | specification |
| `StartupProofs` | theorems on set-up | proofs |
| `StartupCauses` | failed binds, double closes and crashes of callbacks; EXTENDS `StartupProofs` | proofs |
| `ParachutePlugin`, `CameraZoomPlugin`, `GstCameraPlugin` | the payload plugins | specifications |
| `ParachutePluginProofs`, `CameraZoomPluginProofs`, `GstCameraPluginProofs` | theorems on the payload plugins | proofs |
| `MC*` | constants of the TLC runs | instances |

**`ArduPilotPlugin`.** `pc` is the position of the simulation thread: `idle` (between updates), `recv` (the blocking
receive of `getServoPacket`), `drain` (its non-blocking receives), `servo` (what `ReceiveServoPacket` does with the
datagram it holds), `update` (the rest of `PreUpdate`, then the physics), `post` (`PostUpdate`). Each early return of
`ReceiveServoPacket` is an action: `MissOffline`, `MissCounted`, `MissTimeout`, `BadMagic`, `DuplicateFrame`,
`AcceptFrame`; `Return` is the loop of `PreUpdate` that retries in lock-step. The environment sends a numbered packet,
repeats it while no state comes, and counts on when one does; it may restart on another port, and datagrams may be
lost, overtaken or foreign. A packet is its sender, frame count and whether its magic is right; a state is the time
it was built at; a motor command is the frame it came from. The frame counter keeps its two widths: 32 bits sent
and stored, cut to 16 bits on the way (`A` 1580-1583).

**`ServoLink`** is where `ArduPilotPlugin` and `MotorControl` meet. The first has the packets and knows of a command only
which frame it came from; the second has the commands and knows of a receive only its outcome. Both are shown to
implement the same three actions over the same four variables: connected, the frame count of the last new packet, the
commands that packet asks for, and those that are loaded. `Accept` takes a packet whose count differs from the last
one and loads exactly what it asks for; `Repeat` changes no command, also where it brings a connection back; `Lose`
drops them all. The refinement mappings are the `Servo` instances. In the exchange what a packet asks for is its frame;
in `MotorControl` it is the command each control works out from the packet's PWM values, and all commands at 0 are
"nothing loaded". A duplicate that loads commands violates both (the mutants `LoadDuplicate`, `ReloadCommands`).

**`Startup`.** The server thread is at `idle`, in `Configure` (`configure`, `controls`, `sensors`, `grow`, `bind`), in
`PreUpdate` of vehicle `cur` (`preUpdate`, `imu`) or in its destructor (`destroy`). `LoadControl` loads one block of
SDF with all its defaults (those of the gains are the ones `Control`'s constructor gives its PID, `A` 93, in tenths);
`ControlsDone` is also the early return at a missing joint, after which `Configure`
goes on. `Subscribe` and `AppendSlot` are the two halves of a turn of the loop of `LoadRangeSensors`, since a callback
that is already subscribed may run between them; `push_back` may copy the vector in between (`grown`), and what the
callback then wrote is lost or not. A callback for a slot that does not exist is undefined: the message is lost or
the server crashes. `OpenSocket` takes any free descriptor, `CloseUnbound` frees the one of a failed bind without
forgetting its number, `Waiting` is the queue of whatever file has the number now, and `DestroySocket` closes whatever
file has it then. The members are destroyed in two steps, because `ranges` goes before the `node` with the
subscriptions. The exchange is reduced to whose packets a vehicle takes, and whether it waits for one.

**`EntityNames`.** An entity is the path of names that leads to it. `SensorsByName` tries the scoped name first and then
every descendant; `JointsByName` has scoped names only and wants a joint. A look-up is the set of what is found;
`Startup` takes any element of it, as the code takes `begin()` of an unordered set.

**`MotorControl`.** The outcome of a receive (`AcceptFrame`, `DuplicateFrame`, `NothingNew`, `ConnectionLost`) replaces
the protocol; of the frame count is left that a new packet's differs from the last one's.
`Raw` maps the PWM to the servo range, reversed or not, in units of its span; `Command` adds offset and multiplier.
`ApplyMotorForces` has one predicate per branch of the code (`Relays`, `ByPid`, `ByEffort`, `ByRate`, `WritesNull`).
The PID is gz-math's P and I terms with their limits, which are off where they are crossed (`Limit`).

**`ParachutePlugin`.** `Configure` checks its requirements one by one; any that is not met leaves `validConfig` down, and
`PreUpdate` then does nothing. `PreUpdate` is cut where it can be interleaved: before and after the blocking creation
request, and between the three reads and writes of its last statement, which race with `OnCommand`. The server
(external) carries out creations and pose commands in the step after the update.

**`CameraZoomPlugin`.** Each atomic access is a step: `OnZoom` stores, then raises the flag; `PreUpdate` tests the
flag and loads, sets the goal and clears the flag, slews, sets the rendering camera; `OnRenderTeardown` resets the
pointer and then disables the plugin. `Configure` is one step, like the parachute's. A field of view is its place on a
logarithmic scale of zoom factors. `PreUpdate` reads the focal length, never writes it, and works out the sensor's
width anew from the current view (`CameraZoomPlugin.cc` 445-480), so that a step multiplies the zoom factor by at most
1 + r, or divides it down to 1 - r of it, with r the slew rate times dt over that focal length: on the scale, it adds
at most `slewRate.in` or takes away at most `slewRate.out`. The header of the module derives this.

**`GstCameraPlugin`.** Each access to a shared member by the callbacks, the two callers of `StopStreaming` (a disable
message; the end of rendering or the destructor) and the streaming threads is a step. A main loop is named by the
thread that made it, so that the model sees when a caller quits one loop and joins another thread. `Configure` may find
a sensor, a nameless one or no sensor; `PreUpdate` subscribes when the topics are known and looks for the camera.
`StartStreaming` starts a thread, fails to (`StartRefused`: the result of `pthread_create` is ignored, and `threadId`
may be left with an id of no thread), or finds a flag that is still up (`StartSkipped`); the request is cleared after
all three. A main loop that cannot be made leaves `gst_loop` null (`FailEarly`).
The functions that build a pipeline report a failure to nobody, so the streaming thread may run its loop with a null
source (`BuildPipeline`).

## 3. Runs

| Run | Bounds | Shows |
|---|---|---|
| `exchange_safety` | counters of 3 and 6 values, 4 steps, any 3 faults | consistency of connection, command, stored state; lock-step; refinement of `ServoLink`, under up to three faults of any kind |
| `exchange_live` | counters of 6 and 12 values, 5 steps, 1 fault of the network | refinement of `LockStep`; the simulation proceeds; silence is noticed |
| `motor_control` | 5 lists of up to 4 controls, 2 channels, 4 PWM values, 2 frame counts, 4 steps | one packet, in range, silent unless ready; refinement of `ServoLink` |
| `startup` | 2 vehicles in 5 worlds, 2 descriptors, 4 port numbers, 2 range fields, 4 values of a missing index | own entities, listed controls, own range fields, anemometer, own socket; every vehicle connects |
| `parachute` | 3 poses, all four outcomes of a creation | none without a command, joined at the vehicle, release honoured |
| `camera_zoom` | commands -1..6, two limits, three pairs of steps, 2 commands | goal clamped, no overshoot, views agree, last command shown |
| `gst_streaming` | 3 threads, 3 commands | active flag has a thread, one stream, a request starts a thread, stopping returns |
| `reply_address` | violation | the plugin goes online with no reply address |
| `empty_state` | violation | an empty datagram is sent before the first IMU message |
| `world_reset` | violation | after a world reset the simulation runs ahead of the controller |
| `failed_bind` | violation | a vehicle that "aborts" takes the next vehicle's packets |
| `zoom_flag` | violation | a command that arrives while one is taken over is lost |

**Bounds and why they suffice.** Two peers are one controller and its restart on a new port. The counters have 3 and 6
values in the safety run (wrap, truncation and a duplicate all occur within three steps); in the liveness run they have
6 and 12, because with fewer values than datagrams in flight plus one a *different* frame would look like a duplicate,
which 65536 values rule out here as in the code. The queue holds two datagrams: one to be taken by the first receive and
one by the drain loop. `<connectionTimeoutMaxCount>` is 1, so that counting, the limit and the timeout differ. The
payload bounds are named constants of each module (`MaxCommands`, `Threads`, `MaxTime`); the five worlds of `MCStartup`
are two complete vehicles with the same entity names, two on one port that both want an anemometer, and every kind of
failed look-up (no model, no IMU, an IMU that is no sensor, a joint that is a link, an unnumbered range sensor, a port
that is cut to that of the other vehicle); the lists of blocks hold each default and conversion of `LoadControlChannels`
once. The PIDs of `motor_control` have limits about 0, limits that are off, and limits that leave 0 out, since nothing
checks them (`A` 764-796). With two vehicles a descriptor is reused, closed twice and shared, all that the table of
files can do to a pair. Three streaming threads are a stream, its successor and one that was started twice. In
`exchange_live` a run ends when its five steps are simulated, and progress means to get there; the payload modules that
count commands go on for ever once the commands are used up, so that what must happen in the end has unbounded time to
happen.

**Fairness.** The server calls the plugins step after step (`WF` of the simulation thread). In the exchange a live
controller keeps sending and reading (`WF`), not every datagram is late (`SF` of `FirstRecv`: `pollin` waits for a
whole timeout), and the drain loop ends because the plugin reads faster than the controller, which waits for a state,
can send (`SF` of `Drained`). No fault is ever required to happen or not to. The release command is repeated
(`ArduPilotPlugin` publishes a `COMMAND` control in every update) and the creation service does not fail for ever
(`SF`). In `Startup` the server goes on configuring, updating and destroying (`WF` of `Configure`, `PreUpdate`,
`DestroySocket`) and each flight controller sends again and again; nothing need ever be spawned, removed or measured.
`Configure` of the parachute and zoom plugins is called (`WF`); nothing is assumed of the streaming plugin's, since
what is promised there begins with a subscription. Images keep arriving and threads that can run do. In the liveness
run the controller is started after the first IMU message (`FcAwaitsImu`): without that, `SimulationProceeds` fails,
since a controller that gets only empty datagrams and a plugin that waits for its next frame wait for each other; that
is the second finding seen from the other side.

**Conditions in properties.** `LockStepped` excepts the updates after a world reset in which no exchange is due
(`LockSteppedAlways` is the finding). `JoinedAtVehicle` excepts runs with a creation that timed out: such a request may
be carried out later, and the parachute is then joined where it fell to. `ReleaseHonoured` asks that the vehicle is not
for ever at the pose its parachute was first seen at. `LastCommandShows` excepts a command that races with `PreUpdate`
(the finding), the end of rendering and slew rates that are not above 0; `ClosesIn` excepts those below 0, which lead
away from the goal and which `Configure` does not refuse. `OneStream` and `StopReturns` ask that each command waits
until the last took effect: an enable message before the first stream has set its flag starts a second one, and a stop
between `isGstMainLoopActive = true` and `g_main_loop_run` (`GstCameraPlugin.cc:361`) is forgotten by GLib and joins a
thread that does not end. `EnableServed` is about a request that the image callback has not begun to serve, because one
that arrives between the start and the clearing of the flag (`GstCameraPlugin.cc:499`) is lost. It makes the callback
call `pthread_create`, unless a disable message withdraws it; a command that did not wait for the last may be lost in
one more way, when it finds the flag of an earlier stream up, also of one whose loop was quit and that clears the flag a
moment later (290, 363): no thread is started and the request is cleared all the same. `ObeysOwnController` and
`EveryVehicleConnects` except a vehicle whose bind failed (`aborted`), all vehicles after one of those was removed
(`ClosedTwice`), and, the latter, vehicles that share a port (`SharesSocket`). `RangesInOwnField` is about vehicles
whose `<index>` elements number their sensors (`WellIndexed`), `AnemometerLookedUp` about one that alone names an
anemometer (`OnlyNamer`). `ActiveHasThread` and the check that no uninitialised `threadId` is joined hold without any
such condition.

## 4. Proofs

All theorems are about `Spec` and need none of its fairness. They rest on the `ASSUME`s of the modules, which TLC
evaluates in the runs, and on nothing else, unless the theorem states a hypothesis: those of the two `Causes` modules
exclude the one thing that a finding needs to happen.

*Exchange* (`ArduPilotPluginProofs`). `TypeOK` first: the delicate parts are that the 16-bit cut of a frame is a frame
and that the miss counter is reset before it passes its limit. `LockStepped`, `OfflineIsIdle`, `CommandIsLastFrame`
and `ResendIsLastState` are proved together (`SafetyInv`), strengthened by what holds before the first exchange:
nothing is received before the IMU look-up, and `accepted` is only set by a frame. For the refinement, `TurnInv` adds
`ClockInv` (the physics lags the clock by exactly the update under way, and the last exchange is not in the future)
and `FirstFrameInv` (before a lock-step connection no frame has been counted, so that the first packet, whose 16-bit
count cannot equal the 32-bit -1, is new: a connection never begins with a duplicate). Each step then maps to `Grant`,
`Step`, `FreeStep`, `Interrupt` or a stutter. World resets are excluded from the refinement by an assumption of
the theorem (`"worldReset"` is not among the faults), as they are in the TLC run: `LockStep`'s time never goes back.

`ExchangeFollows`, the refinement of `ServoLink`, needs the types and that the first packet is never taken for a
duplicate; what is loaded is compared with the packet's own frame. It holds under every fault, world resets included.

*Causes in the exchange* (`ArduPilotPluginCauses`). A run that expects a violation shows one way to break a property;
these theorems show that there is no other.

- `LockSteppedUnlessReset`: without world resets `LockSteppedAlways`, which `world_reset` refutes, holds. The step to
  `update` without a new frame needs an update in which no exchange is due, and the clocks exclude that (`UpdateDue`).
- `NoEmptyStateAfterImu`: with a controller that waits for the first IMU message (`FcAwaitsImu`),
  `NeverSendsEmptyState` holds. There is then no packet with the right magic before that message
  (`PacketsAwaitImu`), and the update that makes the connection builds a state before the next receive
  (`FirstStateComes`).
- `ResendsAddressed`: `ReplyAddressKnown` holds in every receive, so that what is sent again there has an address.
  Only the update in which the first frame is counted can reply to nobody (`SenderKnown`: `in_addr` is set once anybody
  was heard).
- `FramesInOrder`: without reordering and restarts, until the 16-bit counter wraps, "ArduPilot controller has reset" is
  logged of exactly one frame: always of the first, which is compared with the initial 0xFFFFFFFF (`A` 1596), and never
  after it, since the counts of the frames after it go up. `OrderInv` orders count, packet in hand and queue;
  duplicates, bad packets, losses, timeouts and resets of the world are all allowed.

*Set-up* (`StartupProofs`). Types first (`TypeInv`): that every block of SDF, with any elements missing, gives a
proper control. `OwnEntitiesCorrect` is inductive with it, since every look-up is below the model (`FoundFacts`). For
`ControlsCorrect` the loaded list is a prefix of the blocks (`Prefix`), and once the loading has ended the next block
has no joint (`UpToMissing`). `AnemometerCorrect` says when the flag of the process may be up (`UsedUp`: somebody who
names an anemometer has tried), and that a vehicle is past its own try before its IMU is looked up (`TriedBefore`).
`OwnController` needs, while no aborted vehicle was removed, that intact vehicles own their descriptors (`OwnSocket`)
and that a socket's queue holds only packets of its port. `RangesCorrect` is the hardest: slots, subscriptions and the
copy of the vector have matching lengths at each point of the loop (`Counts`), callbacks are bound to the slots their
sensors are numbered for (`Slots`), each field of the vector, and of the copy being made of it, holds nothing or the
sensor numbered for it (`Sorted`), and what was heard after loading stays (`Kept`): only a vehicle that is still being
loaded has a vector that is copied, and `heard` begins when it is not.

*Causes in set-up* (`StartupCauses`). What a vehicle has as its descriptor is followed through close, reuse and second
close (`FileInv`, `LinkInv`). `AbortedHearsAnother`: a vehicle whose bind failed goes online only by the open socket of
another one. `AbortedOfflineIfNoLateSpawn`: it never does while nobody is spawned after the failure, since its number
then stays free (`DeadNumber`). `WaitsInVainOnlyAfterDoubleClose`: a lock-step vehicle with a socket of its own is
stranded only after a second close. `CrashOnlyAtRisk`: a range callback takes the server down only if its vehicle does
not number its sensors, is being loaded, or is being destroyed; once loaded, a well-numbered vehicle has a slot for each
of its sensors (`AllLoaded`).

*Motor control* (`MotorControlProofs`). Of the controls only `servo_min # servo_max` is assumed, without which the code
divides by 0. `TypeOK` says that an integral, which starts at 0, keeps its limits from its first update on, where it has
any, on whichever side of 0. `OnePacket` is inductive
with it. `CommandInRange` is a consequence: the clamped raw command lies in the span (`RawInSpan`), and scaling by a
positive or negative multiplier keeps it between the images of the ends (`ScaledWithin`). `SilentUnlessReady` needs
that readiness comes from the last packet (`ReadyByPacket`), that joint commands exist only while the physics uses
them up (`QuietElsewhere`), and that forces are applied only online (`AppliesOnline`). `ReceiveFollows` is the
refinement of `ServoLink`. `CrashOnlyByBareEffort` says exactly when a null pointer is written (`A` 1408). `PidTimeStep`
says that the PIDs never get a time step of 0 (`A` 1224): while simulation time is not reset the test at `A` 1201 is
always true, which is why the module can leave it out.

*Parachute* (`ParachutePluginProofs`). `OnlyIfReleased` follows from `AskedFor`: every flag on the way to a parachute is
up only after a command. `JoinedAtVehicle` is not inductive: that the parachute is where it was sent when it is
joined rests on what every earlier update did. `Following` says it, for runs without a timed-out creation: the
creation goes on until the parachute is joined (`Persistent`), a parachute nobody has seen has not been moved
(`Unseen`), and one that was seen is told to be at the vehicle by each update and is there at the next (`Sent`).
`RequestKept` is an action property about the three reads and writes that race with `OnCommand` (lines 368-375): no
request is cleared before it was latched, a latched one is dropped only by a failed creation, and there is one creation
and one joint. `CreatedIsPursued` follows from the same invariant (`Pursued`). They are the safety half of
`ReleaseHonoured`.

*Zoom* (`CameraZoomPluginProofs`). `ClosesIn` is about what the rendering camera shows, which is set a step after the
component: it needs that the two agree before an update (`ViewsAgree`) and that the step still to be shown began at
the view that is shown (`StepDue`), and then the arithmetic of `NewFov` (`Closer`), for any integers. `CameraShowsSdf` is
inductive once it is said for every position of the thread (`ViewsAgree`). `FlagMarksChangeUnlessRaced` proves that a
command between load and clearing (`raced`) is the only cause of finding 5 (`Marked`, `Loaded`), and
`CrashOnlyAfterTeardown` that a null camera is used only after the end of rendering.

*Streaming* (`GstCameraPluginProofs`). `ActiveHasThread` is inductive. That no uninitialised id is joined needs
`BeforeFirst`: until `threadId` is first written, no thread exists, the flag is down and nobody stops anything. `OneStream`
is not inductive: a request that is not yet served (`Unserved`) must find no streaming thread, which is what a settled
state leaves to the next enable message. `JoinedThreadEnds` is the safety half of `StopReturns`: the thread that a stop
joins has left its main loop, or runs the loop that was quit. `StopInv` says why: only the last thread is alive
(`Latest`), the loop pointer is its own (`OwnLoop`, `RunsOwn`), and a stop begins in a settled state and has quit the
loop before it joins (`QuietStops`, `ToldStops`). That a failed `pthread_create` leaves no stop with the id of no thread
follows from `ActiveHasThread`: who sees the flag up finds a thread alive, and so the last one's id (`FoundStops`).

*Only model-checked*: the liveness properties (`SimulationProceeds`, `SilenceNoticed`, `EveryVehicleConnects`,
`ReleaseHonoured`, `LastCommandShows`, `EnableServed`, `StopReturns`), since fairness is out of the prover's reach.
Every invariant and action property of the passing runs, and both refinements, are proved. The refinement of `LockStep`
is proved without world resets only, which break it; what is left of lock-step after one is `LockStepCorrect`.

## 5. Findings

1. `reply_address`: `getServoPacket` reads the sender's address after the first receive (`A` 1434) and then takes later
   packets; the controller can be detected with the reply address still 0.0.0.0, or an earlier sender's. Only in the
   update that counts the first frame (`ResendsAddressed`).
2. `empty_state`: before the first IMU message `SendState` sends the empty string. A controller that starts after
   that message is never sent one (`NoEmptyStateAfterImu`).
3. `world_reset`: `Reset` keeps `lastControllerUpdateTime`, so that after a reset the simulation runs free of the
   controller, in lock-step too, until its clock has caught up. Nothing else sets it free (`LockSteppedUnlessReset`).
4. `failed_bind`: `InitSockets` logs "failed to bind ... aborting plugin", `SocketUDP::bind` closes the descriptor and
   keeps its number, and the server goes on to call `PreUpdate`, which receives under that number: the packets of the
   next vehicle, if it got the same one. The destructor closes the number again. It takes a vehicle that is spawned later
   (`AbortedOfflineIfNoLateSpawn`).
5. `zoom_flag`: `PreUpdate` clears `zoomChanged` after it has loaded the command, not before. The flag is
   lost in no other way (`FlagMarksChangeUnlessRaced`).

Noted while modelling, without a property:

- Exchange: "ArduPilot controller has reset" is logged of the first frame of every session (`A` 1596), which is compared
  with the initial 0xFFFFFFFF (`FramesInOrder`). The count of misses is reset by a new frame only, so that misses with
  duplicates between them add up (`A` 1527; line 349 calls them consecutive). `ResetPIDs` leaves the PIDs alone, and a
  `COMMAND` control publishes nothing on a timeout, so that its receiver keeps the last value. An `EFFORT` control with
  `useForce` 0 writes through a null pointer (`A` 1408; the model's `Crash`).
- Set-up: of several `<rotor>` blocks only the first is loaded (`A` 802). `rotorVelocitySlowdownSim` is read as an
  integer (`A` 727). A sensor without `<index>` is reported as skipped and kept with an index nobody set (`A` 929).
  Range topics are used verbatim (`A` 971), so two vehicles of one model hear each other's sensors. "Using the first
  one" of several entities is any one, the set being unordered (`A` 1142, `Util.cc` 96). "abort ArduPilot plugin" (`A`
  1087) and "This plugin will not run" (`A` 624) end one call, not the plugin. The `static` flag of the anemometer
  serves only the first vehicle that looks. After a second close of its descriptor a lock-step vehicle waits until a
  signal comes (`WaitsInVain`). A range message that arrives while a vehicle is destroyed is handled by destroyed
  members (`A` 257, 283).
- Zoom: `PreUpdate` may dereference the camera that the rendering thread has just reset. The slew rate is not the
  "meters change in focal length per second" of `CameraZoomPlugin.cc` 142, and the width of the sensor is not "static
  every iteration" (447): the focal length is never written back, so that each step is a share of the view it starts
  from, larger the further the camera has zoomed in. A slew rate below 0 is taken and leads away from the goal.
- Streaming: an enable message is lost if it arrives between the start and the clearing of the request
  (`GstCameraPlugin.cc` 499), or while the flag of a stream that is about to end is still up (290, 363). The result of
  `pthread_create` is ignored (292) and the request cleared all the same: no stream, and no message. After "Failed to
  initialize" a nameless sensor is still subscribed by `PreUpdate`; the camera that `OnRenderTeardown` releases may be
  taken again at once (`GstCameraPlugin.cc:239`), and is used for nothing.

## 6. Not modelled

The contents and the layout of the JSON state other than the range fields, frame transforms, filter parameters and
optics: arithmetic and formatting. The D term of the PIDs and the division by the rotor slow-down factor. The GPS of
`Configure`, whose code is commented out; `lastServoPacketRecvTime`, written and never read; a paused world, in which
the callbacks of the vehicle return; that the time between two updates, and so the step of the zoom, varies. The
elements of the GStreamer pipelines and the conversion of an image. `SelectionBuffer.hh`, a declaration nobody defines
or includes; models, worlds, parameters and build files, which are data.

One parachute name for two vehicles is not composed: `ParachutePlugin` has one vehicle, and what a second one over the
same world should do nothing in the repository says. The exchange and `MotorControl` are joined by their common abstract
specification and not by a product of the two, which would multiply the states and add no step that either lacks.
