-------------------------- MODULE GstCameraPlugin --------------------------
(***************************************************************************)
(* A camera's video stream (src/src/GstCameraPlugin.cc).  Configure checks *)
(* what the plugin is attached to; PreUpdate subscribes it to its topics   *)
(* and looks for the rendering camera.  An enable message asks for the     *)
(* stream, the next image starts a thread that builds a GStreamer pipeline *)
(* and runs a main loop; a disable message and the end of rendering stop   *)
(* it and join.                                                            *)
(*                                                                         *)
(* The flags, pointers and the thread id are plain members that the image  *)
(* callback, the enable callback, the rendering thread and the streaming   *)
(* threads access without a lock: each access is a step.                   *)
(*                                                                         *)
(* Abstractions: a main loop and a source are named by the thread that     *)
(* made them; pipelines and pixels are left out; the four statements that  *)
(* free them are one step.  A second pthread_join of a thread returns, and *)
(* so does one of an id that a failed pthread_create left (both are        *)
(* undefined).                                                             *)
(* Whether the sensor has its topic yet, and the scene its camera, is not  *)
(* known in advance.  The destructor calls OnRenderTeardown once more.     *)
(***************************************************************************)
EXTENDS Naturals

CONSTANTS
  Threads,       \* the streaming threads a run can start (a bound)
  NoThread,      \* no id, or a null pointer
  BadThread,     \* an id of no thread, which a failed pthread_create may leave
  MaxCommands    \* bound: enable, disable and teardown calls of a run

Stoppers == {"enable", "teardown"}     \* threads that call StopStreaming

ASSUME GstAssumption ==
  NoThread \notin Threads /\ BadThread \notin Threads \cup {NoThread} /\ MaxCommands \in Nat

VARIABLES
  entity,                \* what Configure found: a "sensor", one that is
                         \* "nameless", or some "other" entity
  setup,                 \* "new", "deferred" (to PreUpdate), "subscribed"
  camera,                \* TRUE: the pointer to the rendering camera is set
  requestedStartStreaming, isGstMainLoopActive,
  threadId,
  gst_loop, source,      \* the thread whose main loop, whose source they are
  loopRunning,           \* GMainLoop::is_running of each loop
  thread,                \* where each streaming thread is
  runs,                  \* the loop each of them runs
  image,                 \* where the image callback is
  stop, joins,           \* where each StopStreaming is, and whom it joins
  commands,              \* how many more commands will come
  hasty                  \* history: a command came before the last took effect

scene   == <<entity, setup, camera>>
flags   == <<requestedStartStreaming, isGstMainLoopActive>>
loops   == <<gst_loop, source, loopRunning>>
streams == <<thread, runs, threadId>>
stops   == <<stop, joins>>
budget  == <<commands, hasty>>
vars == <<scene, flags, loops, streams, image, stops, budget>>

Init ==
  /\ entity = "other" /\ setup = "new" /\ camera = FALSE
  /\ requestedStartStreaming = FALSE /\ isGstMainLoopActive = FALSE
  /\ threadId = NoThread /\ gst_loop = NoThread /\ source = NoThread
  /\ loopRunning = [t \in Threads |-> FALSE]
  /\ thread = [t \in Threads |-> "none"]
  /\ runs = [t \in Threads |-> NoThread]
  /\ image = "idle"
  /\ stop = [s \in Stoppers |-> "idle"]
  /\ joins = [s \in Stoppers |-> NoThread]
  /\ commands = MaxCommands /\ hasty = FALSE

Alive(t) == thread[t] \notin {"none", "ended"}

\* g_main_loop_quit (external): a loop that does not run yet forgets it.
QuitLoop ==
  loopRunning' = IF gst_loop = NoThread THEN loopRunning
                 ELSE [loopRunning EXCEPT ![gst_loop] = FALSE]

----------------------------------------------------------------------------
(* Configure and PreUpdate.                                                 *)

\* Either failure ends Configure, but not the plugin: PreUpdate still runs.
Configure ==
  /\ setup = "new" /\ setup' = "deferred"
  /\ entity' \in {"sensor", "nameless", "other"}
  /\ UNCHANGED <<camera, flags, loops, streams, image, stops, budget>>

\* Until the topics are known, from the SDF or from the sensor, nothing else is
\* done.  The camera is looked up by name in every update that has none.
PreUpdate ==
  /\ setup # "new"
  /\ \/ UNCHANGED setup
     \/ setup = "deferred" /\ entity # "other" /\ setup' = "subscribed"
  /\ camera' \in IF setup' = "subscribed" /\ entity = "sensor" /\ ~camera
                THEN BOOLEAN ELSE {camera}
  /\ UNCHANGED <<entity, flags, loops, streams, image, stops, budget>>

----------------------------------------------------------------------------
(* Commands, from the topic and from the rendering thread.                  *)

\* A request is being served: before, and after, the call of StartStreaming.
Answered == {"started", "refused", "skipped"}
Serving  == {"start"} \cup Answered

\* The last command has taken effect: nobody starts or stops, and the stream,
\* if there is one, runs.
Settled ==
  /\ ~requestedStartStreaming /\ image \notin Serving
  /\ \A s \in Stoppers : stop[s] = "idle"
  /\ \A t \in Threads : Alive(t) => thread[t] = "running"

Given(calm) ==
  commands > 0 /\ commands' = commands - 1 /\ hasty' = (hasty \/ ~calm)

EnableStreaming ==
  /\ setup = "subscribed" /\ stop["enable"] = "idle"
  /\ Given(Settled /\ \A t \in Threads : ~Alive(t))
  /\ requestedStartStreaming' = TRUE
  /\ UNCHANGED <<scene, isGstMainLoopActive, loops, streams, image, stops>>

DisableStreaming ==
  /\ setup = "subscribed" /\ stop["enable"] = "idle"
  /\ Given(Settled)
  /\ requestedStartStreaming' = FALSE
  /\ stop' = [stop EXCEPT !["enable"] = "check"]
  /\ UNCHANGED <<scene, isGstMainLoopActive, loops, streams, image, joins>>

OnRenderTeardown ==
  /\ setup # "new" /\ entity = "sensor" /\ stop["teardown"] = "idle"
  /\ Given(Settled)
  /\ stop' = [stop EXCEPT !["teardown"] = "check"]
  /\ UNCHANGED <<scene, flags, loops, streams, image, joins>>

----------------------------------------------------------------------------
(* StopStreaming, and what follows it in OnRenderTeardown.                  *)

Returns(s) ==
  /\ stop' = [stop EXCEPT ![s] = "idle"]
  /\ camera' = (camera /\ s # "teardown")

CheckActive(s) ==
  /\ stop[s] = "check"
  /\ IF isGstMainLoopActive THEN stop' = [stop EXCEPT ![s] = "quit"] /\ UNCHANGED camera
     ELSE Returns(s)
  /\ UNCHANGED <<entity, setup, flags, loops, streams, image, joins, budget>>

NoQuit == UNCHANGED loopRunning                                     \* mutant
StopGstThread == QuitLoop

StopThread(s) ==
  /\ stop[s] = "quit"
  /\ StopGstThread
  /\ joins' = [joins EXCEPT ![s] = threadId]
  /\ stop' = [stop EXCEPT ![s] = "join"]
  /\ UNCHANGED <<scene, flags, gst_loop, source, streams, image, budget>>

JoinThread(s) ==
  /\ stop[s] = "join"
  /\ joins[s] # NoThread
  /\ joins[s] \in Threads => thread[joins[s]] = "ended"
  /\ isGstMainLoopActive' = FALSE
  /\ Returns(s)
  /\ UNCHANGED <<entity, setup, requestedStartStreaming, loops, streams, image, joins, budget>>

----------------------------------------------------------------------------
(* OnImage.                                                                 *)

ImageUnchanged ==
  UNCHANGED <<scene, isGstMainLoopActive, gst_loop, source, runs, stops, budget>>

ImageArrives ==
  /\ setup = "subscribed" /\ image = "idle"
  /\ \/ requestedStartStreaming /\ image' = "start"
     \/ ~requestedStartStreaming /\ isGstMainLoopActive /\ image' = "push"
  /\ UNCHANGED <<requestedStartStreaming, loopRunning, thread, threadId>>
  /\ ImageUnchanged

StartOnce == threadId = NoThread                                    \* mutant
StartDue  == ~isGstMainLoopActive

\* pthread_create gives a new thread; which name it has here does not matter.
Unused    == {t \in Threads : thread[t] = "none"}
NewThread == CHOOSE t \in Unused : TRUE

KeepOldId(t) == UNCHANGED threadId                                  \* mutant
StoreId(t)   == threadId' = t

Start ==
  /\ StartDue /\ Unused # {}
  /\ thread' = [thread EXCEPT ![NewThread] = "created"]
  /\ StoreId(NewThread)
  /\ image' = "started"

\* pthread_create fails, and nobody looks at its result.
StartRefused ==
  /\ StartDue
  /\ UNCHANGED thread /\ threadId' \in {threadId, BadThread}
  /\ image' = "refused"

\* The flag is up: the loop of an earlier stream runs, or its end is not noted yet.
StartSkipped ==
  /\ ~StartDue
  /\ UNCHANGED <<thread, threadId>>
  /\ image' = "skipped"

StartStreaming ==
  /\ image = "start"
  /\ Start \/ StartRefused \/ StartSkipped
  /\ UNCHANGED <<requestedStartStreaming, loopRunning>> /\ ImageUnchanged

ClearAfterStart == UNCHANGED requestedStartStreaming                \* mutant
ClearRequest == requestedStartStreaming' = FALSE

RequestServed ==
  /\ image \in Answered
  /\ ClearRequest
  /\ image' = "idle"
  /\ UNCHANGED <<loopRunning, thread, threadId>> /\ ImageUnchanged

\* The image was converted; the source may refuse it, and is gone when the
\* streaming thread has freed it in the meantime.
PushBuffer ==
  /\ image = "push"
  /\ \/ source # NoThread /\ image' = "idle"
     \/ image' = "failed"
  /\ UNCHANGED <<requestedStartStreaming, loopRunning, thread, threadId>>
  /\ ImageUnchanged

PushFailed ==
  /\ image = "failed"
  /\ QuitLoop
  /\ image' = "idle"
  /\ UNCHANGED <<requestedStartStreaming, thread, threadId>> /\ ImageUnchanged

----------------------------------------------------------------------------
(* StartGstThread.                                                          *)

GoesTo(t, from, to) == thread[t] = from /\ thread' = [thread EXCEPT ![t] = to]
ThreadUnchanged ==
  UNCHANGED <<scene, requestedStartStreaming, threadId, image, stops, budget>>

MakeLoop(t) ==
  /\ GoesTo(t, "created", "loop")
  /\ gst_loop' = t
  /\ UNCHANGED <<isGstMainLoopActive, source, loopRunning, runs>> /\ ThreadUnchanged

\* The three pipelines differ in their elements.  None of the functions that
\* build one tells its caller that elements are missing or not linked: the
\* thread goes on, with a null source when it is that one, and pushes will fail.
BuildPipeline(t) == source' \in {t, NoThread}

MakePipeline(t) ==
  /\ GoesTo(t, "loop", "pipeline")
  /\ BuildPipeline(t)
  /\ UNCHANGED <<isGstMainLoopActive, gst_loop, loopRunning, runs>> /\ ThreadUnchanged

\* No main loop, which leaves gst_loop null, or no pipeline: the thread ends.
FailEarly(t) ==
  /\ \/ GoesTo(t, "created", "ended") /\ gst_loop' = NoThread
     \/ GoesTo(t, "loop", "ended") /\ UNCHANGED gst_loop
  /\ UNCHANGED <<isGstMainLoopActive, source, loopRunning, runs>> /\ ThreadUnchanged

SetActive(t) ==
  /\ GoesTo(t, "pipeline", "active")
  /\ isGstMainLoopActive' = TRUE
  /\ UNCHANGED <<loops, runs>> /\ ThreadUnchanged

\* g_main_loop_run (external) of what gst_loop is now; null returns at once.
RunLoop(t) ==
  /\ thread[t] = "active"
  /\ runs' = [runs EXCEPT ![t] = gst_loop]
  /\ IF gst_loop = NoThread
     THEN UNCHANGED loopRunning /\ thread' = [thread EXCEPT ![t] = "returned"]
     ELSE /\ loopRunning' = [loopRunning EXCEPT ![gst_loop] = TRUE]
          /\ thread' = [thread EXCEPT ![t] = "running"]
  /\ UNCHANGED <<isGstMainLoopActive, gst_loop, source>> /\ ThreadUnchanged

LoopReturns(t) ==
  /\ GoesTo(t, "running", "returned")
  /\ ~loopRunning[runs[t]]
  /\ UNCHANGED <<isGstMainLoopActive, loops, runs>> /\ ThreadUnchanged

StayActive == UNCHANGED isGstMainLoopActive                         \* mutant
SetInactive == isGstMainLoopActive' = FALSE

LeaveLoop(t) ==
  /\ GoesTo(t, "returned", "cleanup")
  /\ SetInactive
  /\ UNCHANGED <<loops, runs>> /\ ThreadUnchanged

CleanUp(t) ==
  /\ GoesTo(t, "cleanup", "ended")
  /\ gst_loop' = NoThread /\ source' = NoThread
  /\ UNCHANGED <<isGstMainLoopActive, loopRunning, runs>> /\ ThreadUnchanged

----------------------------------------------------------------------------
Command == EnableStreaming \/ DisableStreaming \/ OnRenderTeardown

StopStreaming(s) == CheckActive(s) \/ StopThread(s) \/ JoinThread(s)

OnImage ==
  ImageArrives \/ StartStreaming \/ RequestServed \/ PushBuffer \/ PushFailed

StartGstThread(t) ==
  \/ MakeLoop(t) \/ MakePipeline(t) \/ FailEarly(t) \/ SetActive(t)
  \/ RunLoop(t) \/ LoopReturns(t) \/ LeaveLoop(t) \/ CleanUp(t)

\* The run ends when all its commands are given and nobody has anything to do;
\* one that waits for a thread that will not end is stuck (see StopReturns).
Next ==
  \/ Configure \/ PreUpdate
  \/ Command \/ OnImage
  \/ \E s \in Stoppers : StopStreaming(s)
  \/ \E t \in Threads : StartGstThread(t)

\* Images keep coming, and every thread that can go on does.
Fairness ==
  /\ WF_vars(OnImage)
  /\ \A s \in Stoppers : WF_vars(StopStreaming(s))
  /\ \A t \in Threads : WF_vars(StartGstThread(t))

Spec == Init /\ [][Next]_vars /\ Fairness

----------------------------------------------------------------------------
(* Properties.                                                              *)

Positions == {"none", "created", "loop", "pipeline", "active", "running", "returned",
              "cleanup", "ended"}

\* The state has the declared types; whoever joins, joins an id that
\* pthread_create wrote and not what threadId was before.
TypeOK ==
  /\ entity \in {"sensor", "nameless", "other"}
  /\ setup \in {"new", "deferred", "subscribed"} /\ camera \in BOOLEAN
  /\ {requestedStartStreaming, isGstMainLoopActive, hasty} \subseteq BOOLEAN
  /\ threadId \in Threads \cup {NoThread, BadThread}
  /\ {gst_loop, source} \subseteq Threads \cup {NoThread}
  /\ loopRunning \in [Threads -> BOOLEAN]
  /\ thread \in [Threads -> Positions]
  /\ runs \in [Threads -> Threads \cup {NoThread}]
  /\ image \in {"idle", "push", "failed"} \cup Serving
  /\ stop \in [Stoppers -> {"idle", "check", "quit", "join"}]
  /\ joins \in [Stoppers -> Threads \cup {NoThread, BadThread}]
  /\ \A s \in Stoppers : stop[s] = "join" => joins[s] # NoThread
  /\ commands \in 0 .. MaxCommands

\* The flag that lets images through and stops wait is never left up by threads
\* that have gone: some thread is in, or about to enter or leave, its main loop.
\* It holds for hasty commands and for threads started twice, too.
ActiveHasThread ==
  isGstMainLoopActive => \E t \in Threads : thread[t] \in {"active", "running", "returned"}

\* At most one streaming thread at a time, if each command waits for the last.
OneStream ==
  ~hasty => \A t, u \in Threads : Alive(t) /\ Alive(u) => t = u

\* A request for a stream that the image callback has not begun to serve makes it
\* start a new thread, or try to (pthread_create may fail), unless a disable
\* message withdraws it.  One more is lost, of a command that did not wait for the
\* last: if the flag of an earlier stream is still up, also of one whose loop was
\* quit and that is about to end, no thread is started (line 290), the request is
\* cleared all the same (line 499), and no stream may be left.
EnableServed ==
  requestedStartStreaming /\ image \notin Serving
    ~> \/ image \in {"started", "refused"}
       \/ image = "skipped" /\ hasty
       \/ stop["enable"] # "idle"

\* If each command waits for the last, StopStreaming always returns: the loop it
\* quits is one that runs, and is the one of the thread it joins.
StopReturns ==
  [](~hasty) => \A s \in Stoppers : stop[s] # "idle" ~> stop[s] = "idle"
=============================================================================
