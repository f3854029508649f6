----------------------- MODULE GstCameraPluginProofs -----------------------
(***************************************************************************)
(* Proofs of the safety properties of GstCameraPlugin that hold for every  *)
(* interleaving of commands, images and any number of streaming threads.   *)
(* ActiveHasThread is inductive as it stands.  That no uninitialised id is *)
(* joined needs to be said of the time before the first start; that there  *)
(* is one stream, of a request that is not served yet.                     *)
(***************************************************************************)
EXTENDS GstCameraPlugin, TLAPS

\* Before threadId is first written no thread has been started, the flag is down
\* and nobody stops anything.
BeforeFirst ==
  threadId = NoThread =>
    /\ \A t \in Threads : thread[t] = "none"
    /\ ~isGstMainLoopActive
    /\ \A s \in Stoppers : stop[s] # "quit"

TypeInv == TypeOK /\ BeforeFirst

LEMMA TypeInit == Init => TypeInv
<1> SUFFICES ASSUME Init PROVE TypeInv
  OBVIOUS
<1>1. /\ loopRunning \in [Threads -> BOOLEAN] /\ thread \in [Threads -> Positions]
      /\ runs \in [Threads -> Threads \cup {NoThread}]
  BY DEF Init, Positions
<1>2. /\ stop \in [Stoppers -> {"idle", "check", "quit", "join"}]
      /\ joins \in [Stoppers -> Threads \cup {NoThread, BadThread}]
      /\ \A s \in Stoppers : stop[s] = "idle"
      /\ entity = "other" /\ setup = "new" /\ camera = FALSE
  BY DEF Init
<1>3. commands \in 0 .. MaxCommands
  BY GstAssumption DEF Init
<1>4. \A t \in Threads : thread[t] = "none"
  BY DEF Init
<1> QED
  BY <1>1, <1>2, <1>3, <1>4 DEF Init, TypeInv, TypeOK, BeforeFirst

LEMMA QuitType ==
  ASSUME TypeOK, QuitLoop
  PROVE  loopRunning' \in [Threads -> BOOLEAN]
BY DEF TypeOK, QuitLoop

\* Configure and PreUpdate touch nothing but what they look up.
LEMMA TypeSetup == TypeInv /\ (Configure \/ PreUpdate) => TypeInv'
<1> SUFFICES ASSUME TypeInv, Configure \/ PreUpdate PROVE TypeInv'
  OBVIOUS
<1>1. UNCHANGED <<flags, loops, streams, image, stops, budget>>
  BY DEF Configure, PreUpdate
<1>2. /\ entity' \in {"sensor", "nameless", "other"} /\ camera' \in BOOLEAN
      /\ setup' \in {"new", "deferred", "subscribed"}
  BY DEF Configure, PreUpdate, TypeInv, TypeOK
<1> QED
  BY <1>1, <1>2 DEF TypeInv, TypeOK, BeforeFirst, flags, loops, streams, stops, budget

\* The commands: an enable, a disable, an end of rendering.
LEMMA TypeCommand == TypeInv /\ Command => TypeInv'
<1> SUFFICES ASSUME TypeInv, Command PROVE TypeInv'
  OBVIOUS
<1> USE DEF TypeInv, BeforeFirst
<1>1. ASSUME NEW calm \in BOOLEAN, Given(calm)
      PROVE  commands' \in 0 .. MaxCommands /\ hasty' \in BOOLEAN
  BY <1>1, GstAssumption DEF Given, TypeOK
<1>2. CASE EnableStreaming
  <2>1. commands' \in 0 .. MaxCommands /\ hasty' \in BOOLEAN
    BY <1>1, <1>2 DEF EnableStreaming, Settled
  <2> QED
    BY <1>2, <2>1 DEF EnableStreaming, TypeOK, scene, loops, streams, stops
<1>3. CASE DisableStreaming
  <2>1. commands' \in 0 .. MaxCommands /\ hasty' \in BOOLEAN
    BY <1>1, <1>3 DEF DisableStreaming, Settled
  <2> QED
    BY <1>3, <2>1 DEF DisableStreaming, TypeOK, scene, loops, streams
<1>4. CASE OnRenderTeardown
  <2>1. commands' \in 0 .. MaxCommands /\ hasty' \in BOOLEAN
    BY <1>1, <1>4 DEF OnRenderTeardown, Settled
  <2> QED
    BY <1>4, <2>1 DEF OnRenderTeardown, TypeOK, scene, flags, loops, streams
<1> QED
  BY <1>2, <1>3, <1>4 DEF Command

\* A thread that is created is one that was not there.
LEMMA NewThreadIsNew ==
  ASSUME Unused # {}
  PROVE  NewThread \in Threads /\ thread[NewThread] = "none"
BY DEF Unused, NewThread

\* The image callback: a thread is stored as soon as it is started.
LEMMA TypeImage == TypeInv /\ OnImage => TypeInv'
<1> SUFFICES ASSUME TypeInv, OnImage PROVE TypeInv'
  OBVIOUS
<1> USE DEF TypeInv, BeforeFirst, TypeOK, ImageUnchanged, scene, stops, budget
<1>1. CASE ImageArrives
  BY <1>1 DEF ImageArrives, Serving
<1>2. CASE StartStreaming
  <2>1. /\ thread' \in [Threads -> Positions]
        /\ threadId' \in Threads \cup {NoThread, BadThread}
        /\ threadId' = NoThread => threadId = NoThread /\ UNCHANGED thread
        /\ image' \in Answered
    <3>1. CASE Start
      <4>1. /\ NewThread \in Threads
            /\ thread' = [thread EXCEPT ![NewThread] = "created"]
            /\ threadId' = NewThread
        BY <3>1, NewThreadIsNew DEF Start, StoreId
      <4> QED
        BY <3>1, <4>1, GstAssumption DEF Positions, Start, Answered
    <3>2. CASE StartRefused
      BY <3>2, GstAssumption DEF StartRefused, Answered
    <3>3. CASE StartSkipped
      BY <3>3 DEF StartSkipped, Answered
    <3> QED
      BY <1>2, <3>1, <3>2, <3>3 DEF StartStreaming
  <2> QED
    BY <1>2, <2>1 DEF StartStreaming, Serving
<1>3. CASE RequestServed
  BY <1>3 DEF RequestServed, ClearRequest
<1>4. CASE PushBuffer
  BY <1>4 DEF PushBuffer
<1>5. CASE PushFailed
  <2>1. loopRunning' \in [Threads -> BOOLEAN]
    BY <1>5, QuitType DEF PushFailed
  <2> QED
    BY <1>5, <2>1 DEF PushFailed
<1> QED
  BY <1>1, <1>2, <1>3, <1>4, <1>5 DEF OnImage

\* StopStreaming: who sees the flag up finds a stored id to join.
LEMMA TypeStop ==
  ASSUME TypeInv, NEW s \in Stoppers, StopStreaming(s)
  PROVE  TypeInv'
<1> USE DEF TypeInv, BeforeFirst, TypeOK, budget, streams
<1>1. CASE CheckActive(s)
  <2>1. camera' \in BOOLEAN
    BY <1>1 DEF CheckActive, Returns
  <2> QED
    BY <1>1, <2>1 DEF CheckActive, Returns, flags, loops
<1>2. CASE StopThread(s)
  <2>1. loopRunning' \in [Threads -> BOOLEAN]
    BY <1>2, QuitType DEF StopThread, StopGstThread
  <2>2. threadId # NoThread
    BY <1>2 DEF StopThread
  <2>3. /\ joins' \in [Stoppers -> Threads \cup {NoThread, BadThread}]
        /\ stop' \in [Stoppers -> {"idle", "check", "quit", "join"}]
        /\ \A u \in Stoppers : stop'[u] = "join" => joins'[u] # NoThread
    BY <1>2, <2>2 DEF StopThread
  <2> QED
    BY <1>2, <2>1, <2>2, <2>3 DEF StopThread, scene, flags
<1>3. CASE JoinThread(s)
  <2>1. camera' \in BOOLEAN
    BY <1>3 DEF JoinThread, Returns
  <2> QED
    BY <1>3, <2>1 DEF JoinThread, Returns, loops
<1> QED
  BY <1>1, <1>2, <1>3 DEF StopStreaming

\* The streaming thread: its first step comes after it was stored.
LEMMA TypeThread ==
  ASSUME TypeInv, NEW t \in Threads, StartGstThread(t)
  PROVE  TypeInv'
<1> USE DEF TypeInv, TypeOK, ThreadUnchanged, scene, stops, budget
<1>1. thread[t] # "none" /\ threadId' = threadId /\ stop' = stop
  BY DEF StartGstThread, MakeLoop, MakePipeline, FailEarly, SetActive, RunLoop,
         LoopReturns, LeaveLoop, CleanUp, GoesTo
<1>2. BeforeFirst'
  BY <1>1 DEF BeforeFirst
<1>3. CASE MakeLoop(t)
  BY <1>2, <1>3 DEF MakeLoop, GoesTo, Positions
<1>4. CASE MakePipeline(t)
  BY <1>2, <1>4 DEF MakePipeline, BuildPipeline, GoesTo, Positions
<1>5. CASE FailEarly(t)
  BY <1>2, <1>5 DEF FailEarly, GoesTo, Positions, loops
<1>6. CASE SetActive(t)
  BY <1>2, <1>6 DEF SetActive, GoesTo, Positions, loops
<1>7. CASE RunLoop(t)
  <2>1. /\ thread' \in [Threads -> Positions]
        /\ loopRunning' \in [Threads -> BOOLEAN]
        /\ runs' \in [Threads -> Threads \cup {NoThread}]
    BY <1>7 DEF RunLoop, Positions
  <2> QED
    BY <1>2, <1>7, <2>1 DEF RunLoop
<1>8. CASE LoopReturns(t)
  BY <1>2, <1>8 DEF LoopReturns, GoesTo, Positions, loops
<1>9. CASE LeaveLoop(t)
  BY <1>2, <1>9 DEF LeaveLoop, GoesTo, Positions, loops, SetInactive
<1>10. CASE CleanUp(t)
  BY <1>2, <1>10 DEF CleanUp, GoesTo, Positions
<1> QED
  BY <1>3, <1>4, <1>5, <1>6, <1>7, <1>8, <1>9, <1>10 DEF StartGstThread

LEMMA TypeStep == TypeInv /\ [Next]_vars => TypeInv'
<1>1. TypeInv /\ UNCHANGED vars => TypeInv'
  BY DEF vars, scene, flags, loops, streams, stops, budget, TypeInv, TypeOK, BeforeFirst
<1> QED
  BY <1>1, TypeSetup, TypeCommand, TypeImage, TypeStop, TypeThread DEF Next

\* The state keeps its types, and pthread_join is never given an id that no call of
\* pthread_create wrote (line 573; threadId has no initialiser), whatever commands
\* come first and also when pthread_create fails.
THEOREM TypeCorrect == Spec => []TypeOK
<1>1. TypeInv => TypeOK
  BY DEF TypeInv
<1> QED
  BY <1>1, TypeInit, TypeStep, PTL DEF Spec

----------------------------------------------------------------------------
LEMMA ActiveStep == TypeOK /\ ActiveHasThread /\ [Next]_vars => ActiveHasThread'
<1> SUFFICES ASSUME TypeOK, ActiveHasThread, [Next]_vars PROVE ActiveHasThread'
  OBVIOUS
<1> DEFINE InLoop == {"active", "running", "returned"}
<1> USE DEF ActiveHasThread
<1>1. thread \in [Threads -> Positions]
  BY DEF TypeOK
<1>2. ASSUME NEW s \in Stoppers, StopStreaming(s) PROVE ActiveHasThread'
  BY <1>2 DEF StopStreaming, CheckActive, StopThread, JoinThread, flags, streams
<1>3. CASE Command
  BY <1>3 DEF Command, EnableStreaming, DisableStreaming, OnRenderTeardown, flags, streams
<1>4. CASE OnImage
  <2>1. isGstMainLoopActive' = isGstMainLoopActive
    BY <1>4 DEF OnImage, ImageArrives, StartStreaming, RequestServed, PushBuffer,
                PushFailed, ImageUnchanged
  <2>2. \A t \in Threads : thread[t] \in InLoop => thread'[t] = thread[t]
    BY <1>1, <1>4, NewThreadIsNew
    DEF OnImage, ImageArrives, StartStreaming, Start, StartRefused, StartSkipped,
        RequestServed, PushBuffer, PushFailed
  <2> QED
    BY <2>1, <2>2
<1>5. ASSUME NEW t \in Threads, StartGstThread(t) PROVE ActiveHasThread'
  <2>1. CASE LeaveLoop(t)
    BY <2>1 DEF LeaveLoop, SetInactive
  <2>2. CASE SetActive(t) \/ RunLoop(t) \/ LoopReturns(t)
    <3>1. thread'[t] \in InLoop
      BY <1>1, <2>2 DEF SetActive, RunLoop, LoopReturns, GoesTo
    <3> QED
      BY <3>1
  <2>3. CASE MakeLoop(t) \/ MakePipeline(t) \/ FailEarly(t) \/ CleanUp(t)
    <3>1. isGstMainLoopActive' = isGstMainLoopActive
      BY <2>3 DEF MakeLoop, MakePipeline, FailEarly, CleanUp
    <3>2. \A u \in Threads : thread[u] \in InLoop => thread'[u] = thread[u]
      BY <1>1, <2>3 DEF MakeLoop, MakePipeline, FailEarly, CleanUp, GoesTo
    <3> QED
      BY <3>1, <3>2
  <2> QED
    BY <1>5, <2>1, <2>2, <2>3 DEF StartGstThread
<1>6. CASE UNCHANGED vars \/ Configure \/ PreUpdate
  BY <1>6 DEF vars, Configure, PreUpdate, flags, streams
<1> QED
  BY <1>2, <1>3, <1>4, <1>5, <1>6 DEF Next

\* The flag that lets images through and makes stops wait is up only while some
\* thread is in, or about to enter or leave, its main loop.
THEOREM ActiveCorrect == Spec => []ActiveHasThread
<1>1. Init => ActiveHasThread
  BY DEF Init, ActiveHasThread
<1>2. TypeInv => TypeOK
  BY DEF TypeInv
<1> QED
  BY <1>1, <1>2, TypeInit, TypeStep, ActiveStep, PTL DEF Spec

----------------------------------------------------------------------------
\* If each command waits for the last, a request that is not served yet finds
\* no streaming thread: the one of the last request has ended.
Unserved == image \notin Answered /\ (requestedStartStreaming \/ image = "start")

StreamInv == OneStream /\ (~hasty /\ Unserved => \A t \in Threads : ~Alive(t))

\* A step of a streaming thread makes no thread alive.
LEMMA ThreadStaysDead ==
  ASSUME TypeOK, NEW t \in Threads, StartGstThread(t)
  PROVE  \A u \in Threads : Alive(u)' => Alive(u)
<1>1. PICK p \in Positions : thread' = [thread EXCEPT ![t] = p]
  BY DEF StartGstThread, MakeLoop, MakePipeline, FailEarly, SetActive, RunLoop,
         LoopReturns, LeaveLoop, CleanUp, GoesTo, Positions
<1>2. Alive(t)
  BY DEF StartGstThread, MakeLoop, MakePipeline, FailEarly, SetActive, RunLoop,
         LoopReturns, LeaveLoop, CleanUp, GoesTo, Alive
<1> QED
  BY <1>1, <1>2 DEF TypeOK, Alive

LEMMA StreamStep == TypeOK /\ StreamInv /\ [Next]_vars => StreamInv'
<1> SUFFICES ASSUME TypeOK, StreamInv, [Next]_vars, ~hasty' PROVE StreamInv'
  BY DEF StreamInv, OneStream
<1> USE DEF StreamInv, OneStream, Unserved
<1>1. CASE EnableStreaming
  <2>1. ~hasty /\ \A t \in Threads : ~Alive(t)
    BY <1>1 DEF EnableStreaming, Given
  <2>2. \A t \in Threads : ~Alive(t)'
    BY <1>1, <2>1 DEF EnableStreaming, streams, Alive
  <2> QED
    BY <2>2
<1>2. CASE DisableStreaming \/ OnRenderTeardown
  <2>1. ~hasty
    BY <1>2 DEF DisableStreaming, OnRenderTeardown, Given
  <2>2. image' = image /\ thread' = thread
    BY <1>2 DEF DisableStreaming, OnRenderTeardown, streams
  <2>3. requestedStartStreaming' => requestedStartStreaming
    BY <1>2 DEF DisableStreaming, OnRenderTeardown, flags
  <2> QED
    BY <2>1, <2>2, <2>3 DEF Alive
<1>3. CASE OnImage
  <2>1. ~hasty
    BY <1>3 DEF OnImage, ImageArrives, StartStreaming, RequestServed, PushBuffer,
                PushFailed, ImageUnchanged, budget
  <2>2. CASE StartStreaming
    <3>1. image = "start" /\ image' \in Answered /\ \A t \in Threads : ~Alive(t)
      BY <2>1, <2>2 DEF StartStreaming, Start, StartRefused, StartSkipped, Answered
    <3>2. CASE Start
      <4>1. thread' = [thread EXCEPT ![NewThread] = "created"]
        BY <3>2 DEF Start
      <4>2. \A t \in Threads : Alive(t)' => t = NewThread
        BY <3>1, <4>1 DEF TypeOK, Alive
      <4> QED
        BY <3>1, <4>2
    <3>3. CASE StartRefused \/ StartSkipped
      BY <3>1, <3>3 DEF StartRefused, StartSkipped, Alive
    <3> QED
      BY <2>2, <3>2, <3>3 DEF StartStreaming
  <2>3. CASE RequestServed
    BY <2>1, <2>3 DEF RequestServed, ClearRequest, Alive
  <2>4. CASE ImageArrives \/ PushBuffer \/ PushFailed
    <3>1. /\ thread' = thread /\ image \notin Answered
          /\ UNCHANGED requestedStartStreaming
          /\ image' = "start" => requestedStartStreaming
      BY <2>4 DEF ImageArrives, PushBuffer, PushFailed, Answered
    <3> QED
      BY <2>1, <3>1 DEF Alive
  <2> QED
    BY <1>3, <2>2, <2>3, <2>4 DEF OnImage
<1>4. ASSUME NEW t \in Threads, StartGstThread(t) PROVE StreamInv'
  <2>1. /\ \A u \in Threads : Alive(u)' => Alive(u)
        /\ UNCHANGED <<image, requestedStartStreaming, hasty>>
    BY <1>4, ThreadStaysDead
    DEF StartGstThread, MakeLoop, MakePipeline, FailEarly, SetActive, RunLoop,
        LoopReturns, LeaveLoop, CleanUp, ThreadUnchanged, budget
  <2> QED
    BY <2>1
<1>5. ASSUME NEW s \in Stoppers, StopStreaming(s) PROVE StreamInv'
  <2>1. UNCHANGED <<image, requestedStartStreaming, hasty, thread>>
    BY <1>5 DEF StopStreaming, CheckActive, StopThread, JoinThread, flags, streams, budget
  <2> QED
    BY <2>1 DEF Alive
<1>6. CASE UNCHANGED vars \/ Configure \/ PreUpdate
  <2>1. UNCHANGED <<image, requestedStartStreaming, hasty, thread>>
    BY <1>6 DEF vars, Configure, PreUpdate, flags, streams, budget
  <2> QED
    BY <2>1 DEF Alive
<1> QED
  BY <1>1, <1>2, <1>3, <1>4, <1>5, <1>6 DEF Next, Command

\* At most one streaming thread works on the plugin's loop and source at a time
\* if each command waits for the last: isGstMainLoopActive, which is what guards
\* the start (line 290), is not up while a thread is starting or ending.
THEOREM OneStreamCorrect == Spec => []OneStream
<1>1. Init => StreamInv
  BY DEF Init, StreamInv, OneStream, Unserved, Alive
<1>2. TypeInv => TypeOK
  BY DEF TypeInv
<1>3. StreamInv => OneStream
  BY DEF StreamInv
<1> QED
  BY <1>1, <1>2, <1>3, TypeInit, TypeStep, StreamStep, PTL DEF Spec

----------------------------------------------------------------------------
(* Stops.  If each command waits for the last, the thread that is joined is *)
(* about to end: the loop that was quit is its own, and it runs that loop.  *)

HasLoop == {"loop", "pipeline", "active", "running", "returned", "cleanup"}
Ending  == {"running", "returned", "cleanup"}

\* The thread that is alive is the one whose id, and whose loop, the plugin has.
Latest  == \A t \in Threads : Alive(t) => threadId = t
OwnLoop == \A t \in Threads : thread[t] \in HasLoop => gst_loop = t
RunsOwn == \A t \in Threads : thread[t] = "running" => runs[t] = t
Started == threadId \in Threads => thread[threadId] # "none"

\* While one stops, nothing starts, and nobody else stops.
Quiet(s) ==
  /\ ~requestedStartStreaming /\ image \notin Serving
  /\ \A t \in Threads : Alive(t) => thread[t] \in Ending
  /\ \A u \in Stoppers : stop[u] # "idle" => u = s
QuietStops == \A s \in Stoppers : stop[s] # "idle" => Quiet(s)

\* Who saw the flag up finds the id of a thread, and whom it joins has been told to end.
FoundStops == \A s \in Stoppers : stop[s] = "quit" => threadId \in Threads

Told(s) ==
  /\ joins[s] = threadId /\ threadId \in Threads
  /\ thread[threadId] = "running" => ~loopRunning[threadId]
ToldStops == \A s \in Stoppers : stop[s] = "join" => Told(s)

StopParts ==
  Latest /\ OwnLoop /\ RunsOwn /\ QuietStops /\ FoundStops /\ ToldStops

StopInv ==
  /\ Started
  /\ ~hasty => StopParts

\* A thread that ends on its own: it has left its loop, or the loop it runs is quit.
EndsByItself(t) ==
  /\ t \in Threads
  /\ \/ thread[t] \in {"returned", "cleanup", "ended"}
     \/ thread[t] = "running" /\ runs[t] \in Threads /\ ~loopRunning[runs[t]]
JoinsEnd == ~hasty => \A s \in Stoppers : stop[s] = "join" => EndsByItself(joins[s])

LEMMA StopInit == Init => StopInv
BY GstAssumption
DEF Init, StopInv, StopParts, Started, Latest, OwnLoop, RunsOwn, QuietStops, FoundStops,
    ToldStops, Alive, HasLoop

LEMMA JoinedEnds == TypeOK /\ StopInv => JoinsEnd
<1> SUFFICES ASSUME TypeOK, StopInv, ~hasty, NEW s \in Stoppers, stop[s] = "join"
             PROVE  EndsByItself(joins[s])
  BY DEF JoinsEnd
<1>1. Quiet(s) /\ Told(s)
  BY DEF StopInv, StopParts, QuietStops, ToldStops
<1>2. joins[s] \in Threads /\ thread[joins[s]] # "none"
  BY <1>1 DEF TypeOK, StopInv, Started, Told
<1>3. thread[joins[s]] \in Ending \cup {"ended"}
  BY <1>1, <1>2 DEF Quiet, Alive
<1>4. thread[joins[s]] = "running" => runs[joins[s]] = joins[s]
  BY <1>2 DEF StopInv, StopParts, RunsOwn
<1> QED
  BY <1>1, <1>2, <1>3, <1>4 DEF EndsByItself, Ending, Told

\* Commands.  One that is given while nothing is settled is hasty.
LEMMA StopCommand == TypeOK /\ StopInv /\ Command => StopInv'
<1> SUFFICES ASSUME TypeOK, StopInv, Command PROVE StopInv'
  OBVIOUS
<1>1. UNCHANGED <<loops, streams, image, joins>>
  BY DEF Command, EnableStreaming, DisableStreaming, OnRenderTeardown, stops
<1>2. Started'
  BY <1>1 DEF streams, StopInv, Started
<1>3. ASSUME ~hasty'
      PROVE  StopParts'
  <2>1. ~hasty /\ Settled
    BY <1>3 DEF Command, EnableStreaming, DisableStreaming, OnRenderTeardown, Given
  <2>2. (Latest /\ OwnLoop /\ RunsOwn)'
    BY <1>1, <2>1 DEF loops, streams, StopInv, StopParts, Latest, OwnLoop, RunsOwn, Alive
  <2>3. \A s \in Stoppers : stop[s] = "idle" /\ stop'[s] \notin {"quit", "join"}
    BY <2>1 DEF Command, EnableStreaming, DisableStreaming, OnRenderTeardown, stops, Settled,
                TypeOK
  <2>4. EnableStreaming => QuietStops'
    BY <2>3 DEF EnableStreaming, stops, QuietStops
  <2>5. ASSUME DisableStreaming \/ OnRenderTeardown
        PROVE  QuietStops'
    <3>1. PICK s \in Stoppers : stop' = [stop EXCEPT ![s] = "check"]
      BY <2>5 DEF DisableStreaming, OnRenderTeardown, Stoppers
    <3>2. \A u \in Stoppers : stop'[u] # "idle" => u = s
      BY <2>3, <3>1 DEF TypeOK
    <3>3. ~requestedStartStreaming' /\ image' \notin Serving
      <4>1. requestedStartStreaming' => requestedStartStreaming
        BY <2>5 DEF DisableStreaming, OnRenderTeardown, flags
      <4>2. image' = image
        BY <1>1
      <4> QED
        BY <2>1, <4>1, <4>2 DEF Settled
    <3>4. \A t \in Threads : Alive(t)' => thread'[t] \in Ending
      BY <1>1, <2>1 DEF streams, Settled, Alive, Ending
    <3> QED
      BY <3>2, <3>3, <3>4 DEF QuietStops, Quiet
  <2>6. FoundStops' /\ ToldStops'
    BY <2>3 DEF FoundStops, ToldStops
  <2> QED
    BY <2>2, <2>4, <2>5, <2>6 DEF Command, StopParts
<1> QED
  BY <1>2, <1>3 DEF StopInv

\* The steps of StopStreaming: what it joins is what it told to end.
LEMMA StopStep ==
  ASSUME TypeInv, ActiveHasThread, StopInv, NEW s \in Stoppers, StopStreaming(s)
  PROVE  StopInv'
<1> USE DEF TypeInv
<1>1. UNCHANGED <<requestedStartStreaming, gst_loop, source, streams, image, hasty>>
  BY DEF StopStreaming, CheckActive, StopThread, JoinThread, flags, loops, budget
<1>2. Started'
  BY <1>1 DEF streams, StopInv, Started
<1>3. ASSUME ~hasty
      PROVE  StopParts'
  <2>0. Latest /\ OwnLoop /\ RunsOwn /\ QuietStops /\ FoundStops /\ ToldStops
    BY <1>3 DEF StopInv, StopParts
  <2>1. (Latest /\ OwnLoop /\ RunsOwn)'
    BY <1>1, <2>0 DEF streams, Latest, OwnLoop, RunsOwn, Alive
  <2>2. stop[s] # "idle" /\ \A u \in Stoppers : u # s => stop[u] = "idle"
    BY <2>0 DEF StopStreaming, CheckActive, StopThread, JoinThread, QuietStops, Quiet
  <2>3. \A u \in Stoppers : u # s => stop'[u] = "idle"
    BY <2>2 DEF StopStreaming, CheckActive, StopThread, JoinThread, Returns, TypeOK
  <2>4. QuietStops'
    BY <1>1, <2>0, <2>2, <2>3 DEF streams, QuietStops, Quiet, Alive
  <2>5. ToldStops'
    <3>1. CASE StopThread(s)
      <4>1. joins'[s] = threadId /\ threadId' = threadId /\ thread' = thread
        BY <1>1, <3>1 DEF StopThread, streams, TypeOK
      <4>2. threadId \in Threads
        BY <2>0, <3>1 DEF StopThread, FoundStops
      <4>3. thread[threadId] = "running" => gst_loop = threadId
        BY <2>0, <4>2 DEF OwnLoop, HasLoop, TypeOK
      <4>4. thread[threadId] = "running" => ~loopRunning'[threadId]
        BY <3>1, <4>2, <4>3, GstAssumption DEF StopThread, StopGstThread, QuitLoop, TypeOK
      <4>5. Told(s)'
        BY <4>1, <4>2, <4>4 DEF Told
      <4> QED
        BY <2>3, <4>5 DEF ToldStops
    <3>2. CASE CheckActive(s) \/ JoinThread(s)
      <4>1. stop'[s] # "join"
        BY <3>2 DEF CheckActive, JoinThread, Returns, TypeOK
      <4> QED
        BY <2>3, <4>1 DEF ToldStops
    <3> QED
      BY <3>1, <3>2 DEF StopStreaming
  <2>6. FoundStops'
    <3>1. ASSUME stop'[s] = "quit" PROVE threadId \in Threads
      <4>1. isGstMainLoopActive
        BY <2>2, <3>1 DEF StopStreaming, CheckActive, StopThread, JoinThread, Returns, TypeOK
      <4>2. PICK t \in Threads : Alive(t)
        BY <4>1 DEF ActiveHasThread, Alive
      <4> QED
        BY <2>0, <4>2 DEF Latest
    <3> QED
      BY <1>1, <2>3, <3>1 DEF streams, FoundStops
  <2> QED
    BY <2>1, <2>4, <2>5, <2>6 DEF StopParts
<1> QED
  BY <1>1, <1>2, <1>3 DEF StopInv

\* The image callback starts a thread only when none is alive and nobody stops.
LEMMA StopImage == TypeOK /\ StreamInv /\ StopInv /\ OnImage => StopInv'
<1> SUFFICES ASSUME TypeOK, StreamInv, StopInv, OnImage PROVE StopInv'
  OBVIOUS
<1>1. UNCHANGED <<gst_loop, source, runs, stop, joins, hasty>>
  BY DEF OnImage, ImageArrives, StartStreaming, RequestServed, PushBuffer, PushFailed,
         ImageUnchanged, stops, budget
<1>2. ASSUME StartStreaming, ~hasty
      PROVE  /\ \A t \in Threads : ~Alive(t)
             /\ \A s \in Stoppers : stop'[s] = "idle"
  <2>1. image = "start"
    BY <1>2 DEF StartStreaming
  <2> QED
    BY <1>1, <1>2, <2>1
    DEF StreamInv, Unserved, StopInv, StopParts, QuietStops, Quiet, Serving, Answered
<1>3. CASE StartStreaming /\ Start
  <2>1. /\ NewThread \in Threads /\ thread[NewThread] = "none"
        /\ thread' = [thread EXCEPT ![NewThread] = "created"] /\ threadId' = NewThread
    BY <1>3, NewThreadIsNew DEF Start, StoreId
  <2>2. Started'
    BY <2>1 DEF Started, TypeOK
  <2>3. ASSUME ~hasty
        PROVE  StopParts'
    <3>1. \A t \in Threads : t # NewThread => thread'[t] \in {"none", "ended"}
      BY <1>2, <1>3, <2>1, <2>3 DEF Alive, TypeOK
    <3>2. thread'[NewThread] = "created"
      BY <2>1 DEF TypeOK
    <3>3. \A s \in Stoppers : stop'[s] = "idle"
      BY <1>2, <1>3, <2>3
    <3> QED
      BY <2>1, <3>1, <3>2, <3>3 DEF StopParts, Latest, OwnLoop, RunsOwn, QuietStops, FoundStops,
                                    ToldStops, Alive, HasLoop
  <2> QED
    BY <1>1, <2>2, <2>3 DEF StopInv
<1>4. CASE StartStreaming /\ StartRefused
  <2>1. UNCHANGED thread /\ threadId' \in {threadId, BadThread}
    BY <1>4 DEF StartRefused
  <2>2. Started'
    BY <2>1, GstAssumption DEF StopInv, Started
  <2>3. ASSUME ~hasty
        PROVE  StopParts'
    <3>1. /\ \A t \in Threads : thread'[t] \in {"none", "ended"}
          /\ \A s \in Stoppers : stop'[s] = "idle"
      BY <1>2, <1>4, <2>1, <2>3 DEF Alive
    <3> QED
      BY <3>1 DEF StopParts, Latest, OwnLoop, RunsOwn, QuietStops, FoundStops, ToldStops, Alive,
                  HasLoop
  <2> QED
    BY <1>1, <2>2, <2>3 DEF StopInv
<1>5. CASE ~(StartStreaming /\ (Start \/ StartRefused))
  <2>1. /\ UNCHANGED <<thread, threadId>>
        /\ requestedStartStreaming' => requestedStartStreaming
        /\ image' \notin Serving \/ image \in Serving \/ requestedStartStreaming
        /\ loopRunning' = loopRunning \/ QuitLoop
    BY <1>5 DEF OnImage, ImageArrives, StartStreaming, StartSkipped, RequestServed, ClearRequest,
                PushBuffer, PushFailed, ImageUnchanged, Serving, Answered
  <2>2. \A t \in Threads : loopRunning'[t] => loopRunning[t]
    BY <2>1 DEF QuitLoop, TypeOK
  <2>3. Started'
    BY <2>1 DEF StopInv, Started
  <2>4. ASSUME ~hasty
        PROVE  StopParts'
    <3>1. Latest /\ OwnLoop /\ RunsOwn /\ QuietStops /\ FoundStops /\ ToldStops
      BY <2>4 DEF StopInv, StopParts
    <3>2. (Latest /\ OwnLoop /\ RunsOwn /\ FoundStops)'
      BY <1>1, <2>1, <3>1 DEF Latest, OwnLoop, RunsOwn, FoundStops, Alive
    <3>3. QuietStops'
      BY <1>1, <2>1, <3>1 DEF QuietStops, Quiet, Alive
    <3>4. ToldStops'
      BY <1>1, <2>1, <2>2, <3>1 DEF ToldStops, Told, TypeOK
    <3> QED
      BY <3>2, <3>3, <3>4 DEF StopParts
  <2> QED
    BY <1>1, <2>3, <2>4 DEF StopInv
<1> QED
  BY <1>3, <1>4, <1>5

\* A streaming thread touches only its own loop, and while another thread stops it, it
\* only goes on to its end.
LEMMA StopGstStep ==
  ASSUME TypeOK, StreamInv, StopInv, NEW t \in Threads, StartGstThread(t)
  PROVE  StopInv'
<1> USE DEF TypeOK
<1>1. UNCHANGED <<requestedStartStreaming, threadId, image, stop, joins, hasty>>
  BY DEF StartGstThread, MakeLoop, MakePipeline, FailEarly, SetActive, RunLoop, LoopReturns,
         LeaveLoop, CleanUp, ThreadUnchanged, stops, budget
<1>2. PICK p \in Positions \ {"none"} : thread' = [thread EXCEPT ![t] = p]
  BY DEF StartGstThread, MakeLoop, MakePipeline, FailEarly, SetActive, RunLoop, LoopReturns,
         LeaveLoop, CleanUp, GoesTo, Positions
<1>3. Started'
  BY <1>1, <1>2 DEF StopInv, Started
<1>4. ASSUME ~hasty
      PROVE  StopParts'
  <2>0. Latest /\ OwnLoop /\ RunsOwn /\ QuietStops /\ FoundStops /\ ToldStops
    BY <1>4 DEF StopInv, StopParts
  <2>1. Alive(t) /\ \A u \in Threads : Alive(u)' => u = t
    <3>1. Alive(t) /\ \A u \in Threads : Alive(u)' => Alive(u)
      BY ThreadStaysDead DEF StartGstThread, MakeLoop, MakePipeline, FailEarly, SetActive,
         RunLoop, LoopReturns, LeaveLoop, CleanUp, GoesTo, Alive
    <3> QED
      BY <1>4, <3>1 DEF StreamInv, OneStream
  <2>2. threadId = t
    BY <2>0, <2>1 DEF Latest
  <2>3. Latest'
    BY <1>1, <2>1, <2>2 DEF Latest
  <2>4. thread'[t] \in HasLoop => gst_loop' = t
    <3>1. CASE MakeLoop(t)
      BY <3>1 DEF MakeLoop
    <3>2. CASE CleanUp(t) \/ FailEarly(t)
      BY <3>2 DEF CleanUp, FailEarly, GoesTo, HasLoop
    <3>3. CASE MakePipeline(t) \/ SetActive(t) \/ RunLoop(t) \/ LoopReturns(t) \/ LeaveLoop(t)
      BY <2>0, <3>3 DEF MakePipeline, SetActive, RunLoop, LoopReturns, LeaveLoop, GoesTo, loops,
         OwnLoop, HasLoop
    <3> QED
      BY <3>1, <3>2, <3>3 DEF StartGstThread
  <2>5. OwnLoop'
    BY <2>1, <2>4 DEF OwnLoop, HasLoop, Alive
  <2>6. thread'[t] = "running" => runs'[t] = t
    <3>1. CASE RunLoop(t)
      BY <2>0, <3>1 DEF RunLoop, OwnLoop, HasLoop
    <3>2. CASE ~RunLoop(t)
      BY <3>2 DEF StartGstThread, MakeLoop, MakePipeline, FailEarly, SetActive, LoopReturns,
         LeaveLoop, CleanUp, GoesTo
    <3> QED
      BY <3>1, <3>2
  <2>7. RunsOwn'
    BY <2>1, <2>6 DEF RunsOwn, Alive
  <2>8. ASSUME NEW s \in Stoppers, stop[s] # "idle"
        PROVE  thread'[t] \in Ending \cup {"ended"} /\ thread'[t] # "running"
               /\ loopRunning' = loopRunning
    <3>1. thread[t] \in Ending
      BY <2>0, <2>1, <2>8 DEF QuietStops, Quiet
    <3> QED
      BY <3>1 DEF StartGstThread, MakeLoop, MakePipeline, FailEarly, SetActive, RunLoop,
         LoopReturns, LeaveLoop, CleanUp, GoesTo, loops, Ending
  <2>9. QuietStops'
    BY <1>1, <2>0, <2>1, <2>8 DEF QuietStops, Quiet, Alive
  <2>10. ToldStops'
    BY <1>1, <2>0, <2>2, <2>8 DEF ToldStops, Told
  <2>11. FoundStops'
    BY <1>1, <2>0 DEF FoundStops
  <2> QED
    BY <2>3, <2>5, <2>7, <2>9, <2>10, <2>11 DEF StopParts
<1> QED
  BY <1>1, <1>3, <1>4 DEF StopInv

LEMMA StopInvStep ==
  TypeInv /\ ActiveHasThread /\ StreamInv /\ StopInv /\ [Next]_vars => StopInv'
<1> SUFFICES ASSUME TypeInv, ActiveHasThread, StreamInv, StopInv, [Next]_vars
             PROVE  StopInv'
  OBVIOUS
<1>1. CASE UNCHANGED vars \/ Configure \/ PreUpdate
  <2>1. UNCHANGED <<flags, loops, streams, image, stops, budget>>
    BY <1>1 DEF vars, Configure, PreUpdate
  <2> QED
    BY <2>1 DEF flags, loops, streams, stops, budget, StopInv, StopParts, Started, Latest,
       OwnLoop, RunsOwn, QuietStops, Quiet, FoundStops, ToldStops, Told, Alive
<1> QED
  BY <1>1, StopCommand, StopStep, StopImage, StopGstStep DEF Next, TypeInv

\* If each command waits for the last, the thread that StopStreaming joins (line 573) has
\* left its main loop, or runs the very loop that was quit: nothing of another thread has
\* to happen for the join to return.  This is the safety half of StopReturns.
THEOREM JoinedThreadEnds == Spec => []JoinsEnd
<1>1. Init => StreamInv
  BY DEF Init, StreamInv, OneStream, Unserved, Alive
<1>2. TypeInv => TypeOK
  BY DEF TypeInv
<1>3. Init => ActiveHasThread
  BY DEF Init, ActiveHasThread
<1> QED
  BY <1>1, <1>2, <1>3, TypeInit, TypeStep, ActiveStep, StreamStep, StopInit, StopInvStep,
     JoinedEnds, PTL
  DEF Spec
=============================================================================
