--------------------------- MODULE StartupCauses ---------------------------
(***************************************************************************)
(* What it takes for Startup to go wrong: a vehicle whose bind failed that *)
(* takes part in the exchange all the same, a lock-step wait that nothing  *)
(* can end, and a crash of the server.                                     *)
(***************************************************************************)
EXTENDS StartupProofs

----------------------------------------------------------------------------
(* How far a vehicle is.                                                    *)

\* Which actions change how far a vehicle is, and from where to where.
LEMMA LifeMoves ==
  ASSUME TypeInv, [Next]_vars, NEW v \in Vehicles
  PROVE  \/ life'[v] = life[v]
         \/ Construct /\ life[v] = "none" /\ life'[v] = "loading"
         \/ NoModel /\ v = cur /\ life'[v] = "failed"
         \/ BindAndLoad /\ v = cur /\ life'[v] = "ready"
         \/ BindFails /\ v = cur /\ life'[v] = "failed"
         \/ DestroyRanges /\ life[v] \in {"ready", "failed"} /\ life'[v] = "dying"
         \/ DestroySocket /\ v = cur /\ life'[v] = "gone"
<1> USE DEF TypeInv, TypeOK
<1>1. CASE Construct
  BY <1>1 DEF Construct
<1>2. CASE Configure
  BY <1>2 DEF Configure, NoModel, HasModel, LoadControl, ControlsDone, Subscribe,
     AppendSlot, SensorsDone, BindAndLoad, BindFails, Becomes, SensorsUnchanged
<1>3. CASE PreUpdate
  BY <1>3 DEF PreUpdate, BeginUpdate, NoAnemometerDue, AnemometerMissing,
     AnemometerFound, ImuMissing, ImuFound, TakePacket, NoPacket, LookUpUnchanged,
     ExchangeUnchanged
<1>4. CASE DestroyRanges \/ DestroySocket
  BY <1>4 DEF DestroyRanges, DestroySocket, Becomes, Running
<1>5. CASE Callback \/ Sends
  BY <1>5 DEF Callback, RangeCb, RangeCbOutside, Sends, FcSend
<1>6. CASE Finished \/ UNCHANGED vars
  BY <1>6 DEF Finished, vars
<1> QED
  BY <1>1, <1>2, <1>3, <1>4, <1>5, <1>6 DEF Next, Sends

\* Whose connection an update concerns: a vehicle that is configured.
LEMMA OnlineMoves ==
  ASSUME TypeInv, [Next]_vars, NEW v \in Vehicles
  PROVE  \/ arduPilotOnline'[v] = arduPilotOnline[v]
         \/ TakePacket /\ v = cur /\ life[v] \in {"ready", "failed"}
         \/ arduPilotOnline'[v] = FALSE
<1> USE DEF TypeInv, TypeOK
<1>1. CASE TakePacket
  BY <1>1 DEF TakePacket, Stages
<1>2. CASE NoPacket
  <2>1. PICK o \in {FALSE, arduPilotOnline[cur]} :
          arduPilotOnline' = [arduPilotOnline EXCEPT ![cur] = o]
    BY <1>2 DEF NoPacket
  <2> QED
    BY <2>1
<1>3. CASE DestroySocket \/ Sends
  BY <1>3 DEF DestroySocket, Sends, FcSend
<1> QED
  BY <1>1, <1>2, <1>3, Frame DEF linkVars

----------------------------------------------------------------------------
(* Files.  A vehicle's socket is open under the vehicle's own number only,  *)
(* and one whose bind failed has none.                                      *)

FileAt == \A f \in Descriptors : files[f] # Free => fd[files[f]] = f
NoNumber == \A v \in Vehicles : ~Alive(v) => fd[v] = 0
NotStarted ==
  \A v \in Vehicles :
    life[v] \in {"none", "loading"} => ~isLockStep[v] /\ ~arduPilotOnline[v]
NoFile ==
  \A v \in aborted : ~isLockStep[v] /\ \A f \in Descriptors : files[f] # v

FileInv == FileAt /\ NoNumber /\ NotStarted /\ NoFile

LEMMA FileInit == Init => FileInv
BY DEF Init, FileInv, FileAt, NoNumber, NotStarted, NoFile, Free, Alive

\* Each action on the files, in one place.
LEMMA FileMoves ==
  ASSUME TypeInv, [Next]_vars
  PROVE  \/ \E v \in Vehicles, f \in Descriptors :
              /\ Construct /\ life[v] = "none" /\ life'[v] = "loading"
              /\ files[f] = Free /\ files' = [files EXCEPT ![f] = v]
              /\ fd' = [fd EXCEPT ![v] = f]
              /\ aborted' = aborted
         \/ /\ BindFails /\ cur \in Vehicles /\ life[cur] = "loading"
            /\ files' = [files EXCEPT ![fd[cur]] = Free] /\ fd' = fd
            /\ aborted' = aborted \cup {cur}
         \/ /\ DestroySocket /\ cur \in Vehicles /\ life[cur] = "dying"
            /\ files' = [files EXCEPT ![fd[cur]] = Free]
            /\ fd' = [fd EXCEPT ![cur] = 0]
            /\ aborted' = aborted
         \/ ~Construct /\ ~DestroySocket /\ UNCHANGED <<files, fd, aborted>>
<1> USE DEF TypeInv, TypeOK, Stages, Loading
<1>1. CASE Construct
  <2>1. PICK v \in Vehicles :
          /\ life[v] = "none" /\ life' = [life EXCEPT ![v] = "loading"]
          /\ \E f \in Descriptors :
               files[f] = Free /\ fd' = [fd EXCEPT ![v] = f] /\ OpenSocket(v, f)
    BY <1>1 DEF Construct
  <2>2. PICK f \in Descriptors :
          files[f] = Free /\ fd' = [fd EXCEPT ![v] = f] /\ OpenSocket(v, f)
    BY <2>1
  <2>3. life'[v] = "loading" /\ aborted' = aborted
    BY <1>1, <2>1 DEF Construct
  <2>4. files' = [files EXCEPT ![f] = v]
    BY <2>2 DEF OpenSocket
  <2> QED
    BY <1>1, <2>1, <2>2, <2>3, <2>4
<1>2. CASE BindFails
  BY <1>2 DEF BindFails, CloseUnbound, BindUnchanged, Goto
<1>3. CASE DestroySocket
  BY <1>3 DEF DestroySocket, Goto
<1>4. CASE BindAndLoad
  BY <1>4 DEF BindAndLoad, BindUnchanged, Goto, Construct, DestroySocket
<1>5. CASE ~Construct /\ ~DestroySocket /\ UNCHANGED fileVars
  BY <1>5 DEF fileVars
<1> QED
  BY <1>1, <1>2, <1>3, <1>4, <1>5, Frame

LEMMA FileNext ==
  ASSUME TypeInv, FileInv, [Next]_vars
  PROVE  FileAt' /\ NoNumber' /\ (\A v \in aborted' : \A f \in Descriptors : files'[f] # v)
<1> USE DEF TypeInv, TypeOK, Alive
<1>0. \A v \in Vehicles : v # Free
  BY DEF Vehicles, Free
<1>1. CASE \E v \in Vehicles, f \in Descriptors :
             /\ Construct /\ life[v] = "none" /\ life'[v] = "loading"
             /\ files[f] = Free /\ files' = [files EXCEPT ![f] = v]
             /\ fd' = [fd EXCEPT ![v] = f]
             /\ aborted' = aborted
  <2>1. PICK v \in Vehicles, f \in Descriptors :
          /\ Construct /\ life[v] = "none" /\ life'[v] = "loading"
          /\ files[f] = Free /\ files' = [files EXCEPT ![f] = v]
          /\ fd' = [fd EXCEPT ![v] = f]
          /\ aborted' = aborted
    BY <1>1
  <2>2. fd[v] = 0 /\ v \notin aborted
    BY <2>1 DEF FileInv, NoNumber, Stages
  <2>3. \A g \in Descriptors : files[g] # v
    <3> SUFFICES ASSUME NEW g \in Descriptors, files[g] = v PROVE FALSE
      OBVIOUS
    <3>1. fd[v] = g
      BY <1>0 DEF FileInv, FileAt
    <3> QED
      BY <2>2, <3>1 DEF Descriptors
  <2>4. FileAt'
    BY <1>0, <2>1, <2>3 DEF FileInv, FileAt
  <2>5. NoNumber'
    BY <2>1, LifeMoves DEF FileInv, NoNumber, Construct, DestroySocket, Goto
  <2>6. \A u \in aborted' : \A g \in Descriptors : files'[g] # u
    BY <2>1, <2>2 DEF FileInv, NoFile
  <2> QED
    BY <2>4, <2>5, <2>6
<1>2. CASE /\ BindFails /\ cur \in Vehicles /\ life[cur] = "loading"
           /\ files' = [files EXCEPT ![fd[cur]] = Free] /\ fd' = fd
           /\ aborted' = aborted \cup {cur}
  <2>1. \A g \in Descriptors : files'[g] = files[g] \/ files'[g] = Free
    BY <1>2
  <2>2. \A g \in Descriptors : files'[g] # cur
    BY <1>0, <1>2 DEF FileInv, FileAt
  <2>3. FileAt'
    BY <1>2, <2>1 DEF FileInv, FileAt
  <2>4. \A v \in Vehicles : ~Alive(v)' => ~Alive(v)
    BY <1>2, LifeMoves DEF BindFails, Goto, Construct, DestroySocket, DestroyRanges
  <2>5. \A u \in aborted' : \A g \in Descriptors : files'[g] # u
    BY <1>0, <1>2, <2>1, <2>2 DEF FileInv, NoFile
  <2> QED
    BY <1>2, <2>3, <2>4, <2>5 DEF FileInv, NoNumber
<1>3. CASE /\ DestroySocket /\ cur \in Vehicles /\ life[cur] = "dying"
           /\ files' = [files EXCEPT ![fd[cur]] = Free]
           /\ fd' = [fd EXCEPT ![cur] = 0]
           /\ aborted' = aborted
  <2>1. \A g \in Descriptors : files'[g] = files[g] \/ files'[g] = Free
    BY <1>3
  <2>2. \A g \in Descriptors : files'[g] # cur
    BY <1>0, <1>3 DEF FileInv, FileAt
  <2>3. FileAt'
    BY <1>3, <2>1, <2>2 DEF FileInv, FileAt
  <2>4. NoNumber'
    BY <1>3, LifeMoves DEF FileInv, NoNumber, Construct, DestroySocket, DestroyRanges, Goto
  <2>5. \A u \in aborted' : \A g \in Descriptors : files'[g] # u
    BY <1>0, <1>3, <2>1 DEF FileInv, NoFile
  <2> QED
    BY <2>3, <2>4, <2>5
<1>4. CASE ~Construct /\ ~DestroySocket /\ UNCHANGED <<files, fd, aborted>>
  <2>1. \A v \in Vehicles : ~Alive(v)' => ~Alive(v)
    BY <1>4, LifeMoves
  <2> QED
    BY <1>4, <2>1 DEF FileInv, FileAt, NoNumber, NoFile
<1> QED
  BY <1>1, <1>2, <1>3, <1>4, FileMoves

LEMMA LockStepMoves ==
  ASSUME TypeInv, [Next]_vars, NEW v \in Vehicles
  PROVE  \/ isLockStep'[v] = isLockStep[v]
         \/ BindAndLoad /\ v = cur /\ life[v] = "loading" /\ life'[v] = "ready"
<1> USE DEF TypeInv, TypeOK
<1>1. CASE Construct
  BY <1>1 DEF Construct
<1>2. CASE BindAndLoad
  BY <1>2 DEF BindAndLoad, Goto, Becomes, Stages, Loading
<1>3. CASE Configure /\ ~BindAndLoad
  BY <1>3 DEF Configure, NoModel, HasModel, LoadControl, ControlsDone, ConfigUnchanged,
     Subscribe, AppendSlot, SensorsDone, SensorsUnchanged, BindFails
<1>4. CASE PreUpdate
  BY <1>4 DEF PreUpdate, BeginUpdate, NoAnemometerDue, AnemometerMissing,
     AnemometerFound, ImuMissing, ImuFound, TakePacket, NoPacket, LookUpUnchanged,
     ExchangeUnchanged
<1>5. CASE DestroyRanges \/ DestroySocket
  BY <1>5 DEF DestroyRanges, DestroySocket
<1>6. CASE Callback \/ Sends
  BY <1>6 DEF Callback, RangeCb, RangeCbOutside, Sends, FcSend
<1>7. CASE Finished \/ UNCHANGED vars
  BY <1>7 DEF Finished, vars
<1> QED
  BY <1>1, <1>2, <1>3, <1>4, <1>5, <1>6, <1>7 DEF Next, Sends

LEMMA NotStartedNext ==
  ASSUME TypeInv, NotStarted, [Next]_vars
  PROVE  NotStarted'
<1> SUFFICES ASSUME NEW v \in Vehicles, life'[v] \in {"none", "loading"}
             PROVE  ~isLockStep'[v] /\ ~arduPilotOnline'[v]
  BY DEF NotStarted
<1>1. life[v] \in {"none", "loading"}
  BY LifeMoves
<1>2. ~isLockStep'[v]
  BY <1>1, LockStepMoves DEF NotStarted
<1>3. ~arduPilotOnline'[v]
  BY <1>1, OnlineMoves DEF NotStarted
<1> QED
  BY <1>2, <1>3

\* The vehicle whose bind fails has not read <lock_step> yet, and never will.
LEMMA NoLockStepNext ==
  ASSUME TypeInv, NotStarted, NoFile, [Next]_vars, NEW v \in aborted'
  PROVE  ~isLockStep'[v]
<1> USE DEF TypeInv, TypeOK
<1>1. CASE v \in aborted
  <2>1. life[v] # "loading" /\ v \in Vehicles
    BY <1>1 DEF Stages
  <2> QED
    BY <1>1, <2>1, LockStepMoves DEF NoFile
<1>2. CASE v \notin aborted
  <2>1. BindFails /\ v = cur /\ v \in Vehicles /\ life[v] = "loading"
    BY <1>2, FileMoves
  <2>2. isLockStep' = isLockStep
    BY <2>1 DEF BindFails
  <2> QED
    BY <2>1, <2>2 DEF NotStarted
<1> QED
  BY <1>1, <1>2

LEMMA FileAlways == Spec => []FileInv
<1>1. FileInv /\ TypeInv /\ [Next]_vars => FileInv'
  <2> SUFFICES ASSUME FileInv, TypeInv, [Next]_vars PROVE FileInv'
    OBVIOUS
  <2>1. FileAt' /\ NoNumber' /\ (\A v \in aborted' : \A f \in Descriptors : files'[f] # v)
    BY FileNext
  <2>2. NotStarted'
    BY NotStartedNext DEF FileInv
  <2>3. \A v \in aborted' : ~isLockStep'[v]
    BY NoLockStepNext DEF FileInv
  <2> QED
    BY <2>1, <2>2, <2>3 DEF FileInv, NoFile
<1> QED
  BY <1>1, FileInit, TypeAlways, PTL DEF Spec

LEMMA LinkAlways == Spec => []LinkInv
<1>1. LinkInv /\ TypeInv /\ [Next]_vars => LinkInv'
  BY OwnSocketNext, QueuedByPortNext, OwnPortNext DEF LinkInv
<1> QED
  BY <1>1, LinkInit, TypeAlways, PTL DEF Spec

----------------------------------------------------------------------------
(* Failed binds.                                                            *)

\* A vehicle whose bind failed goes online only when its stale number has become
\* that of a socket another vehicle opened and bound since.
HearsAnother(v) == files[fd[v]] \in Vehicles \ aborted
GoesOnline(v) == ~arduPilotOnline[v] /\ arduPilotOnline'[v]

\* Behind every connection of a vehicle whose bind failed (line 1289) there is the
\* open socket of another vehicle, whose bind did not fail: it takes that one's packets.
THEOREM AbortedHearsAnother ==
  Spec => [][\A v \in aborted : GoesOnline(v) => HearsAnother(v)]_vars
<1>1. ASSUME TypeInv, FileInv, [Next]_vars, NEW v \in aborted, GoesOnline(v)
      PROVE  HearsAnother(v)
  <2> USE DEF TypeInv, TypeOK
  <2>1. TakePacket /\ v = cur /\ life[v] \in {"ready", "failed"} /\ v \in Vehicles
    BY <1>1, OnlineMoves DEF GoesOnline
  <2>2. fd[v] \in Descriptors
    BY <1>1, <2>1 DEF Stages, Alive
  <2>3. files[fd[v]] # Free
    BY <2>1 DEF TakePacket, Waiting
  <2> QED
    BY <1>1, <2>2, <2>3 DEF FileInv, NoFile, HearsAnother
<1>2. TypeInv /\ FileInv /\ [Next]_vars
        => [\A v \in aborted : GoesOnline(v) => HearsAnother(v)]_vars
  BY <1>1
<1> QED
  BY <1>2, TypeAlways, FileAlways, PTL DEF Spec

\* No vehicle is spawned any more once a bind has failed.
NoLateSpawn == aborted # {} => \A v \in Vehicles : life[v] # "none"

DeadNumber == \A v \in aborted : Alive(v) => files[fd[v]] = Free
AbortedInv == DeadNumber /\ AbortedStaysOffline

LEMMA DeadNumberNext ==
  ASSUME TypeInv, NoLateSpawn, DeadNumber, [Next]_vars
  PROVE  DeadNumber'
<1> USE DEF TypeInv, TypeOK
<1> SUFFICES ASSUME NEW v \in aborted', Alive(v)'
             PROVE  files'[fd'[v]] = Free
  BY DEF DeadNumber
<1>1. CASE Construct
  <2>1. aborted = {}
    BY <1>1 DEF Construct, NoLateSpawn
  <2> QED
    BY <1>1, <2>1, FileMoves DEF Construct, BindFails, DestroySocket, Goto
<1>2. ASSUME ~Construct, v \in aborted
      PROVE  v \in Vehicles /\ Alive(v) /\ files[fd[v]] = Free /\ fd[v] \in Descriptors
  <2>1. v \in Vehicles
    BY <1>2
  <2>2. Alive(v)
    BY <1>2, <2>1, AliveBefore
  <2> QED
    BY <1>2, <2>1, <2>2 DEF DeadNumber, Stages
<1>3. CASE /\ BindFails /\ cur \in Vehicles /\ life[cur] = "loading"
           /\ files' = [files EXCEPT ![fd[cur]] = Free] /\ fd' = fd
           /\ aborted' = aborted \cup {cur}
  <2>1. ~Construct
    BY <1>3 DEF BindFails, Construct, Goto
  <2>2. fd[cur] \in Descriptors
    BY <1>3 DEF Stages, Alive
  <2> QED
    BY <1>2, <1>3, <2>1, <2>2
<1>4. CASE /\ DestroySocket /\ cur \in Vehicles /\ life[cur] = "dying"
           /\ files' = [files EXCEPT ![fd[cur]] = Free]
           /\ fd' = [fd EXCEPT ![cur] = 0]
           /\ aborted' = aborted
  <2>1. ~Construct /\ life'[cur] = "gone"
    BY <1>4 DEF DestroySocket, Becomes, Construct, Goto
  <2>2. v # cur
    BY <2>1 DEF Alive
  <2> QED
    BY <1>2, <1>4, <2>1, <2>2
<1>5. CASE ~Construct /\ UNCHANGED <<files, fd, aborted>>
  BY <1>2, <1>5
<1> QED
  BY <1>1, <1>3, <1>4, <1>5, FileMoves

LEMMA OfflineNext ==
  ASSUME TypeInv, NotStarted, AbortedInv, [Next]_vars
  PROVE  AbortedStaysOffline'
<1> USE DEF TypeInv, TypeOK
<1> SUFFICES ASSUME NEW v \in aborted', arduPilotOnline'[v]
             PROVE  FALSE
  BY DEF AbortedStaysOffline
<1>1. CASE v \in aborted
  <2>1. TakePacket /\ v = cur /\ life[v] \in {"ready", "failed"}
    BY <1>1, OnlineMoves DEF AbortedInv, AbortedStaysOffline
  <2>2. Waiting(v) = {}
    BY <1>1, <2>1 DEF AbortedInv, DeadNumber, Alive, Waiting
  <2> QED
    BY <2>1, <2>2 DEF TakePacket
<1>2. CASE v \notin aborted
  <2>1. BindFails /\ v = cur /\ v \in Vehicles /\ life[v] = "loading"
    BY <1>2, FileMoves
  <2> QED
    BY <2>1, OnlineMoves DEF NotStarted
<1> QED
  BY <1>1, <1>2

\* "failed to bind ... aborting plugin" (line 1289) is true as long as no vehicle is
\* spawned after the failure: then the number that was closed stays closed.
THEOREM AbortedOfflineIfNoLateSpawn ==
  Spec /\ []NoLateSpawn => []AbortedStaysOffline
<1>1. Init => AbortedInv
  BY DEF Init, AbortedInv, DeadNumber, AbortedStaysOffline
<1>2. AbortedInv /\ TypeInv /\ FileInv /\ NoLateSpawn /\ [Next]_vars => AbortedInv'
  BY DeadNumberNext, OfflineNext DEF AbortedInv, FileInv
<1>3. AbortedInv => AbortedStaysOffline
  BY DEF AbortedInv
<1> QED
  BY <1>1, <1>2, <1>3, TypeAlways, FileAlways, PTL DEF Spec

\* A lock-step wait that nothing can end (line 1321) happens only after a vehicle whose
\* bind had failed was removed: its destructor closed the waiting one's socket.
THEOREM WaitsInVainOnlyAfterDoubleClose == Spec => [](WaitsInVain => ClosedTwice)
<1>1. TypeInv /\ FileInv /\ LinkInv => (WaitsInVain => ClosedTwice)
  <2> SUFFICES ASSUME TypeInv, FileInv, LinkInv, WaitsInVain, ~ClosedTwice PROVE FALSE
    OBVIOUS
  <2>1. cur \in Vehicles \ aborted /\ Alive(cur)
    BY DEF WaitsInVain, FileInv, NoFile, TypeInv, TypeOK, Stages, Alive
  <2>2. files[fd[cur]] = cur
    BY <2>1 DEF LinkInv, OwnSocket
  <2> QED
    BY <2>1, <2>2 DEF WaitsInVain, Free, Vehicles
<1> QED
  BY <1>1, TypeAlways, FileAlways, LinkAlways, PTL

----------------------------------------------------------------------------
(* Crashes.  A vehicle that is neither being configured nor destroyed has a *)
(* slot for each of its sensors, or has subscribed to none.                 *)

SlotForEach(v) == Len(ranges[v]) = NumSensors(v) \/ subscribed[v] = <<>>

AllLoaded ==
  /\ \A v \in Vehicles : life[v] \in {"ready", "failed"} => SlotForEach(v)
  /\ \A v \in Vehicles : life[v] \in {"none", "gone"} => subscribed[v] = <<>>
  /\ pc = "sensors" => Len(subscribed[cur]) <= NumSensors(cur)
  /\ pc = "bind" => Len(ranges[cur]) = NumSensors(cur)

\* Callbacks write outside `ranges` only of such a vehicle.
AtRisk(v) == ~WellIndexed(v) \/ life[v] \in {"loading", "dying"}
\* A step into the crash is a callback of one.
CrashesAtRisk ==
  pc' = "crashed" =>
    \E v \in Vehicles : \E s \in Sensors(v) : RangeCbOutside(v, s) /\ AtRisk(v)

LEMMA AllLoadedInit == Init => AllLoaded
<1> SUFFICES ASSUME Init PROVE AllLoaded
  OBVIOUS
<1>1. pc = "idle" /\ \A v \in Vehicles : life[v] = "none" /\ subscribed[v] = <<>>
  BY DEF Init
<1> QED
  BY <1>1 DEF AllLoaded, SlotForEach

\* How the thread comes to the end of the sensors, and to its crash.
LEMMA BindMoves ==
  ASSUME [Next]_vars
  PROVE  /\ pc' = "bind" => cur' = cur /\ (pc = "bind" \/ SensorsDone)
         /\ SensorsDone => pc' = "bind"
         /\ \/ pc' # "crashed"
            \/ \E v \in Vehicles : \E s \in Sensors(v) : RangeCbOutside(v, s)
            \/ UNCHANGED vars
<1>1. CASE Construct
  BY <1>1 DEF Construct, SensorsDone, Goto
<1>2. CASE Configure
  BY <1>2 DEF Configure, NoModel, HasModel, LoadControl, ControlsDone, Subscribe,
     AppendSlot, SensorsDone, BindAndLoad, BindFails, Goto
<1>3. CASE PreUpdate
  BY <1>3 DEF PreUpdate, BeginUpdate, NoAnemometerDue, AnemometerMissing,
     AnemometerFound, ImuMissing, ImuFound, TakePacket, NoPacket, Goto, Return,
     UpdateFirstOf, SensorsDone
<1>4. CASE DestroyRanges \/ DestroySocket
  BY <1>4 DEF DestroyRanges, DestroySocket, Goto, SensorsDone
<1>5. CASE Callback
  <2>0. PICK v \in Vehicles : \E s \in Sensors(v) : RangeCb(v, s) \/ RangeCbOutside(v, s)
    BY <1>5 DEF Callback
  <2>1. PICK s \in Sensors(v) : RangeCb(v, s) \/ RangeCbOutside(v, s)
    BY <2>0
  <2>2. CASE RangeCb(v, s)
    BY <2>2 DEF RangeCb, Hears, SensorsDone, Goto
  <2>3. CASE RangeCbOutside(v, s)
    <3>1. pc' = "crashed" /\ UNCHANGED rangeVars
      BY <2>3 DEF RangeCbOutside
    <3>2. ~SensorsDone
      BY <3>1 DEF SensorsDone, Goto
    <3> QED
      BY <2>3, <3>1, <3>2
  <2> QED
    BY <2>1, <2>2, <2>3
<1>6. CASE Sends
  BY <1>6 DEF Sends, FcSend, SensorsDone, Goto
<1>7. CASE Finished \/ UNCHANGED vars
  BY <1>7 DEF Finished, vars, SensorsDone, Goto
<1> QED
  BY <1>1, <1>2, <1>3, <1>4, <1>5, <1>6, <1>7 DEF Next, Sends

\* Of a vehicle that is not being loaded or destroyed the sensors do not change.
LEMMA SensorsKept ==
  ASSUME TypeInv, Slots, [Next]_vars, NEW v \in Vehicles,
         life[v] # "loading", life'[v] # "dying", ~(v = cur /\ DestroySocket)
  PROVE  Len(ranges'[v]) = Len(ranges[v]) /\ subscribed'[v] = subscribed[v]
<1> USE DEF TypeInv, TypeOK
<1>1. subscribed'[v] = subscribed[v]
  BY Frame DEF Subscribe, DestroySocket, Goto, Stages, Loading
<1>2. CASE AppendSlot
  <2>1. v # cur
    BY <1>2 DEF AppendSlot, Goto, Stages, Loading
  <2>2. ranges'[v] = ranges[v]
    BY <1>2, <2>1 DEF AppendSlot
  <2> QED
    BY <1>1, <2>2
<1>3. CASE DestroyRanges
  <2>1. ranges'[v] = ranges[v]
    BY <1>3 DEF DestroyRanges
  <2> QED
    BY <1>1, <2>1
<1>4. CASE ~AppendSlot /\ ~DestroyRanges
  BY <1>1, <1>4, LengthKept
<1> QED
  BY <1>2, <1>3, <1>4

LEMMA ReadyLoadedNext ==
  ASSUME TypeInv, Counts, Slots, AllLoaded, [Next]_vars, NEW v \in Vehicles,
         life'[v] \in {"ready", "failed"}
  PROVE  Len(ranges'[v]) = NumSensors(v) \/ subscribed'[v] = <<>>
<1> USE DEF TypeInv, TypeOK
<1>1. CASE life'[v] = life[v]
  <2>1. ~(v = cur /\ DestroySocket)
    BY <1>1 DEF DestroySocket, Goto, Stages
  <2> QED
    BY <1>1, <2>1, SensorsKept DEF AllLoaded, SlotForEach
<1>2. CASE NoModel /\ v = cur
  <2>1. pc = "configure" /\ subscribed' = subscribed
    BY <1>2 DEF NoModel, Goto, ConfigUnchanged, rangeVars
  <2> QED
    BY <1>2, <2>1 DEF Counts
<1>3. CASE (BindAndLoad \/ BindFails) /\ v = cur
  <2>1. pc = "bind" /\ ranges' = ranges
    BY <1>3 DEF BindAndLoad, BindFails, BindUnchanged, Goto, rangeVars
  <2> QED
    BY <1>3, <2>1 DEF AllLoaded
<1> QED
  BY <1>1, <1>2, <1>3, LifeMoves

LEMMA AllLoadedNext ==
  ASSUME TypeInv, Counts, Slots, AllLoaded, [Next]_vars
  PROVE  AllLoaded'
<1> USE DEF TypeInv, TypeOK
<1>1. \A v \in Vehicles : life'[v] \in {"ready", "failed"} => SlotForEach(v)'
  BY ReadyLoadedNext, IndexConstant DEF SlotForEach
<1>2. ASSUME NEW v \in Vehicles, life'[v] \in {"none", "gone"}
      PROVE  subscribed'[v] = <<>>
  <2>1. CASE life'[v] = "none"
    <3>1. life[v] = "none"
      BY <2>1, LifeMoves
    <3>2. ~(v = cur /\ DestroySocket)
      BY <2>1, <3>1 DEF DestroySocket, Goto, Stages
    <3> QED
      BY <2>1, <3>1, <3>2, SensorsKept DEF AllLoaded
  <2>2. CASE life'[v] = "gone" /\ v = cur /\ DestroySocket
    BY <2>2 DEF DestroySocket
  <2>3. CASE life'[v] = "gone" /\ ~(v = cur /\ DestroySocket)
    <3>1. life[v] = "gone"
      BY <2>3, LifeMoves
    <3> QED
      BY <2>3, <3>1, SensorsKept DEF AllLoaded
  <2> QED
    BY <1>2, <2>1, <2>2, <2>3
<1>3. (pc = "sensors" => Len(subscribed[cur]) <= NumSensors(cur))'
  <2> SUFFICES ASSUME pc' = "sensors" PROVE (Len(subscribed[cur]) <= NumSensors(cur))'
    OBVIOUS
  <2>1. cur' = cur /\ (pc = "sensors" \/ ControlsDone \/ AppendSlot) /\ cur \in Vehicles
    BY LoaderNext
  <2>2. subscribed' = subscribed
    BY Frame, LoaderNext
  <2>3. NumSensors(cur)' = NumSensors(cur)
    BY <2>1, Frame DEF NumSensors, SDF
  <2>4. CASE pc = "sensors"
    BY <2>1, <2>2, <2>3, <2>4 DEF AllLoaded
  <2>5. CASE ControlsDone
    <3>1. subscribed[cur] = <<>>
      BY <2>1, <2>5 DEF ControlsDone, Goto, Counts
    <3>2. Len(subscribed[cur]) = 0 /\ NumSensors(cur) \in Nat
      BY <2>1, <3>1, SeqsTyped, EmptySeq
    <3> QED
      BY <2>1, <2>2, <2>3, <3>2
  <2>6. CASE AppendSlot
    BY <2>1, <2>2, <2>3, <2>6 DEF AppendSlot, Goto, Counts
  <2> QED
    BY <2>1, <2>4, <2>5, <2>6
<1>4. (pc = "bind" => Len(ranges[cur]) = NumSensors(cur))'
  <2> SUFFICES ASSUME pc' = "bind" PROVE (Len(ranges[cur]) = NumSensors(cur))'
    OBVIOUS
  <2>1. cur' = cur /\ (pc = "bind" \/ SensorsDone) /\ cur \in Vehicles
    BY BindMoves
  <2>2. Len(ranges'[cur]) = Len(ranges[cur])
    BY <2>1, LengthKept DEF AppendSlot, DestroyRanges, SensorsDone, Goto
  <2>3. NumSensors(cur)' = NumSensors(cur)
    BY <2>1, Frame DEF NumSensors, SDF
  <2>4. Len(ranges[cur]) = NumSensors(cur)
    <3>1. CASE pc = "bind"
      BY <3>1 DEF AllLoaded
    <3>2. CASE SensorsDone
      <4>1. pc = "sensors" /\ NextSensor(cur) \notin Sensors(cur)
        BY <3>2 DEF SensorsDone, Goto
      <4> QED
        BY <2>1, <4>1, SeqsTyped DEF AllLoaded, Counts, NextSensor
    <3> QED
      BY <2>1, <3>1, <3>2
  <2> QED
    BY <2>1, <2>2, <2>3, <2>4
<1> QED
  BY <1>1, <1>2, <1>3, <1>4 DEF AllLoaded

\* A callback of a vehicle that is not at risk has a slot to write to.
LEMMA InsideUnlessAtRisk ==
  ASSUME TypeOK, Slots, AllLoaded, NEW v \in Vehicles, ~AtRisk(v), NEW s \in Sensors(v),
         Hears(v, s)
  PROVE  subscribed[v][s] + 1 \in DOMAIN ranges[v]
<1>1. WellIndexed(v) /\ life[v] \notin {"loading", "dying"}
  BY DEF AtRisk
<1>2. subscribed[v] # <<>>
  <2>1. s \in 1 .. Len(subscribed[v])
    BY SeqsTyped DEF Hears
  <2> QED
    BY <2>1, EmptySeq
<1>3. Len(ranges[v]) = NumSensors(v)
  BY <1>1, <1>2 DEF AllLoaded, SlotForEach, TypeOK
<1>4. subscribed[v][s] = IndexOf(v, s) - 1 /\ IndexOf(v, s) \in Sensors(v)
  BY <1>1 DEF Slots, Slot, Hears, WellIndexed
<1> QED
  BY <1>3, <1>4, SeqsTyped

\* The server crashes (line 305) only by a message for a vehicle that is being configured or
\* taken apart, or whose <index> elements do not number its range sensors: never by one for
\* any other vehicle, whatever the vehicles around it do.
THEOREM CrashOnlyAtRisk == Spec => [][CrashesAtRisk]_vars
<1>1. RangeInv /\ TypeInv /\ [Next]_vars => RangeInv'
  BY CountsNext, SlotsNext, FieldsNext, KeptNext DEF RangeInv, TypeInv
<1>2. RangeInv /\ TypeInv /\ AllLoaded /\ [Next]_vars => AllLoaded'
  BY AllLoadedNext DEF RangeInv
<1>3. ASSUME RangeInv, TypeInv, AllLoaded, [Next]_vars
      PROVE  [CrashesAtRisk]_vars
  <2>1. CASE \E v \in Vehicles : \E s \in Sensors(v) : RangeCbOutside(v, s)
    <3>1. PICK v \in Vehicles : \E s \in Sensors(v) : RangeCbOutside(v, s)
      BY <2>1
    <3>2. PICK s \in Sensors(v) : RangeCbOutside(v, s)
      BY <3>1
    <3>3. AtRisk(v)
      BY <1>3, <3>2, InsideUnlessAtRisk DEF RangeCbOutside, RangeInv, TypeInv
    <3> QED
      BY <3>2, <3>3 DEF CrashesAtRisk
  <2>2. CASE UNCHANGED vars
    BY <2>2
  <2>3. CASE pc' # "crashed"
    BY <2>3 DEF CrashesAtRisk
  <2> QED
    BY <1>3, <2>1, <2>2, <2>3, BindMoves
<1> QED
  BY <1>1, <1>2, <1>3, AllLoadedInit, RangeInit, TypeAlways, PTL DEF Spec

=============================================================================
