SPECIFICATION Spec
CONSTANTS
  a1 = a1
  a2 = a2
  Peers <- MCPeers
  NoAddr = NoAddr
  NoPkt = NoPkt
  NoCmd = NoCmd
  UInt16 = 3
  UInt32 = 6
  ConnectionTimeoutMaxCount = 1
  LockStepModes = {TRUE, FALSE}
  ImuPresent = {TRUE, FALSE}
  FcAwaitsImu = FALSE
  MaxTime = 4
  InboxCap = 2
  Faults <- MCAllFaults
  MaxFaults = 3
SYMMETRY MCSymmetry
INVARIANTS
  TypeOK
  LockStepped
  OfflineIsIdle
  CommandIsLastFrame
  ResendIsLastState
PROPERTIES
  LockStepStaysOnline
  FollowsServoLink
