SPECIFICATION Spec
CONSTANTS
  a1 = a1
  a2 = a2
  Peers <- MCPeers
  NoAddr = NoAddr
  NoPkt = NoPkt
  NoCmd = NoCmd
  UInt16 = 6
  UInt32 = 12
  ConnectionTimeoutMaxCount = 1
  LockStepModes = {TRUE, FALSE}
  ImuPresent = {TRUE}
  FcAwaitsImu = TRUE
  MaxTime = 5
  InboxCap = 2
  Faults <- MCNetworkFaults
  MaxFaults = 1
PROPERTIES
  TakesTurns
  SimulationProceeds
  SilenceNoticed
