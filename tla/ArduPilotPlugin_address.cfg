SPECIFICATION Spec
CONSTANTS
  a1 = a1
  a2 = a2
  Peers <- MCPeers
  NoAddr = NoAddr
  NoPkt = NoPkt
  NoCmd = NoCmd
  UInt16 = 3
  UInt32 = 6
  ConnectionTimeoutMaxCount = 1
  LockStepModes = {TRUE}
  ImuPresent = {TRUE}
  FcAwaitsImu = FALSE
  MaxTime = 3
  InboxCap = 2
  Faults <- MCAllFaults
  MaxFaults = 1
SYMMETRY MCSymmetry
INVARIANTS
  ReplyAddressKnown
