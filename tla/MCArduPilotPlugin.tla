------------------------- MODULE MCArduPilotPlugin -------------------------
(* Instances of ArduPilotPlugin for TLC.                                    *)
EXTENDS ArduPilotPlugin, TLC

CONSTANTS a1, a2       \* two ports a controller may send from

MCPeers    == {a1, a2}
MCSymmetry == Permutations(MCPeers)
MCAllFaults     == FaultKinds
MCNetworkFaults == {"loss", "reorder", "stray", "restart", "stop"}
=============================================================================
