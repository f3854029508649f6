------------------------- MODULE MCParachutePlugin -------------------------
(* Instances of ParachutePlugin for TLC.                                    *)
EXTENDS ParachutePlugin

CONSTANTS p1, p2       \* two poses other than Spawn

MCPoses    == {Spawn, p1, p2}
MCOutcomes == {"created", "refused", "timedOut", "timedOutLater"}
=============================================================================
