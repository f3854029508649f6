------------------------- MODULE MCCameraZoomPlugin -------------------------
(* Instances of CameraZoomPlugin for TLC.                                   *)
EXTENDS CameraZoomPlugin

MCZooms == -1 .. 6     \* below minZoom, between the limits and above them

\* A step takes away more than it adds; infinite; none at all.
MCSlewRates == {[in |-> 1, out |-> 2], [in |-> 10, out |-> 10], [in |-> 0, out |-> 0]}
=============================================================================
