------------------------- MODULE MCGstCameraPlugin -------------------------
(* Instances of GstCameraPlugin for TLC.                                    *)
EXTENDS GstCameraPlugin

CONSTANTS t1, t2, t3

MCThreads == {t1, t2, t3}
=============================================================================
