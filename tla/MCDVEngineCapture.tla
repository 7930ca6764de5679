------------------------- MODULE MCDVEngineCapture -------------------------
(* DVEngineCapture with files of two frames, or of changing length.         *)
EXTENDS DVEngineCapture

MCDurations == {0, 2}
MCDuration == {2}
MCLongFiles == {2}
MCLimits == {1, 2}
=============================================================================
