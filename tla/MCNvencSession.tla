--------------------------- MODULE MCNvencSession ----------------------------
(* Small instances of NvencSession for TLC.                                *)
EXTENDS NvencSession

CONSTANTS f1, f2
FrameSet == {f1, f2}
=============================================================================
