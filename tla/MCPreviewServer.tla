--------------------------- MODULE MCPreviewServer ---------------------------
(* Small instances of PreviewServer for TLC: three connections show one    *)
(* thread being joined, one in workers and one in hand at the same time.   *)
EXTENDS PreviewServer

CONSTANTS c1, c2, c3
ThreeConnections == {c1, c2, c3}
OneConnection == {c1}
=============================================================================
