-------------------------------- MODULE MCIvf --------------------------------
(* Small instances of Ivf for TLC: empty frames and frames of two fields,  *)
(* so that every cut through a frame's header and payload occurs.          *)
EXTENDS Ivf

EmptyAndTwo == {0, 2}
=============================================================================
