--------------------------- MODULE MCSensorControl ---------------------------
(* Small instances of SensorControl for TLC.  With Base 2 the carries      *)
(* between the bytes are kept: VMAX 4 is 100, 6 is 110; SHR0 1 is 001.     *)
EXTENDS SensorControl

(* Requests of one key, of several keys and with unacceptable values: 3    *)
(* lines is faster than MinVmax allows, 9 is cut to MaxVmax, an exposure   *)
(* of 4 does not fit VMAX 4, a gain of 9 does not fit its register.        *)
FewRequests ==
  {[fps |-> 4], [fps |-> 9, exposure |-> 4], [fps |-> 3, exposure |-> 4, gain |-> 9],
   [gain |-> 2], [black |-> 2, pattern |-> 0], [pattern |-> 1, select |-> 1]}
OneConfig ==
  {[vmax |-> 4, exposure |-> 3, gain |-> 1, pattern |-> FALSE, select |-> 0]}

(* A short exposure in a long frame, and a request for a shorter frame.    *)
FasterRequest == {[fps |-> 4]}
ShortExposure ==
  {[vmax |-> 6, exposure |-> 1, gain |-> 1, pattern |-> FALSE, select |-> 0]}
=============================================================================
