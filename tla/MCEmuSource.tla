----------------------------- MODULE MCEmuSource -----------------------------
(* Small instances of EmuSource for TLC.                                   *)
EXTENDS EmuSource

Want(fps, rate, lanes, hmax) == [fps |-> fps, max |-> 1500, rate |-> rate, lanes |-> lanes, hmax |-> hmax]

(* Into a window and out of it, with another pixel format; a rate above    *)
(* the ceiling; a lane rate above the receiver's limit, which is refused.  *)
WindowAndBinning ==
  {[mode |-> "CROP_1280X720_RAW10", want |-> Want(<<0, 1>>, 0, 4, 0)],
   [mode |-> "BIN2_RAW12_60", want |-> Want(<<70, 1>>, 0, 4, 0)],
   [mode |-> "FULL_RAW10", want |-> Want(<<30, 1>>, 2376, 4, 0)]}
OneRate == {<<20, 1>>}
=============================================================================
