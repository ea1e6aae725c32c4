---------------------------- MODULE MCRigBringup ----------------------------
(***************************************************************************)
(* Two ports; rigs of one and of two cameras that differ in mode, lanes,   *)
(* test pattern and options, and the hsbctl commands that leave something  *)
(* behind.                                                                 *)
(***************************************************************************)
EXTENDS RigBringup, TLC

CONSTANTS c1, c2

Camera(mode, lanes, pattern) == [mode |-> mode, lanes |-> lanes, pattern |-> pattern]

MCRigs ==
  {[cameras |-> c1 :> Camera("FULL_RAW10", "4 lanes", "off") @@ c2 :> Camera("BIN2_RAW12", "2 lanes", "on"),
    reset |-> TRUE, p22 |-> TRUE],
   [cameras |-> c1 :> Camera("CROP_RAW10", "2 lanes", "on"), reset |-> FALSE, p22 |-> TRUE],
   [cameras |-> c1 :> Camera("BIN2_RAW12", "4 lanes", "off"), reset |-> FALSE, p22 |-> FALSE]}

MCCommands ==
  {[name |-> "reset", camera |-> c1], [name |-> "setup-clock", camera |-> c1],
   [name |-> "lanes", camera |-> c2, lanes |-> "4 lanes"],
   [name |-> "dt", camera |-> c2, type |-> "0x2C"],
   [name |-> "i2c", camera |-> c1, high |-> {"TENABLE"}],
   [name |-> "wr", camera |-> c1, register |-> "STANDBY", value |-> "0"],
   [name |-> "power-up", camera |-> c1], [name |-> "power-down", camera |-> c1],
   [name |-> "configure", camera |-> c2, config |-> Camera("FULL_RAW12", "4 lanes", "off")]}
=============================================================================
