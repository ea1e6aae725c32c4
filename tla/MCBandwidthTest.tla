--------------------------- MODULE MCBandwidthTest ---------------------------
(* A small instance of BandwidthTest for TLC.                              *)
EXTENDS BandwidthTest
=============================================================================
