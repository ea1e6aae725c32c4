------------------------------ MODULE MCPreview ------------------------------
(* Small instances of Preview for TLC.                                     *)
EXTENDS Preview

CONSTANTS s1, s2, v1, v2
TwoStillClients == {s1, s2}
TwoViewClients == {v1, v2}

(* Bound: behaviours with still clients or with viewers, not with both; no *)
(* variable of one kind is read by the other.                              *)
OneKind ==
  \/ asks = 0 /\ \A c \in StillClients : stillPc[c] = "idle"
  \/ \A v \in ViewClients : viewPc[v] = "idle"
=============================================================================
