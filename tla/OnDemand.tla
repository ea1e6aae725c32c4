------------------------------ MODULE OnDemand -------------------------------
(***************************************************************************)
(* What an operator of the pipeline that works on request promises to the  *)
(* threads that ask it: requests made while one is pending are merged into *)
(* it, a request is taken up at most once, and nothing is done unasked.    *)
(* The full-resolution stills of JpegEncoderOp (module Preview) and the    *)
(* raw dumps of SnapshotOp (module SnapshotOp) both implement it.          *)
(***************************************************************************)
EXTENDS Naturals

VARIABLES
  asked,    \* requests made
  pending,  \* is a request waiting to be taken up?
  working,  \* is the operator at work for one?
  done      \* results produced

vars == <<asked, pending, working, done>>

TypeOK ==
  /\ asked \in Nat /\ done \in Nat
  /\ pending \in BOOLEAN /\ working \in BOOLEAN

Init == asked = 0 /\ pending = FALSE /\ working = FALSE /\ done = 0

Ask ==
  /\ asked' = asked + 1
  /\ pending' = TRUE
  /\ UNCHANGED <<working, done>>

Take ==
  /\ pending /\ ~working
  /\ pending' = FALSE /\ working' = TRUE
  /\ UNCHANGED <<asked, done>>

Finish ==
  /\ working
  /\ working' = FALSE
  /\ done' = done + 1
  /\ UNCHANGED <<asked, pending>>

(* The operator gives up: no tensor, an exception, the end of the pipeline.*)
Abandon ==
  /\ working
  /\ working' = FALSE
  /\ UNCHANGED <<asked, pending, done>>

Next == Ask \/ Take \/ Finish \/ Abandon

Spec == Init /\ [][Next]_vars

One(b) == IF b THEN 1 ELSE 0

(* The results produced, the one in the making and the pending request     *)
(* never outnumber the requests.                                           *)
OnlyOnDemand == done + One(working) + One(pending) <= asked
=============================================================================
