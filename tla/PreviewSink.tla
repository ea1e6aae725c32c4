----------------------------- MODULE PreviewSink -----------------------------
(***************************************************************************)
(* hsb/preview/preview_sink: the mutex-protected mailbox between the       *)
(* encoder operator of the pipeline and the HTTP threads.  Each method     *)
(* holds mutex_ from its first to its last access, so each is one atomic   *)
(* operator here; the modules that use the sink conjoin it with the step   *)
(* of the thread that calls it.                                            *)
(*                                                                         *)
(* A frame is abstracted to the number of the captured camera frame it was *)
(* encoded from.  Sequence numbers start at 1, so NoFrame (number 0)       *)
(* stands for an empty std::optional.                                      *)
(***************************************************************************)
EXTENDS Naturals

VARIABLES
  latest,           \* latest_: last stream-size frame
  latestStill,      \* latest_still_: last full-resolution still
  nextSequence,     \* next_sequence_
  nextStillSequence,\* next_still_sequence_
  stillRequested    \* still_requested_

sinkVars == <<latest, latestStill, nextSequence, nextStillSequence, stillRequested>>

NoFrame == [sequence |-> 0, frame |-> 0]

EncodedFrame(frames) == [sequence : Nat, frame : frames]

SinkTypeOK(frames) ==
  /\ latest \in EncodedFrame(frames)
  /\ latestStill \in EncodedFrame(frames)
  /\ nextSequence \in Nat \ {0}
  /\ nextStillSequence \in Nat \ {0}
  /\ stillRequested \in BOOLEAN

SinkInit ==
  /\ latest = NoFrame
  /\ latestStill = NoFrame
  /\ nextSequence = 1
  /\ nextStillSequence = 1
  /\ stillRequested = FALSE

(* Publish: numbers the frame and replaces the stored one; the             *)
(* notify_all after it only makes the waiters re-evaluate HasNewer.        *)
Publish(f) ==
  /\ latest' = [sequence |-> nextSequence, frame |-> f]
  /\ nextSequence' = nextSequence + 1
  /\ UNCHANGED <<latestStill, nextStillSequence, stillRequested>>

(* Mutant: the still does not get a number of its own.                     *)
PublishStill_SameNumber(f) ==
  /\ latestStill' = [sequence |-> 1, frame |-> f]
  /\ UNCHANGED <<latest, nextSequence, nextStillSequence, stillRequested>>

PublishStill(f) ==
  /\ latestStill' = [sequence |-> nextStillSequence, frame |-> f]
  /\ nextStillSequence' = nextStillSequence + 1
  /\ UNCHANGED <<latest, nextSequence, stillRequested>>

RequestStill ==
  /\ stillRequested' = TRUE
  /\ UNCHANGED <<latest, latestStill, nextSequence, nextStillSequence>>

(* Mutant: the flag is read and left set.                                  *)
TakeStillRequest_Keeps(requested) ==
  /\ requested = stillRequested
  /\ UNCHANGED sinkVars

(* TakeStillRequest: reads and clears the flag in one critical section.    *)
TakeStillRequest(requested) ==
  /\ requested = stillRequested
  /\ stillRequested' = FALSE
  /\ UNCHANGED <<latest, latestStill, nextSequence, nextStillSequence>>

(* The predicates WaitForNewer and WaitForStill sleep on; after a timeout  *)
(* they are evaluated once more under the same lock, so a nullopt means    *)
(* the predicate is false when the call returns.                           *)
HasNewer(after) == latest.sequence > after
HasNewerStill_OrSame(after) == latestStill.sequence >= after \* mutant
HasNewerStill(after) == latestStill.sequence > after
=============================================================================
