------------------------------- MODULE Preview -------------------------------
(***************************************************************************)
(* The live preview: JpegEncoderOp::compute on the pipeline side, the      *)
(* /still.jpg, /stream.mjpg and /snapshot.jpg handlers of PreviewServer on *)
(* the HTTP side (one thread per connection), and PreviewSink between.     *)
(*                                                                         *)
(* Frames are numbered in capture order.  The number saturates at          *)
(* MaxFrames, so that the camera may run forever in a finite model.        *)
(***************************************************************************)
EXTENDS PreviewSink, Sequences, FiniteSets

CONSTANTS
  StillClients,   \* connections that issue GET /still.jpg
  ViewClients,    \* connections that issue GET /stream.mjpg or /snapshot.jpg
  QueueCapacity,  \* "capacity" of the operator's double-buffer input
  MaxFrames,      \* bound: captured frames told apart
  MaxPublished,   \* bound: stream frames published
  MaxAsks         \* bound: stills asked for before clients stop arriving

ASSUME PreviewAssumption ==
  /\ QueueCapacity \in Nat \ {0}
  /\ MaxFrames \in Nat \ {0}
  /\ MaxPublished \in Nat
  /\ MaxAsks \in Nat

VARIABLES
  captured,   \* number of the last frame the camera pipeline produced
  queue,      \* the input queue of JpegEncoderOp: frames waiting
  encPc,      \* where compute() stands
  encFrame,   \* the frame compute() works on (kept after it returns)
  stillPc,    \* where each /still.jpg handler stands
  before,     \* its local `before`
  answer,     \* the still it responds with
  viewPc,     \* where each stream or snapshot handler stands
  last,       \* stream handler's local `last`
  shown,      \* the stream frame it last obtained
  asks,       \* history: calls of RequestStill
  seenAtEntry \* history: encFrame when a still handler read LatestStill

encVars == <<captured, queue, encPc, encFrame>>
stillVars == <<stillPc, before, answer, asks, seenAtEntry>>
viewVars == <<viewPc, last, shown>>
vars == <<sinkVars, encVars, stillVars, viewVars>>

Frames == 0..MaxFrames

TypeOK ==
  /\ SinkTypeOK(Frames)
  /\ captured \in Frames
  /\ queue \in Seq(Frames) /\ Len(queue) <= QueueCapacity
  /\ encPc \in {"idle", "received", "still", "stream", "ended"}
  /\ encFrame \in Frames
  /\ stillPc \in [StillClients -> {"idle", "reread", "entered", "waiting", "answered", "timeout"}]
  /\ before \in [StillClients -> Nat]
  /\ answer \in [StillClients -> EncodedFrame(Frames)]
  /\ asks \in Nat
  /\ seenAtEntry \in [StillClients -> Frames]
  /\ viewPc \in [ViewClients -> {"idle", "streaming", "sending", "snapwait", "closed"}]
  /\ last \in [ViewClients -> Nat]
  /\ shown \in [ViewClients -> EncodedFrame(Frames)]

Init ==
  /\ SinkInit
  /\ captured = 0
  /\ queue = << >>
  /\ encPc = "idle"
  /\ encFrame = 0
  /\ stillPc = [c \in StillClients |-> "idle"]
  /\ before = [c \in StillClients |-> 0]
  /\ answer = [c \in StillClients |-> NoFrame]
  /\ asks = 0
  /\ seenAtEntry = [c \in StillClients |-> 0]
  /\ viewPc = [v \in ViewClients |-> "idle"]
  /\ last = [v \in ViewClients |-> 0]
  /\ shown = [v \in ViewClients |-> NoFrame]
-----------------------------------------------------------------------------
(* The pipeline side.                                                      *)

(* The queue's policy 0: a frame that arrives at a full queue drops the    *)
(* oldest one.                                                             *)
Enqueue(f) ==
  queue' = Append(IF Len(queue) = QueueCapacity THEN Tail(queue) ELSE queue, f)

Capture ==
  /\ encPc # "ended"
  /\ captured' = IF captured < MaxFrames THEN captured + 1 ELSE captured
  /\ Enqueue(captured')
  /\ UNCHANGED <<sinkVars, encPc, encFrame, stillVars, viewVars>>

(* Mutant: the newest frame is served first.                               *)
Receive_Newest ==
  /\ encPc = "idle"
  /\ queue # << >>
  /\ encFrame' = queue[Len(queue)]
  /\ queue' = SubSeq(queue, 1, Len(queue) - 1)
  /\ encPc' = "received"
  /\ UNCHANGED <<sinkVars, captured, stillVars, viewVars>>

(* compute() is entered with the oldest queued frame.                      *)
Receive ==
  /\ encPc = "idle"
  /\ queue # << >>
  /\ encFrame' = Head(queue)
  /\ queue' = Tail(queue)
  /\ encPc' = "received"
  /\ UNCHANGED <<sinkVars, captured, stillVars, viewVars>>

(* No tensor of the configured name in the message: return.                *)
NoTensor ==
  /\ encPc = "received"
  /\ encPc' = "idle"
  /\ UNCHANGED <<sinkVars, captured, queue, encFrame, stillVars, viewVars>>

(* Mutant: the rate limit is tested before the still that was taken.       *)
TakeRequest_RateLimitFirst ==
  /\ encPc = "received"
  /\ \E requested \in BOOLEAN :
       /\ TakeStillRequest(requested)
       /\ \/ encPc' = IF requested THEN "still" ELSE "stream"
          \/ nextSequence > 1 /\ encPc' = "idle"
  /\ UNCHANGED <<captured, queue, encFrame, stillVars, viewVars>>

TakeRequest ==
  /\ encPc = "received"
  /\ \E requested \in BOOLEAN :
       /\ TakeStillRequest(requested)
       /\ encPc' = IF requested THEN "still" ELSE "stream"
  /\ UNCHANGED <<captured, queue, encFrame, stillVars, viewVars>>

EncodeStill ==
  /\ encPc = "still"
  /\ PublishStill(encFrame)
  /\ encPc' = "stream"
  /\ UNCHANGED <<captured, queue, encFrame, stillVars, viewVars>>

(* Less than 1/stream_fps_limit since the last Publish; the first frame    *)
(* is never skipped.                                                       *)
RateLimited ==
  /\ encPc = "stream"
  /\ nextSequence > 1
  /\ encPc' = "idle"
  /\ UNCHANGED <<sinkVars, captured, queue, encFrame, stillVars, viewVars>>

EncodeStream ==
  /\ encPc = "stream"
  /\ nextSequence <= MaxPublished
  /\ Publish(encFrame)
  /\ encPc' = "idle"
  /\ UNCHANGED <<captured, queue, encFrame, stillVars, viewVars>>

(* A bad tensor, an nvJPEG, NPP or CUDA error: the exception leaves        *)
(* compute() and ends the graph.  StopAll ends it between two frames.      *)
PipelineEnds ==
  /\ encPc # "ended"
  /\ encPc' = "ended"
  /\ UNCHANGED <<sinkVars, captured, queue, encFrame, stillVars, viewVars>>

Encoder ==
  \/ Receive \/ NoTensor \/ TakeRequest \/ EncodeStill \/ RateLimited \/ EncodeStream
-----------------------------------------------------------------------------
(* GET /still.jpg.                                                         *)

(* LatestStill() ? ... : 0, the test.                                      *)
StillEnter(c) ==
  /\ stillPc[c] = "idle"
  /\ asks < MaxAsks
  /\ stillPc' = [stillPc EXCEPT ![c] = IF latestStill = NoFrame THEN "entered" ELSE "reread"]
  /\ before' = [before EXCEPT ![c] = 0]
  /\ seenAtEntry' = [seenAtEntry EXCEPT ![c] = encFrame]
  /\ UNCHANGED <<sinkVars, encVars, viewVars, answer, asks>>

(* ... LatestStill()->sequence, a second critical section.                 *)
StillReread(c) ==
  /\ stillPc[c] = "reread"
  /\ before' = [before EXCEPT ![c] = latestStill.sequence]
  /\ stillPc' = [stillPc EXCEPT ![c] = "entered"]
  /\ UNCHANGED <<sinkVars, encVars, viewVars, answer, asks, seenAtEntry>>

StillAsk(c) ==
  /\ stillPc[c] = "entered"
  /\ RequestStill
  /\ stillPc' = [stillPc EXCEPT ![c] = "waiting"]
  /\ asks' = asks + 1
  /\ UNCHANGED <<encVars, viewVars, before, answer, seenAtEntry>>

StillAnswer(c) ==
  /\ stillPc[c] = "waiting"
  /\ HasNewerStill(before[c])
  /\ answer' = [answer EXCEPT ![c] = latestStill]
  /\ stillPc' = [stillPc EXCEPT ![c] = "answered"]
  /\ UNCHANGED <<sinkVars, encVars, viewVars, before, asks, seenAtEntry>>

(* WaitForStill returned nullopt after 5 s: 504.  The request stays set.   *)
StillTimeout(c) ==
  /\ stillPc[c] = "waiting"
  /\ ~HasNewerStill(before[c])
  /\ stillPc' = [stillPc EXCEPT ![c] = "timeout"]
  /\ UNCHANGED <<sinkVars, encVars, viewVars, before, answer, asks, seenAtEntry>>

(* The response is sent, the connection closed; the page may ask again.    *)
StillDone(c) ==
  /\ stillPc[c] \in {"answered", "timeout"}
  /\ stillPc' = [stillPc EXCEPT ![c] = "idle"]
  /\ UNCHANGED <<sinkVars, encVars, viewVars, before, answer, asks, seenAtEntry>>
-----------------------------------------------------------------------------
(* GET /stream.mjpg and GET /snapshot.jpg.                                 *)

StreamOpen(v) ==
  /\ viewPc[v] = "idle"
  /\ viewPc' = [viewPc EXCEPT ![v] = "streaming"]
  /\ last' = [last EXCEPT ![v] = 0]
  /\ UNCHANGED <<sinkVars, encVars, stillVars, shown>>

(* WaitForNewer(last) returned a frame; a nullopt only loops.              *)
StreamTake(v) ==
  /\ viewPc[v] = "streaming"
  /\ HasNewer(last[v])
  /\ last' = [last EXCEPT ![v] = latest.sequence]
  /\ shown' = [shown EXCEPT ![v] = latest]
  /\ viewPc' = [viewPc EXCEPT ![v] = "sending"]
  /\ UNCHANGED <<sinkVars, encVars, stillVars>>

(* Pacing and SendAll; a failed send ends the loop.                        *)
StreamSend(v) ==
  /\ viewPc[v] = "sending"
  /\ \E ok \in BOOLEAN : viewPc' = [viewPc EXCEPT ![v] = IF ok THEN "streaming" ELSE "closed"]
  /\ UNCHANGED <<sinkVars, encVars, stillVars, last, shown>>

(* Latest() of the snapshot handler: respond at once, or wait up to 2 s.   *)
Snapshot(v) ==
  /\ viewPc[v] = "idle"
  /\ IF latest # NoFrame
     THEN /\ shown' = [shown EXCEPT ![v] = latest]
          /\ viewPc' = [viewPc EXCEPT ![v] = "closed"]
     ELSE /\ viewPc' = [viewPc EXCEPT ![v] = "snapwait"]
          /\ UNCHANGED shown
  /\ UNCHANGED <<sinkVars, encVars, stillVars, last>>

SnapshotWaited(v) ==
  /\ viewPc[v] = "snapwait"
  /\ shown' = [shown EXCEPT ![v] = IF HasNewer(0) THEN latest ELSE NoFrame]
  /\ viewPc' = [viewPc EXCEPT ![v] = "closed"]
  /\ UNCHANGED <<sinkVars, encVars, stillVars, last>>

StillClient(c) ==
  \/ StillEnter(c) \/ StillReread(c) \/ StillAsk(c)
  \/ StillAnswer(c) \/ StillTimeout(c) \/ StillDone(c)

ViewClient(v) ==
  \/ StreamOpen(v) \/ StreamTake(v) \/ StreamSend(v) \/ Snapshot(v) \/ SnapshotWaited(v)

Next ==
  \/ Capture
  \/ Encoder
  \/ PipelineEnds
  \/ \E c \in StillClients : StillClient(c)
  \/ \E v \in ViewClients : ViewClient(v)

Spec == Init /\ [][Next]_vars

(* The camera keeps producing and the scheduler keeps calling compute();   *)
(* messages that carry the tensor keep coming (strong fairness of          *)
(* TakeRequest); the encoder finishes what it starts.  Nothing is assumed  *)
(* of the clients.                                                         *)
Fairness ==
  /\ WF_vars(Capture)
  /\ WF_vars(Receive)
  /\ SF_vars(TakeRequest)
  /\ WF_vars(EncodeStill)
  /\ WF_vars(RateLimited \/ EncodeStream)

FairSpec == Spec /\ Fairness
-----------------------------------------------------------------------------
(* What the properties below rest on: frames move from the camera to the   *)
(* viewers in capture order, the stills are numbered without gaps, and a   *)
(* still newer than `before` was made from a frame the handler had not     *)
(* seen.                                                                   *)
FramesInOrder ==
  /\ encFrame <= captured
  /\ \A i \in DOMAIN queue : encFrame <= queue[i] /\ queue[i] <= captured
  /\ \A i, j \in DOMAIN queue : i < j => queue[i] <= queue[j]
  /\ \A c \in StillClients : seenAtEntry[c] <= encFrame

ViewsInOrder ==
  /\ latest.frame <= encFrame
  /\ \A v \in ViewClients :
       /\ shown[v].frame <= latest.frame
       /\ viewPc[v] \in {"idle", "snapwait"} => shown[v] = NoFrame

StillNumbers ==
  /\ latestStill.sequence = nextStillSequence - 1
  /\ \A c \in StillClients : before[c] <= latestStill.sequence

NewerIsFresh ==
  \A c \in StillClients :
    stillPc[c] \in {"entered", "waiting"} /\ HasNewerStill(before[c])
      => latestStill.frame >= seenAtEntry[c]

(* No request is lost: while a /still.jpg handler waits and no still newer *)
(* than its `before` exists, either still_requested_ is set or the encoder *)
(* is between TakeStillRequest and PublishStill (or the pipeline ended).   *)
NoLostRequest ==
  \A c \in StillClients :
    stillPc[c] = "waiting" /\ ~HasNewerStill(before[c])
      => stillRequested \/ encPc \in {"still", "ended"}

(* Stills are made on demand: those published, the one being encoded and   *)
(* the pending flag never outnumber the calls of RequestStill ("true once  *)
(* per request").                                                          *)
StillsOnDemand ==
  (nextStillSequence - 1) + (IF encPc = "still" THEN 1 ELSE 0)
    + (IF stillRequested THEN 1 ELSE 0) <= asks

(* The stills of the encoder operator implement the abstract operator that *)
(* works on request.                                                       *)
Stills ==
  INSTANCE OnDemand WITH asked <- asks, pending <- stillRequested,
                         working <- (encPc = "still"), done <- nextStillSequence - 1

ImplementsOnDemand == Stills!Spec

(* The still a handler returns was not made from a frame older than the    *)
(* one the encoder held when the handler first looked at the sink.         *)
StillNotStale ==
  \A c \in StillClients :
    stillPc[c] = "answered" => answer[c].frame >= seenAtEntry[c]

(* What a stream connection shows moves forward in capture order, although *)
(* frames are dropped from the queue and skipped by the rate limit.        *)
StreamInOrder ==
  [][\A v \in ViewClients : shown'[v] # shown[v] => shown'[v].frame >= shown[v].frame]_shown

(* A handler that waits gets its still as long as the pipeline runs: a     *)
(* still newer than `before` appears, whatever the other clients do.       *)
StillServed ==
  \A c \in StillClients :
    stillPc[c] = "waiting" ~> (HasNewerStill(before[c]) \/ encPc = "ended")
=============================================================================
