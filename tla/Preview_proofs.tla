--------------------------- MODULE Preview_proofs ----------------------------
(***************************************************************************)
(* Proofs about Preview, for any number of still and view connections, any *)
(* queue capacity and any number of frames.                                *)
(***************************************************************************)
EXTENDS Preview, SequenceTheorems, TLAPS

(* The frames, and the queue after Enqueue: still a queue of frames, no    *)
(* longer than its capacity, whose elements were in it or are the new one. *)
LEMMA EnqueueKeepsType ==
  ASSUME queue \in Seq(Frames), Len(queue) <= QueueCapacity,
         NEW f \in Frames, Enqueue(f)
  PROVE  queue' \in Seq(Frames) /\ Len(queue') <= QueueCapacity
<1>1. QueueCapacity \in Nat \ {0} /\ Len(queue) \in Nat
  BY PreviewAssumption
<1>2. CASE Len(queue) = QueueCapacity
  <2>1. Tail(queue) \in Seq(Frames) /\ Len(Tail(queue)) = Len(queue) - 1
    BY <1>1, <1>2
  <2>2. queue' = Append(Tail(queue), f)
    BY <1>2 DEF Enqueue
  <2> QED BY <1>1, <1>2, <2>1, <2>2
<1>3. CASE Len(queue) # QueueCapacity
  BY <1>1, <1>3 DEF Enqueue
<1> QED BY <1>2, <1>3

(* The initial state has the types: no frame, no request, nothing queued.  *)
THEOREM TypeInit == Init => TypeOK
<1>1. 0 \in Frames /\ QueueCapacity \in Nat
  BY PreviewAssumption DEF Frames
<1>2. NoFrame \in EncodedFrame(Frames)
  BY <1>1 DEF NoFrame, EncodedFrame
<1> SUFFICES ASSUME Init PROVE TypeOK
  OBVIOUS
<1>3. SinkTypeOK(Frames)
  <2>1. SinkInit
    BY DEF Init
  <2>2. nextSequence \in Nat \ {0} /\ nextStillSequence \in Nat \ {0}
    BY <2>1 DEF SinkInit
  <2>3. stillRequested \in BOOLEAN
    BY <2>1 DEF SinkInit
  <2> QED BY <1>2, <2>1, <2>2, <2>3 DEF SinkInit, SinkTypeOK
<1>4. queue \in Seq(Frames) /\ Len(queue) <= QueueCapacity
  BY <1>1 DEF Init
<1> QED BY <1>1, <1>2, <1>3, <1>4 DEF Init, TypeOK

(* The encoder's steps.                                                    *)
LEMMA EncoderKeepsType ==
  ASSUME TypeOK, Capture \/ Encoder \/ PipelineEnds
  PROVE  TypeOK'
<1> USE DEF TypeOK, SinkTypeOK, sinkVars, encVars, stillVars, viewVars
<1>1. CASE Capture
  <2>1. captured' \in Frames
    BY <1>1, PreviewAssumption DEF Capture, Frames
  <2>2. queue' \in Seq(Frames) /\ Len(queue') <= QueueCapacity
    BY <1>1, <2>1, EnqueueKeepsType DEF Capture
  <2> QED BY <1>1, <2>1, <2>2 DEF Capture
<1>2. CASE Receive
  <2>1. /\ Head(queue) \in Frames /\ Tail(queue) \in Seq(Frames)
        /\ Len(Tail(queue)) = Len(queue) - 1 /\ Len(queue) \in Nat
    BY <1>2 DEF Receive
  <2>2. Len(Tail(queue)) <= QueueCapacity
    BY <2>1, PreviewAssumption
  <2> QED BY <1>2, <2>1, <2>2 DEF Receive
<1>3. CASE NoTensor \/ PipelineEnds \/ RateLimited
  BY <1>3 DEF NoTensor, PipelineEnds, RateLimited
<1>4. CASE TakeRequest
  BY <1>4 DEF TakeRequest, TakeStillRequest
<1>5. CASE EncodeStill
  BY <1>5 DEF EncodeStill, PublishStill, EncodedFrame
<1>6. CASE EncodeStream
  BY <1>6 DEF EncodeStream, Publish, EncodedFrame
<1> QED BY <1>1, <1>2, <1>3, <1>4, <1>5, <1>6 DEF Encoder

(* The steps of a /still.jpg handler.                                      *)
LEMMA StillClientKeepsType ==
  ASSUME TypeOK, NEW c \in StillClients, StillClient(c)
  PROVE  TypeOK'
<1> USE DEF TypeOK, SinkTypeOK, sinkVars, encVars, stillVars, viewVars
<1>1. CASE StillEnter(c)
  BY <1>1 DEF StillEnter
<1>2. CASE StillReread(c)
  BY <1>2 DEF StillReread, EncodedFrame
<1>3. CASE StillAsk(c)
  BY <1>3 DEF StillAsk, RequestStill
<1>4. CASE StillAnswer(c)
  BY <1>4 DEF StillAnswer
<1>5. CASE StillTimeout(c) \/ StillDone(c)
  BY <1>5 DEF StillTimeout, StillDone
<1> QED BY <1>1, <1>2, <1>3, <1>4, <1>5 DEF StillClient

(* The steps of a stream or snapshot handler.                              *)
LEMMA ViewClientKeepsType ==
  ASSUME TypeOK, NEW v \in ViewClients, ViewClient(v)
  PROVE  TypeOK'
<1> USE DEF TypeOK, SinkTypeOK, sinkVars, encVars, stillVars, viewVars
<1>1. CASE StreamOpen(v)
  BY <1>1 DEF StreamOpen
<1>2. CASE StreamSend(v)
  BY <1>2 DEF StreamSend
<1>3. CASE StreamTake(v)
  BY <1>3 DEF StreamTake, EncodedFrame
<1>4. CASE Snapshot(v)
  BY <1>4 DEF Snapshot
<1>5. CASE SnapshotWaited(v)
  <2>1. NoFrame \in EncodedFrame(Frames)
    BY PreviewAssumption DEF NoFrame, EncodedFrame, Frames
  <2> QED BY <1>5, <2>1 DEF SnapshotWaited
<1> QED BY <1>1, <1>3, <1>4, <1>5, <1>2 DEF ViewClient

(* Every variable keeps its type; the operator's queue never outgrows its  *)
(* capacity.                                                               *)
THEOREM TypeCorrect == Spec => []TypeOK
<1>1. TypeOK /\ UNCHANGED vars => TypeOK'
  BY DEF TypeOK, SinkTypeOK, vars, sinkVars, encVars, stillVars, viewVars
<1>2. TypeOK /\ [Next]_vars => TypeOK'
  BY <1>1, EncoderKeepsType, StillClientKeepsType, ViewClientKeepsType DEF Next
<1> QED BY <1>2, TypeInit, PTL DEF Spec
-----------------------------------------------------------------------------
(* What is queued stays sorted, and between the frame being encoded and    *)
(* the last one captured.                                                  *)
LEMMA FramesStayInOrder ==
  ASSUME TypeOK, TypeOK', FramesInOrder, [Next]_vars
  PROVE  FramesInOrder'
<1>1. /\ queue \in Seq(Nat) /\ Len(queue) \in Nat /\ DOMAIN queue = 1..Len(queue)
      /\ encFrame \in Nat /\ captured \in Nat /\ captured <= MaxFrames
      /\ \A i \in DOMAIN queue : queue[i] \in Nat
      /\ QueueCapacity \in Nat \ {0} /\ MaxFrames \in Nat
      /\ \A c \in StillClients : seenAtEntry[c] \in Nat
  BY PreviewAssumption DEF TypeOK, Frames
<1>2. CASE Capture
  <2>1. captured' \in Nat /\ captured <= captured'
    BY <1>1, <1>2 DEF Capture
  <2>2. UNCHANGED <<encFrame, seenAtEntry>>
    BY <1>2 DEF Capture, stillVars
  <2>3. PICK q \in {queue, Tail(queue)} :
          /\ queue' = Append(q, captured')
          /\ q = queue \/ queue # << >>
    <3>1. CASE Len(queue) = QueueCapacity
      <4>1. queue # << >>
        BY <1>1, <3>1
      <4> QED BY <1>2, <3>1, <4>1 DEF Capture, Enqueue
    <3>2. CASE Len(queue) # QueueCapacity
      BY <1>2, <3>2 DEF Capture, Enqueue
    <3> QED BY <3>1, <3>2
  <2>4. /\ q \in Seq(Nat) /\ Len(q) \in Nat /\ DOMAIN q = 1..Len(q)
        /\ \A i \in DOMAIN q : encFrame <= q[i] /\ q[i] <= captured /\ q[i] \in Nat
        /\ \A i, j \in DOMAIN q : i < j => q[i] <= q[j]
    <3>1. CASE q = queue
      BY <1>1, <3>1 DEF FramesInOrder
    <3>2. CASE q = Tail(queue) /\ queue # << >>
      <4>1. /\ q \in Seq(Nat) /\ Len(q) = Len(queue) - 1 /\ DOMAIN q = 1..(Len(queue) - 1)
            /\ \A i \in DOMAIN q : i + 1 \in DOMAIN queue /\ q[i] = queue[i + 1]
        BY <1>1, <3>2
      <4>2. \A i, j \in DOMAIN q : i < j => i + 1 < j + 1
        BY <4>1
      <4> QED BY <1>1, <4>1, <4>2 DEF FramesInOrder
    <3> QED BY <2>3, <3>1, <3>2
  <2>5. /\ Len(queue') = Len(q) + 1 /\ DOMAIN queue' = 1..(Len(q) + 1)
        /\ \A i \in DOMAIN q : queue'[i] = q[i]
        /\ queue'[Len(q) + 1] = captured'
    BY <2>1, <2>3, <2>4
  <2>6. ASSUME NEW i \in DOMAIN queue'
        PROVE  encFrame <= queue'[i] /\ queue'[i] <= captured'
    <3>1. CASE i \in DOMAIN q
      <4>1. queue'[i] = q[i] /\ encFrame <= q[i] /\ q[i] <= captured /\ q[i] \in Nat
        BY <2>4, <2>5, <3>1
      <4> QED BY <1>1, <2>1, <4>1
    <3>2. CASE i = Len(q) + 1
      BY <1>1, <2>1, <2>5, <3>2 DEF FramesInOrder
    <3> QED BY <2>4, <2>5, <3>1, <3>2
  <2>7. ASSUME NEW i \in DOMAIN queue', NEW j \in DOMAIN queue', i < j
        PROVE  queue'[i] <= queue'[j]
    <3>1. i \in DOMAIN q
      BY <2>4, <2>5, <2>7
    <3>2. CASE j \in DOMAIN q
      BY <2>4, <2>5, <2>7, <3>1, <3>2
    <3>3. CASE j = Len(q) + 1
      <4>1. queue'[i] = q[i] /\ q[i] <= captured /\ q[i] \in Nat /\ queue'[j] = captured'
        BY <2>4, <2>5, <3>1, <3>3
      <4> QED BY <1>1, <2>1, <4>1
    <3> QED BY <2>4, <2>5, <3>2, <3>3
  <2>8. encFrame <= captured'
    BY <1>1, <2>1 DEF FramesInOrder
  <2> QED BY <2>2, <2>6, <2>7, <2>8 DEF FramesInOrder
<1>3. CASE Receive
  <2>1. /\ UNCHANGED <<captured, seenAtEntry>> /\ queue # << >>
        /\ encFrame' = Head(queue) /\ queue' = Tail(queue)
    BY <1>3 DEF Receive, stillVars
  <2>2. /\ 1 \in DOMAIN queue /\ encFrame' = queue[1]
        /\ DOMAIN queue' = 1..(Len(queue) - 1)
        /\ \A i \in DOMAIN queue' : /\ i + 1 \in DOMAIN queue /\ queue'[i] = queue[i + 1]
                                    /\ 1 < i + 1
    BY <1>1, <2>1
  <2>3. \A i, j \in DOMAIN queue' : i < j => i + 1 < j + 1
    BY <2>2
  <2>4. encFrame <= encFrame' /\ encFrame' <= captured' /\ encFrame' \in Nat
    BY <1>1, <2>1, <2>2 DEF FramesInOrder
  <2>5. \A c \in StillClients : seenAtEntry'[c] <= encFrame'
    BY <1>1, <2>1, <2>4 DEF FramesInOrder
  <2>6. \A i \in DOMAIN queue' : encFrame' <= queue'[i] /\ queue'[i] <= captured'
    BY <2>1, <2>2 DEF FramesInOrder
  <2>7. \A i, j \in DOMAIN queue' : i < j => queue'[i] <= queue'[j]
    BY <2>2, <2>3 DEF FramesInOrder
  <2> QED BY <2>4, <2>5, <2>6, <2>7 DEF FramesInOrder
<1>4. CASE UNCHANGED <<captured, queue, encFrame, seenAtEntry>>
  BY <1>4 DEF FramesInOrder
<1>5. ASSUME NEW c \in StillClients, StillEnter(c)
      PROVE  FramesInOrder'
  <2>1. /\ UNCHANGED <<captured, queue, encFrame>>
        /\ seenAtEntry' = [seenAtEntry EXCEPT ![c] = encFrame]
    BY <1>5 DEF StillEnter, encVars
  <2>2. \A d \in StillClients : seenAtEntry'[d] <= encFrame
    BY <1>1, <2>1 DEF TypeOK, FramesInOrder
  <2> QED BY <2>1, <2>2 DEF FramesInOrder
<1>6. \/ Capture \/ Receive \/ UNCHANGED <<captured, queue, encFrame, seenAtEntry>>
      \/ \E c \in StillClients : StillEnter(c)
  BY DEF Next, Encoder, PipelineEnds, NoTensor, TakeRequest, EncodeStill, RateLimited, EncodeStream,
     StillClient, StillReread, StillAsk, StillAnswer, StillTimeout, StillDone, ViewClient, StreamOpen,
     StreamTake, StreamSend, Snapshot, SnapshotWaited, vars, encVars, stillVars
<1> QED BY <1>2, <1>3, <1>4, <1>5, <1>6

(* Frames reach compute() in the order they were captured.                 *)
THEOREM FramesAreInOrder == Spec => []FramesInOrder
<1>1. Init => FramesInOrder
  BY PreviewAssumption DEF Init, FramesInOrder
<1>2. TypeOK /\ TypeOK' /\ FramesInOrder /\ [Next]_vars => FramesInOrder'
  BY FramesStayInOrder
<1> QED BY <1>1, <1>2, TypeCorrect, PTL DEF Spec

(* Stills are numbered one after the other, and a handler's `before` is    *)
(* the number of a still that exists.                                      *)
LEMMA StillNumbersStay ==
  ASSUME TypeOK, StillNumbers, [Next]_vars
  PROVE  StillNumbers'
<1>1. /\ latestStill.sequence \in Nat /\ nextStillSequence \in Nat
      /\ \A c \in StillClients : before[c] \in Nat
  BY DEF TypeOK, SinkTypeOK, EncodedFrame
<1>2. CASE EncodeStill
  <2>1. /\ latestStill'.sequence = nextStillSequence /\ nextStillSequence' = nextStillSequence + 1
        /\ before' = before
    BY <1>2 DEF EncodeStill, PublishStill, stillVars
  <2> QED BY <1>1, <2>1 DEF StillNumbers
<1>3. ASSUME NEW c \in StillClients, StillEnter(c) \/ StillReread(c)
      PROVE  StillNumbers'
  <2>1. /\ UNCHANGED <<latestStill, nextStillSequence>>
        /\ \E n \in {0, latestStill.sequence} : before' = [before EXCEPT ![c] = n]
    BY <1>3 DEF StillEnter, StillReread, sinkVars
  <2> QED BY <1>1, <2>1 DEF TypeOK, StillNumbers
<1>4. CASE UNCHANGED <<latestStill, nextStillSequence, before>>
  BY <1>4 DEF StillNumbers
<1>5. \/ EncodeStill \/ UNCHANGED <<latestStill, nextStillSequence, before>>
      \/ \E c \in StillClients : StillEnter(c) \/ StillReread(c)
  BY DEF Next, Capture, Encoder, Receive, PipelineEnds, NoTensor, TakeRequest, TakeStillRequest,
     RateLimited, EncodeStream, Publish, StillClient, StillAsk, RequestStill, StillAnswer,
     StillTimeout, StillDone, ViewClient, StreamOpen, StreamTake, StreamSend, Snapshot,
     SnapshotWaited, vars, sinkVars, stillVars
<1> QED BY <1>2, <1>3, <1>4, <1>5

(* The stills are numbered 1, 2, 3, ... and no handler waits for a number  *)
(* that lies behind the last one.                                          *)
THEOREM StillsAreNumbered == Spec => []StillNumbers
<1>1. Init => StillNumbers
  BY DEF Init, SinkInit, NoFrame, StillNumbers
<1>2. TypeOK /\ StillNumbers /\ [Next]_vars => StillNumbers'
  BY StillNumbersStay
<1> QED BY <1>1, <1>2, TypeCorrect, PTL DEF Spec

(* A waiting handler's request survives every step: it is in the flag, or  *)
(* the encoder holds it until it publishes a still newer than `before`.    *)
LEMMA RequestsSurvive ==
  ASSUME TypeOK, StillNumbers, NoLostRequest, [Next]_vars
  PROVE  NoLostRequest'
<1>1. /\ latestStill.sequence \in Nat /\ nextStillSequence \in Nat
      /\ \A c \in StillClients : before[c] \in Nat
  BY DEF TypeOK, SinkTypeOK, EncodedFrame
<1>2. CASE TakeRequest
  BY <1>2 DEF TakeRequest, TakeStillRequest, NoLostRequest, HasNewerStill, stillVars
<1>3. CASE EncodeStill
  <2>1. latestStill'.sequence = nextStillSequence /\ before' = before
    BY <1>3 DEF EncodeStill, PublishStill, stillVars
  <2>2. \A c \in StillClients : latestStill'.sequence > before[c]
    BY <1>1, <2>1 DEF StillNumbers
  <2> QED BY <2>1, <2>2 DEF NoLostRequest, HasNewerStill
<1>4. ASSUME NEW c \in StillClients, StillAsk(c)
      PROVE  NoLostRequest'
  BY <1>4 DEF StillAsk, RequestStill, NoLostRequest
<1>5. ASSUME NEW c \in StillClients, StillClient(c), ~StillAsk(c)
      PROVE  NoLostRequest'
  <2>1. UNCHANGED <<latestStill, stillRequested, encPc>>
    BY <1>5 DEF StillClient, StillEnter, StillReread, StillAnswer, StillTimeout, StillDone,
       sinkVars, encVars
  <2>2. \A d \in StillClients : stillPc'[d] = "waiting" => stillPc[d] = "waiting" /\ before'[d] = before[d]
    BY <1>5 DEF TypeOK, StillClient, StillEnter, StillReread, StillAnswer, StillTimeout, StillDone
  <2> QED BY <2>1, <2>2 DEF NoLostRequest, HasNewerStill
<1>6. CASE UNCHANGED <<latestStill, stillRequested, stillPc, before>> /\ (encPc' = encPc \/ encPc \notin {"still", "ended"} \/ encPc' = "ended")
  BY <1>6 DEF NoLostRequest, HasNewerStill
<1>7. \/ TakeRequest \/ EncodeStill \/ \E c \in StillClients : StillClient(c)
      \/ /\ UNCHANGED <<latestStill, stillRequested, stillPc, before>>
         /\ encPc' = encPc \/ encPc \notin {"still", "ended"} \/ encPc' = "ended"
  BY DEF Next, Capture, Encoder, Receive, PipelineEnds, NoTensor, RateLimited, EncodeStream, Publish,
     ViewClient, StreamOpen, StreamTake, StreamSend, Snapshot, SnapshotWaited,
     vars, sinkVars, stillVars, encVars
<1> QED BY <1>2, <1>3, <1>4, <1>5, <1>6, <1>7

(* No request for a still is lost, for any number of handlers that ask at  *)
(* any time.                                                               *)
THEOREM NoRequestIsLost == Spec => []NoLostRequest
<1>1. Init => NoLostRequest
  BY DEF Init, NoLostRequest
<1>2. TypeOK /\ StillNumbers /\ NoLostRequest /\ [Next]_vars => NoLostRequest'
  BY RequestsSurvive
<1> QED BY <1>1, <1>2, TypeCorrect, StillsAreNumbered, PTL DEF Spec

(* The count of stills made, under way and asked for never passes the      *)
(* count of requests.                                                      *)
LEMMA DemandStays ==
  ASSUME TypeOK, StillsOnDemand, [Next]_vars
  PROVE  StillsOnDemand'
<1>1. asks \in Nat /\ nextStillSequence \in Nat \ {0}
  BY DEF TypeOK, SinkTypeOK
<1>2. CASE TakeRequest
  <2>1. UNCHANGED <<nextStillSequence, asks>> /\ ~stillRequested' /\ encPc # "still"
    BY <1>2 DEF TakeRequest, TakeStillRequest, stillVars
  <2>2. encPc' = IF stillRequested THEN "still" ELSE "stream"
    BY <1>2 DEF TakeRequest, TakeStillRequest
  <2> QED BY <1>1, <2>1, <2>2 DEF StillsOnDemand
<1>3. CASE EncodeStill
  <2>1. /\ nextStillSequence' = nextStillSequence + 1 /\ encPc = "still" /\ encPc' = "stream"
        /\ UNCHANGED <<stillRequested, asks>>
    BY <1>3 DEF EncodeStill, PublishStill, stillVars
  <2> QED BY <1>1, <2>1 DEF StillsOnDemand
<1>4. ASSUME NEW c \in StillClients, StillAsk(c)
      PROVE  StillsOnDemand'
  <2>1. UNCHANGED <<nextStillSequence, encPc>> /\ stillRequested' /\ asks' = asks + 1
    BY <1>4 DEF StillAsk, RequestStill, encVars
  <2> QED BY <1>1, <2>1 DEF StillsOnDemand
<1>5. CASE /\ UNCHANGED <<nextStillSequence, stillRequested, asks>>
           /\ encPc' = encPc \/ encPc' # "still"
  BY <1>1, <1>5 DEF StillsOnDemand
<1>6. \/ TakeRequest \/ EncodeStill \/ \E c \in StillClients : StillAsk(c)
      \/ /\ UNCHANGED <<nextStillSequence, stillRequested, asks>>
         /\ encPc' = encPc \/ encPc' # "still"
  BY DEF Next, Capture, Encoder, Receive, PipelineEnds, NoTensor, RateLimited, EncodeStream, Publish,
     StillClient, StillEnter, StillReread, StillAnswer, StillTimeout, StillDone,
     ViewClient, StreamOpen, StreamTake, StreamSend, Snapshot, SnapshotWaited,
     vars, sinkVars, stillVars, encVars
<1> QED BY <1>2, <1>3, <1>4, <1>5, <1>6

(* Full-resolution stills, the expensive ones, are made only on demand.    *)
THEOREM StillsOnlyOnDemand == Spec => []StillsOnDemand
<1>1. Init => StillsOnDemand
  BY DEF Init, SinkInit, StillsOnDemand
<1>2. TypeOK /\ StillsOnDemand /\ [Next]_vars => StillsOnDemand'
  BY DemandStays
<1> QED BY <1>1, <1>2, TypeCorrect, PTL DEF Spec

(* A still newer than `before` was published after the handler read        *)
(* `before`, hence made from a frame at least as new as the one the        *)
(* encoder held when the handler arrived.                                  *)
LEMMA FreshnessStays ==
  ASSUME TypeOK, FramesInOrder, StillNumbers, NewerIsFresh, StillNotStale, [Next]_vars
  PROVE  NewerIsFresh' /\ StillNotStale'
<1>1. /\ latestStill.sequence \in Nat /\ latestStill.frame \in Nat /\ encFrame \in Nat
      /\ \A c \in StillClients : before[c] \in Nat /\ seenAtEntry[c] \in Nat
  BY PreviewAssumption DEF TypeOK, SinkTypeOK, EncodedFrame, Frames
<1>2. CASE EncodeStill
  <2>1. latestStill'.frame = encFrame /\ UNCHANGED stillVars
    BY <1>2 DEF EncodeStill, PublishStill
  <2> QED BY <1>1, <2>1 DEF FramesInOrder, NewerIsFresh, StillNotStale, stillVars
<1>3. ASSUME NEW c \in StillClients, StillEnter(c)
      PROVE  NewerIsFresh' /\ StillNotStale'
  <2>1. /\ UNCHANGED <<latestStill, answer>>
        /\ stillPc' = [stillPc EXCEPT ![c] = IF latestStill = NoFrame THEN "entered" ELSE "reread"]
        /\ before' = [before EXCEPT ![c] = 0]
        /\ seenAtEntry' = [seenAtEntry EXCEPT ![c] = encFrame]
    BY <1>3 DEF StillEnter, sinkVars
  <2>2. stillPc'[c] = "entered" => latestStill.sequence = 0
    BY <2>1 DEF TypeOK, NoFrame
  <2>3. before'[c] = 0 /\ stillPc'[c] \in {"entered", "reread"}
    BY <2>1 DEF TypeOK
  <2>4. \A d \in StillClients \ {c} :
          stillPc'[d] = stillPc[d] /\ before'[d] = before[d] /\ seenAtEntry'[d] = seenAtEntry[d]
    BY <2>1 DEF TypeOK
  <2>5. NewerIsFresh'
    BY <1>1, <2>1, <2>2, <2>3, <2>4 DEF NewerIsFresh, HasNewerStill
  <2>6. StillNotStale'
    BY <2>1, <2>3, <2>4 DEF StillNotStale
  <2> QED BY <2>5, <2>6
<1>4. ASSUME NEW c \in StillClients, StillReread(c)
      PROVE  NewerIsFresh' /\ StillNotStale'
  <2>1. /\ UNCHANGED <<latestStill, answer, seenAtEntry>>
        /\ stillPc' = [stillPc EXCEPT ![c] = "entered"]
        /\ before' = [before EXCEPT ![c] = latestStill.sequence]
    BY <1>4 DEF StillReread, sinkVars
  <2>2. /\ before'[c] = latestStill.sequence /\ stillPc'[c] = "entered"
        /\ \A d \in StillClients \ {c} : stillPc'[d] = stillPc[d] /\ before'[d] = before[d]
    BY <2>1 DEF TypeOK
  <2> QED BY <1>1, <2>1, <2>2 DEF NewerIsFresh, StillNotStale, HasNewerStill
<1>5. ASSUME NEW c \in StillClients, StillAsk(c) \/ StillTimeout(c) \/ StillDone(c)
      PROVE  NewerIsFresh' /\ StillNotStale'
  <2>1. UNCHANGED <<latestStill, answer, seenAtEntry, before>>
    BY <1>5 DEF StillAsk, RequestStill, StillTimeout, StillDone, sinkVars
  <2>2. \A d \in StillClients :
          /\ stillPc'[d] \in {"entered", "waiting"} => stillPc[d] \in {"entered", "waiting"}
          /\ stillPc'[d] = "answered" => stillPc[d] = "answered"
    BY <1>5 DEF TypeOK, StillAsk, StillTimeout, StillDone
  <2> QED BY <2>1, <2>2 DEF NewerIsFresh, StillNotStale, HasNewerStill
<1>6. ASSUME NEW c \in StillClients, StillAnswer(c)
      PROVE  NewerIsFresh' /\ StillNotStale'
  <2>1. /\ UNCHANGED <<latestStill, seenAtEntry, before>>
        /\ stillPc[c] = "waiting" /\ HasNewerStill(before[c])
        /\ stillPc' = [stillPc EXCEPT ![c] = "answered"]
        /\ answer' = [answer EXCEPT ![c] = latestStill]
    BY <1>6 DEF StillAnswer, sinkVars
  <2>2. /\ stillPc'[c] = "answered" /\ answer'[c] = latestStill
        /\ \A d \in StillClients \ {c} : stillPc'[d] = stillPc[d] /\ answer'[d] = answer[d]
    BY <2>1 DEF TypeOK
  <2>3. latestStill.frame >= seenAtEntry[c]
    BY <2>1 DEF NewerIsFresh
  <2> QED BY <2>1, <2>2, <2>3 DEF NewerIsFresh, StillNotStale, HasNewerStill
<1>7. CASE UNCHANGED <<latestStill, stillVars>>
  BY <1>7 DEF NewerIsFresh, StillNotStale, HasNewerStill, stillVars
<1>8. \/ EncodeStill \/ \E c \in StillClients : StillClient(c)
      \/ UNCHANGED <<latestStill, stillVars>>
  BY DEF Next, Capture, Encoder, Receive, PipelineEnds, NoTensor, TakeRequest, TakeStillRequest,
     RateLimited, EncodeStream, Publish, ViewClient, StreamOpen, StreamTake, StreamSend, Snapshot,
     SnapshotWaited, vars, sinkVars
<1> QED BY <1>2, <1>3, <1>4, <1>5, <1>6, <1>7, <1>8 DEF StillClient

(* Whatever else happens between its two looks at the sink, a handler      *)
(* never answers with a still older than what it arrived to.               *)
THEOREM StillsAreNotStale == Spec => []StillNotStale
<1>1. Init => NewerIsFresh /\ StillNotStale
  BY DEF Init, NewerIsFresh, StillNotStale
<1>2. /\ TypeOK /\ FramesInOrder /\ StillNumbers /\ NewerIsFresh /\ StillNotStale /\ [Next]_vars
      => NewerIsFresh' /\ StillNotStale'
  BY FreshnessStays
<1> QED BY <1>1, <1>2, TypeCorrect, FramesAreInOrder, StillsAreNumbered, PTL DEF Spec

(* The view side: nothing is published or shown that is newer than the     *)
(* frame the encoder holds, and a handler that has not been given a frame  *)
(* yet has none.                                                           *)
LEMMA ViewsStayInOrder ==
  ASSUME TypeOK, TypeOK', FramesInOrder, ViewsInOrder, [Next]_vars
  PROVE  /\ ViewsInOrder'
         /\ \A v \in ViewClients : shown[v].frame <= shown'[v].frame
<1>1. /\ latest.frame \in Nat /\ encFrame \in Nat /\ encFrame' \in Nat
      /\ \A v \in ViewClients : shown[v].frame \in Nat
  BY PreviewAssumption DEF TypeOK, SinkTypeOK, EncodedFrame, Frames
<1>2. CASE Receive
  <2>1. /\ UNCHANGED <<latest, shown, viewPc>> /\ encFrame' = Head(queue) /\ queue # << >>
    BY <1>2 DEF Receive, sinkVars, viewVars
  <2>2. 1 \in DOMAIN queue /\ encFrame' = queue[1]
    BY <2>1 DEF TypeOK
  <2>3. encFrame <= encFrame'
    BY <2>2 DEF FramesInOrder
  <2> QED BY <1>1, <2>1, <2>3 DEF ViewsInOrder
<1>3. CASE EncodeStream
  <2>1. /\ latest'.frame = encFrame /\ UNCHANGED <<encFrame, shown, viewPc>>
    BY <1>3 DEF EncodeStream, Publish, viewVars
  <2> QED BY <1>1, <2>1 DEF ViewsInOrder
<1>4. ASSUME NEW v \in ViewClients, ViewClient(v)
      PROVE  /\ ViewsInOrder'
             /\ \A w \in ViewClients : shown[w].frame <= shown'[w].frame
  <2>1. UNCHANGED <<latest, encFrame>>
    BY <1>4 DEF ViewClient, StreamOpen, StreamTake, StreamSend, Snapshot, SnapshotWaited,
       sinkVars, encVars
  <2>2. /\ \A w \in ViewClients \ {v} : viewPc'[w] = viewPc[w] /\ shown'[w] = shown[w]
        /\ \/ shown'[v] = shown[v] /\ viewPc'[v] \notin {"idle", "snapwait"}
           \/ shown'[v] = shown[v] /\ viewPc[v] = "idle" /\ viewPc'[v] = "snapwait"
           \/ shown'[v] = latest /\ viewPc'[v] \notin {"idle", "snapwait"}
           \/ shown'[v] = NoFrame /\ viewPc[v] = "snapwait" /\ viewPc'[v] = "closed"
    <3>1. CASE StreamOpen(v) \/ StreamTake(v)
      BY <3>1 DEF TypeOK, StreamOpen, StreamTake
    <3>2. CASE StreamSend(v)
      BY <3>2 DEF TypeOK, StreamSend
    <3>3. CASE Snapshot(v)
      BY <3>3 DEF TypeOK, Snapshot
    <3>4. CASE SnapshotWaited(v)
      BY <3>4 DEF TypeOK, SnapshotWaited
    <3> QED BY <1>4, <3>1, <3>2, <3>3, <3>4 DEF ViewClient
  <2>3. NoFrame.frame = 0
    BY DEF NoFrame
  <2> QED BY <1>1, <2>1, <2>2, <2>3 DEF ViewsInOrder
<1>5. CASE UNCHANGED <<latest, encFrame, shown, viewPc>>
  BY <1>1, <1>5 DEF ViewsInOrder
<1>6. \/ Receive \/ EncodeStream \/ \E v \in ViewClients : ViewClient(v)
      \/ UNCHANGED <<latest, encFrame, shown, viewPc>>
  BY DEF Next, Capture, Encoder, PipelineEnds, NoTensor, TakeRequest, TakeStillRequest, EncodeStill,
     PublishStill, RateLimited, StillClient, StillEnter, StillReread, StillAsk, RequestStill,
     StillAnswer, StillTimeout, StillDone, vars, sinkVars, encVars, viewVars
<1> QED BY <1>2, <1>3, <1>4, <1>5, <1>6

(* No connection is ever shown a frame older than the one before, however  *)
(* many frames the queue and the rate limit skip.                          *)
THEOREM StreamsMoveForward == Spec => StreamInOrder
<1>1. Init => ViewsInOrder
  BY PreviewAssumption DEF Init, SinkInit, NoFrame, ViewsInOrder
<1>2. TypeOK /\ TypeOK' /\ FramesInOrder /\ ViewsInOrder /\ [Next]_vars => ViewsInOrder'
  BY ViewsStayInOrder
<1>3. TypeOK /\ TypeOK' /\ FramesInOrder /\ ViewsInOrder /\ [Next]_vars
      => [\A v \in ViewClients : shown'[v] # shown[v] => shown'[v].frame >= shown[v].frame]_shown
  <2> SUFFICES ASSUME TypeOK, TypeOK', FramesInOrder, ViewsInOrder, [Next]_vars,
                      NEW v \in ViewClients
               PROVE  shown'[v].frame >= shown[v].frame
    OBVIOUS
  <2>1. shown[v].frame \in Nat /\ shown'[v].frame \in Nat
    BY PreviewAssumption DEF TypeOK, EncodedFrame, Frames
  <2> QED BY <2>1, ViewsStayInOrder
<1> QED BY <1>1, <1>2, <1>3, TypeCorrect, FramesAreInOrder, PTL DEF Spec, StreamInOrder

(* The stills refine the abstract operator: asking maps to Ask, taking the *)
(* flag to Take, publishing to Finish, the end of the pipeline in the      *)
(* middle of a still to Abandon, everything else to a stutter.             *)
THEOREM StillsImplementOnDemand == Spec => ImplementsOnDemand
<1>1. Init => Stills!Init
  BY DEF Init, SinkInit, Stills!Init
<1>2. ASSUME TypeOK, [Next]_vars
      PROVE  [Stills!Next]_(Stills!vars)
  <2>1. asks \in Nat /\ nextStillSequence \in Nat \ {0} /\ stillRequested \in BOOLEAN
    BY <1>2 DEF TypeOK, SinkTypeOK
  <2>2. CASE TakeRequest
    <3>1. /\ UNCHANGED <<nextStillSequence, asks>> /\ stillRequested' = FALSE
          /\ encPc = "received" /\ encPc' = IF stillRequested THEN "still" ELSE "stream"
      BY <2>2 DEF TakeRequest, TakeStillRequest, stillVars
    <3>2. CASE stillRequested
      <4>1. Stills!Take
        BY <2>1, <3>1, <3>2 DEF Stills!Take
      <4> QED BY <4>1 DEF Stills!Next
    <3>3. CASE ~stillRequested
      BY <2>1, <3>1, <3>3 DEF Stills!vars
    <3> QED BY <3>2, <3>3
  <2>3. CASE EncodeStill
    <3>1. /\ nextStillSequence' = nextStillSequence + 1 /\ encPc = "still" /\ encPc' = "stream"
          /\ UNCHANGED <<stillRequested, asks>>
      BY <2>3 DEF EncodeStill, PublishStill, stillVars
    <3>2. Stills!Finish
      BY <2>1, <3>1 DEF Stills!Finish
    <3> QED BY <3>2 DEF Stills!Next
  <2>4. ASSUME NEW c \in StillClients, StillAsk(c)
        PROVE  Stills!Ask
    BY <2>1, <2>4 DEF StillAsk, RequestStill, Stills!Ask, encVars
  <2>5. CASE PipelineEnds
    <3>1. UNCHANGED <<nextStillSequence, stillRequested, asks>> /\ encPc' = "ended"
      BY <2>5 DEF PipelineEnds, sinkVars, stillVars
    <3>2. CASE encPc = "still"
      BY <3>1, <3>2 DEF Stills!Next, Stills!Abandon
    <3>3. CASE encPc # "still"
      BY <3>1, <3>3 DEF Stills!vars
    <3> QED BY <3>2, <3>3
  <2>6. CASE /\ UNCHANGED <<nextStillSequence, stillRequested, asks>>
             /\ (encPc' = "still") = (encPc = "still")
    BY <2>6 DEF Stills!vars
  <2>7. \/ TakeRequest \/ EncodeStill \/ PipelineEnds \/ \E c \in StillClients : StillAsk(c)
        \/ /\ UNCHANGED <<nextStillSequence, stillRequested, asks>>
           /\ (encPc' = "still") = (encPc = "still")
    BY <1>2 DEF Next, Capture, Encoder, Receive, NoTensor, RateLimited, EncodeStream, Publish,
       StillClient, StillEnter, StillReread, StillAnswer, StillTimeout, StillDone,
       ViewClient, StreamOpen, StreamTake, StreamSend, Snapshot, SnapshotWaited,
       vars, sinkVars, stillVars, encVars
  <2> QED BY <2>2, <2>3, <2>4, <2>5, <2>6, <2>7 DEF Stills!Next
<1> QED BY <1>1, <1>2, TypeCorrect, PTL DEF Spec, ImplementsOnDemand, Stills!Spec
=============================================================================
