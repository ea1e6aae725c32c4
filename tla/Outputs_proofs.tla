--------------------------- MODULE Outputs_proofs ---------------------------
(***************************************************************************)
(* Proofs about what leaves the pipeline.  First the control page's        *)
(* server: the life of PreviewServer's threads, for any set of connections *)
(* and any number of Start and Stop calls, then the raw dumps of           *)
(* SnapshotOp that its clients request, for any number of them, of         *)
(* requests and of frames.  Then the session of the video encoder          *)
(* (NvencSession), for a ring of any size, and last the IVF container      *)
(* (Ivf), for any frames, faults and interleavings of its writer and its   *)
(* reader.  No fairness is used: these are the safety properties; that     *)
(* Stop returns, and that a dump comes, is checked by TLC.                 *)
(***************************************************************************)
EXTENDS PreviewServer, SnapshotOp, NvencSession, Ivf, SequenceTheorems, TLAPS

(* A server that was never started has the types of its variables.         *)
LEMMA InitType == Init => TypeOK
<1> SUFFICES ASSUME Init PROVE TypeOK
  OBVIOUS
<1>1. starts \in 0..MaxStarts
  BY ServerAssumption DEF Init
<1> QED BY <1>1 DEF Init, TypeOK

(* The steps of the thread in Start or Stop keep the types.                *)
LEMMA CallerKeepsType ==
  ASSUME TypeOK, Start \/ Stop
  PROVE  TypeOK'
<1> USE DEF TypeOK
<1>1. CASE Start
  <2>1. starts' \in 0..MaxStarts
    BY <1>1, ServerAssumption DEF Start
  <2> QED BY <1>1, <2>1 DEF Start
<1>2. CASE StopBegin
  BY <1>2 DEF StopBegin
<1>3. CASE StopShutdown
  BY <1>3 DEF StopShutdown
<1>4. CASE StopJoinAccept \/ StopReturn
  BY <1>4 DEF StopJoinAccept, StopReturn
<1>5. CASE StopCollect
  BY <1>5 DEF StopCollect
<1>6. ASSUME NEW c \in Connections, StopJoin(c)
      PROVE  TypeOK'
  BY <1>6 DEF StopJoin
<1> QED BY <1>1, <1>2, <1>3, <1>4, <1>5, <1>6 DEF Stop

(* The steps of the accept thread keep the types; in particular inHand is  *)
(* a connection whenever a thread is spawned for it.                       *)
LEMMA AcceptThreadKeepsType ==
  ASSUME TypeOK, Stages, AcceptThread
  PROVE  TypeOK'
<1> USE DEF TypeOK
<1>1. CASE AcceptTest \/ AcceptFails
  BY <1>1 DEF AcceptTest, AcceptFails
<1>2. CASE AcceptReap
  BY <1>2 DEF AcceptReap
<1>3. CASE Spawn
  <2>1. conn' = [conn EXCEPT ![inHand] = "reading"] /\ acceptPc' = "push"
    BY <1>3 DEF Spawn
  <2>2. conn' \in [Connections -> {"away", "backlog", "accepted", "reset", "exited"} \cup Live]
    BY <2>1 DEF Live
  <2> QED BY <1>3, <2>1, <2>2 DEF Spawn
<1>4. CASE Push
  <2>1. inHand \in Connections
    BY <1>4 DEF Push, Stages
  <2> QED BY <1>4, <2>1 DEF Push
<1>5. ASSUME NEW c \in Connections, Accept(c)
      PROVE  TypeOK'
  BY <1>5 DEF Accept
<1>6. ASSUME NEW c \in Connections, AcceptJoin(c)
      PROVE  TypeOK'
  BY <1>6 DEF AcceptJoin
<1> QED BY <1>1, <1>2, <1>3, <1>4, <1>5, <1>6 DEF AcceptThread

(* Every step of a connection's thread or client is a Goto.                *)
LEMMA ConnectionSteps ==
  ASSUME NEW c \in Connections, Worker(c) \/ Client(c)
  PROVE  \/ Goto(c, "away", "backlog")
         \/ \E from \in Live, to \in Live \cup {"exited"} : Goto(c, from, to)
  BY DEF Worker, Client, ReadRequest, Handle, StreamTest, CloseSocket, SetDone, Connect,
     ClientReads, ClientGone, Live

(* The steps of a connection keep the types: they move one connection from *)
(* one place of its life to another.                                       *)
LEMMA ConnectionKeepsType ==
  ASSUME TypeOK, NEW c \in Connections, Worker(c) \/ Client(c)
  PROVE  TypeOK'
<1>1. PICK to \in Live \cup {"exited", "backlog"} :
        /\ conn' = [conn EXCEPT ![c] = to]
        /\ UNCHANGED <<running, listening, callerPc, acceptPc, inHand, workers, acceptJoins,
                       stopJoins, joined, starts>>
  BY ConnectionSteps DEF Goto
<1> QED BY <1>1 DEF TypeOK

(* Every step of the server keeps the types.                               *)
LEMMA TypeStays ==
  ASSUME TypeOK, Stages, [Next]_vars
  PROVE  TypeOK'
<1>1. CASE UNCHANGED vars
  BY <1>1 DEF TypeOK, vars
<1> QED BY <1>1, CallerKeepsType, AcceptThreadKeepsType, ConnectionKeepsType DEF Next
-----------------------------------------------------------------------------
(* Start and Stop go through their stages in order: the accept thread has  *)
(* ended before the workers are collected, and the list of workers is      *)
(* empty while they are joined.                                            *)
LEMMA CallerKeepsStages ==
  ASSUME TypeOK, Stages, Start \/ Stop
  PROVE  Stages'
<1>1. CASE Start
  BY <1>1 DEF Stages, Start, Exited
<1>2. CASE StopBegin
  BY <1>2 DEF Stages, StopBegin, Exited
<1>3. CASE StopShutdown
  <2>1. \A c \in Connections : conn[c] # "backlog" => conn'[c] = conn[c]
    BY <1>3 DEF StopShutdown
  <2> QED BY <1>3, <2>1 DEF TypeOK, Stages, StopShutdown, Exited
<1>4. CASE StopJoinAccept \/ StopReturn
  BY <1>4 DEF Stages, StopJoinAccept, StopReturn, Exited
<1>5. CASE StopCollect
  BY <1>5 DEF Stages, StopCollect, Exited
<1>6. ASSUME NEW c \in Connections, StopJoin(c)
      PROVE  Stages'
  BY <1>6 DEF Stages, StopJoin, Exited
<1> QED BY <1>1, <1>2, <1>3, <1>4, <1>5, <1>6 DEF Stop

(* The accept thread keeps the stages: it never runs on once Stop has      *)
(* joined it.                                                              *)
LEMMA AcceptThreadKeepsStages ==
  ASSUME TypeOK, Stages, OneOwner, AcceptThread
  PROVE  Stages'
<1>1. CASE AcceptTest \/ AcceptFails
  BY <1>1 DEF TypeOK, Stages, AcceptTest, AcceptFails, Exited
<1>2. CASE AcceptReap
  BY <1>2 DEF Stages, AcceptReap, Exited
<1>3. CASE Spawn
  <2>1. inHand \in Connections /\ conn[inHand] = "accepted" /\ inHand \notin joined
    BY <1>3 DEF Stages, Spawn, Exited
  <2>2. \A c \in Connections \ {inHand} : conn'[c] = conn[c]
    BY <1>3 DEF TypeOK, Spawn
  <2> QED BY <1>3, <2>1, <2>2 DEF TypeOK, Stages, Spawn, Exited
<1>4. CASE Push
  BY <1>4 DEF Stages, Push, Exited
<1>5. ASSUME NEW c \in Connections, Accept(c)
      PROVE  Stages'
  <2>1. /\ conn'[c] = "accepted" /\ conn[c] = "backlog"
        /\ \A d \in Connections \ {c} : conn'[d] = conn[d]
    BY <1>5 DEF TypeOK, Accept
  <2> QED BY <1>5, <2>1 DEF TypeOK, Stages, Accept, Exited
<1>6. ASSUME NEW c \in Connections, AcceptJoin(c)
      PROVE  Stages'
  BY <1>6 DEF Stages, AcceptJoin, Exited
<1> QED BY <1>1, <1>2, <1>3, <1>4, <1>5, <1>6 DEF AcceptThread

(* A connection moves on its own and touches none of the lists of threads. *)
LEMMA ConnectionKeepsStages ==
  ASSUME TypeOK, Stages, NEW c \in Connections, Worker(c) \/ Client(c)
  PROVE  Stages'
<1>1. /\ \A d \in Connections \ {c} : conn'[d] = conn[d]
      /\ conn[c] \notin {"accepted", "exited"}
      /\ UNCHANGED <<running, listening, callerPc, acceptPc, inHand, workers, acceptJoins,
                     stopJoins, joined, starts>>
  BY ConnectionSteps DEF TypeOK, Goto, Live
<1> QED BY <1>1 DEF TypeOK, Stages, Exited

(* Every step keeps the stages.                                            *)
LEMMA StagesStay ==
  ASSUME TypeOK, Stages, OneOwner, [Next]_vars
  PROVE  Stages'
<1>1. CASE UNCHANGED vars
  BY <1>1 DEF Stages, Exited, vars
<1> QED BY <1>1, CallerKeepsStages, AcceptThreadKeepsStages, ConnectionKeepsStages DEF Next
-----------------------------------------------------------------------------
(* A thread changes owners but is never without one and never has two.     *)
LEMMA CallerKeepsOwners ==
  ASSUME TypeOK, Stages, OneOwner, Start \/ Stop
  PROVE  OneOwner'
<1>1. CASE Start
  <2>1. acceptPc # "push" /\ acceptPc' # "push"
    BY <1>1 DEF Start, Stages
  <2> QED BY <1>1, <2>1 DEF Start, OneOwner, Pushing
<1>2. CASE StopBegin \/ StopJoinAccept \/ StopReturn
  BY <1>2 DEF OneOwner, Pushing, StopBegin, StopJoinAccept, StopReturn
<1>3. CASE StopShutdown
  <2>1. \A c \in Connections : conn'[c] = IF conn[c] = "backlog" THEN "reset" ELSE conn[c]
    BY <1>3 DEF StopShutdown
  <2>2. \A c \in Connections :
          (conn'[c] \in Live \cup {"exited"}) <=> (conn[c] \in Live \cup {"exited"})
    BY <2>1 DEF Live
  <2> QED BY <1>3, <2>2 DEF StopShutdown, OneOwner, Pushing
<1>4. CASE StopCollect
  <2>1. stopJoins = {} /\ acceptJoins = {} /\ Pushing = {} /\ Pushing' = {}
    BY <1>4 DEF StopCollect, Stages, Pushing
  <2>2. /\ stopJoins' = workers /\ workers' = {}
        /\ UNCHANGED <<conn, acceptJoins, joined>>
    BY <1>4 DEF StopCollect
  <2> QED BY <2>1, <2>2 DEF OneOwner
<1>5. ASSUME NEW c \in Connections, StopJoin(c)
      PROVE  OneOwner'
  <2>1. /\ c \in stopJoins /\ stopJoins' = stopJoins \ {c} /\ joined' = joined \cup {c}
        /\ UNCHANGED <<conn, workers, acceptJoins>> /\ Pushing' = Pushing
    BY <1>5 DEF StopJoin, Pushing
  <2> QED BY <2>1 DEF OneOwner
<1> QED BY <1>1, <1>2, <1>3, <1>4, <1>5 DEF Stop

(* Reap(false), the joins, the spawn and the push move a thread from one   *)
(* owner to the next.                                                      *)
LEMMA AcceptThreadKeepsOwners ==
  ASSUME TypeOK, Stages, OneOwner, AcceptThread
  PROVE  OneOwner'
<1>1. CASE AcceptTest \/ AcceptFails
  <2>1. UNCHANGED <<conn, workers, acceptJoins, stopJoins, joined>> /\ Pushing' = Pushing
    BY <1>1 DEF AcceptTest, AcceptFails, Pushing
  <2> QED BY <2>1 DEF OneOwner
<1>2. CASE AcceptReap
  <2>1. acceptJoins = {} /\ Pushing = {} /\ Pushing' = {} /\ UNCHANGED <<conn, stopJoins, joined>>
    BY <1>2 DEF AcceptReap, Stages, Pushing
  <2>2. workers = workers' \cup acceptJoins' /\ workers' \cap acceptJoins' = {}
    BY <1>2 DEF AcceptReap, Exited
  <2> QED BY <2>1, <2>2 DEF OneOwner
<1>3. CASE Spawn
  <2>1. /\ inHand \in Connections /\ conn[inHand] = "accepted"
        /\ Pushing = {} /\ Pushing' = {inHand}
        /\ UNCHANGED <<workers, acceptJoins, stopJoins, joined>>
    BY <1>3 DEF Spawn, Stages, Pushing
  <2>2. /\ conn'[inHand] = "reading"
        /\ \A c \in Connections \ {inHand} : conn'[c] = conn[c]
    BY <1>3, <2>1 DEF TypeOK, Spawn
  <2>3. inHand \notin workers \cup acceptJoins \cup stopJoins \cup joined
    BY <2>1 DEF OneOwner, Live
  <2> QED BY <2>1, <2>2, <2>3 DEF OneOwner, Live
<1>4. CASE Push
  <2>1. /\ Pushing = {inHand} /\ Pushing' = {} /\ workers' = workers \cup {inHand}
        /\ UNCHANGED <<conn, acceptJoins, stopJoins, joined>>
    BY <1>4 DEF Push, Pushing
  <2> QED BY <2>1 DEF OneOwner
<1>5. ASSUME NEW c \in Connections, Accept(c)
      PROVE  OneOwner'
  <2>1. /\ conn'[c] = "accepted" /\ conn[c] = "backlog"
        /\ \A d \in Connections \ {c} : conn'[d] = conn[d]
        /\ UNCHANGED <<workers, acceptJoins, stopJoins, joined>> /\ Pushing = {} /\ Pushing' = {}
    BY <1>5 DEF TypeOK, Accept, Pushing
  <2> QED BY <2>1 DEF OneOwner, Live
<1>6. ASSUME NEW c \in Connections, AcceptJoin(c)
      PROVE  OneOwner'
  <2>1. /\ c \in acceptJoins /\ acceptJoins' = acceptJoins \ {c} /\ joined' = joined \cup {c}
        /\ UNCHANGED <<conn, workers, stopJoins>> /\ Pushing' = Pushing
    BY <1>6 DEF AcceptJoin, Pushing
  <2> QED BY <2>1 DEF OneOwner
<1> QED BY <1>1, <1>2, <1>3, <1>4, <1>5, <1>6 DEF AcceptThread

(* A connection thread that runs or exits keeps the owner it has.          *)
LEMMA ConnectionKeepsOwners ==
  ASSUME TypeOK, OneOwner, NEW c \in Connections, Worker(c) \/ Client(c)
  PROVE  OneOwner'
<1>1. /\ \A d \in Connections \ {c} : conn'[d] = conn[d]
      /\ (conn'[c] \in Live \cup {"exited"}) <=> (conn[c] \in Live \cup {"exited"})
      /\ UNCHANGED <<acceptPc, inHand, workers, acceptJoins, stopJoins, joined>>
  <2>1. CASE Goto(c, "away", "backlog")
    BY <2>1 DEF TypeOK, Goto, Live
  <2>2. ASSUME NEW from \in Live, NEW to \in Live \cup {"exited"}, Goto(c, from, to)
        PROVE  /\ \A d \in Connections \ {c} : conn'[d] = conn[d]
               /\ conn[c] = from /\ conn'[c] = to
               /\ UNCHANGED <<acceptPc, inHand, workers, acceptJoins, stopJoins, joined>>
    BY <2>2 DEF TypeOK, Goto
  <2> QED BY <2>1, <2>2, ConnectionSteps
<1> QED BY <1>1 DEF OneOwner, Pushing

(* Every step leaves every thread with exactly one owner.                  *)
LEMMA OwnersStay ==
  ASSUME TypeOK, Stages, OneOwner, [Next]_vars
  PROVE  OneOwner'
<1>1. CASE UNCHANGED vars
  BY <1>1 DEF OneOwner, Pushing, vars
<1> QED BY <1>1, CallerKeepsOwners, AcceptThreadKeepsOwners, ConnectionKeepsOwners DEF Next

(* Types, stages and owners together are inductive.                        *)
THEOREM Invariant == Spec => [](TypeOK /\ Stages /\ OneOwner)
<1>1. Init => Stages /\ OneOwner
  BY DEF Init, Stages, OneOwner, Pushing, Live, Exited
<1>2. TypeOK /\ Stages /\ OneOwner /\ [Next]_vars => (TypeOK /\ Stages /\ OneOwner)'
  BY TypeStays, StagesStay, OwnersStay
<1> QED BY <1>1, <1>2, InitType, PTL DEF Spec

(* Every variable keeps its type.                                          *)
THEOREM TypeCorrect == Spec => []TypeOK
  BY Invariant, PTL

(* Each thread of the server is owned by exactly one of its five owners,   *)
(* so it is joined exactly once, whatever connects while Stop runs.        *)
THEOREM EveryThreadHasOneOwner == Spec => []OneOwner
  BY Invariant, PTL

(* When Stop has returned, no thread of the server runs and none is left   *)
(* unjoined.                                                               *)
THEOREM StopLeavesNothing == Spec => []StoppedMeansQuiet
<1>1. TypeOK /\ Stages /\ OneOwner => StoppedMeansQuiet
  <2> SUFFICES ASSUME TypeOK, Stages, OneOwner, callerPc = "outside", ~running
               PROVE  /\ acceptPc \in {"off", "ended"}
                      /\ workers = {}
                      /\ \A c \in Connections : conn[c] \notin Live /\ (Exited(c) => c \in joined)
    BY DEF StoppedMeansQuiet
  <2>1. /\ acceptPc \in {"off", "ended"} /\ workers = {} /\ stopJoins = {} /\ acceptJoins = {}
        /\ Pushing = {}
    BY DEF Stages, Pushing
  <2>2. ASSUME NEW c \in Connections, conn[c] \in Live \cup {"exited"}
        PROVE  c \in joined /\ conn[c] = "exited"
    BY <2>1, <2>2 DEF OneOwner, Stages, Exited
  <2>3. "exited" \notin Live
    BY DEF Live
  <2> QED BY <2>1, <2>2, <2>3 DEF Exited
<1> QED BY <1>1, Invariant, PTL

-----------------------------------------------------------------------------
(* SnapshotOp.                                                             *)

(* The initial state has the types: nothing requested, no file.            *)
LEMMA SnapshotInitType == SnapshotInit => SnapshotTypeOK
<1> SUFFICES ASSUME SnapshotInit PROVE SnapshotTypeOK
  OBVIOUS
<1>1. 0 \in 0..MaxFrames /\ 0 \in 0..MaxRequests /\ 0 \in 0..0
  BY SnapshotAssumption
<1>2. clock \in 0..requests /\ dumps \in Nat
  BY <1>1 DEF SnapshotInit
<1> QED BY <1>1, <1>2 DEF SnapshotInit, SnapshotTypeOK

(* A call of Request keeps the types: the path it hands out is one of the  *)
(* millisecond numbers.                                                    *)
LEMMA RequestKeepsType ==
  ASSUME SnapshotTypeOK, NEW c \in Clients, Request(c)
  PROVE  SnapshotTypeOK'
<1>1. PICK now \in {clock, clock + 1} \ {0} :
        /\ pendingBase' = now /\ clock' = now
        /\ returned' = [returned EXCEPT ![c] = now]
  BY DEF Request
<1>2. /\ requests \in 0..MaxRequests /\ clock \in 0..requests /\ requests < MaxRequests
      /\ requests' = requests + 1 /\ requested' = TRUE /\ MaxRequests \in Nat
  BY SnapshotAssumption DEF SnapshotTypeOK, Request
<1>3. now \in Bases /\ now \in 0..requests' /\ requests' \in 0..MaxRequests
  BY <1>1, <1>2 DEF Bases
<1>4. UNCHANGED <<fileVars, opVars, reported>>
  BY DEF Request
<1> QED BY <1>1, <1>2, <1>3, <1>4 DEF SnapshotTypeOK, fileVars, opVars

(* The steps of compute() keep the types.                                  *)
LEMMA ComputeKeepsType ==
  ASSUME SnapshotTypeOK, Compute \/ PipelineEnds \/ LastWritten
  PROVE  SnapshotTypeOK'
<1> USE DEF SnapshotTypeOK, fileVars, opVars, clientVars
<1>1. CASE Exchange
  <2>1. frame' \in 0..MaxFrames
    BY <1>1, SnapshotAssumption DEF Exchange
  <2>2. requested' = FALSE /\ pc' \in {"idle", "exchanged"}
    BY <1>1 DEF Exchange
  <2> QED BY <1>1, <2>1, <2>2 DEF Exchange
<1>2. CASE Lock \/ CudaFails \/ PipelineEnds \/ LastWritten
  BY <1>2 DEF Lock, CudaFails, PipelineEnds, LastWritten
<1>6. CASE NoTensor
  BY <1>6 DEF NoTensor
<1>3. CASE Copied
  BY <1>3 DEF Copied
<1>4. CASE WriteRaw
  BY <1>4 DEF WriteRaw, Write
<1>5. CASE WriteJson
  <2>1. json' \in [Bases -> 0..MaxFrames] /\ dumps' \in Nat /\ lastWritten' \in Bases \cup {NoBase}
    BY <1>5 DEF WriteJson, Write
  <2>2. lost' \subseteq Bases \cup {NoBase}
    BY <1>5 DEF WriteJson, Write
  <2> QED BY <1>5, <2>1, <2>2 DEF WriteJson
<1> QED BY <1>1, <1>2, <1>3, <1>4, <1>5, <1>6 DEF Compute

(* Every variable keeps its type.                                          *)
THEOREM SnapshotTypeCorrect == SnapshotSpec => []SnapshotTypeOK
<1>1. SnapshotTypeOK /\ UNCHANGED snapshotVars => SnapshotTypeOK'
  BY DEF SnapshotTypeOK, snapshotVars
<1>2. SnapshotTypeOK /\ [SnapshotNext]_snapshotVars => SnapshotTypeOK'
  BY <1>1, RequestKeepsType, ComputeKeepsType DEF SnapshotNext
<1> QED BY <1>2, SnapshotInitType, PTL DEF SnapshotSpec

(* The dumps refine the abstract operator: consuming the flag maps to      *)
(* Take, the sidecar to Finish, a missing tensor or a CUDA error to        *)
(* Abandon, the lock and the .raw file to stutters.                        *)
THEOREM DumpsImplementOnDemand == SnapshotSpec => ImplementsOnDemand
<1>1. SnapshotInit => Dumps!Init
  BY DEF SnapshotInit, Dumps!Init
<1>2. ASSUME SnapshotTypeOK, [SnapshotNext]_snapshotVars
      PROVE  [Dumps!Next]_(Dumps!vars)
  <2>1. CASE Exchange
    <3>1. /\ UNCHANGED <<requests, dumps>> /\ requested' = FALSE /\ requested \in BOOLEAN
          /\ pc = "idle" /\ pc' = IF requested THEN "exchanged" ELSE "idle"
      BY <1>2, <2>1 DEF SnapshotTypeOK, Exchange, fileVars, clientVars
    <3>2. CASE requested
      BY <3>1, <3>2 DEF Dumps!Next, Dumps!Take
    <3>3. CASE ~requested
      BY <3>1, <3>3 DEF Dumps!vars
    <3> QED BY <3>2, <3>3
  <2>2. CASE NoTensor \/ CudaFails
    BY <2>2 DEF NoTensor, CudaFails, Dumps!Next, Dumps!Abandon, fileVars, clientVars
  <2>3. CASE WriteJson
    BY <2>3 DEF WriteJson, Dumps!Next, Dumps!Finish, clientVars
  <2>4. ASSUME NEW c \in Clients, Request(c)
        PROVE  Dumps!Ask
    BY <2>4 DEF Request, Dumps!Ask, fileVars, opVars
  <2>5. CASE Lock \/ Copied \/ WriteRaw \/ PipelineEnds \/ LastWritten \/ UNCHANGED snapshotVars
    BY <2>5 DEF Lock, Copied, WriteRaw, PipelineEnds, LastWritten, snapshotVars, Dumps!vars, fileVars,
       opVars, clientVars
  <2> QED BY <1>2, <2>1, <2>2, <2>3, <2>4, <2>5 DEF SnapshotNext, Compute, Dumps!Next
<1> QED BY <1>1, <1>2, SnapshotTypeCorrect, PTL DEF SnapshotSpec, ImplementsOnDemand, Dumps!Spec

(* mutex_ is held exactly while a dump is written, and a dump under way    *)
(* has a path and a frame.                                                 *)
LEMMA DumpStateStays ==
  ASSUME SnapshotTypeOK, LockCoversDump, RequestHasPath, [SnapshotNext]_snapshotVars
  PROVE  LockCoversDump' /\ RequestHasPath'
<1> USE DEF LockCoversDump, RequestHasPath
<1>1. ASSUME NEW c \in Clients, Request(c)
      PROVE  LockCoversDump' /\ RequestHasPath'
  <2>1. pendingBase' \in Bases
    <3>1. PICK now \in {clock, clock + 1} \ {0} : pendingBase' = now
      BY <1>1 DEF Request
    <3>2. clock \in 0..requests /\ requests \in 0..MaxRequests /\ requests < MaxRequests
      BY <1>1 DEF SnapshotTypeOK, Request
    <3> QED BY <3>1, <3>2, SnapshotAssumption DEF Bases
  <2> QED BY <1>1, <2>1 DEF Request, opVars
<1>2. CASE Exchange
  <2>1. frame' # 0
    BY <1>2, SnapshotAssumption DEF SnapshotTypeOK, Exchange
  <2>2. requested' = FALSE /\ pc = "idle" /\ pc' = IF requested THEN "exchanged" ELSE "idle"
    BY <1>2 DEF Exchange
  <2> QED BY <1>2, <2>1, <2>2 DEF Exchange
<1>3. CASE Lock \/ NoTensor
  BY <1>3 DEF Lock, NoTensor
<1>4. CASE CudaFails \/ PipelineEnds
  BY <1>4 DEF CudaFails, PipelineEnds
<1>5. CASE Copied
  BY <1>5 DEF Copied
<1>6. CASE WriteRaw
  BY <1>6 DEF WriteRaw
<1>7. CASE WriteJson
  BY <1>7 DEF WriteJson
<1>8. CASE LastWritten \/ UNCHANGED snapshotVars
  <2>1. UNCHANGED <<requested, pendingBase, opVars>>
    BY <1>8 DEF LastWritten, snapshotVars, opVars
  <2> QED BY <2>1 DEF opVars
<1> QED BY <1>1, <1>2, <1>3, <1>4, <1>5, <1>6, <1>7, <1>8 DEF SnapshotNext, Compute

(* Only the dump under way may have files that differ, and it is the one   *)
(* mutex_ protects.                                                        *)
LEMMA FilesStayComplete ==
  ASSUME SnapshotTypeOK, LockCoversDump, RequestHasPath, OthersComplete, [SnapshotNext]_snapshotVars
  PROVE  OthersComplete'
<1>1. /\ raw \in [Bases -> 0..MaxFrames] /\ json \in [Bases -> 0..MaxFrames]
      /\ pc = "json" => base \in Bases /\ frame # 0
      /\ pc = "raw" => base \in Bases /\ frame # 0
  BY DEF SnapshotTypeOK, RequestHasPath
<1>2. CASE WriteRaw
  <2>1. /\ pc = "raw" /\ pc' = "json"
        /\ UNCHANGED <<lastWritten, reported, json, base, frame>>
    BY <1>2 DEF WriteRaw
  <2>2. CASE raw' = [raw EXCEPT ![base] = frame] /\ UNCHANGED lost
    <3>1. raw'[base] = frame /\ \A b \in Bases : b # base => raw'[b] = raw[b]
      BY <1>1, <2>1, <2>2
    <3> QED BY <2>1, <2>2, <3>1 DEF OthersComplete, Complete
  <2>3. CASE UNCHANGED raw /\ lost' = lost \cup {base}
    BY <2>1, <2>3 DEF OthersComplete, Complete
  <2> QED BY <1>2, <2>2, <2>3 DEF WriteRaw, Write
<1>3. CASE WriteJson
  <2>1. /\ pc = "json" /\ pc' = "idle" /\ lastWritten' = base
        /\ UNCHANGED <<reported, raw, base, frame>>
    BY <1>3 DEF WriteJson
  <2>2. CASE json' = [json EXCEPT ![base] = frame] /\ UNCHANGED lost
    <3>1. json'[base] = frame /\ \A b \in Bases : b # base => json'[b] = json[b]
      BY <1>1, <2>1, <2>2
    <3>2. base \in lost \/ Complete(base)'
      BY <1>1, <2>1, <3>1 DEF OthersComplete, Complete
    <3>3. \A b \in {lastWritten, reported} \cap Bases : b # base => b \in lost \/ Complete(b)'
      BY <2>1, <3>1 DEF OthersComplete, Complete
    <3> QED BY <2>1, <2>2, <3>2, <3>3 DEF OthersComplete
  <2>3. CASE UNCHANGED json /\ lost' = lost \cup {base}
    BY <2>1, <2>3 DEF OthersComplete, Complete
  <2> QED BY <1>3, <2>2, <2>3 DEF WriteJson, Write
<1>4. CASE LastWritten
  <2>1. /\ pc # "json" /\ reported' = lastWritten
        /\ UNCHANGED <<lastWritten, raw, json, lost, pc, base, frame>>
    BY <1>4 DEF LastWritten, LockCoversDump, fileVars, opVars
  <2> QED BY <2>1 DEF OthersComplete, Complete
<1>5. CASE NoTensor
  <2>1. /\ pc = "exchanged" /\ pc' = "idle" /\ lost \subseteq lost'
        /\ UNCHANGED <<lastWritten, reported, raw, json, base, frame>>
    BY <1>5 DEF NoTensor
  <2> QED BY <2>1 DEF OthersComplete, Complete
<1>6. CASE /\ UNCHANGED <<lastWritten, reported, raw, json, lost>>
           /\ UNCHANGED <<pc, base, frame>> \/ (pc # "json" /\ pc' # "json")
  BY <1>6 DEF OthersComplete, Complete
<1>7. \/ WriteRaw \/ WriteJson \/ LastWritten \/ NoTensor
      \/ /\ UNCHANGED <<lastWritten, reported, raw, json, lost>>
         /\ UNCHANGED <<pc, base, frame>> \/ (pc # "json" /\ pc' # "json")
  BY DEF SnapshotNext, Compute, Request, Exchange, Lock, Copied, CudaFails, PipelineEnds, snapshotVars,
     fileVars, opVars
<1> QED BY <1>2, <1>3, <1>4, <1>5, <1>6, <1>7

(* A path LastWritten returned names two complete files of one frame       *)
(* whenever mutex_ is free, although later requests may rewrite them,      *)
(* unless the disk refused one of them.                                    *)
THEOREM ReportedFilesComplete == SnapshotSpec => []ReportedComplete
<1>1. SnapshotInit => LockCoversDump /\ RequestHasPath /\ OthersComplete
  <2>1. 0 \notin Bases
    BY SnapshotAssumption DEF Bases
  <2> QED BY <2>1 DEF SnapshotInit, LockCoversDump, RequestHasPath, OthersComplete, NoBase
<1>2. SnapshotTypeOK /\ LockCoversDump /\ RequestHasPath /\ [SnapshotNext]_snapshotVars => LockCoversDump' /\ RequestHasPath'
  BY DumpStateStays
<1>3. SnapshotTypeOK /\ LockCoversDump /\ RequestHasPath /\ OthersComplete /\ [SnapshotNext]_snapshotVars => OthersComplete'
  BY FilesStayComplete
<1>4. LockCoversDump /\ OthersComplete => ReportedComplete
  BY DEF LockCoversDump, OthersComplete, ReportedComplete
<1> QED BY <1>1, <1>2, <1>3, <1>4, SnapshotTypeCorrect, PTL DEF SnapshotSpec

(* No dump is written that nobody asked for, also when messages without a  *)
(* tensor and failing writes occur.                                        *)
THEOREM DumpsOnlyOnDemand == SnapshotSpec => []DumpsOnDemand
<1>1. SnapshotInit => DumpsOnDemand
  BY DEF SnapshotInit, DumpsOnDemand
<1>2. ASSUME SnapshotTypeOK, DumpsOnDemand, [SnapshotNext]_snapshotVars
      PROVE  DumpsOnDemand'
  <2>1. dumps \in Nat /\ requests \in Nat
    BY <1>2 DEF SnapshotTypeOK
  <2>2. CASE Exchange
    <3>1. /\ UNCHANGED <<requests, dumps>> /\ requested' = FALSE
          /\ pc = "idle" /\ pc' = IF requested THEN "exchanged" ELSE "idle"
      BY <2>2 DEF Exchange, fileVars, clientVars
    <3> QED BY <1>2, <2>1, <3>1 DEF DumpsOnDemand
  <2>3. ASSUME NEW c \in Clients, Request(c)
        PROVE  DumpsOnDemand'
    <3>1. requests' = requests + 1 /\ requested' = TRUE /\ UNCHANGED <<pc, dumps>>
      BY <2>3 DEF Request, fileVars, opVars
    <3> QED BY <1>2, <2>1, <3>1 DEF DumpsOnDemand
  <2>4. CASE WriteJson
    <3>1. dumps' = dumps + 1 /\ pc = "json" /\ pc' = "idle" /\ UNCHANGED <<requested, requests>>
      BY <2>4 DEF WriteJson, clientVars
    <3> QED BY <1>2, <2>1, <3>1 DEF DumpsOnDemand
  <2>5. CASE NoTensor \/ Lock \/ Copied \/ CudaFails \/ WriteRaw \/ PipelineEnds
    <3>1. /\ UNCHANGED <<requested, requests, dumps>>
          /\ pc' \in {"exchanged", "copying", "raw", "json"} => pc \in {"exchanged", "copying", "raw", "json"}
      BY <2>5 DEF NoTensor, Lock, Copied, CudaFails, WriteRaw, PipelineEnds, fileVars, clientVars
    <3> QED BY <1>2, <2>1, <3>1 DEF DumpsOnDemand
  <2>6. CASE LastWritten \/ UNCHANGED snapshotVars
    <3>1. UNCHANGED <<requested, requests, dumps, pc>>
      BY <2>6 DEF LastWritten, snapshotVars, fileVars, opVars, clientVars
    <3> QED BY <1>2, <3>1 DEF DumpsOnDemand
  <2> QED BY <1>2, <2>2, <2>3, <2>4, <2>5, <2>6 DEF SnapshotNext, Compute
<1> QED BY <1>1, <1>2, SnapshotTypeCorrect, PTL DEF SnapshotSpec
-----------------------------------------------------------------------------
(* IvfWriter and IvfReader.                                                *)

WrittenFrame == [size : Nat, pts : Nat, at : Nat]
ReadFrames == [pts : Nat, data : Seq(Nat)]

(* Where the file stands after the m-th frame that was written whole, and  *)
(* after all of them.                                                      *)
After(m) == IF m = 0 THEN HeaderSize
            ELSE written[m].at + FrameHeaderSize + written[m].size
WholeEnd == After(Len(written))

(* The writer never went on after a write that fell short.                 *)
InOrder == health \in {"good", "stopped"}

IvfTypes ==
  /\ FileTypeOK
  /\ frames <= calls
  /\ written \in Seq(WrittenFrame)
  /\ got \in Seq(ReadFrames)

(* The frames lie one behind the other, from the header on.                *)
FramesAbut ==
  InOrder => \A i \in 1..Len(written) :
    /\ written[i].at = After(i - 1)
    /\ HeaderSize <= written[i].at
    /\ After(i) <= WholeEnd

(* Of each, what the file still has is what was laid out: its size, then   *)
(* its pts again and again.                                                *)
FramesLaidOut ==
  InOrder => \A i \in 1..Len(written) : \A j \in 1..(written[i].size + FrameHeaderSize) :
    written[i].at + j <= Len(fields)
      => fields[written[i].at + j] = IF j = 1 THEN written[i].size ELSE written[i].pts

(* While no end was lost the file has all of them.  What follows is a part *)
(* of one frame: less than its size announces.                             *)
PartialEnd ==
  InOrder =>
    /\ writing \/ closed => WholeEnd <= Len(fields)
    /\ writing /\ health = "good" => Len(fields) = WholeEnd
    /\ \/ Len(fields) <= WholeEnd + 1
       \/ Len(fields) < WholeEnd + FrameHeaderSize + fields[WholeEnd + 1]

(* A file that was closed is finished: in the file, count and all.         *)
ClosedFile ==
  /\ closed => ~writing /\ flushed = Len(fields)
  /\ closed /\ InOrder => fields[CountField] = frames
  /\ found = "closed" => closed

(* The reader stands at the end of the frame it read last.                 *)
ReaderInStep ==
  found # "none" /\ InOrder =>
    /\ Len(got) <= Len(written)
    /\ pos = After(Len(got))
    /\ \A i \in 1..Len(got) : got[i] = AsRead(written[i])
    /\ found = "closed" /\ reading # "closed" => count = frames
    /\ found = "closed" /\ reading = "eof" => Len(got) = Len(written)

IvfInv == IvfTypes /\ FramesAbut /\ FramesLaidOut /\ PartialEnd /\ ClosedFile /\ ReaderInStep

LEMMA LayoutFacts ==
    ASSUME NEW f \in WrittenFrame
    PROVE  /\ Layout(f) \in Seq(Nat)
           /\ Len(Layout(f)) = f.size + FrameHeaderSize
           /\ \A j \in 1..(f.size + FrameHeaderSize) :
                Layout(f)[j] = IF j = 1 THEN f.size ELSE f.pts
<1> DEFINE head == <<f.size, f.pts>>
           body == [i \in 1..f.size |-> f.pts]
<1>1. f.size \in Nat /\ f.pts \in Nat
    BY DEF WrittenFrame
<1>2. head \in Seq(Nat) /\ Len(head) = 2 /\ head[1] = f.size /\ head[2] = f.pts
    <2>1. \A a, b \in Nat : <<a, b>> \in Seq(Nat)
        OBVIOUS
    <2> QED
        BY <1>1, <2>1
<1>3. /\ body \in Seq(Nat) /\ Len(body) = f.size
      /\ \A i \in 1..f.size : body[i] = f.pts
    BY <1>1
<1>4. Layout(f) = head \o body
    BY DEF Layout
<1> HIDE DEF head, body
<1> DEFINE glued == head \o body
<1>4a. /\ glued \in Seq(Nat)
      /\ Len(glued) = Len(head) + Len(body)
      /\ \A i \in 1..(Len(head) + Len(body)) :
           glued[i] = IF i <= Len(head) THEN head[i] ELSE body[i - Len(head)]
    BY <1>2, <1>3, ConcatProperties
<1>4b. Layout(f) = glued
    BY <1>4
<1>4c. Len(head) + Len(body) = f.size + 2
    BY <1>1, <1>2, <1>3
<1> HIDE DEF glued
<1>5. Layout(f) \in Seq(Nat) /\ Len(Layout(f)) = f.size + 2
    BY <1>4a, <1>4b, <1>4c
<1>6. \A i \in 1..(f.size + 2) : Layout(f)[i] = IF i <= 2 THEN head[i] ELSE body[i - 2]
    BY <1>2, <1>4a, <1>4b, <1>4c
<1>7. ASSUME NEW j \in 1..(f.size + 2)
      PROVE  Layout(f)[j] = IF j = 1 THEN f.size ELSE f.pts
    <2>1. CASE j <= 2
        BY <2>1, <1>1, <1>2, <1>6
    <2>2. CASE j > 2
        <3>1. j - 2 \in 1..f.size
            BY <2>2, <1>1
        <3> QED
            BY <2>2, <3>1, <1>1, <1>3, <1>6
    <2> QED
        BY <1>1, <2>1, <2>2
<1> QED
    BY <1>5, <1>7 DEF FrameHeaderSize

(* A cut leaves what it leaves unchanged.                                  *)
LEMMA CutFacts ==
    ASSUME NEW s \in Seq(Nat), NEW n \in 0..Len(s)
    PROVE  /\ SubSeq(s, 1, n) \in Seq(Nat)
           /\ Len(SubSeq(s, 1, n)) = n
           /\ \A i \in 1..n : SubSeq(s, 1, n)[i] = s[i]
           /\ n = Len(s) => SubSeq(s, 1, n) = s
<1>1. Len(s) \in Nat /\ n \in Int /\ 1 \in Int
    BY LenProperties
<1>2. \A i \in 1..n : s[i] \in Nat
    BY <1>1, ElementOfSeq
<1>3. /\ SubSeq(s, 1, n) \in Seq(Nat)
      /\ Len(SubSeq(s, 1, n)) = IF 1 <= n THEN n - 1 + 1 ELSE 0
      /\ \A i \in 1..(n - 1 + 1) : SubSeq(s, 1, n)[i] = s[1 + i - 1]
    BY <1>1, <1>2, SubSeqProperties
<1>4. Len(SubSeq(s, 1, n)) = n /\ \A i \in 1..n : SubSeq(s, 1, n)[i] = s[i]
    BY <1>1, <1>3
<1>5. n = Len(s) => SubSeq(s, 1, n) = s
    BY <1>3, <1>4, SeqEqual
<1> QED
    BY <1>3, <1>4, <1>5

(* A write appends all of its data or strictly less.                       *)
LEMMA AcceptedFacts ==
    ASSUME NEW data \in Seq(Nat), NEW d \in Accepted(data)
    PROVE  /\ d \in Seq(Nat)
           /\ \A i \in 1..Len(d) : d[i] = data[i]
           /\ d = data \/ Len(d) < Len(data)
<1>1. CASE d = data
    BY <1>1
<1>2. CASE d # data
    <2>1. PICK n \in 0..Len(data) : d = SubSeq(data, 1, n)
        BY <1>2 DEF Accepted
    <2> QED
        BY <1>2, <2>1, CutFacts
<1> QED
    BY <1>1, <1>2

LEMMA PatchedFacts ==
    ASSUME fields \in Seq(Nat), frames \in Nat
    PROVE  /\ Patched \in Seq(Nat)
           /\ CountField <= Len(fields) =>
                /\ Len(Patched) = Len(fields)
                /\ Patched[CountField] = frames
                /\ \A i \in 1..Len(fields) : i # CountField => Patched[i] = fields[i]
<1>1. Len(fields) \in Nat
    BY LenProperties
<1>2. CASE CountField <= Len(fields)
    <2>1. CountField \in 1..Len(fields)
        BY <1>1, <1>2 DEF CountField
    <2>2. Patched = [fields EXCEPT ![CountField] = frames]
        BY <1>2 DEF Patched
    <2> QED
        BY <1>2, <2>1, <2>2, ExceptSeq
<1>3. CASE ~(CountField <= Len(fields))
    <2> DEFINE hole == [i \in 1..(CountField - 1 - Len(fields)) |-> 0]
    <2>1. CountField - 1 - Len(fields) \in Nat
        BY <1>1, <1>3 DEF CountField
    <2>2. hole \in Seq(Nat)
        BY <2>1
    <2>3. <<frames>> \in Seq(Nat)
        OBVIOUS
    <2>4. Patched = fields \o hole \o <<frames>>
        BY <1>3 DEF Patched
    <2> HIDE DEF hole
    <2>5. fields \o hole \in Seq(Nat)
        BY <2>2, ConcatProperties
    <2> QED
        BY <1>3, <2>3, <2>4, <2>5, ConcatProperties
<1> QED
    BY <1>2, <1>3

LEMMA AfterIsNat ==
    ASSUME written \in Seq(WrittenFrame)
    PROVE  /\ \A m \in 0..Len(written) : After(m) \in Nat
           /\ WholeEnd \in Nat
<1>1. Len(written) \in Nat
    BY LenProperties
<1>2. ASSUME NEW m \in 0..Len(written)
      PROVE  After(m) \in Nat
    <2>1. CASE m = 0
        BY <2>1 DEF After, HeaderSize
    <2>2. CASE m # 0
        <3>1. m \in 1..Len(written)
            BY <1>1, <2>2
        <3>2. written[m] \in WrittenFrame
            BY <3>1, ElementOfSeq
        <3> QED
            BY <2>2, <3>2 DEF After, FrameHeaderSize, WrittenFrame
    <2> QED
        BY <2>1, <2>2
<1> QED
    BY <1>1, <1>2 DEF WholeEnd

(* The header comes before every end of frames.                            *)
LEMMA WholeEndBeyondHeader ==
    ASSUME IvfTypes, FramesAbut, InOrder
    PROVE  WholeEnd >= HeaderSize
<1>1. Len(written) \in Nat
    BY LenProperties DEF IvfTypes
<1>2. CASE Len(written) = 0
    BY <1>2 DEF WholeEnd, After, HeaderSize
<1>3. CASE Len(written) # 0
    <2>1. Len(written) \in 1..Len(written)
        BY <1>1, <1>3
    <2>2. written[Len(written)] \in WrittenFrame
        BY <2>1, ElementOfSeq DEF IvfTypes
    <2>3. written[Len(written)].at >= HeaderSize
        BY <2>1 DEF FramesAbut
    <2> QED
        BY <1>3, <2>2, <2>3 DEF WholeEnd, After, HeaderSize, FrameHeaderSize, WrittenFrame
<1> QED
    BY <1>2, <1>3

LEMMA IvfBegins ==
    IvfInit => IvfInv
<1> SUFFICES ASSUME IvfInit PROVE IvfInv
    OBVIOUS
<1> USE DEF IvfInit
<1>1. Len(written) = 0 /\ Len(got) = 0 /\ Len(fields) = 0
    BY EmptySeq
<1>2. IvfTypes
    <2>1. << >> \in Seq(Nat) /\ << >> \in Seq(WrittenFrame) /\ << >> \in Seq(ReadFrames)
        BY EmptySeq
    <2>2. 0 \in 0..MaxWrites /\ 0 \in 0..MaxOpens /\ 0 \in 0..0 /\ 0 <= 0 /\ 0 \in Nat
        BY IvfAssumption
    <2>3. FileTypeOK
        BY <1>1, <2>1, <2>2 DEF FileTypeOK
    <2> QED
        BY <2>1, <2>2, <2>3 DEF IvfTypes
<1>3. FramesAbut /\ FramesLaidOut
    BY <1>1 DEF FramesAbut, FramesLaidOut
<1>4. PartialEnd
    BY <1>1 DEF PartialEnd, WholeEnd, After, HeaderSize
<1> QED
    BY <1>2, <1>3, <1>4 DEF IvfInv, ClosedFile, ReaderInStep

(* A truncated file has no frames, and no reader that matters.             *)
LEMMA OpenPreserves ==
    ASSUME IvfInv, Open
    PROVE  IvfInv'
<1> USE DEF Open
<1>1. Header \in Seq(Nat) /\ Len(Header) = HeaderSize
    <2>1. \A a, b \in Nat : <<a, b>> \in Seq(Nat) /\ Len(<<a, b>>) = 2
        OBVIOUS
    <2> QED
        BY <2>1 DEF Header, Magic, HeaderSize
<1>2. fields' \in Seq(Nat) /\ Len(fields') \in Nat
    BY <1>1, AcceptedFacts, LenProperties
<1>3. written' = << >> /\ Len(written') = 0
    BY EmptySeq
<1>4. IvfTypes'
    <2>1. opens' \in 0..MaxOpens
        BY IvfAssumption DEF IvfInv, IvfTypes, FileTypeOK
    <2>2. 0 \in 0..MaxWrites /\ 0 \in 0..Len(fields') /\ 0 <= 0
        BY <1>2, IvfAssumption
    <2>3. FileTypeOK'
        BY <1>2, <1>3, <2>1, <2>2 DEF IvfInv, IvfTypes, FileTypeOK
    <2>4. written' \in Seq(WrittenFrame)
        BY <1>3, EmptySeq
    <2> QED
        BY <2>2, <2>3, <2>4 DEF IvfInv, IvfTypes
<1>5. FramesAbut' /\ FramesLaidOut'
    BY <1>3 DEF FramesAbut, FramesLaidOut
<1>6. PartialEnd'
    <2>1. InOrder' => fields' = Header
        BY DEF InOrder
    <2>2. WholeEnd' = HeaderSize
        BY <1>3 DEF WholeEnd, After
    <2>3. InOrder' => Len(fields') = WholeEnd' /\ WholeEnd' = 2
        BY <1>1, <2>1, <2>2 DEF HeaderSize
    <2>4. \A a, b \in Nat : a = b => b <= a /\ a <= b + 1
        OBVIOUS
    <2>5. InOrder' => WholeEnd' <= Len(fields') /\ Len(fields') <= WholeEnd' + 1
        BY <1>2, <2>3, <2>4, Zenon
    <2> QED
        BY <2>3, <2>5 DEF PartialEnd
<1> QED
    BY <1>4, <1>5, <1>6 DEF IvfInv, ClosedFile, ReaderInStep

(* A frame goes behind the frames that are whole, and behind it, if a      *)
(* write falls short, nothing that the reader could take for a frame.      *)
LEMMA WriteFramePreserves ==
    ASSUME IvfInv, NEW size \in Sizes, WriteFrame(size)
    PROVE  IvfInv'
<1> DEFINE f == Frame(size, calls + 1, Len(fields))
<1> USE DEF WriteFrame
<1>1. f \in WrittenFrame /\ f.size = size /\ f.at = Len(fields) /\ Len(fields) \in Nat
    BY IvfAssumption, LenProperties DEF Frame, WrittenFrame, IvfInv, IvfTypes, FileTypeOK
<1>2. PICK data \in Accepted(Layout(f)) :
        /\ fields' = fields \o data
        /\ IF data = Layout(f)
           THEN /\ frames' = frames + 1
                /\ written' = Append(written, f)
                /\ health' = Whole(health)
           ELSE /\ health' = Short(health)
                /\ UNCHANGED <<frames, written>>
    OBVIOUS
<1>3. UNCHANGED <<flushed, writing, opens, closed, reading, pos, count, got, found>> /\ writing
    BY DEF readerVars
<1>4. calls < MaxWrites /\ calls' = calls + 1
    OBVIOUS
<1> HIDE DEF f, WriteFrame
<1>5. /\ Layout(f) \in Seq(Nat) /\ Len(Layout(f)) = f.size + 2
      /\ \A j \in 1..(f.size + 2) : Layout(f)[j] = IF j = 1 THEN f.size ELSE f.pts
    BY <1>1, LayoutFacts DEF FrameHeaderSize
<1>6. /\ data \in Seq(Nat) /\ Len(data) \in Nat
      /\ \A i \in 1..Len(data) : data[i] = Layout(f)[i]
      /\ data = Layout(f) \/ Len(data) < Len(Layout(f))
    BY <1>5, AcceptedFacts, LenProperties
<1>7. fields \in Seq(Nat) /\ written \in Seq(WrittenFrame) /\ Len(written) = frames /\ frames \in Nat
    BY DEF IvfInv, IvfTypes, FileTypeOK
<1>8. /\ fields' \in Seq(Nat)
      /\ Len(fields') = Len(fields) + Len(data)
      /\ \A i \in 1..(Len(fields) + Len(data)) :
           fields'[i] = IF i <= Len(fields) THEN fields[i] ELSE data[i - Len(fields)]
    BY <1>2, <1>6, <1>7, ConcatProperties
<1>9. \A i \in 1..Len(fields) : fields'[i] = fields[i]
    BY <1>1, <1>6, <1>8
<1>10. \A j \in 1..Len(data) : fields'[Len(fields) + j] = IF j = 1 THEN f.size ELSE f.pts
    <2> SUFFICES ASSUME NEW j \in 1..Len(data)
                 PROVE  fields'[Len(fields) + j] = IF j = 1 THEN f.size ELSE f.pts
        OBVIOUS
    <2>1. fields'[Len(fields) + j] = data[j]
        <3> DEFINE k == Len(fields) + j
        <3>1. k \in 1..(Len(fields) + Len(data)) /\ ~(k <= Len(fields)) /\ k - Len(fields) = j
            BY <1>1, <1>6
        <3> HIDE DEF k
        <3>2. fields'[k] = data[k - Len(fields)]
            BY <1>8, <3>1
        <3> QED
            BY <3>1, <3>2 DEF k
    <2>2. j \in 1..(f.size + 2)
        BY <1>1, <1>5, <1>6
    <2> QED
        BY <2>1, <2>2, <1>5, <1>6
<1>11. CASE data = Layout(f)
    <2>1. frames' = frames + 1 /\ written' = Append(written, f) /\ health' = Whole(health)
        BY <1>2, <1>11
    <2>2. /\ written' \in Seq(WrittenFrame) /\ Len(written') = Len(written) + 1
          /\ \A i \in 1..Len(written) : written'[i] = written[i]
          /\ written'[Len(written) + 1] = f
        BY <2>1, <1>1, <1>7, AppendProperties
    <2>3. IvfTypes'
        <3>1. calls' \in 0..MaxWrites /\ frames <= calls
            BY <1>4, IvfAssumption DEF IvfInv, IvfTypes, FileTypeOK
        <3>2. frames' \in 0..MaxWrites /\ frames' <= calls'
            BY <3>1, <2>1, <1>4, <1>7, IvfAssumption DEF IvfInv, IvfTypes, FileTypeOK
        <3>3. health' \in {"good", "stopped", "mixed", "headless"}
            BY <2>1 DEF Whole, IvfInv, IvfTypes, FileTypeOK
        <3>4. flushed' \in 0..Len(fields')
            BY <1>1, <1>3, <1>6, <1>8 DEF IvfInv, IvfTypes, FileTypeOK
        <3>5. Len(written') = frames'
            BY <2>1, <2>2, <1>7
        <3> QED
            BY <3>1, <3>2, <3>3, <3>4, <3>5, <2>2, <1>3, <1>8 DEF IvfInv, IvfTypes, FileTypeOK
    <2>4. CASE InOrder'
        <3>1. health = "good" /\ InOrder
            BY <2>1, <2>4 DEF InOrder, Whole, IvfInv, IvfTypes, FileTypeOK
        <3>2. Len(fields) = WholeEnd
            BY <3>1, <1>3 DEF IvfInv, PartialEnd
        <3>3. \A m \in 0..Len(written) : After(m)' = After(m)
            <4> SUFFICES ASSUME NEW m \in 0..Len(written) PROVE After(m)' = After(m)
                OBVIOUS
            <4>1. m # 0 => m \in 1..Len(written)
                BY <1>7
            <4> QED
                BY <4>1, <2>2 DEF After
        <3>4. WholeEnd' = WholeEnd + 2 + f.size
            <4>1. Len(written') = Len(written) + 1 /\ Len(written) + 1 # 0
                BY <2>2, <1>7
            <4>2. WholeEnd' = f.at + 2 + f.size
                BY <4>1, <2>2 DEF WholeEnd, After, FrameHeaderSize
            <4> QED
                BY <4>2, <3>2, <1>1
        <3>5. After(Len(written)) = WholeEnd /\ WholeEnd \in Nat
            BY <1>7, AfterIsNat DEF WholeEnd
        <3>6. FramesAbut'
            <4> SUFFICES ASSUME NEW i \in 1..Len(written')
                         PROVE  /\ written'[i].at = After(i - 1)'
                                /\ HeaderSize <= written'[i].at
                                /\ After(i)' <= WholeEnd'
                BY DEF FramesAbut
            <4>1. CASE i \in 1..Len(written)
                <5>1. i \in 0..Len(written) /\ i - 1 \in 0..Len(written)
                    BY <4>1, <1>7
                <5>2. /\ written[i].at = After(i - 1) /\ HeaderSize <= written[i].at
                      /\ After(i) <= WholeEnd
                    BY <4>1, <3>1 DEF IvfInv, FramesAbut
                <5>3. After(i)' = After(i) /\ After(i - 1)' = After(i - 1) /\ After(i) \in Nat
                    BY <5>1, <3>3, <1>7, AfterIsNat
                <5>4. After(i) <= WholeEnd'
                    BY <5>2, <5>3, <3>4, <3>5, <1>1 DEF WrittenFrame
                <5> QED
                    BY <4>1, <5>2, <5>3, <5>4, <2>2
            <4>2. CASE i = Len(written) + 1
                <5>1. i - 1 = Len(written) /\ Len(written) \in 0..Len(written)
                    BY <4>2, <1>7
                <5>2. After(i - 1)' = WholeEnd
                    BY <5>1, <3>3, <3>5
                <5>3. written'[i].at = WholeEnd
                    BY <4>2, <2>2, <1>1, <3>2
                <5>4. HeaderSize <= WholeEnd
                    BY <3>1, WholeEndBeyondHeader DEF IvfInv
                <5>5. After(i)' = WholeEnd' /\ WholeEnd' \in Nat
                    BY <4>2, <2>2, <3>4, <3>5, <1>1 DEF WholeEnd, WrittenFrame
                <5> QED
                    BY <5>2, <5>3, <5>4, <5>5
            <4> QED
                BY <4>1, <4>2, <2>2, <1>7
        <3>7. FramesLaidOut'
            <4> SUFFICES ASSUME NEW i \in 1..Len(written'),
                                NEW j \in 1..(written'[i].size + 2)
                         PROVE  fields'[written'[i].at + j]
                                  = IF j = 1 THEN written'[i].size ELSE written'[i].pts
                BY DEF FramesLaidOut, FrameHeaderSize
            <4>1. CASE i \in 1..Len(written)
                <5>1. written'[i] = written[i] /\ written[i] \in WrittenFrame
                    BY <4>1, <2>2, <1>7, ElementOfSeq
                <5>2. written[i].at + 2 + written[i].size <= Len(fields)
                    <6>1. i # 0 /\ After(i) <= WholeEnd
                        BY <4>1, <3>1 DEF IvfInv, FramesAbut
                    <6> QED
                        BY <6>1, <3>2 DEF After, FrameHeaderSize
                <5>3. written[i].at + j \in 1..Len(fields)
                    <6>1. written[i].at \in Nat /\ written[i].size \in Nat
                        BY <5>1 DEF WrittenFrame
                    <6>2. j \in 1..(written[i].size + 2)
                        BY <5>1
                    <6> QED
                        BY <5>2, <6>1, <6>2, <1>1, SMTT(30)
                <5>4. fields[written[i].at + j] = IF j = 1 THEN written[i].size ELSE written[i].pts
                    BY <4>1, <5>1, <5>3, <3>1 DEF IvfInv, FramesLaidOut, FrameHeaderSize
                <5> QED
                    BY <5>1, <5>3, <5>4, <1>9
            <4>2. CASE i = Len(written) + 1
                <5>1. written'[i] = f /\ f.at = Len(fields)
                    BY <4>2, <2>2, <1>1
                <5>2. j \in 1..Len(data)
                    BY <5>1, <1>5, <1>11
                <5> QED
                    BY <5>1, <5>2, <1>10
            <4> QED
                BY <4>1, <4>2, <2>2, <1>7
        <3>8. PartialEnd'
            <4>1. f.size \in Nat
                BY <1>1 DEF WrittenFrame
            <4>2. Len(data) = f.size + 2
                BY <1>5, <1>11
            <4>3. Len(fields') = WholeEnd' /\ WholeEnd' \in Nat
                BY <4>1, <4>2, <3>2, <3>4, <3>5, <1>8
            <4>4. WholeEnd' <= Len(fields') /\ Len(fields') <= WholeEnd' + 1
                <5>1. Len(fields') \in Nat
                    BY <1>8, LenProperties
                <5>2. \A a, b \in Nat : a = b => b <= a /\ a <= b + 1
                    OBVIOUS
                <5> QED
                    BY <4>3, <5>1, <5>2, Zenon
            <4> QED
                BY <4>3, <4>4 DEF PartialEnd
        <3>9. ClosedFile'
            BY <1>3 DEF IvfInv, ClosedFile
        <3>10. ReaderInStep'
            <4> SUFFICES ASSUME found # "none"
                         PROVE  /\ Len(got) <= Len(written')
                                /\ pos = After(Len(got))'
                                /\ \A i \in 1..Len(got) : got[i] = AsRead(written'[i])
                                /\ found # "closed"
                BY <1>3 DEF ReaderInStep
            <4>1. Len(got) \in 0..Len(written)
                BY <3>1, <1>7, LenProperties DEF IvfInv, IvfTypes, ReaderInStep
            <4>2. pos = After(Len(got)) /\ \A i \in 1..Len(got) : got[i] = AsRead(written[i])
                BY <3>1 DEF IvfInv, ReaderInStep
            <4>3. After(Len(got))' = After(Len(got))
                BY <4>1, <3>3, <1>3 DEF After
            <4>4. \A i \in 1..Len(got) : written'[i] = written[i]
                BY <4>1, <2>2, <1>7
            <4> QED
                BY <4>1, <4>2, <4>3, <4>4, <1>3, <1>7, <2>2 DEF IvfInv, ClosedFile
        <3> QED
            BY <2>3, <3>6, <3>7, <3>8, <3>9, <3>10 DEF IvfInv
    <2>5. CASE ~InOrder'
        BY <2>3, <2>5, <1>3
           DEF IvfInv, FramesAbut, FramesLaidOut, PartialEnd, ClosedFile, ReaderInStep
    <2> QED
        BY <2>4, <2>5
<1>12. CASE data # Layout(f)
    <2>1. health' = Short(health) /\ frames' = frames /\ written' = written
        BY <1>2, <1>12
    <2>2. IvfTypes'
        <3>1. calls' \in 0..MaxWrites /\ frames <= calls'
            BY <1>4, <1>7, IvfAssumption DEF IvfInv, IvfTypes, FileTypeOK
        <3>2. health' \in {"good", "stopped", "mixed", "headless"}
            BY <2>1 DEF Short, IvfInv, IvfTypes, FileTypeOK
        <3>3. flushed' \in 0..Len(fields')
            BY <1>1, <1>3, <1>6, <1>8 DEF IvfInv, IvfTypes, FileTypeOK
        <3> QED
            BY <3>1, <3>2, <3>3, <2>1, <1>3, <1>8 DEF IvfInv, IvfTypes, FileTypeOK
    <2>3. CASE InOrder'
        <3>1. health = "good" /\ InOrder /\ health' = "stopped"
            BY <2>1, <2>3 DEF InOrder, Short, IvfInv, IvfTypes, FileTypeOK
        <3>2. Len(fields) = WholeEnd /\ WholeEnd' = WholeEnd /\ \A m : After(m)' = After(m)
            BY <3>1, <2>1, <1>3 DEF IvfInv, PartialEnd, WholeEnd, After
        <3>3. FramesAbut'
            BY <3>1, <3>2, <2>1 DEF IvfInv, FramesAbut
        <3>4. FramesLaidOut'
            <4> SUFFICES ASSUME NEW i \in 1..Len(written),
                                NEW j \in 1..(written[i].size + 2)
                         PROVE  fields'[written[i].at + j]
                                  = IF j = 1 THEN written[i].size ELSE written[i].pts
                BY <2>1 DEF FramesLaidOut, FrameHeaderSize
            <4>1. written[i] \in WrittenFrame
                BY <1>7, ElementOfSeq
            <4>2. written[i].at + 2 + written[i].size <= Len(fields)
                <5>1. i # 0 /\ After(i) <= WholeEnd
                    BY <3>1 DEF IvfInv, FramesAbut
                <5> QED
                    BY <5>1, <3>2 DEF After, FrameHeaderSize
            <4>3. written[i].at + j \in 1..Len(fields)
                BY <4>1, <4>2, <1>1 DEF WrittenFrame
            <4> QED
                BY <4>3, <3>1, <1>9 DEF IvfInv, FramesLaidOut, FrameHeaderSize
        <3>5. PartialEnd'
            <4>1. Len(data) < f.size + 2
                BY <1>5, <1>6, <1>12
            <4>2. Len(data) > 1 => fields'[WholeEnd + 1] = f.size
                BY <1>6, <1>10, <3>2
            <4>3. f.size \in Nat
                BY <1>1 DEF WrittenFrame
            <4>4. WholeEnd' = Len(fields) /\ Len(fields') = Len(fields) + Len(data)
                BY <3>2, <1>8
            <4>5. WholeEnd' <= Len(fields')
                BY <4>4, <1>1, <1>6
            <4>6. CASE Len(data) > 1
                <5>1. Len(fields') < WholeEnd' + 2 + fields'[WholeEnd' + 1]
                    BY <4>1, <4>2, <4>3, <4>4, <4>6, <3>2, <1>1, <1>6
                <5> QED
                    BY <4>5, <5>1, <3>1 DEF PartialEnd, FrameHeaderSize
            <4>7. CASE ~(Len(data) > 1)
                <5>1. Len(fields') <= WholeEnd' + 1
                    BY <4>4, <4>7, <1>1, <1>6
                <5> QED
                    BY <4>5, <5>1, <3>1 DEF PartialEnd
            <4> QED
                BY <4>6, <4>7
        <3>6. ClosedFile'
            BY <1>3 DEF IvfInv, ClosedFile
        <3>7. ReaderInStep'
            BY <3>1, <3>2, <2>1, <1>3 DEF IvfInv, ClosedFile, ReaderInStep
        <3> QED
            BY <2>2, <3>3, <3>4, <3>5, <3>6, <3>7 DEF IvfInv
    <2>4. CASE ~InOrder'
        BY <2>2, <2>4, <1>3
           DEF IvfInv, FramesAbut, FramesLaidOut, PartialEnd, ClosedFile, ReaderInStep
    <2> QED
        BY <2>3, <2>4
<1> QED
    BY <1>11, <1>12

(* What an end that is lost takes with it was not of the frames before it. *)
LEMMA CutPreserves ==
    ASSUME IvfInv, ~writing', closed' = FALSE,
           NEW n \in 0..Len(fields), fields' = SubSeq(fields, 1, n),
           UNCHANGED <<written, health>>
    PROVE  /\ fields' \in Seq(Nat) /\ Len(fields') = n
           /\ FramesAbut' /\ FramesLaidOut' /\ PartialEnd'
<1>1. fields \in Seq(Nat) /\ Len(fields) \in Nat
    BY LenProperties DEF IvfInv, IvfTypes, FileTypeOK
<1>2. /\ fields' \in Seq(Nat) /\ Len(fields') = n
      /\ \A i \in 1..n : fields'[i] = fields[i]
    BY <1>1, CutFacts
<1>3. FramesAbut'
    BY DEF IvfInv, FramesAbut, After, WholeEnd, InOrder
<1>4. FramesLaidOut'
    <2> SUFFICES ASSUME InOrder, NEW i \in 1..Len(written),
                        NEW j \in 1..(written[i].size + FrameHeaderSize),
                        written[i].at + j <= n
                 PROVE  fields'[written[i].at + j]
                          = IF j = 1 THEN written[i].size ELSE written[i].pts
        BY <1>2 DEF FramesLaidOut, InOrder
    <2>1. written[i] \in WrittenFrame
        BY ElementOfSeq DEF IvfInv, IvfTypes
    <2>2. written[i].at \in Nat /\ written[i].size \in Nat
        BY <2>1 DEF WrittenFrame
    <2>3. written[i].at + j \in 1..n /\ written[i].at + j <= Len(fields)
        BY <1>1, <2>2 DEF FrameHeaderSize
    <2> QED
        BY <2>3, <1>2 DEF IvfInv, FramesLaidOut
<1>5. PartialEnd'
    <2> SUFFICES ASSUME InOrder
                 PROVE  \/ n <= WholeEnd + 1
                        \/ n < WholeEnd + FrameHeaderSize + fields'[WholeEnd + 1]
        BY <1>2 DEF PartialEnd, InOrder, WholeEnd, After
    <2>1. WholeEnd \in Nat
        BY AfterIsNat DEF IvfInv, IvfTypes
    <2>2. CASE n > WholeEnd + 1
        <3>1. Len(fields) > WholeEnd + 1 /\ WholeEnd + 1 \in 1..n
            BY <1>1, <2>1, <2>2
        <3>2. Len(fields) < WholeEnd + FrameHeaderSize + fields[WholeEnd + 1]
            BY <1>1, <2>1, <3>1 DEF IvfInv, PartialEnd
        <3>3. fields'[WholeEnd + 1] = fields[WholeEnd + 1] /\ fields[WholeEnd + 1] \in Nat
            <4>1. WholeEnd + 1 \in 1..Len(fields)
                BY <3>1, <2>1, <1>1
            <4> QED
                BY <1>1, <1>2, <3>1, <4>1, ElementOfSeq
        <3> QED
            BY <1>1, <2>1, <3>2, <3>3 DEF FrameHeaderSize
    <2> QED
        BY <2>1, <2>2
<1> QED
    BY <1>2, <1>3, <1>4, <1>5

LEMMA CrashPreserves ==
    ASSUME IvfInv, Crash
    PROVE  IvfInv'
<1> USE DEF Crash, readerVars
<1>1. flushed \in 0..Len(fields) /\ closed' = FALSE /\ ~writing'
    BY DEF IvfInv, IvfTypes, FileTypeOK, ClosedFile
<1>2. /\ fields' \in Seq(Nat) /\ Len(fields') = flushed
      /\ FramesAbut' /\ FramesLaidOut' /\ PartialEnd'
    BY <1>1, CutPreserves
<1>3. IvfTypes'
    <2>1. flushed' \in 0..Len(fields')
        BY <1>1, <1>2
    <2> QED
        BY <1>2, <2>1 DEF IvfInv, IvfTypes, FileTypeOK
<1>4. ClosedFile'
    BY <1>1 DEF IvfInv, ClosedFile
<1>5. ReaderInStep'
    BY DEF IvfInv, ReaderInStep, InOrder, After
<1> QED
    BY <1>2, <1>3, <1>4, <1>5 DEF IvfInv

(* The count lies in the header, before every frame.                       *)
LEMMA ClosePreserves ==
    ASSUME IvfInv, Close
    PROVE  IvfInv'
<1>1. writing /\ writing' = FALSE /\ UNCHANGED <<frames, written, calls, health, opens, readerVars>>
    BY DEF Close
<1>2. /\ fields \in Seq(Nat) /\ Len(fields) \in Nat
      /\ flushed \in 0..Len(fields) /\ frames \in Nat
    BY LenProperties DEF IvfInv, IvfTypes, FileTypeOK
<1>3. CASE fields' = Patched /\ flushed' = Len(fields') /\ closed' = TRUE
    <2>1. /\ fields' \in Seq(Nat)
          /\ CountField <= Len(fields) =>
               /\ Len(fields') = Len(fields)
               /\ fields'[CountField] = frames
               /\ \A i \in 1..Len(fields) : i # CountField => fields'[i] = fields[i]
        BY <1>2, <1>3, PatchedFacts
    <2>2. IvfTypes'
        <3>1. flushed' \in 0..Len(fields')
            <4>1. Len(fields') \in Nat
                BY <2>1, LenProperties
            <4> QED
                BY <4>1, <1>3
        <3> QED
            BY <3>1, <1>1, <1>3, <2>1 DEF IvfInv, IvfTypes, FileTypeOK, readerVars
    <2>3. CASE InOrder
        <3>1. WholeEnd \in Nat /\ WholeEnd >= HeaderSize /\ WholeEnd <= Len(fields)
            BY <1>1, <2>3, AfterIsNat, WholeEndBeyondHeader DEF IvfInv, IvfTypes, PartialEnd
        <3>2. /\ Len(fields') = Len(fields)
              /\ fields'[CountField] = frames
              /\ \A i \in 1..Len(fields) : i > 2 => fields'[i] = fields[i]
            BY <1>2, <2>1, <3>1 DEF CountField, HeaderSize
        <3>3. FramesAbut'
            BY <1>1 DEF IvfInv, FramesAbut, After, WholeEnd, InOrder
        <3>4. FramesLaidOut'
            <4> SUFFICES ASSUME NEW i \in 1..Len(written),
                                NEW j \in 1..(written[i].size + FrameHeaderSize),
                                written[i].at + j <= Len(fields)
                         PROVE  fields'[written[i].at + j]
                                  = IF j = 1 THEN written[i].size ELSE written[i].pts
                BY <1>1, <3>2 DEF FramesLaidOut
            <4>1. written[i] \in WrittenFrame
                BY ElementOfSeq DEF IvfInv, IvfTypes
            <4>2. written[i].at \in Nat /\ written[i].size \in Nat
                BY <4>1 DEF WrittenFrame
            <4>3. written[i].at >= 2
                BY <2>3 DEF IvfInv, FramesAbut, HeaderSize
            <4>4. written[i].at + j \in 1..Len(fields) /\ written[i].at + j > 2
                BY <1>2, <4>2, <4>3 DEF FrameHeaderSize
            <4> QED
                BY <4>4, <2>3, <3>2 DEF IvfInv, FramesLaidOut
        <3>5. PartialEnd'
            <4>1. WholeEnd' = WholeEnd
                BY <1>1 DEF WholeEnd, After
            <4>2. WholeEnd + 1 \in 1..Len(fields) => fields'[WholeEnd + 1] = fields[WholeEnd + 1]
                BY <3>1, <3>2 DEF HeaderSize
            <4>3. WholeEnd + 1 \in 1..Len(fields) \/ Len(fields) <= WholeEnd + 1
                BY <3>1, <1>2
            <4> QED
                BY <1>1, <2>3, <3>1, <3>2, <4>1, <4>2, <4>3 DEF IvfInv, PartialEnd
        <3>6. ClosedFile'
            BY <1>1, <1>3, <3>2 DEF ClosedFile
        <3>7. ReaderInStep'
            <4>1. found = "closed" => closed
                BY DEF IvfInv, ClosedFile
            <4>2. found # "closed"
                BY <4>1, <1>1 DEF IvfInv, ClosedFile
            <4> QED
                BY <4>2, <1>1, <2>3 DEF IvfInv, ReaderInStep, After, readerVars
        <3> QED
            BY <2>2, <3>3, <3>4, <3>5, <3>6, <3>7 DEF IvfInv
    <2>4. CASE ~InOrder
        <3>1. ~InOrder'
            BY <1>1, <2>4 DEF InOrder
        <3> QED
            BY <2>2, <3>1, <1>1, <1>3
               DEF IvfInv, FramesAbut, FramesLaidOut, PartialEnd, ClosedFile, ReaderInStep, readerVars
    <2> QED
        BY <2>3, <2>4
<1>4. CASE /\ Faults
           /\ \E n \in flushed..Len(fields) : fields' = SubSeq(fields, 1, n)
           /\ flushed' = Len(fields')
           /\ closed' = FALSE
    <2>1. PICK n \in flushed..Len(fields) : fields' = SubSeq(fields, 1, n)
        BY <1>4
    <2>2. n \in 0..Len(fields)
        BY <1>2
    <2>3. /\ fields' \in Seq(Nat) /\ Len(fields') = n
          /\ FramesAbut' /\ FramesLaidOut' /\ PartialEnd'
        BY <1>1, <1>4, <2>1, <2>2, CutPreserves
    <2>4. IvfTypes'
        <3>1. flushed' \in 0..Len(fields')
            BY <1>4, <2>2, <2>3
        <3> QED
            BY <3>1, <1>1, <1>4, <2>3 DEF IvfInv, IvfTypes, FileTypeOK, readerVars
    <2>5. found # "closed"
        <3>1. found = "closed" => closed
            BY DEF IvfInv, ClosedFile
        <3> QED
            BY <3>1, <1>1 DEF IvfInv, ClosedFile
    <2>6. ClosedFile'
        BY <2>5, <1>1, <1>4 DEF ClosedFile, readerVars
    <2>7. ReaderInStep'
        BY <2>5, <1>1 DEF IvfInv, ReaderInStep, After, InOrder, readerVars
    <2> QED
        BY <2>3, <2>4, <2>6, <2>7 DEF IvfInv
<1> QED
    BY <1>3, <1>4 DEF Close

LEMMA FlushPreserves ==
    ASSUME IvfInv, Flush
    PROVE  IvfInv'
<1> USE DEF Flush, readerVars
<1>1. IvfTypes'
    <2>1. flushed \in Nat /\ Len(fields) \in Nat
        BY LenProperties DEF IvfInv, IvfTypes, FileTypeOK
    <2>2. flushed' \in 0..Len(fields)
        BY <2>1
    <2> QED
        BY <2>2 DEF IvfInv, IvfTypes, FileTypeOK
<1>2. FramesAbut' /\ FramesLaidOut' /\ PartialEnd'
    BY DEF IvfInv, FramesAbut, FramesLaidOut, PartialEnd, After, WholeEnd, InOrder
<1>3. ClosedFile' /\ ReaderInStep'
    BY DEF IvfInv, ClosedFile, ReaderInStep, After, InOrder
<1> QED
    BY <1>1, <1>2, <1>3 DEF IvfInv

(* The reader leaves the writer's part as it is.                           *)
LEMMA WriterUntouched ==
    ASSUME IvfInv, UNCHANGED writerVars
    PROVE  FramesAbut' /\ FramesLaidOut' /\ PartialEnd'
    BY DEF IvfInv, FramesAbut, FramesLaidOut, PartialEnd, After, WholeEnd, InOrder, writerVars

LEMMA ReaderOpenPreserves ==
    ASSUME IvfInv, ReaderOpen
    PROVE  IvfInv'
<1> USE DEF ReaderOpen, writerVars
<1>1. got' = << >> /\ Len(got') = 0 /\ got' \in Seq(ReadFrames)
    BY EmptySeq
<1>2. fields \in Seq(Nat) /\ Len(fields) \in Nat /\ flushed \in 0..Len(fields)
    BY LenProperties DEF IvfInv, IvfTypes, FileTypeOK
<1>3. reading' = "open" => count' = fields[CountField] /\ CountField \in 1..Len(fields)
    BY <1>2 DEF HeaderSize, CountField
<1>4. IvfTypes'
    <2>1. count' \in Nat
        <3>1. CASE reading' = "open"
            BY <3>1, <1>2, <1>3, ElementOfSeq
        <3>2. CASE reading' # "open"
            BY <3>2 DEF IvfInv, IvfTypes, FileTypeOK
        <3> QED
            BY <3>1, <3>2
    <2>2. reading' \in {"closed", "open", "eof"} /\ pos' \in Nat /\ found' \in {"none", "growing", "closed"}
        BY DEF HeaderSize
    <2> QED
        BY <2>1, <2>2, <1>1 DEF IvfInv, IvfTypes, FileTypeOK
<1>5. ClosedFile'
    BY DEF IvfInv, ClosedFile, InOrder
<1>6. ReaderInStep'
    <2> SUFFICES ASSUME InOrder
                 PROVE  /\ Len(got') <= Len(written)
                        /\ pos' = After(Len(got'))
                        /\ \A i \in 1..Len(got') : got'[i] = AsRead(written[i])
                        /\ found' = "closed" /\ reading' # "closed" => count' = frames
                        /\ reading' # "eof"
        BY DEF ReaderInStep, InOrder, After
    <2>1. Len(written) \in Nat /\ 0 <= Len(written)
        BY LenProperties DEF IvfInv, IvfTypes
    <2>2. pos' = After(Len(got'))
        BY <1>1 DEF After
    <2>3. found' = "closed" /\ reading' # "closed" => count' = frames
        BY <1>3 DEF IvfInv, ClosedFile
    <2> QED
        BY <1>1, <2>1, <2>2, <2>3
<1> QED
    BY <1>4, <1>5, <1>6, WriterUntouched DEF IvfInv

LEMMA InFileFacts ==
    ASSUME IvfTypes
    PROVE  /\ flushed \in Nat /\ Len(fields) \in Nat /\ flushed <= Len(fields)
           /\ \A i \in 1..flushed : InFile[i] = fields[i] /\ InFile[i] \in Nat
<1>1. fields \in Seq(Nat) /\ Len(fields) \in Nat /\ flushed \in 0..Len(fields)
    BY LenProperties DEF IvfTypes, FileTypeOK
<1>2. \A i \in 1..flushed : InFile[i] = fields[i]
    BY <1>1, CutFacts DEF InFile
<1>3. \A i \in 1..flushed : fields[i] \in Nat
    <2>1. \A i \in 1..flushed : i \in 1..Len(fields)
        BY <1>1
    <2> QED
        BY <1>1, <2>1, ElementOfSeq
<1> QED
    BY <1>1, <1>2, <1>3

(* While frames are left, the reader stands before the next of them.       *)
LEMMA NextFrame ==
    ASSUME IvfInv, InOrder, found # "none", Len(got) # Len(written),
           NEW w, w = written[Len(got) + 1]
    PROVE  /\ Len(got) + 1 \in 1..Len(written)
           /\ w \in WrittenFrame
           /\ pos = w.at
           /\ pos + 2 + w.size <= WholeEnd
           /\ \A j \in 1..(w.size + 2) : pos + j <= Len(fields) =>
                fields[pos + j] = IF j = 1 THEN w.size ELSE w.pts
<1>1. Len(got) \in Nat /\ Len(written) \in Nat
    BY LenProperties DEF IvfInv, IvfTypes
<1>2. Len(got) <= Len(written) /\ pos = After(Len(got))
    BY DEF IvfInv, ReaderInStep
<1> DEFINE m == Len(got)
           i == m + 1
<1>3. i \in 1..Len(written) /\ i # 0 /\ i - 1 = m
    BY <1>1, <1>2
<1> HIDE DEF i, m
<1>4. w = written[i] /\ pos = After(m)
    BY <1>2 DEF i, m
<1>5. w \in WrittenFrame
    BY <1>3, <1>4, ElementOfSeq DEF IvfInv, IvfTypes
<1>6. w.at = After(m) /\ After(i) <= WholeEnd
    BY <1>3, <1>4 DEF IvfInv, FramesAbut
<1>7. After(i) = w.at + 2 + w.size
    BY <1>3, <1>4 DEF After, FrameHeaderSize
<1>8. \A j \in 1..(w.size + 2) : w.at + j <= Len(fields) =>
        fields[w.at + j] = IF j = 1 THEN w.size ELSE w.pts
    BY <1>3, <1>4 DEF IvfInv, FramesLaidOut, FrameHeaderSize
<1>9. Len(got) + 1 \in 1..Len(written)
    BY <1>3 DEF i, m
<1> QED
    BY <1>4, <1>5, <1>6, <1>7, <1>8, <1>9

(* A read of a finished file falls short behind the last frame only.       *)
LEMMA ShortReadPreserves ==
    ASSUME IvfInv, UNCHANGED <<writerVars, pos, got, count, found>>, reading' = "eof",
           reading = "open",
           \/ pos + 2 > flushed
           \/ /\ pos + 2 <= flushed
              /\ pos + 2 + InFile[pos + 1] > flushed
    PROVE  IvfInv'
<1> USE DEF writerVars
<1>1. IvfTypes' /\ ClosedFile'
    BY DEF IvfInv, IvfTypes, FileTypeOK, ClosedFile, InOrder
<1>2. ASSUME found = "closed", InOrder
      PROVE  Len(got) = Len(written)
    <2> DEFINE w == written[Len(got) + 1]
    <2> SUFFICES ASSUME Len(got) # Len(written) PROVE FALSE
        OBVIOUS
    <2>1. /\ w \in WrittenFrame /\ pos = w.at /\ pos + 2 + w.size <= WholeEnd
          /\ \A j \in 1..(w.size + 2) : pos + j <= Len(fields) =>
                fields[pos + j] = IF j = 1 THEN w.size ELSE w.pts
        BY <1>2, NextFrame
    <2> HIDE DEF w
    <2>2. w.size \in Nat /\ pos \in Nat /\ WholeEnd \in Nat
        BY <2>1, AfterIsNat DEF WrittenFrame, IvfInv, IvfTypes, FileTypeOK
    <2>3. flushed = Len(fields) /\ WholeEnd <= Len(fields) /\ flushed \in Nat
        BY <1>2, InFileFacts DEF IvfInv, ClosedFile, PartialEnd
    <2>4. pos + 2 + w.size <= flushed /\ pos + 1 \in 1..flushed /\ pos + 2 <= flushed
        BY <2>1, <2>2, <2>3
    <2>5. InFile[pos + 1] = w.size
        <3>1. InFile[pos + 1] = fields[pos + 1]
            BY <2>4, InFileFacts DEF IvfInv
        <3>2. 1 \in 1..(w.size + 2) /\ pos + 1 <= Len(fields)
            BY <2>2, <2>3, <2>4
        <3> QED
            BY <2>1, <3>1, <3>2
    <2> QED
        BY <2>2, <2>3, <2>4, <2>5
<1>3. ReaderInStep'
    BY <1>2 DEF IvfInv, ReaderInStep, After, InOrder
<1> QED
    BY <1>1, <1>3, WriterUntouched DEF IvfInv

(* A read that is not short obtains the next frame, the whole of it: a     *)
(* part of a frame is never long enough.                                   *)
LEMMA WholeReadPreserves ==
    ASSUME IvfInv, UNCHANGED <<writerVars, reading, count, found>>, reading = "open",
           pos + 2 <= flushed,
           NEW size, size = InFile[pos + 1],
           pos + 2 + size <= flushed,
           pos' = pos + 2 + size,
           got' = Append(got, [pts |-> InFile[pos + 2], data |-> Payload(pos + 2, size)])
    PROVE  IvfInv'
<1> USE DEF writerVars
<1> DEFINE data == Payload(pos + 2, size)
           rec == [pts |-> InFile[pos + 2], data |-> data]
<1>1. /\ flushed \in Nat /\ Len(fields) \in Nat /\ flushed <= Len(fields)
      /\ \A i \in 1..flushed : InFile[i] = fields[i] /\ InFile[i] \in Nat
    BY InFileFacts DEF IvfInv
<1>2. pos \in Nat /\ size \in Nat /\ InFile[pos + 2] \in Nat
    <2>1. pos \in Nat
        BY DEF IvfInv, IvfTypes, FileTypeOK
    <2>2. pos + 1 \in 1..flushed /\ pos + 2 \in 1..flushed
        BY <1>1, <2>1
    <2> QED
        BY <1>1, <2>1, <2>2
<1>3. /\ data \in Seq(Nat) /\ Len(data) = size
      /\ \A i \in 1..size : data[i] = fields[pos + 2 + i]
    <2> DEFINE a == pos + 2 + 1
               b == pos + 2 + size
    <2>1. a \in Int /\ b \in Int /\ b - a + 1 = size /\ (IF a <= b THEN b - a + 1 ELSE 0) = size
        BY <1>2
    <2>2. \A i \in a..b : i \in 1..flushed
        BY <1>1, <1>2
    <2>3. \A i \in a..b : InFile[i] \in Nat
        BY <1>1, <2>2
    <2>4. \A i \in 1..size : a + i - 1 = pos + 2 + i /\ pos + 2 + i \in a..b
        BY <1>2
    <2> HIDE DEF a, b
    <2>5. /\ SubSeq(InFile, a, b) \in Seq(Nat)
          /\ Len(SubSeq(InFile, a, b)) = IF a <= b THEN b - a + 1 ELSE 0
          /\ \A i \in 1..(b - a + 1) : SubSeq(InFile, a, b)[i] = InFile[a + i - 1]
        BY <2>1, <2>3, SubSeqProperties
    <2>6. data = SubSeq(InFile, a, b)
        BY DEF Payload, a, b
    <2>7. \A i \in 1..size : InFile[pos + 2 + i] = fields[pos + 2 + i]
        BY <1>1, <2>2, <2>4
    <2> QED
        BY <2>1, <2>4, <2>5, <2>6, <2>7
<1>4. got \in Seq(ReadFrames) /\ Len(got) \in Nat
    BY LenProperties DEF IvfInv, IvfTypes
<1>5. rec \in ReadFrames
    BY <1>2, <1>3 DEF ReadFrames
<1>6. got' = Append(got, rec)
    OBVIOUS
<1> HIDE DEF rec
<1>7. /\ got' \in Seq(ReadFrames) /\ Len(got') = Len(got) + 1
      /\ \A i \in 1..Len(got) : got'[i] = got[i]
      /\ got'[Len(got) + 1] = rec
    BY <1>4, <1>5, <1>6, AppendProperties
<1>8. pos' \in Nat
    BY <1>2
<1>9. IvfTypes' /\ ClosedFile'
    BY <1>7, <1>8 DEF IvfInv, IvfTypes, FileTypeOK, ClosedFile, InOrder
<1>10. ASSUME found # "none", InOrder
       PROVE  /\ Len(got') <= Len(written)
              /\ pos' = After(Len(got'))
              /\ \A i \in 1..Len(got') : got'[i] = AsRead(written[i])
              /\ found = "closed" => count = frames
    <2>1. Len(got) # Len(written)
        <3> SUFFICES ASSUME Len(got) = Len(written) PROVE FALSE
            OBVIOUS
        <3>1. pos = WholeEnd
            BY <1>10 DEF IvfInv, ReaderInStep, WholeEnd
        <3>2. Len(fields) <= pos + 1 \/ Len(fields) < pos + 2 + fields[pos + 1]
            BY <1>10, <3>1 DEF IvfInv, PartialEnd, FrameHeaderSize
        <3>3. fields[pos + 1] = size
            <4>1. pos + 1 \in 1..flushed
                BY <1>1, <1>2
            <4> QED
                BY <4>1, <1>1
        <3> QED
            BY <3>2, <3>3, <1>1, <1>2
    <2> DEFINE w == written[Len(got) + 1]
    <2>2. /\ Len(got) + 1 \in 1..Len(written)
          /\ w \in WrittenFrame /\ pos = w.at
          /\ \A j \in 1..(w.size + 2) : pos + j <= Len(fields) =>
                fields[pos + j] = IF j = 1 THEN w.size ELSE w.pts
        BY <1>10, <2>1, NextFrame
    <2> HIDE DEF w
    <2>3. w.size \in Nat /\ w.pts \in Nat
        BY <2>2 DEF WrittenFrame
    <2>4. /\ \A j \in 1..2 : pos + j <= Len(fields) /\ j \in 1..(w.size + 2)
          /\ pos + 1 \in 1..flushed /\ pos + 2 \in 1..flushed
        BY <1>1, <1>2, <2>3
    <2>5. size = w.size /\ InFile[pos + 2] = w.pts
        <3>1. fields[pos + 1] = w.size /\ fields[pos + 2] = w.pts
            BY <2>2, <2>4
        <3> QED
            BY <3>1, <2>4, <1>1
    <2>6. data = [i \in 1..w.size |-> w.pts]
        <3> DEFINE body == [i \in 1..w.size |-> w.pts]
        <3>1. body \in Seq(Nat) /\ Len(body) = w.size /\ \A i \in 1..w.size : body[i] = w.pts
            BY <2>3
        <3>2. ASSUME NEW i \in 1..size PROVE data[i] = w.pts
            <4>1. pos + 2 + i = pos + (2 + i) /\ 2 + i \in 1..(w.size + 2) /\ 2 + i # 1
                BY <1>2, <2>5
            <4>2. pos + (2 + i) <= Len(fields)
                BY <1>1, <1>2
            <4>3. fields[pos + (2 + i)] = w.pts
                BY <2>2, <4>1, <4>2
            <4>4. data[i] = fields[pos + 2 + i]
                BY <1>3
            <4> QED
                BY <4>1, <4>3, <4>4
        <3> HIDE DEF body, data
        <3>3. data = body
            BY <3>1, <3>2, <1>3, <2>5, SeqEqual
        <3> QED
            BY <3>3 DEF body
    <2>7. rec = AsRead(w)
        BY <2>5, <2>6 DEF rec, AsRead
    <2>8. pos' = After(Len(got'))
        <3>1. Len(got) + 1 # 0
            BY <1>4
        <3> QED
            BY <3>1, <1>7, <2>2, <2>5 DEF After, FrameHeaderSize, w
    <2>9. \A i \in 1..Len(got') : got'[i] = AsRead(written[i])
        <3>1. \A i \in 1..Len(got) : got[i] = AsRead(written[i])
            BY <1>10 DEF IvfInv, ReaderInStep
        <3>2. \A i \in 1..(Len(got) + 1) : i \in 1..Len(got) \/ i = Len(got) + 1
            BY <1>4
        <3> QED
            BY <3>1, <3>2, <1>7, <2>7 DEF w
    <2>10. found = "closed" => count = frames
        BY <1>10 DEF IvfInv, ReaderInStep
    <2>11. Len(got') <= Len(written)
        BY <1>4, <1>7, <2>2
    <2> QED
        BY <2>8, <2>9, <2>10, <2>11
<1>11. ReaderInStep'
    BY <1>10 DEF ReaderInStep, After, InOrder
<1> QED
    BY <1>9, <1>11, WriterUntouched DEF IvfInv

LEMMA ReadFramePreserves ==
    ASSUME IvfInv, ReadFrame
    PROVE  IvfInv'
<1> USE DEF ReadFrame, FrameHeaderSize
<1>1. pos \in Nat /\ flushed \in Nat
    BY InFileFacts DEF IvfInv, IvfTypes, FileTypeOK
<1> DEFINE size == InFile[pos + 1]
<1>2. CASE pos + 2 > flushed
    BY <1>2, ShortReadPreserves
<1>3. CASE pos + 2 <= flushed /\ pos + 2 + size > flushed
    <2>1. ~(pos + 2 > flushed)
        BY <1>1, <1>3
    <2> QED
        BY <1>3, <2>1, ShortReadPreserves
<1>4. CASE pos + 2 <= flushed /\ ~(pos + 2 + size > flushed)
    <2>1. ~(pos + 2 > flushed) /\ pos + 1 \in 1..flushed
        BY <1>1, <1>4
    <2>2. size \in Nat
        BY <2>1, InFileFacts DEF IvfInv
    <2>3. pos + 2 + size <= flushed
        BY <1>1, <1>4, <2>2
    <2>4. /\ pos' = pos + 2 + size /\ UNCHANGED reading
          /\ got' = Append(got, [pts |-> InFile[pos + 2], data |-> Payload(pos + 2, size)])
        BY <1>4, <2>1
    <2> QED
        BY <1>4, <2>3, <2>4, WholeReadPreserves
<1> QED
    BY <1>1, <1>2, <1>3, <1>4

LEMMA ReaderClosePreserves ==
    ASSUME IvfInv, ReaderClose
    PROVE  IvfInv'
<1> USE DEF ReaderClose, writerVars
<1>1. IvfTypes' /\ ClosedFile' /\ ReaderInStep'
    BY DEF IvfInv, IvfTypes, FileTypeOK, ClosedFile, ReaderInStep, After, InOrder
<1> QED
    BY <1>1, WriterUntouched DEF IvfInv

LEMMA IvfStep ==
    IvfInv /\ [IvfNext]_ivfVars => IvfInv'
<1> SUFFICES ASSUME IvfInv, [IvfNext]_ivfVars PROVE IvfInv'
    OBVIOUS
<1>1. CASE UNCHANGED ivfVars
    <2> USE <1>1 DEF ivfVars, writerVars, readerVars
    <2>1. IvfTypes' /\ ClosedFile' /\ ReaderInStep'
        BY DEF IvfInv, IvfTypes, FileTypeOK, ClosedFile, ReaderInStep, After, InOrder
    <2> QED
        BY <2>1, WriterUntouched DEF IvfInv
<1>2. CASE IvfNext
    BY <1>2, OpenPreserves, WriteFramePreserves, FlushPreserves, ClosePreserves, CrashPreserves,
       ReaderOpenPreserves, ReadFramePreserves, ReaderClosePreserves DEF IvfNext
<1> QED
    BY <1>1, <1>2

LEMMA FramesFacts ==
    ASSUME IvfTypes
    PROVE  /\ Frames \in Seq(ReadFrames) /\ Len(Frames) = Len(written)
           /\ \A i \in 1..Len(written) : Frames[i] = AsRead(written[i])
<1>1. Len(written) \in Nat /\ DOMAIN written = 1..Len(written)
    BY LenProperties DEF IvfTypes
<1>2. ASSUME NEW i \in 1..Len(written) PROVE AsRead(written[i]) \in ReadFrames
    <2> DEFINE w == written[i]
               body == [k \in 1..w.size |-> w.pts]
    <2>1. w \in WrittenFrame
        BY ElementOfSeq DEF IvfTypes
    <2>2. w.size \in Nat /\ w.pts \in Nat
        BY <2>1 DEF WrittenFrame
    <2>3. body \in Seq(Nat)
        BY <2>2
    <2>4. AsRead(w) = [pts |-> w.pts, data |-> body]
        BY DEF AsRead
    <2> HIDE DEF w, body
    <2>5. AsRead(w) \in ReadFrames
        BY <2>2, <2>3, <2>4 DEF ReadFrames
    <2> QED
        BY <2>5 DEF w
<1>3. Frames = [i \in 1..Len(written) |-> AsRead(written[i])]
    BY <1>1 DEF Frames
<1> QED
    BY <1>1, <1>2, <1>3

(* The shape of the file, and where in it the reader is, however writer    *)
(* and reader take turns, and wherever a write falls short.                *)
THEOREM FileShape ==
    IvfSpec => []IvfInv
    BY IvfBegins, IvfStep, PTL DEF IvfSpec

(* A reader of a file whose writer stopped at its first failed call, was   *)
(* killed, or goes on obtains a prefix of the frames written (ivf.cc:      *)
(* WriteFrame, ReadFrame).                                                 *)
THEOREM PrefixIsRead ==
    IvfSpec => []ReadsPrefix
<1>1. ASSUME IvfInv PROVE ReadsPrefix
    <2> SUFFICES ASSUME found # "none", InOrder PROVE IsPrefix(got, Frames)
        BY DEF ReadsPrefix, InOrder
    <2>1. /\ got \in Seq(ReadFrames) /\ Len(got) \in Nat
          /\ written \in Seq(WrittenFrame) /\ Len(written) \in Nat
        BY <1>1, LenProperties DEF IvfInv, IvfTypes
    <2>2. Len(got) <= Len(written) /\ \A i \in 1..Len(got) : got[i] = AsRead(written[i])
        BY <1>1 DEF IvfInv, ReaderInStep
    <2>3. /\ Frames \in Seq(ReadFrames) /\ Len(Frames) = Len(written)
          /\ \A i \in 1..Len(written) : Frames[i] = AsRead(written[i])
        BY <1>1, FramesFacts DEF IvfInv
    <2>4. \A i \in 1..Len(got) : got[i] \in ReadFrames /\ Frames[i] \in ReadFrames /\ i \in 1..Len(written)
        <3>1. \A i \in 1..Len(got) : i \in 1..Len(Frames)
            BY <2>1, <2>2, <2>3
        <3> QED
            BY <2>1, <2>3, <3>1, ElementOfSeq
    <2> DEFINE a == SubSeq(got, 1, Len(got))
               b == SubSeq(Frames, 1, Len(got))
               n == Len(got)
    <2>5. n \in Int /\ 1 \in Int /\ n - 1 + 1 = n /\ (\A i \in 1..n : 1 + i - 1 = i)
        BY <2>1
    <2>6. /\ a \in Seq(ReadFrames) /\ Len(a) = IF 1 <= n THEN n - 1 + 1 ELSE 0
          /\ \A i \in 1..(n - 1 + 1) : a[i] = got[1 + i - 1]
        BY <2>4, <2>5, SubSeqProperties
    <2>7. /\ b \in Seq(ReadFrames) /\ Len(b) = IF 1 <= n THEN n - 1 + 1 ELSE 0
          /\ \A i \in 1..(n - 1 + 1) : b[i] = Frames[1 + i - 1]
        BY <2>4, <2>5, SubSeqProperties
    <2> HIDE DEF a, b
    <2>8. Len(a) = n /\ Len(b) = n /\ \A i \in 1..n : a[i] = got[i] /\ b[i] = Frames[i]
        BY <2>1, <2>5, <2>6, <2>7
    <2>9. \A i \in 1..Len(a) : a[i] = b[i]
        BY <2>2, <2>3, <2>4, <2>8
    <2>10. a = b
        BY <2>6, <2>7, <2>8, <2>9, SeqEqual
    <2> QED
        BY <2>2, <2>3, <2>10 DEF IsPrefix, a, b
<1> QED
    BY <1>1, FileShape, PTL

(* After a Close that returned true the count in the header is the number  *)
(* of frames a reader obtains, and it obtains all (ivf.cc: Close).         *)
THEOREM CountIsTrue ==
    IvfSpec => []CountIsFrames
<1>1. ASSUME IvfInv PROVE CountIsFrames
    <2> SUFFICES ASSUME found = "closed", InOrder, reading = "eof"
                 PROVE  count = Len(got) /\ got = Frames
        BY DEF CountIsFrames, InOrder
    <2>1. /\ got \in Seq(ReadFrames) /\ written \in Seq(WrittenFrame)
          /\ Len(got) \in Nat /\ Len(written) = frames
        BY <1>1, LenProperties DEF IvfInv, IvfTypes, FileTypeOK
    <2>2. /\ Len(got) = Len(written) /\ count = frames
          /\ \A i \in 1..Len(got) : got[i] = AsRead(written[i])
        BY <1>1 DEF IvfInv, ReaderInStep
    <2>3. /\ Frames \in Seq(ReadFrames) /\ Len(Frames) = Len(written)
          /\ \A i \in 1..Len(written) : Frames[i] = AsRead(written[i])
        BY <1>1, FramesFacts DEF IvfInv
    <2>4. Len(got) = Len(Frames) /\ \A i \in 1..Len(got) : got[i] = Frames[i]
        BY <2>2, <2>3
    <2>5. got = Frames
        BY <2>1, <2>3, <2>4, SeqEqual
    <2> QED
        BY <2>1, <2>2, <2>5
<1> QED
    BY <1>1, FileShape, PTL

-----------------------------------------------------------------------------
(* NvencSession, for every ring size, every set of frames and every       *)
(* number of pictures, with and without failing driver calls.              *)

(* next_bitstream = (next_bitstream + 1) % bitstreams.size() without %.    *)
LEMMA NextInRingValue ==
  ASSUME NEW b \in Bitstreams
  PROVE  /\ NextInRing(b) \in Bitstreams
         /\ NextInRing(b) = IF b = Buffers - 1 THEN 0 ELSE b + 1
<1>1. b \in Nat /\ Buffers \in Nat \ {0} /\ b <= Buffers - 1
  BY NvencAssumption DEF Bitstreams
<1>2. CASE b = Buffers - 1
  BY <1>1, <1>2, Buffers % Buffers = 0 DEF NextInRing, Bitstreams
<1>3. CASE b # Buffers - 1
  BY <1>1, <1>3 DEF NextInRing, Bitstreams
<1> QED BY <1>2, <1>3

(* As long as the ring is not full, the place Encode takes next is not one *)
(* of the pending ones, and the pending ones differ from each other.       *)
LEMMA RingPlaces ==
  ASSUME SessionTypeOK, RingSegment
  PROVE  /\ \A i, j \in DOMAIN pending : i # j => pending[i].bitstream # pending[j].bitstream
         /\ ~RingFull => \A i \in DOMAIN pending : pending[i].bitstream # nextBitstream
<1>1. /\ Buffers \in Nat \ {0} /\ nextBitstream \in Nat /\ nextBitstream <= Buffers - 1
      /\ Len(pending) \in Nat /\ Len(pending) <= Buffers /\ DOMAIN pending = 1..Len(pending)
  BY NvencAssumption DEF SessionTypeOK, Bitstreams, Pending
<1>2. ASSUME NEW i \in DOMAIN pending, NEW j \in DOMAIN pending, i # j
      PROVE  pending[i].bitstream # pending[j].bitstream
  BY <1>1, <1>2 DEF RingSegment, Behind
<1>3. ASSUME ~RingFull, NEW i \in DOMAIN pending
      PROVE  pending[i].bitstream # nextBitstream
  BY <1>1, <1>3 DEF RingSegment, Behind, RingFull
<1> QED BY <1>2, <1>3

(* What the invariant says of `pending` survives when entries leave at the *)
(* front and nothing is written into the ring.                             *)
LEMMA PopKeepsInvariant ==
  ASSUME SessionInv, pending # << >>, Pop,
         UNCHANGED <<nextBitstream, holds, pictures>>,
         delivered' \in {delivered, Oldest.picture}
  PROVE  /\ pending' \in Seq(Pending) /\ Len(pending') <= Buffers
         /\ RingSegment' /\ PendingInOrder' /\ HoldsItsPicture'
<1>1. /\ pending \in Seq(Pending) /\ Len(pending) \in Nat \ {0} /\ Len(pending) <= Buffers
      /\ pictures \in Nat /\ delivered \in Nat /\ nextBitstream \in Nat /\ Buffers \in Nat
      /\ DOMAIN pending = 1..Len(pending)
  BY NvencAssumption DEF SessionInv, SessionTypeOK, Bitstreams
<1>2. /\ pending' \in Seq(Pending) /\ Len(pending') = Len(pending) - 1
      /\ DOMAIN pending' = 1..(Len(pending) - 1)
      /\ \A i \in DOMAIN pending' : i + 1 \in DOMAIN pending /\ pending'[i] = pending[i + 1]
      /\ 1 \in DOMAIN pending /\ Oldest = pending[1]
  BY <1>1 DEF Pop, Oldest
<1>3. RingSegment'
  <2> SUFFICES ASSUME NEW i \in DOMAIN pending'
               PROVE  pending'[i].bitstream = (Behind(Len(pending) + 1 - i))'
    BY DEF RingSegment
  <2>1. pending[i + 1].bitstream = Behind(Len(pending) + 1 - (i + 1))
    BY <1>2 DEF SessionInv, RingSegment
  <2> QED BY <1>1, <1>2, <2>1 DEF Behind
<1>4. PendingInOrder'
  <2>1. /\ \A i \in DOMAIN pending : delivered < pending[i].picture /\ pending[i].picture <= pictures
        /\ \A i, j \in DOMAIN pending : i < j => pending[i].picture < pending[j].picture
    BY DEF SessionInv, PendingInOrder
  <2>2. \A i \in DOMAIN pending : pending[i].picture \in Nat
    <3> SUFFICES ASSUME NEW i \in DOMAIN pending PROVE pending[i].picture \in Nat
      OBVIOUS
    <3>1. pending[i] \in Pending
      BY <1>1
    <3> QED BY <3>1 DEF Pending
  <2>3. delivered' \in Nat /\ delivered' <= pending[1].picture /\ delivered' <= pictures'
    BY <1>1, <1>2, <2>1, <2>2
  <2>4. ASSUME NEW i \in DOMAIN pending'
        PROVE  delivered' < pending'[i].picture /\ pending'[i].picture <= pictures'
    <3>1. i + 1 \in DOMAIN pending /\ pending'[i] = pending[i + 1] /\ 1 \in DOMAIN pending /\ 1 < i + 1
      BY <1>2
    <3>2. pending[1].picture < pending[i + 1].picture /\ pending[i + 1].picture <= pictures
      BY <3>1, <2>1
    <3> QED BY <3>1, <3>2, <2>3, <2>2
  <2>5. ASSUME NEW i \in DOMAIN pending', NEW j \in DOMAIN pending', i < j
        PROVE  pending'[i].picture < pending'[j].picture
    <3>1. /\ i + 1 \in DOMAIN pending /\ pending'[i] = pending[i + 1]
          /\ j + 1 \in DOMAIN pending /\ pending'[j] = pending[j + 1]
      BY <1>2
    <3>2. i + 1 < j + 1
      BY <1>2, <2>5
    <3> QED BY <3>1, <3>2, <2>1
  <2> QED BY <2>3, <2>4, <2>5 DEF PendingInOrder
<1>5. HoldsItsPicture'
  BY <1>1, <1>2 DEF SessionInv, HoldsItsPicture
<1> QED BY <1>1, <1>2, <1>3, <1>4, <1>5

(* A session as its constructor leaves it satisfies the inductive          *)
(* invariant: nothing is pending, nothing is held.                         *)
THEOREM InitEstablishes == SessionInit => SessionInv
  BY NvencAssumption DEF SessionInit, SessionInv, SessionTypeOK, RingSegment, PendingInOrder, HoldsItsPicture,
     Bitstreams, Pending

(* Encode keeps the invariant: the entry it appends takes the place next   *)
(* in the ring, which no pending entry names.                              *)
LEMMA EncodeKeepsInvariant ==
  ASSUME SessionInv, NEW f \in DeviceBuffers, Encode(f)
  PROVE  SessionInv'
<1>1. /\ pending \in Seq(Pending) /\ Len(pending) \in Nat /\ Len(pending) < Buffers
      /\ Buffers \in Nat \ {0} /\ nextBitstream \in Bitstreams
      /\ nextBitstream \in Nat /\ nextBitstream <= Buffers - 1
      /\ pictures \in Nat /\ delivered \in Nat /\ DOMAIN pending = 1..Len(pending)
      /\ holds \in [Bitstreams -> Nat]
  BY NvencAssumption DEF SessionInv, SessionTypeOK, Bitstreams, Encode, RingFull
<1>2. PICK status \in Statuses :
        /\ holds' = [holds EXCEPT ![nextBitstream] = IF status = "error" THEN 0 ELSE pictures']
        /\ pending' = Append(pending, [picture |-> pictures', bitstream |-> nextBitstream])
        /\ doing' = IF status = "success" THEN "draining" ELSE "idle"
        /\ failed' = (failed \/ status = "error")
  BY DEF Encode
<1>3. /\ pictures' = pictures + 1 /\ nextBitstream' = NextInRing(nextBitstream)
      /\ mapped' = mapped \cup {<<pictures', f>>}
      /\ UNCHANGED <<registered, delivered, packets>>
  BY DEF Encode
<1>4. /\ nextBitstream' \in Bitstreams
      /\ nextBitstream' = IF nextBitstream = Buffers - 1 THEN 0 ELSE nextBitstream + 1
  BY <1>1, <1>3, NextInRingValue
<1>5. /\ [picture |-> pictures', bitstream |-> nextBitstream] \in Pending
      /\ pending' \in Seq(Pending) /\ Len(pending') = Len(pending) + 1
      /\ DOMAIN pending' = 1..(Len(pending) + 1)
      /\ \A i \in DOMAIN pending : pending'[i] = pending[i]
      /\ pending'[Len(pending) + 1] = [picture |-> pictures', bitstream |-> nextBitstream]
  BY <1>1, <1>2, <1>3 DEF Pending
<1>6. SessionTypeOK'
  <2>1. doing' \in {"idle", "draining", "destroyed"} /\ failed' \in BOOLEAN
    BY <1>2 DEF SessionInv, SessionTypeOK
  <2>2. holds' \in [Bitstreams -> Nat]
    BY <1>1, <1>2, <1>3
  <2>3. mapped' \subseteq (Nat \ {0}) \X DeviceBuffers
    BY <1>1, <1>3 DEF SessionInv, SessionTypeOK
  <2> QED BY <1>1, <1>3, <1>4, <1>5, <2>1, <2>2, <2>3 DEF SessionInv, SessionTypeOK
<1>7. RingSegment'
  <2> SUFFICES ASSUME NEW i \in DOMAIN pending'
               PROVE  pending'[i].bitstream = (Behind(Len(pending) + 1 - i))'
    BY DEF RingSegment
  <2>1. CASE i = Len(pending) + 1
    BY <1>1, <1>4, <1>5, <2>1 DEF Behind
  <2>2. CASE i \in DOMAIN pending
    <3>1. pending[i].bitstream = Behind(Len(pending) + 1 - i)
      BY <2>2 DEF SessionInv, RingSegment
    <3>2. PICK d \in Nat : d = Len(pending) + 1 - i /\ 1 <= d /\ d < Buffers
      BY <1>1, <2>2
    <3>3. Behind(d) = (Behind(d + 1))'
      <4>1. CASE nextBitstream = Buffers - 1
        BY <1>1, <1>4, <3>2, <4>1 DEF Behind
      <4>2. CASE nextBitstream # Buffers - 1
        <5>1. nextBitstream' = nextBitstream + 1
          BY <1>4, <4>2
        <5> QED BY <1>1, <3>2, <5>1 DEF Behind
      <4> QED BY <4>1, <4>2
    <3>4. Len(pending') + 1 - i = d + 1
      BY <1>1, <1>5, <2>2, <3>2
    <3> QED BY <1>5, <2>2, <3>1, <3>2, <3>3, <3>4 DEF Behind
  <2> QED BY <1>1, <1>5, <2>1, <2>2
<1>8. PendingInOrder'
  <2>1. /\ delivered <= pictures
        /\ \A i \in DOMAIN pending : delivered < pending[i].picture /\ pending[i].picture <= pictures
        /\ \A i, j \in DOMAIN pending : i < j => pending[i].picture < pending[j].picture
    BY DEF SessionInv, PendingInOrder
  <2>2. \A i \in DOMAIN pending : pending[i].picture \in Nat
    <3> SUFFICES ASSUME NEW i \in DOMAIN pending PROVE pending[i].picture \in Nat
      OBVIOUS
    <3>1. pending[i] \in Pending
      BY <1>1
    <3> QED BY <3>1 DEF Pending
  <2>3. ASSUME NEW i \in DOMAIN pending'
        PROVE  delivered' < pending'[i].picture /\ pending'[i].picture <= pictures'
    <3>1. CASE i = Len(pending) + 1
      BY <1>1, <1>3, <1>5, <2>1, <3>1
    <3>2. CASE i \in DOMAIN pending
      BY <1>1, <1>3, <1>5, <2>1, <2>2, <3>2
    <3> QED BY <1>1, <1>5, <3>1, <3>2
  <2>4. ASSUME NEW i \in DOMAIN pending', NEW j \in DOMAIN pending', i < j
        PROVE  pending'[i].picture < pending'[j].picture
    <3>1. i \in DOMAIN pending
      BY <1>1, <1>5, <2>4
    <3>2. CASE j = Len(pending) + 1
      BY <1>1, <1>3, <1>5, <2>1, <2>2, <3>1, <3>2
    <3>3. CASE j \in DOMAIN pending
      BY <1>5, <2>1, <2>4, <3>1, <3>3
    <3> QED BY <1>1, <1>5, <3>2, <3>3
  <2> QED BY <1>1, <1>3, <2>1, <2>3, <2>4 DEF PendingInOrder
<1>9. HoldsItsPicture'
  <2>1. \A i \in DOMAIN pending :
          /\ pending[i].bitstream # nextBitstream
          /\ pending[i].bitstream \in Bitstreams
          /\ holds[pending[i].bitstream] \in {0, pending[i].picture}
    <3>1. \A i \in DOMAIN pending : pending[i].bitstream # nextBitstream
      BY RingPlaces DEF SessionInv, Encode
    <3>2. ASSUME NEW i \in DOMAIN pending PROVE pending[i].bitstream \in Bitstreams
      <4>1. pending[i] \in Pending
        BY <1>1
      <4> QED BY <4>1 DEF Pending
    <3> QED BY <3>1, <3>2 DEF SessionInv, HoldsItsPicture
  <2> SUFFICES ASSUME NEW i \in DOMAIN pending'
               PROVE  holds'[pending'[i].bitstream] \in {0, pending'[i].picture}
    BY DEF HoldsItsPicture
  <2>2. CASE i = Len(pending) + 1
    BY <1>1, <1>2, <1>5, <2>2
  <2>3. CASE i \in DOMAIN pending
    BY <1>1, <1>2, <1>5, <2>1, <2>3
  <2> QED BY <1>1, <1>5, <2>2, <2>3
<1> QED BY <1>6, <1>7, <1>8, <1>9 DEF SessionInv

(* The three turns of Drain that take an entry away keep the invariant.    *)
LEMMA DrainKeepsInvariant ==
  ASSUME SessionInv, DrainOne \/ LockFails \/ ReleaseFails
  PROVE  SessionInv'
<1>1. /\ pending # << >> /\ Pop
      /\ UNCHANGED <<registered, nextBitstream, holds, pictures>>
      /\ doing' \in {doing, "idle"} /\ failed' \in {failed, TRUE} /\ mapped' \subseteq mapped
  BY DEF DrainOne, LockFails, ReleaseFails
<1>2. /\ delivered' \in {delivered, Oldest.picture}
      /\ packets' \in {packets, packets + 1}
  <2>1. /\ pending \in Seq(Pending) /\ 1 \in DOMAIN pending /\ Oldest = pending[1]
        /\ pending[1] \in Pending
    BY <1>1 DEF SessionInv, SessionTypeOK, Oldest
  <2>2. HasPicture => holds[Oldest.bitstream] = Oldest.picture
    BY <2>1 DEF SessionInv, HoldsItsPicture, HasPicture
  <2> QED BY <2>2 DEF DrainOne, LockFails, ReleaseFails
<1>3. /\ pending' \in Seq(Pending) /\ Len(pending') <= Buffers
      /\ RingSegment' /\ PendingInOrder' /\ HoldsItsPicture'
  BY <1>1, <1>2, PopKeepsInvariant
<1>4. Oldest.picture \in Nat
  <2>1. pending \in Seq(Pending) /\ Oldest = pending[1] /\ pending[1] \in Pending
    BY <1>1 DEF SessionInv, SessionTypeOK, Oldest
  <2> QED BY <2>1 DEF Pending
<1>5. /\ doing' \in {"idle", "draining", "destroyed"} /\ failed' \in BOOLEAN
      /\ delivered' \in Nat /\ packets' \in Nat
      /\ mapped' \subseteq (Nat \ {0}) \X DeviceBuffers
  <2>1. /\ doing \in {"idle", "draining", "destroyed"} /\ failed \in BOOLEAN
        /\ delivered \in Nat /\ packets \in Nat /\ mapped \subseteq (Nat \ {0}) \X DeviceBuffers
    BY DEF SessionInv, SessionTypeOK
  <2>2. doing' \in {"idle", "draining", "destroyed"} /\ failed' \in BOOLEAN
    BY <1>1, <2>1
  <2>3. delivered' \in Nat /\ packets' \in Nat
    BY <1>2, <1>4, <2>1
  <2>4. mapped' \subseteq (Nat \ {0}) \X DeviceBuffers
    BY <1>1, <2>1
  <2> QED BY <2>2, <2>3, <2>4
<1>6. SessionTypeOK'
  BY <1>1, <1>3, <1>5 DEF SessionInv, SessionTypeOK
<1> QED BY <1>3, <1>6 DEF SessionInv

(* SessionInv is inductive: one step per action.                               *)
THEOREM NextKeepsInvariant ==
  ASSUME SessionInv, [SessionNext]_sessionVars
  PROVE  SessionInv'
<1>1. ASSUME NEW f \in DeviceBuffers, Register(f) \/ Unregister(f)
      PROVE  SessionInv'
  BY <1>1 DEF Register, Unregister, SessionInv, SessionTypeOK, RingSegment, Behind,
     PendingInOrder, HoldsItsPicture
<1>2. ASSUME NEW f \in DeviceBuffers, Encode(f)
      PROVE  SessionInv'
  BY <1>2, EncodeKeepsInvariant
<1>3. CASE FlushSession \/ CallFails \/ DrainEnd
  BY <1>3 DEF FlushSession, CallFails, DrainEnd, SessionInv, SessionTypeOK, RingSegment, Behind, PendingInOrder,
     HoldsItsPicture
<1>4. CASE DrainOne \/ LockFails \/ ReleaseFails
  BY <1>4, DrainKeepsInvariant
<1>5. CASE Destroy
  <2>1. pending' = << >> /\ mapped' \subseteq mapped
    BY <1>5 DEF Destroy
  <2> QED BY <1>5, <2>1, NvencAssumption DEF Destroy, SessionInv, SessionTypeOK, RingSegment, PendingInOrder,
          HoldsItsPicture, Pending
<1>6. CASE UNCHANGED sessionVars
  BY <1>6 DEF sessionVars, SessionInv, SessionTypeOK, RingSegment, Behind, PendingInOrder, HoldsItsPicture
<1> QED BY <1>1, <1>2, <1>3, <1>4, <1>5, <1>6 DEF SessionNext

(* The inductive invariant holds throughout a session, whichever calls of  *)
(* the driver fail.                                                        *)
THEOREM SessionInvariant == SessionSpec => []SessionInv
<1>1. SessionInit => SessionInv
  BY InitEstablishes
<1>2. SessionInv /\ [SessionNext]_sessionVars => SessionInv'
  BY NextKeepsInvariant
<1> QED BY <1>1, <1>2, PTL DEF SessionSpec

(* Every variable keeps its type; the ring never holds more entries than   *)
(* it has bitstreams.                                                      *)
THEOREM SessionTypeCorrect == SessionSpec => []SessionTypeOK
<1>1. SessionInv => SessionTypeOK
  BY DEF SessionInv
<1> QED BY <1>1, SessionInvariant, PTL

(* A bitstream is never reused before it was read, for every ring size,    *)
(* whichever driver calls fail and however often the caller goes on.       *)
THEOREM BitstreamsNotOverwritten == SessionSpec => []NotOverwritten
<1>1. SessionInv => NotOverwritten
  BY RingPlaces DEF SessionInv, NotOverwritten, HoldsItsPicture
<1> QED BY <1>1, SessionInvariant, PTL

(* Packets come out in the order of their pictures, none of them twice.    *)
THEOREM PacketsStayInOrder == SessionSpec => PacketsInOrder
<1>1. ASSUME SessionInv, [SessionNext]_sessionVars, packets' # packets
      PROVE  delivered' > delivered
  <2>1. DrainOne \/ ReleaseFails
    BY <1>1 DEF SessionNext, sessionVars, Register, Unregister, Encode, FlushSession, CallFails,
       LockFails, DrainEnd, Destroy
  <2>2. /\ pending # << >> /\ HasPicture /\ delivered' = holds[Oldest.bitstream]
    BY <2>1 DEF DrainOne, ReleaseFails
  <2>3. 1 \in DOMAIN pending /\ Oldest = pending[1]
    BY <1>1, <2>2 DEF SessionInv, SessionTypeOK, Oldest
  <2>4. delivered' = pending[1].picture /\ delivered < pending[1].picture
    BY <1>1, <2>2, <2>3 DEF SessionInv, HoldsItsPicture, PendingInOrder, HasPicture
  <2> QED BY <2>4
<1>2. SessionInv /\ [SessionNext]_sessionVars => [packets' # packets => delivered' > delivered]_sessionVars
  BY <1>1
<1> QED BY <1>2, SessionInvariant, PTL DEF SessionSpec, PacketsInOrder

(* What Drain takes away is the oldest entry, and the pictures left are    *)
(* the others: no two entries have the same picture.                       *)
LEMMA PopTakesOnePicture ==
  ASSUME SessionInv, pending # << >>, Pop
  PROVE  /\ {pending'[i].picture : i \in DOMAIN pending'}
              = {pending[i].picture : i \in DOMAIN pending} \ {Oldest.picture}
         /\ Len(pending') = Len(pending) - 1 /\ Len(pending) \in Nat \ {0}
<1>1. /\ pending \in Seq(Pending) /\ Len(pending) \in Nat \ {0} /\ DOMAIN pending = 1..Len(pending)
  BY DEF SessionInv, SessionTypeOK
<1>2. /\ Len(pending') = Len(pending) - 1 /\ DOMAIN pending' = 1..(Len(pending) - 1)
      /\ \A i \in DOMAIN pending' : pending'[i] = pending[i + 1]
      /\ Oldest = pending[1]
  BY <1>1 DEF Pop, Oldest
<1>3. \A i \in DOMAIN pending : i # 1 => pending[1].picture # pending[i].picture
  <2> SUFFICES ASSUME NEW i \in DOMAIN pending, i # 1
               PROVE  pending[1].picture # pending[i].picture
    OBVIOUS
  <2>1. 1 \in DOMAIN pending /\ 1 < i /\ pending[1] \in Pending /\ pending[i] \in Pending
    BY <1>1
  <2>2. pending[1].picture < pending[i].picture
    BY <2>1 DEF SessionInv, PendingInOrder
  <2> QED BY <2>1, <2>2 DEF Pending
<1>4. ASSUME NEW i \in DOMAIN pending'
      PROVE  pending'[i].picture \in {pending[j].picture : j \in DOMAIN pending} \ {Oldest.picture}
  <2>1. i + 1 \in DOMAIN pending /\ i + 1 # 1 /\ pending'[i] = pending[i + 1]
    BY <1>1, <1>2
  <2> QED BY <1>2, <1>3, <2>1
<1>5. ASSUME NEW j \in DOMAIN pending, pending[j].picture # Oldest.picture
      PROVE  \E i \in DOMAIN pending' : pending'[i].picture = pending[j].picture
  <2>1. j # 1
    BY <1>2, <1>5
  <2>2. j - 1 \in DOMAIN pending' /\ (j - 1) + 1 = j
    BY <1>1, <1>2, <2>1
  <2> QED BY <1>2, <2>2
<1> QED BY <1>1, <1>2, <1>4, <1>5

(* The pictures of the mapped inputs, with one more and without one.       *)
LEMMA PicturesOfMore ==
  ASSUME NEW S, NEW e
  PROVE  {m[1] : m \in S \cup {e}} = {m[1] : m \in S} \cup {e[1]}
OBVIOUS

LEMMA PicturesOfFewer ==
  ASSUME NEW S, NEW p
  PROVE  {m[1] : m \in {n \in S : n[1] # p}} = {m[1] : m \in S} \ {p}
OBVIOUS

(* NothingLost is kept by every step of a session in which no call failed. *)
LEMMA NothingIsLostByAStep ==
  ASSUME SessionInv, NothingLost, [SessionNext]_sessionVars
  PROVE  NothingLost'
<1> SUFFICES ASSUME ~failed'
             PROVE  /\ doing' # "destroyed" => packets' + Len(pending') = pictures'
                    /\ {m[1] : m \in mapped'} = {pending'[i].picture : i \in DOMAIN pending'}
  BY DEF NothingLost
<1>1. failed \in BOOLEAN /\ pending \in Seq(Pending) /\ packets \in Nat /\ pictures \in Nat
      /\ Len(pending) \in Nat /\ DOMAIN pending = 1..Len(pending)
  BY DEF SessionInv, SessionTypeOK
<1>2. ~failed
  BY <1>1 DEF SessionNext, sessionVars, Register, Unregister, Encode, FlushSession, CallFails, DrainOne, LockFails,
     ReleaseFails, DrainEnd, Destroy
<1>3. /\ doing # "destroyed" => packets + Len(pending) = pictures
      /\ {m[1] : m \in mapped} = {pending[i].picture : i \in DOMAIN pending}
  BY <1>2 DEF NothingLost
<1>4. ASSUME NEW f \in DeviceBuffers, Encode(f)
      PROVE  /\ packets' + Len(pending') = pictures'
             /\ {m[1] : m \in mapped'} = {pending'[i].picture : i \in DOMAIN pending'}
  <2>1. /\ pictures' = pictures + 1 /\ packets' = packets /\ doing = "idle"
        /\ mapped' = mapped \cup {<<pictures', f>>}
        /\ pending' = Append(pending, [picture |-> pictures', bitstream |-> nextBitstream])
    BY <1>4 DEF Encode
  <2>2. [picture |-> pictures', bitstream |-> nextBitstream] \in Pending
    BY <1>1, <2>1 DEF Pending, SessionInv, SessionTypeOK
  <2>3. /\ Len(pending') = Len(pending) + 1 /\ DOMAIN pending' = 1..(Len(pending) + 1)
        /\ \A i \in DOMAIN pending : pending'[i] = pending[i]
        /\ pending'[Len(pending) + 1].picture = pictures'
    BY <1>1, <2>1, <2>2
  <2>4. {m[1] : m \in mapped'} = {m[1] : m \in mapped} \cup {pictures'}
    BY <2>1, PicturesOfMore, <<pictures', f>>[1] = pictures'
  <2>5. {pending'[i].picture : i \in DOMAIN pending'}
          = {pending[i].picture : i \in DOMAIN pending} \cup {pictures'}
    <3>1. /\ \A i \in DOMAIN pending' : i \in DOMAIN pending \/ i = Len(pending) + 1
          /\ \A i \in DOMAIN pending : i \in DOMAIN pending'
          /\ Len(pending) + 1 \in DOMAIN pending'
      BY <1>1, <2>3
    <3>2. ASSUME NEW i \in DOMAIN pending'
          PROVE  pending'[i].picture \in {pending[j].picture : j \in DOMAIN pending} \cup {pictures'}
      BY <2>3, <3>1
    <3>3. ASSUME NEW j \in DOMAIN pending
          PROVE  pending[j].picture \in {pending'[i].picture : i \in DOMAIN pending'}
      BY <2>3, <3>1
    <3>4. pictures' \in {pending'[i].picture : i \in DOMAIN pending'}
      BY <2>3, <3>1
    <3> QED BY <3>2, <3>3, <3>4
  <2>6. packets' + Len(pending') = pictures'
    BY <1>1, <1>3, <2>1, <2>3
  <2> QED BY <1>3, <2>4, <2>5, <2>6
<1>5. CASE DrainOne
  <2>1. /\ pending # << >> /\ Pop /\ packets' = packets + 1 /\ pictures' = pictures
        /\ doing = "draining" /\ mapped' = {m \in mapped : m[1] # Oldest.picture}
    BY <1>5 DEF DrainOne
  <2>2. {m[1] : m \in mapped'} = {m[1] : m \in mapped} \ {Oldest.picture}
    BY <2>1, PicturesOfFewer
  <2>3. packets' + Len(pending') = pictures'
    BY <1>1, <1>3, <2>1, PopTakesOnePicture
  <2> QED BY <1>3, <2>1, <2>2, <2>3, PopTakesOnePicture
<1>6. CASE Destroy
  <2>1. /\ doing' = "destroyed" /\ pending' = << >>
        /\ mapped' = {m \in mapped : \A i \in DOMAIN pending : pending[i].picture # m[1]}
    BY <1>6 DEF Destroy
  <2>2. mapped' = {}
    BY <1>3, <2>1
  <2> QED BY <2>1, <2>2
<1>7. CASE \/ \E f \in DeviceBuffers : Register(f) \/ Unregister(f)
           \/ FlushSession \/ DrainEnd \/ UNCHANGED sessionVars
  BY <1>3, <1>7 DEF Register, Unregister, FlushSession, DrainEnd, sessionVars
<1> QED BY <1>2, <1>4, <1>5, <1>6, <1>7 DEF SessionNext, CallFails, LockFails, ReleaseFails

(* Unless a call of the driver fails, every picture becomes one packet,    *)
(* and its input is mapped exactly as long as its entry is pending.        *)
THEOREM NoPictureIsLost == SessionSpec => []NothingLost
<1>1. SessionInit => NothingLost
  BY DEF SessionInit, NothingLost
<1>2. SessionSpec => [](SessionInv /\ NothingLost)
  BY <1>1, InitEstablishes, NextKeepsInvariant, NothingIsLostByAStep, PTL DEF SessionSpec
<1> QED BY <1>2, PTL
=============================================================================
