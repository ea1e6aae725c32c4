----------------------------- MODULE SnapshotOp ------------------------------
(***************************************************************************)
(* hsb/preview/snapshot_op: raw dumps on request.  HTTP threads call       *)
(* Request() (POST /capture) and LastWritten() under mutex_; compute()     *)
(* runs on a scheduler thread, consumes the atomic requested_ BEFORE it    *)
(* takes mutex_, and holds mutex_ while it writes the two files.           *)
(*                                                                         *)
(* A base path carries a millisecond time stamp: two requests within one   *)
(* millisecond get the same path.  A base is abstracted to the number of   *)
(* that millisecond, a file to the number of the frame in it (0: absent).  *)
(***************************************************************************)
EXTENDS Naturals

CONSTANTS
  Clients,      \* HTTP threads that may issue POST /capture
  MaxRequests,  \* bound: calls of Request
  MaxFrames     \* bound: frames told apart; the frame number saturates

ASSUME SnapshotAssumption ==
  /\ MaxRequests \in Nat
  /\ MaxFrames \in Nat \ {0}

Bases == 1..MaxRequests
NoBase == 0

VARIABLES
  requested,     \* requested_
  pendingBase,   \* pending_base_
  lastWritten,   \* last_written_
  locked,        \* mutex_ is held by compute()
  pc,            \* where compute() stands
  frame,         \* the frame compute() holds
  base,          \* its local copy of pending_base_
  raw, json,     \* the files <base>.raw and <base>.json
  returned,      \* the path each client got from its last Request
  requests,      \* history: calls of Request
  dumps,         \* history: dumps completed
  clock,         \* the millisecond of the last Request
  reported,      \* what the last call of LastWritten returned
  lost           \* history: paths a failure kept from being written whole

snapshotVars == <<requested, pendingBase, lastWritten, locked, pc, frame, base, raw, json,
                  returned, requests, clock, dumps, reported, lost>>

SnapshotTypeOK ==
  /\ requested \in BOOLEAN
  /\ {pendingBase, lastWritten, base, reported} \subseteq Bases \cup {NoBase}
  /\ locked \in BOOLEAN
  /\ pc \in {"idle", "exchanged", "copying", "raw", "json", "ended"}
  /\ frame \in 0..MaxFrames
  /\ raw \in [Bases -> 0..MaxFrames] /\ json \in [Bases -> 0..MaxFrames]
  /\ returned \in [Clients -> Bases \cup {NoBase}]
  /\ requests \in 0..MaxRequests /\ clock \in 0..requests /\ dumps \in Nat
  /\ lost \subseteq Bases \cup {NoBase}

SnapshotInit ==
  /\ requested = FALSE
  /\ pendingBase = NoBase /\ lastWritten = NoBase /\ base = NoBase /\ reported = NoBase
  /\ locked = FALSE
  /\ pc = "idle"
  /\ frame = 0
  /\ raw = [b \in Bases |-> 0] /\ json = [b \in Bases |-> 0]
  /\ returned = [c \in Clients |-> NoBase]
  /\ requests = 0 /\ clock = 0 /\ dumps = 0
  /\ lost = {}

fileVars == <<lastWritten, raw, json, dumps, lost>>
opVars == <<locked, pc, frame, base>>
clientVars == <<returned, requests, clock>>
-----------------------------------------------------------------------------
(* Mutant: while a request is pending, its path is kept.                   *)
Request_FirstWins(c) ==
  /\ ~locked
  /\ requests < MaxRequests
  /\ \E now \in {clock, clock + 1} \ {0} :
       /\ pendingBase' = IF requested THEN pendingBase ELSE now
       /\ clock' = now
       /\ returned' = [returned EXCEPT ![c] = now]
  /\ requested' = TRUE
  /\ requests' = requests + 1
  /\ UNCHANGED <<fileVars, opVars, reported>>

(* Request(): mutex_ is held throughout.                                   *)
Request(c) ==
  /\ ~locked
  /\ requests < MaxRequests
  /\ \E now \in {clock, clock + 1} \ {0} :
       /\ pendingBase' = now
       /\ clock' = now
       /\ returned' = [returned EXCEPT ![c] = now]
  /\ requested' = TRUE
  /\ requests' = requests + 1
  /\ UNCHANGED <<fileVars, opVars, reported>>

LastWritten ==
  /\ ~locked
  /\ reported' = lastWritten
  /\ UNCHANGED <<requested, pendingBase, fileVars, opVars, clientVars>>
-----------------------------------------------------------------------------
(* compute(): a frame arrives and requested_.exchange(false) is executed.  *)
Exchange_Keeps == \* mutant: load() instead of exchange(false)
  /\ pc = "idle"
  /\ frame' = IF frame < MaxFrames THEN frame + 1 ELSE frame
  /\ pc' = IF requested THEN "exchanged" ELSE "idle"
  /\ UNCHANGED <<requested, pendingBase, fileVars, locked, base, clientVars, reported>>

Exchange ==
  /\ pc = "idle"
  /\ frame' = IF frame < MaxFrames THEN frame + 1 ELSE frame
  /\ requested' = FALSE
  /\ pc' = IF requested THEN "exchanged" ELSE "idle"
  /\ UNCHANGED <<pendingBase, fileVars, locked, base, clientVars, reported>>

(* The message has no tensor: the consumed request is dropped.             *)
NoTensor ==
  /\ pc = "exchanged"
  /\ pc' = "idle"
  /\ lost' = lost \cup {pendingBase}
  /\ UNCHANGED <<requested, pendingBase, lastWritten, raw, json, dumps, locked, frame, base, clientVars, reported>>

Lock ==
  /\ pc = "exchanged"
  /\ locked' = TRUE
  /\ pc' = "copying"
  /\ UNCHANGED <<requested, pendingBase, fileVars, frame, base, clientVars, reported>>

(* The copy to host memory succeeded.                                      *)
Copied ==
  /\ pc = "copying"
  /\ base' = pendingBase
  /\ pc' = "raw"
  /\ UNCHANGED <<requested, pendingBase, fileVars, locked, frame, clientVars, reported>>

(* cudaMallocHost, the copy or the synchronisation failed: the exception   *)
(* releases mutex_ and ends the pipeline.                                  *)
CudaFails ==
  /\ pc = "copying"
  /\ locked' = FALSE
  /\ pc' = "ended"
  /\ UNCHANGED <<requested, pendingBase, fileVars, frame, base, clientVars, reported>>

(* A file after an attempt to write it: stream errors are not looked at.   *)
Write(file) ==
  \/ /\ file' = [file EXCEPT ![base] = frame]
     /\ UNCHANGED lost
  \/ /\ UNCHANGED file
     /\ lost' = lost \cup {base}

WriteRaw ==
  /\ pc = "raw"
  /\ Write(raw)
  /\ pc' = "json"
  /\ UNCHANGED <<requested, pendingBase, lastWritten, dumps, json, locked, frame, base, clientVars, reported>>

(* Mutant: mutex_ is released before the sidecar is on disk.               *)
WriteJson_Early ==
  /\ pc = "json"
  /\ \/ locked /\ locked' = FALSE /\ lastWritten' = base /\ UNCHANGED <<json, lost, pc>>
     \/ ~locked /\ Write(json) /\ pc' = "idle" /\ UNCHANGED <<locked, lastWritten>>
  /\ UNCHANGED <<dumps, requested, pendingBase, raw, frame, base, clientVars, reported>>

(* The sidecar, last_written_, the end of the streams' and the lock's      *)
(* scope (the lock is the last of them), and the emit.                     *)
WriteJson ==
  /\ pc = "json"
  /\ Write(json)
  /\ lastWritten' = base
  /\ dumps' = dumps + 1
  /\ locked' = FALSE
  /\ pc' = "idle"
  /\ UNCHANGED <<requested, pendingBase, raw, frame, base, clientVars, reported>>

(* The pipeline is stopped between two frames.                             *)
PipelineEnds ==
  /\ pc = "idle"
  /\ pc' = "ended"
  /\ UNCHANGED <<requested, pendingBase, fileVars, locked, frame, base, clientVars, reported>>

Compute ==
  Exchange \/ NoTensor \/ Lock \/ Copied \/ CudaFails \/ WriteRaw \/ WriteJson

SnapshotNext ==
  \/ Compute
  \/ PipelineEnds
  \/ LastWritten
  \/ \E c \in Clients : Request(c)

SnapshotSpec == SnapshotInit /\ [][SnapshotNext]_snapshotVars

(* Frames keep arriving and compute() finishes what it starts.             *)
Fairness ==
  /\ WF_snapshotVars(Exchange)
  /\ WF_snapshotVars(Lock)
  /\ WF_snapshotVars(Copied)
  /\ WF_snapshotVars(WriteRaw)
  /\ WF_snapshotVars(WriteJson)

FairSnapshotSpec == SnapshotSpec /\ Fairness
-----------------------------------------------------------------------------
(* What ReportedComplete rests on: mutex_ covers the writing of the files, *)
(* a taken request has a path, and only the two files of the dump under    *)
(* way may differ.                                                         *)
LockCoversDump == locked <=> (pc \in {"copying", "raw", "json"})

RequestHasPath ==
  /\ requested \/ pc \in {"exchanged", "copying"} => pendingBase \in Bases
  /\ pc \in {"raw", "json"} => base \in Bases
  /\ pc # "idle" /\ pc # "ended" => frame # 0

Complete(b) == raw[b] # 0 /\ json[b] = raw[b]

OthersComplete ==
  /\ pc = "json" /\ base \notin lost => raw[base] = frame
  /\ \A b \in {lastWritten, reported} \cap Bases :
       b \in lost \/ Complete(b) \/ (pc = "json" /\ b = base)

(* Whoever calls LastWritten gets a path whose two files are complete and  *)
(* describe one and the same frame, although they are written while other  *)
(* threads queue for mutex_ and may be rewritten later; only a write the   *)
(* disk refused excuses it.                                                *)
ReportedComplete ==
  reported \in Bases \ lost /\ ~locked => Complete(reported)

(* Dumps are made on demand: those completed, the one under way and the    *)
(* pending flag never outnumber the calls of Request, wherever a request   *)
(* falls between the exchange and the lock.                                *)
DumpsOnDemand ==
  dumps + (IF pc \in {"exchanged", "copying", "raw", "json"} THEN 1 ELSE 0)
    + (IF requested THEN 1 ELSE 0) <= requests

(* The dumps implement the abstract operator that works on request.        *)
Dumps ==
  INSTANCE OnDemand WITH asked <- requests, pending <- requested,
                         working <- (pc \in {"exchanged", "copying", "raw", "json"}),
                         done <- dumps

ImplementsOnDemand == Dumps!Spec

(* The newest path handed out is written, also when its request arrives    *)
(* while an older one is being served, unless the pipeline ends first, the *)
(* disk refuses it or the frame it was due carries no tensor.              *)
NewestWritten ==
  \A b \in Bases :
    clock = b ~> (raw[b] # 0 /\ json[b] # 0) \/ pc = "ended" \/ clock # b \/ b \in lost
=============================================================================
