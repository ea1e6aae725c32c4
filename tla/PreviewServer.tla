---------------------------- MODULE PreviewServer ----------------------------
(***************************************************************************)
(* The life cycle of hsb/preview/preview_server: the thread that calls     *)
(* Start and Stop, the accept thread, and one thread per connection.       *)
(*                                                                         *)
(* A connection stands for its socket and its thread.  What a handler      *)
(* computes is abstracted (module Preview models the sink's handlers);     *)
(* kept is where a thread can block and where it looks at `running`.       *)
(***************************************************************************)
EXTENDS Naturals, FiniteSets

CONSTANTS
  Connections,  \* client connections, each used once
  MaxOpen,      \* descriptors the process has left for connections
  MaxStarts     \* bound: calls of Start

ASSUME ServerAssumption == {MaxOpen, MaxStarts} \subseteq Nat

VARIABLES
  running,    \* Impl::running
  listening,  \* is the socket behind listen_fd open?
  callerPc,   \* where the thread in Start/Stop stands
  acceptPc,   \* where the accept thread stands
  inHand,     \* the connection accept() returned last
  conn,       \* where each connection and its thread stand
  workers,    \* Impl::workers: threads not yet claimed by a Reap
  acceptJoins,\* to_join of the accept thread's Reap(false)
  stopJoins,  \* to_join of Stop's Reap(true)
  joined,     \* history: threads joined
  starts      \* number of calls of Start

vars == <<running, listening, callerPc, acceptPc, inHand, conn, workers,
          acceptJoins, stopJoins, joined, starts>>

NoConn == "none"

(* Threads that have left their last statement, done->store(true).         *)
Exited(c) == conn[c] = "exited"

Live == {"reading", "handling", "replying", "streaming", "sending", "leaving", "closed"}

(* A connection holds its descriptor from accept() to close().             *)
Handled == {c \in Connections : conn[c] \in Live \ {"closed"}}
Full == Cardinality(Handled \cup {c \in Connections : conn[c] = "accepted"}) >= MaxOpen

TypeOK ==
  /\ running \in BOOLEAN /\ listening \in BOOLEAN
  /\ callerPc \in {"outside", "shutdown", "join", "collect", "joinAll"}
  /\ acceptPc \in {"off", "test", "accept", "reap", "joining", "spawn", "push", "ended"}
  /\ inHand \in Connections \cup {NoConn}
  /\ conn \in [Connections -> {"away", "backlog", "accepted", "reset", "exited"} \cup Live]
  /\ workers \subseteq Connections
  /\ acceptJoins \subseteq Connections /\ stopJoins \subseteq Connections
  /\ joined \subseteq Connections
  /\ starts \in 0..MaxStarts

Init ==
  /\ running = FALSE /\ listening = FALSE
  /\ callerPc = "outside" /\ acceptPc = "off"
  /\ inHand = NoConn
  /\ conn = [c \in Connections |-> "away"]
  /\ workers = {} /\ acceptJoins = {} /\ stopJoins = {} /\ joined = {}
  /\ starts = 0
-----------------------------------------------------------------------------
(* Start and Stop.                                                         *)

(* socket, bind and listen succeeded; otherwise Start throws and has       *)
(* changed nothing.                                                        *)
Start ==
  /\ callerPc = "outside"
  /\ ~running
  /\ starts < MaxStarts
  /\ listening' = TRUE
  /\ running' = TRUE
  /\ acceptPc' = "test"
  /\ starts' = starts + 1
  /\ UNCHANGED <<callerPc, inHand, conn, workers, acceptJoins, stopJoins, joined>>

(* Stop returns at once unless running.                                    *)
StopBegin ==
  /\ callerPc = "outside"
  /\ running
  /\ running' = FALSE
  /\ callerPc' = "shutdown"
  /\ UNCHANGED <<listening, acceptPc, inHand, conn, workers, acceptJoins, stopJoins, joined, starts>>

(* shutdown and close of listen_fd: the kernel resets what is queued.      *)
StopShutdown ==
  /\ callerPc = "shutdown"
  /\ listening' = FALSE
  /\ conn' = [c \in Connections |-> IF conn[c] = "backlog" THEN "reset" ELSE conn[c]]
  /\ callerPc' = "join"
  /\ UNCHANGED <<running, acceptPc, inHand, workers, acceptJoins, stopJoins, joined, starts>>

(* Mutant: the workers are collected without joining the accept thread.    *)
StopJoinAccept_Skipped ==
  /\ callerPc = "join"
  /\ callerPc' = "collect"
  /\ UNCHANGED <<running, listening, acceptPc, inHand, conn, workers, acceptJoins, stopJoins, joined, starts>>

StopJoinAccept ==
  /\ callerPc = "join"
  /\ acceptPc = "ended"
  /\ callerPc' = "collect"
  /\ UNCHANGED <<running, listening, acceptPc, inHand, conn, workers, acceptJoins, stopJoins, joined, starts>>

(* Reap(true): claims every worker under workers_mutex ...                 *)
StopCollect ==
  /\ callerPc = "collect"
  /\ stopJoins' = workers
  /\ workers' = {}
  /\ callerPc' = "joinAll"
  /\ UNCHANGED <<running, listening, acceptPc, inHand, conn, acceptJoins, joined, starts>>

(* ... and joins them outside the lock.                                    *)
StopJoin(c) ==
  /\ callerPc = "joinAll"
  /\ c \in stopJoins
  /\ Exited(c)
  /\ stopJoins' = stopJoins \ {c}
  /\ joined' = joined \cup {c}
  /\ UNCHANGED <<running, listening, callerPc, acceptPc, inHand, conn, workers, acceptJoins, starts>>

StopReturn ==
  /\ callerPc = "joinAll"
  /\ stopJoins = {}
  /\ callerPc' = "outside"
  /\ UNCHANGED <<running, listening, acceptPc, inHand, conn, workers, acceptJoins, stopJoins, joined, starts>>
-----------------------------------------------------------------------------
(* The accept thread.                                                      *)

AcceptTest ==
  /\ acceptPc = "test"
  /\ acceptPc' = IF running THEN "accept" ELSE "ended"
  /\ UNCHANGED <<running, listening, callerPc, inHand, conn, workers, acceptJoins, stopJoins, joined, starts>>

Accept(c) ==
  /\ acceptPc = "accept"
  /\ listening /\ ~Full
  /\ conn[c] = "backlog"
  /\ conn' = [conn EXCEPT ![c] = "accepted"]
  /\ inHand' = c
  /\ acceptPc' = "reap"
  /\ UNCHANGED <<running, listening, callerPc, workers, acceptJoins, stopJoins, joined, starts>>

AcceptFails_Ends == \* mutant: any failure ends the loop
  /\ acceptPc = "accept"
  /\ ~listening \/ Full
  /\ acceptPc' = "ended"
  /\ UNCHANGED <<running, listening, callerPc, inHand, conn, workers, acceptJoins, stopJoins, joined, starts>>

(* accept() fails because Stop has closed the socket, and `running` is     *)
(* false by then; or, whether a client waits or not, because no descriptor *)
(* is left, and the loop tries again at once.                              *)
AcceptFails ==
  /\ acceptPc = "accept"
  /\ ~listening \/ Full
  /\ acceptPc' = IF running THEN "test" ELSE "ended"
  /\ UNCHANGED <<running, listening, callerPc, inHand, conn, workers, acceptJoins, stopJoins, joined, starts>>

(* Mutant: Reap(true) between two connections.                             *)
AcceptReap_All ==
  /\ acceptPc = "reap"
  /\ acceptJoins' = workers
  /\ workers' = {}
  /\ acceptPc' = "joining"
  /\ UNCHANGED <<running, listening, callerPc, inHand, conn, stopJoins, joined, starts>>

(* Mutant: the finished threads are joined but not erased.                 *)
AcceptReap_NotErased ==
  /\ acceptPc = "reap"
  /\ acceptJoins' = {c \in workers : Exited(c)}
  /\ acceptPc' = "joining"
  /\ UNCHANGED <<running, listening, callerPc, inHand, conn, workers, stopJoins, joined, starts>>

(* Reap(false) claims the threads whose done flag is set ...               *)
AcceptReap ==
  /\ acceptPc = "reap"
  /\ acceptJoins' = {c \in workers : Exited(c)}
  /\ workers' = {c \in workers : ~Exited(c)}
  /\ acceptPc' = "joining"
  /\ UNCHANGED <<running, listening, callerPc, inHand, conn, stopJoins, joined, starts>>

(* ... and joins them one after the other.                                 *)
AcceptJoin(c) ==
  /\ acceptPc = "joining"
  /\ c \in acceptJoins
  /\ Exited(c)
  /\ acceptJoins' = acceptJoins \ {c}
  /\ joined' = joined \cup {c}
  /\ UNCHANGED <<running, listening, callerPc, acceptPc, inHand, conn, workers, stopJoins, starts>>

(* The connection's thread starts before it is entered into workers.       *)
Spawn ==
  /\ acceptPc = "joining"
  /\ acceptJoins = {}
  /\ conn' = [conn EXCEPT ![inHand] = "reading"]
  /\ acceptPc' = "push"
  /\ UNCHANGED <<running, listening, callerPc, inHand, workers, acceptJoins, stopJoins, joined, starts>>

Push ==
  /\ acceptPc = "push"
  /\ workers' = workers \cup {inHand}
  /\ inHand' = NoConn
  /\ acceptPc' = "test"
  /\ UNCHANGED <<running, listening, callerPc, conn, acceptJoins, stopJoins, joined, starts>>

AcceptThread ==
  \/ AcceptTest \/ AcceptFails \/ AcceptReap \/ Spawn \/ Push
  \/ \E c \in Connections : Accept(c) \/ AcceptJoin(c)
-----------------------------------------------------------------------------
(* The connections.                                                        *)

Goto(c, from, to) ==
  /\ conn[c] = from
  /\ conn' = [conn EXCEPT ![c] = to]
  /\ UNCHANGED <<running, listening, callerPc, acceptPc, inHand, workers, acceptJoins, stopJoins, joined, starts>>

Connect(c) == listening /\ Goto(c, "away", "backlog")

(* ReadRequest: every recv returns within SO_RCVTIMEO.  A timeout, a       *)
(* closed connection or a malformed length leads to the close.             *)
ReadRequest(c) == \E to \in {"handling", "streaming", "leaving"} : Goto(c, "reading", to)

(* The routes other than the stream; they wait 5 s at most.                *)
Handle(c) == Goto(c, "handling", "replying")

(* Mutant: the loop never looks at `running`.                              *)
StreamTest_Forever(c) == Goto(c, "streaming", "sending")

(* One turn of the stream loop: the test of `running`, then a frame from   *)
(* WaitForNewer (a turn without a frame changes nothing).                  *)
StreamTest(c) == Goto(c, "streaming", IF running THEN "sending" ELSE "leaving")

(* SendAll blocks until the client reads what the socket buffer cannot     *)
(* hold (there is no send timeout), or fails once the client is gone.      *)
ClientReads(c) == Goto(c, "replying", "leaving") \/ Goto(c, "sending", "streaming")
ClientGone(c)  == Goto(c, "replying", "leaving") \/ Goto(c, "sending", "leaving")

CloseSocket(c) == Goto(c, "leaving", "closed")
SetDone(c)     == Goto(c, "closed", "exited")

Worker(c) == ReadRequest(c) \/ Handle(c) \/ StreamTest(c) \/ CloseSocket(c) \/ SetDone(c)
Client(c) == Connect(c) \/ ClientReads(c) \/ ClientGone(c)
Stop ==
  \/ StopBegin \/ StopShutdown \/ StopJoinAccept \/ StopCollect \/ StopReturn
  \/ \E c \in Connections : StopJoin(c)

Next ==
  \/ Start \/ Stop \/ AcceptThread
  \/ \E c \in Connections : Worker(c) \/ Client(c)

Spec == Init /\ [][Next]_vars

(* The threads of the program run; a Stop that began goes on.              *)
ThreadFairness ==
  /\ WF_vars(Stop /\ callerPc # "outside")
  /\ WF_vars(AcceptThread)
  /\ \A c \in Connections : WF_vars(Worker(c))

(* Clients that read what they are sent, or go away.                       *)
ClientFairness == \A c \in Connections : WF_vars(ClientReads(c) \/ ClientGone(c))

ThreadSpec == Spec /\ ThreadFairness
-----------------------------------------------------------------------------
(* What the two invariants below rest on: which list of threads is in use  *)
(* at which point of Stop and of the accept thread.                        *)
Stages ==
  /\ callerPc # "outside" => ~running
  /\ callerPc \in {"collect", "joinAll"} => acceptPc = "ended"
  /\ callerPc = "joinAll" => workers = {}
  /\ callerPc # "joinAll" => stopJoins = {}
  /\ acceptPc # "joining" => acceptJoins = {}
  /\ callerPc = "outside" /\ ~running => acceptPc \in {"off", "ended"} /\ workers = {}
  /\ acceptPc \in {"reap", "joining"} => inHand \in Connections /\ conn[inHand] = "accepted"
  /\ acceptPc = "push" => inHand \in Connections
  /\ \A c \in joined : Exited(c)

(* Once Stop has returned no thread of the server is left: none running,   *)
(* none unjoined, also for a connection accepted while Stop began.         *)
StoppedMeansQuiet ==
  callerPc = "outside" /\ ~running =>
    /\ acceptPc \in {"off", "ended"}
    /\ workers = {}
    /\ \A c \in Connections : conn[c] \notin Live /\ (Exited(c) => c \in joined)

(* Every thread has exactly one owner that will join it: the accept thread *)
(* before the push, workers, or one of the two to_join lists.  A thread in *)
(* two of them would be joined twice, in none destroyed while joinable.    *)
Pushing == IF acceptPc = "push" THEN {inHand} ELSE {}

OneOwner ==
  /\ \A c \in Connections :
       conn[c] \in Live \cup {"exited"}
         <=> c \in Pushing \cup workers \cup acceptJoins \cup stopJoins \cup joined
  /\ Pushing \cap (workers \cup acceptJoins \cup stopJoins \cup joined) = {}
  /\ workers \cap (acceptJoins \cup stopJoins \cup joined) = {}
  /\ acceptJoins \cap (stopJoins \cup joined) = {}
  /\ stopJoins \cap joined = {}

(* A client that waits in the backlog is accepted, or reset by Stop,       *)
(* whatever the clients before it do, even one that never reads: unless    *)
(* their handlers hold every descriptor for good.  One that is given back  *)
(* now and then is enough, although the accept thread joins nothing while  *)
(* accept fails.                                                           *)
BacklogServed ==
  []<>(Cardinality(Handled) < MaxOpen) =>
    \A c \in Connections : conn[c] = "backlog" ~> conn[c] # "backlog"

(* preview_server.hpp:43 "closes the listening socket and joins the        *)
(* threads": a Stop that began returns.                                    *)
StopReturns == callerPc # "outside" ~> callerPc = "outside"

(* Stop returns if every client reads what it is sent or goes away,        *)
(* wherever the accept thread and the connections stand when it begins.    *)
StopReturnsIfClientsGoOn == ClientFairness => StopReturns
=============================================================================
