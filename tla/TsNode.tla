------------------------------- MODULE TsNode -------------------------------
(***************************************************************************)
(* plugin/node/index.ts: the process of the TypeScript node.  Commands     *)
(* come in over the gateway client and run against the peer manager; calls *)
(* outlive the connection that brought them; a signal closes all peers and *)
(* then ends the process.                                                  *)
(***************************************************************************)
EXTENDS TsGatewayClient

CONSTANTS CallIds, Loopback

ASSUME TsNodeAssumption == Loopback \in BOOLEAN

VARIABLES peer,      \* the calls' connections, see TsPeerManager
          request,   \* request[i]: what command i asks for
          life,      \* the process: "up", "stopping" in shutdown, "exited"
          awaited    \* the calls whose closePeer the shutdown awaits

clientVars == <<socket, connectSent, reconnect, first, registered, losses, command>>
nodeVars   == <<socket, connectSent, reconnect, first, registered, losses, command,
                peer, request, life, awaited>>

PM == INSTANCE TsPeerManager

\* answered: when a hang-up came in, the gateway had the answer of its call.
RequestRecord ==
    [kind : {"none", "accept", "candidate", "hangup"},
     calls : SUBSET CallIds,
     answered : BOOLEAN]

NoRequest == [kind |-> "none", calls |-> {}, answered |-> FALSE]

Asks(i, kind, c) == request[i].kind = kind /\ c \in request[i].calls

\* The gateway took the answer of c.
Answered(c) == \E i \in Commands : Asks(i, "accept", c) /\ command[i].taken = "positive"

NodeInit ==
    /\ ClientInit
    /\ PM!Init
    /\ request = [i \in Commands |-> NoRequest]
    /\ life = "up"
    /\ awaited = {}

-----------------------------------------------------------------------------
(* handleCommand *)

\* The gateway sends command i over a connection it lists, and the event handler
\* starts handleInvokeRequest, which runs to its first await.
Arrives(i, kind, c) ==
    /\ life # "exited"
    /\ registered
    /\ command[i].stage = "none"
    /\ request' = [request EXCEPT ![i] = [kind |-> kind, calls |-> {c},
                                          answered |-> kind = "hangup" /\ Answered(c)]]
    /\ UNCHANGED <<socket, connectSent, reconnect, registered, losses, life, awaited>>

\* The handler goes on over an await ...
Runs(i) == command' = [command EXCEPT ![i] = Taken(@)] /\ UNCHANGED first

\* ... or its result goes out at once.
Settles(i, result) ==
    /\ command' = [command EXCEPT ![i] = Sent(Taken(@), result)]
    /\ first' = FirstAfterResult

\* rtc.call.accept: the first command of its call, and the only accept.
AcceptArrives(i, c) ==
    /\ \A j \in Commands : c \notin request[j].calls
    /\ Arrives(i, "accept", c)
    /\ PM!AcceptCall(c)
    /\ Runs(i)

\* rtc.call.remote_candidate, for this node's call or another's: without an entry
\* addRemoteCandidate throws.
CandidateArrives(i, c) ==
    /\ Arrives(i, "candidate", c)
    /\ IF peer[c].stored THEN Runs(i) ELSE Settles(i, "negative")
    /\ UNCHANGED peer

\* rtc.call.hangup: without an entry closePeer returns.
HangupArrives(i, c) ==
    /\ Arrives(i, "hangup", c)
    /\ PM!closePeer(c)
    /\ IF peer[c].stored THEN Runs(i) ELSE Settles(i, "positive")

\* The handler is through, and its result goes out over the socket of the moment.
Returns(i, result) ==
    /\ life # "exited"
    /\ command[i].stage = "running"
    /\ command' = [command EXCEPT ![i] = Sent(@, result)]
    /\ first' = FirstAfterResult
    /\ UNCHANGED <<socket, connectSent, reconnect, registered, losses, request, life, awaited>>

AcceptEnds(i, c) ==
    /\ Asks(i, "accept", c)
    /\ \/ PM!AcceptReturns(c) /\ Returns(i, "positive")
       \/ PM!AcceptThrows(c) /\ Returns(i, "negative")

\* addIceCandidate resolves or rejects.
CandidateEnds(i, c) ==
    /\ Asks(i, "candidate", c)
    /\ \E result \in {"positive", "negative"} : Returns(i, result)
    /\ UNCHANGED peer

\* closePeer returns when its pc.close() is through.
HangupEnds(i, c) ==
    /\ Asks(i, "hangup", c)
    /\ peer[c].pc = "closed"
    /\ Returns(i, "positive")
    /\ UNCHANGED peer

-----------------------------------------------------------------------------
(* The process *)

\* The client's steps leave the rest of the process alone.
Alone(action) ==
    /\ life # "exited"
    /\ action
    /\ UNCHANGED <<peer, request, life, awaited>>

PeerStep(c) ==
    /\ life # "exited"
    /\ PM!Internal(c)
    /\ UNCHANGED <<clientVars, request, life, awaited>>

\* pc.close() comes to an end.
PcCloses(c) ==
    /\ life # "exited"
    /\ PM!PcCloses(c)
    /\ UNCHANGED <<clientVars, request, life, awaited>>

\* SIGINT, SIGTERM: closeAll starts with the entries there are now.  (A second
\* signal before the exit is left out.)
Shutdown ==
    /\ life = "up"
    /\ life' = "stopping"
    /\ awaited' = {c \in CallIds : peer[c].stored}
    /\ PM!closeAll
    /\ UNCHANGED <<clientVars, request>>

\* stop(): the timer is cleared, the socket closed and the pending requests
\* rejected; then process.exit.
Exit ==
    /\ life = "stopping"
    /\ \A c \in awaited : peer[c].pc = "closed"
    /\ life' = "exited"
    /\ socket' = "none"
    /\ reconnect' = FALSE
    /\ registered' = FALSE
    /\ command' = [i \in Commands |-> Flushed(Dropped(command[i]))]
    /\ UNCHANGED <<connectSent, first, losses, peer, request, awaited>>

CommandArrives(i) ==
    \E c \in CallIds : AcceptArrives(i, c) \/ CandidateArrives(i, c) \/ HangupArrives(i, c)

CommandEnds(i) ==
    \E c \in CallIds : AcceptEnds(i, c) \/ CandidateEnds(i, c) \/ HangupEnds(i, c)

Next ==
    \/ \E i \in Commands : CommandArrives(i) \/ CommandEnds(i)
    \/ \E c \in CallIds : PeerStep(c)
    \/ Alone(Connection)
    \/ Shutdown \/ Exit

Spec == NodeInit /\ [][Next]_nodeVars

\* The timer fires, a connection attempt comes to an end, a closing socket
\* reports it, the gateway sends its challenge and takes the node; pc.close()
\* comes to an end.
FairSpec ==
    /\ Spec
    /\ WF_nodeVars(Alone(Reconnect))
    /\ WF_nodeVars(Alone(Opens))
    /\ WF_nodeVars(Alone(CloseEvent))
    /\ WF_nodeVars(Alone(Challenge))
    /\ WF_nodeVars(Alone(GatewayAccepts))
    /\ \A c \in CallIds : WF_nodeVars(PcCloses(c))
    /\ WF_nodeVars(Exit)
-----------------------------------------------------------------------------
(* Properties *)

\* Type invariant of the process; after its exit nothing is left of the client.
TsNodeTypeOK ==
    /\ IF life = "exited"
       THEN socket = "none" /\ ~reconnect /\ ~registered
                /\ \A i \in Commands : command[i] \in ClientRecord
       ELSE ClientTypeOK
    /\ PM!PeersTypeOK
    /\ request \in [Commands -> RequestRecord]
    /\ \A i \in Commands : command[i].stage = "none" <=> request[i].kind = "none"
    /\ life \in {"up", "stopping", "exited"}
    /\ awaited \subseteq CallIds

AnsweredReachable == PM!AnsweredReachable
TimersReachable   == PM!TimersReachable

\* A hang-up sent after the gateway had the answer of its call does its work: when
\* the gateway is told it succeeded, the call's connection is closed or being
\* closed, whatever dropped, reconnected or was hung up meanwhile.
HangupReleases ==
    \A i \in Commands, c \in CallIds :
        (Asks(i, "hangup", c) /\ request[i].answered /\ command[i].taken = "positive")
            => peer[c].pc \in {"closing", "closed"}

\* Connections are lost a bounded number of times: the node is listed again and
\* again, until it is told to stop; and then it exits.
NodeReturns ==
    /\ []<>(registered \/ life # "up")
    /\ life = "stopping" ~> life = "exited"

\* Where an accept stands, who can close its connection, and whether it is open.
AcceptStage(p) == IF p.accept = "negotiating" THEN "running" ELSE p.accept
Holders(p) == {h \in {"accept", "map", "closer"} :
                  CASE h = "accept" -> p.accept = "negotiating"
                    [] h = "map"    -> p.stored
                    [] h = "closer" -> p.pc = "closing"}
Open(p) == p.pc \notin {"none", "closed"}

Custody == INSTANCE ConnectionCustody
    WITH Connections <- CallIds,
         LeavesOpen  <- TRUE,
         accept      <- [c \in CallIds |-> AcceptStage(peer[c])],
         open        <- [c \in CallIds |-> Open(peer[c])],
         holders     <- [c \in CallIds |-> Holders(peer[c])]

\* Hang-ups, "peerclose" events, accepts and the shutdown pass a connection on
\* without ever leaving it to two, or to nobody unless its accept failed.
ImplementsCustody == Custody!Spec
=============================================================================
