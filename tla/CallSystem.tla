----------------------------- MODULE CallSystem -----------------------------
(***************************************************************************)
(* The gateway plugin and the Go RTC nodes it forwards commands to.  A     *)
(* command travels as a node.invoke.request event, the node runs each one  *)
(* in a goroutine of its own (gateway.go, handleEvent), and its result     *)
(* travels back to the handler that awaits it.  A node process lives as    *)
(* long as its connection: it exits when the connection is lost, and a     *)
(* later one starts with an empty peer map.                                *)
(***************************************************************************)
EXTENDS RtcPlugin

VARIABLES peer,      \* the connections of the node processes, see PeerManager
          serving,   \* serving[n]: process n is running
          invoke     \* invoke[r]: the command that request r sent to a node

systemVars == <<calls, sessionCallMap, handlers, connected, peer, serving, invoke>>

\* Audio plays no part here, and so neither does the loopback mode.
PM == INSTANCE PeerManager WITH Loopback <- {}

-----------------------------------------------------------------------------
(* Commands *)

\* stage: not sent, on its way, being run by a goroutine, or ended there with
\* result "ok" or "error"; "lost" with the process that had it.
InvokeRecord ==
    [node : Nodes \cup {Undefined},
     stage : {"none", "sent", "running", "ok", "error", "lost"}]

NoInvoke == [node |-> Undefined, stage |-> "none"]

\* What the handler of r sends when it reaches its await.
SentBy(h) == IF h.node = Undefined THEN NoInvoke
             ELSE [node |-> h.node, stage |-> "sent"]

Stage(r)    == invoke[r].stage
Target(r)   == invoke[r].node
CallOf(r)   == handlers[r].call
Now(r, stage) == invoke' = [invoke EXCEPT ![r].stage = stage]

-----------------------------------------------------------------------------
(* The gateway: RtcPlugin's steps, the invoke results now come from the node *)

SystemArrive(r) ==
    /\ Arrive(r)
    /\ invoke' = [invoke EXCEPT ![r] = SentBy(handlers'[r])]
    /\ UNCHANGED <<peer, serving>>

\* The handler's await ends: no node was there, or the result came in, or the
\* timeout was first; what the node does with the command is not affected.
SystemResume(r) ==
    /\ \/ Stage(r) = "ok" /\ \E sdp \in Sdps : StartAnswered(r, sdp)
       \/ Stage(r) \in {"none", "error"} /\ StartUnanswered(r)
       \/ Stage(r) = "ok" /\ ForwardReturned(r, "answer")
       \/ Stage(r) \in {"none", "error"} /\ ForwardReturned(r, "null")
       \/ InvokeTimeout(r)
    /\ UNCHANGED <<peer, serving, invoke>>

SystemStop == ServiceStop /\ UNCHANGED <<peer, serving, invoke>>

-----------------------------------------------------------------------------
(* The node: gateway.go's handleInvokeRequest and peer.go's HandleCommand *)

\* The process takes the command up.
Delivered(r, method) ==
    /\ Stage(r) = "sent"
    /\ serving[Target(r)]
    /\ handlers[r].method = method
    /\ UNCHANGED <<calls, sessionCallMap, handlers, connected, serving>>

DeliverAccept(r) ==
    /\ Delivered(r, "start")
    /\ PM!AcceptCall(Target(r), CallOf(r))
    /\ Now(r, "running")

\* Faulty variant: the call's candidate command ends in ClosePeer.
DeliverCandidateCloses(r) ==
    /\ Delivered(r, "ice")
    /\ PM!ClosePeer(Target(r), CallOf(r))
    /\ Now(r, "error")

\* AddRemoteCandidate: the candidate needs a stored entry, and pion may still
\* refuse it.
DeliverCandidate(r) ==
    /\ Delivered(r, "ice")
    /\ \/ peer[Target(r)][CallOf(r)].stored /\ Now(r, "ok")
       \/ Now(r, "error")
    /\ UNCHANGED peer

\* ClosePeer returns at once when there is no entry to take.
DeliverHangup(r) ==
    /\ Delivered(r, "hangup")
    /\ PM!ClosePeer(Target(r), CallOf(r))
    /\ Now(r, IF peer[Target(r)][CallOf(r)].stored THEN "running" ELSE "ok")

\* The goroutine of a command ends and sends the result.
CommandEnds(r) ==
    /\ Stage(r) = "running"
    /\ \/ /\ handlers[r].method = "start"
          /\ PM!AcceptReturn(Target(r), CallOf(r))
          /\ Now(r, "ok")
       \/ /\ handlers[r].method = "start"
          /\ PM!AcceptError(Target(r), CallOf(r))
          /\ Now(r, "error")
       \/ /\ handlers[r].method = "hangup"
          /\ ~peer[Target(r)][CallOf(r)].closing
          /\ Now(r, "ok")
          /\ UNCHANGED peer
    /\ UNCHANGED <<calls, sessionCallMap, handlers, connected, serving>>

\* Connections progress and fail on their own.
PeerStep(n, c) ==
    /\ PM!ClosePeerEnd(n, c) \/ PM!PcFails(n, c) \/ PM!FailedCallback(n, c)
    /\ UNCHANGED <<calls, sessionCallMap, handlers, connected, serving, invoke>>

-----------------------------------------------------------------------------
(* Processes and connections *)

\* Faulty variant: a goroutine survives its process.
LoseCommandsSent(n) ==
    invoke' = [r \in Requests |->
                  IF Target(r) = n /\ Stage(r) = "sent"
                  THEN [invoke[r] EXCEPT !.stage = "lost"] ELSE invoke[r]]

\* What was on its way to a process, or being run by it, goes with it.
LoseCommands(n) ==
    invoke' = [r \in Requests |->
                  IF Target(r) = n /\ Stage(r) \in {"sent", "running"}
                  THEN [invoke[r] EXCEPT !.stage = "lost"] ELSE invoke[r]]

\* Faulty variant: the node keeps its connections over a reconnect.
NodeExitKeepsPeers(n) ==
    /\ serving[n]
    /\ serving' = [serving EXCEPT ![n] = FALSE]
    /\ LoseCommands(n)
    /\ UNCHANGED <<calls, sessionCallMap, handlers, connected, peer>>

\* A signal, or main's reaction to the lost connection: the process ends, with
\* everything it held.
NodeExit(n) ==
    /\ serving[n]
    /\ serving' = [serving EXCEPT ![n] = FALSE]
    /\ peer' = [peer EXCEPT ![n] = [c \in CallIds |-> PM!NoPeer]]
    /\ LoseCommands(n)
    /\ UNCHANGED <<calls, sessionCallMap, handlers, connected>>

\* A new process dials, shakes hands and is listed; commands that were sent into
\* the dead connection of an earlier one never reach it.
NodeStart(n) ==
    /\ ~serving[n]
    /\ NodeConnect(n)
    /\ serving' = [serving EXCEPT ![n] = TRUE]
    /\ LoseCommands(n)
    /\ UNCHANGED peer

\* The gateway sees the connection end, before or after the process does.
NodeLost(n) == NodeDisconnect(n) /\ UNCHANGED <<peer, serving, invoke>>

SystemInit ==
    /\ PluginInit
    /\ PM!Init
    /\ serving = [n \in Nodes |-> FALSE]
    /\ invoke = [r \in Requests |-> NoInvoke]

\* What one request makes the two sides do.
RequestStep(r) ==
    \/ SystemResume(r)
    \/ DeliverAccept(r) \/ DeliverCandidate(r) \/ DeliverHangup(r)
    \/ CommandEnds(r)

NodeStep(n) ==
    \/ NodeStart(n) \/ NodeLost(n) \/ NodeExit(n)
    \/ \E c \in CallIds : PeerStep(n, c)

SystemNext ==
    \/ \E r \in Requests : SystemArrive(r) \/ RequestStep(r)
    \/ \E n \in Nodes : NodeStep(n)
    \/ SystemStop

SystemSpec == SystemInit /\ [][SystemNext]_systemVars
-----------------------------------------------------------------------------
(* Properties *)

\* Type invariant: what a goroutine runs agrees with the connection it runs on.
SystemTypeOK ==
    /\ PM!TypeOK
    /\ serving \in [Nodes -> BOOLEAN]
    /\ invoke \in [Requests -> InvokeRecord]
    /\ \A r \in Requests :
          /\ Stage(r) = "none" <=> Target(r) = Undefined
          /\ Stage(r) # "none" => CallOf(r) # Undefined
          /\ Stage(r) \in {"sent", "running"} => Target(r) \in Nodes
          /\ (Stage(r) = "running" /\ handlers[r].method = "start")
                => peer[Target(r)][CallOf(r)].accept = "gathering"

\* findRtcNode picks the first connected node for every command, whichever node
\* the call is on; still, a command is never sent past the node that serves its
\* call, because a node that loses its place in the list is a new process.
CommandsReachTheCall ==
    \A r \in Requests, n \in ConnectedNodes :
        (Awaiting(r) /\ handlers[r].node # Undefined /\ peer[n][CallOf(r)] # PM!NoPeer)
            => n = handlers[r].node

\* When a hang-up of an answered call has come back from the node, no connected
\* node has a connection for the call any more, except one somebody is closing
\* (another hang-up or the failure callback, which got to the entry first).
ConnectionGone(n, c) == peer[n][c].pc \in {"none", "closed"} \/ peer[n][c].closing
HungUp(r) == handlers[r].method = "hangup" /\ handlers[r].outcome = "answer"
HangupClosesAnswered ==
    \A r \in Requests, n \in ConnectedNodes :
        (HungUp(r) /\ calls[CallOf(r)].answerSdp # Undefined) => ConnectionGone(n, CallOf(r))

\* README.md's signalling flow: once the node has answered rtc.call.hangup, the
\* connection is closed.
HangupClosesConnection ==
    \A r \in Requests, n \in ConnectedNodes :
        HungUp(r) => ConnectionGone(n, CallOf(r))

\* A working connection is closed only under a call the gateway has ended: not
\* by candidates, by a late command, or for another call.
ClosedOnlyWhenOver ==
    [][\A n \in Nodes, c \in CallIds :
          (peer[n][c].pc = "open" /\ peer[n][c].accept = "returned" /\ peer'[n][c].pc = "closed")
              => Terminal(c)]_systemVars

-----------------------------------------------------------------------------
(* What the service promises *)

\* What the accept command of call c came to; a call has one rtc.call.start.
AcceptIs(c, stages) == \E r \in Requests : StartedCall(r) = c /\ Stage(r) \in stages

Asked(c) == IF AcceptIs(c, {"running"}) THEN "asked"
            ELSE IF AcceptIs(c, {"ok"}) THEN "answered"
            ELSE IF AcceptIs(c, {"error", "lost"}) THEN "failed"
            ELSE "no"

Media(p) == CASE p.pc = "failed" -> "broken"
              [] p.pc = "open"   -> IF p.accept = "gathering" THEN "preparing" ELSE "up"
              [] OTHER           -> p.pc

Service == INSTANCE CallService
    WITH phase   <- [c \in CallIds |-> PhaseOf(calls[c].state)],
         asked   <- [c \in CallIds |-> Asked(c)],
         running <- {n \in Nodes : serving[n]},
         media   <- [n \in Nodes |-> [c \in CallIds |-> Media(peer[n][c])]]

\* The gateway and its nodes, with their handlers, commands and goroutines, keep
\* what CallService promises of a call's record and its connection.
ImplementsService == Service!Spec
=============================================================================
