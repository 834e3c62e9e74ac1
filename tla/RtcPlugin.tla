----------------------------- MODULE RtcPlugin -----------------------------
(***************************************************************************)
(* plugin/index.ts: the gateway methods rtc.call.start, rtc.call.ice and   *)
(* rtc.call.hangup running over one CallOrchestrator, and the node         *)
(* registry they forward commands to.  A handler runs without interruption *)
(* up to its await of invokeRtcNode; while it waits, any other request,    *)
(* answer, timeout or node loss may come first.                            *)
(***************************************************************************)
EXTENDS CallOrchestrator, Sequences

CONSTANTS Requests,      \* requests the clients send, each once
          Nodes,         \* nodes with the "webrtc" capability
          Enabled,       \* config.enabled /\ validation.valid
          InvokeFailed   \* the end reason "RTC node invoke failed (...)"

ASSUME PluginAssumption ==
    /\ Enabled \in BOOLEAN
    /\ InvokeFailed \in Reasons
    /\ Undefined \notin Nodes

VARIABLES handlers,    \* handlers[r]: where the handler of request r stands
          connected    \* nodeRegistry.listConnected(), in order of arrival

pluginVars == <<calls, sessionCallMap, handlers, connected>>

-----------------------------------------------------------------------------
(* Handlers *)

\* outcome: what the awaited invoke came to ("pending" while it is awaited);
\* node: where the awaited command went, Undefined when no node was connected.
HandlerRecord ==
    [method   : {Undefined, "start", "ice", "hangup"},
     call     : CallIds \cup {Undefined},
     node     : Nodes \cup {Undefined},
     outcome  : {"none", "pending", "answer", "null", "reject"},
     response : {"none", "ok", "error"}]

NoRequest == [method |-> Undefined, call |-> Undefined, node |-> Undefined,
              outcome |-> "none", response |-> "none"]

Awaiting(r) == handlers[r].outcome = "pending"
Fresh(r)    == handlers[r] = NoRequest

\* The first connected node with the capability, whatever the command or call.
findRtcNode == IF connected = <<>> THEN Undefined ELSE Head(connected)

\* The handler reached its await.
Await(r, method, c) ==
    handlers' = [handlers EXCEPT ![r] =
        [method |-> method, call |-> c, node |-> findRtcNode,
         outcome |-> "pending", response |-> "none"]]

\* The handler responded before any await.
Respond(r, method, c, response) ==
    handlers' = [handlers EXCEPT ![r] =
        [method |-> method, call |-> c, node |-> Undefined,
         outcome |-> "none", response |-> response]]

\* Faulty variant: the outcome is sent for the response.
SettledSwapped(h, outcome, response) ==
    [h EXCEPT !.node = Undefined, !.outcome = response, !.response = outcome]

Settled(h, outcome, response) ==
    [h EXCEPT !.node = Undefined, !.outcome = outcome, !.response = response]

\* The await ended in outcome and the handler ran on to its response.
Finish(r, outcome, response) ==
    handlers' = [handlers EXCEPT ![r] = Settled(@, outcome, response)]

-----------------------------------------------------------------------------
(* rtc.call.start *)

\* The request is good, the orchestrator takes the call, the offer is sent on.
StartAccepted(r, c, s) ==
    /\ Fresh(r)
    /\ Enabled
    /\ startCall(c, s)
    /\ Await(r, "start", c)
    /\ UNCHANGED connected

\* Disabled, invalid configuration, no registry or blank parameters
\* (sound = FALSE), or startCall throws: an error and no call.
StartRefused(r, s, sound) ==
    /\ Fresh(r)
    /\ ~(Enabled /\ sound /\ StartCallAllowed(s))
    /\ Respond(r, "start", Undefined, "error")
    /\ UNCHANGED <<orchVars, connected>>

\* The node answered: handleAnswer takes the answer, or throws because the
\* call left "initiating" during the await.
StartAnswered(r, sdp) ==
    LET c == handlers[r].call
    IN  /\ Awaiting(r)
        /\ handlers[r].method = "start"
        /\ handlers[r].node # Undefined
        /\ \/ /\ handleAnswer(c, sdp)
              /\ Finish(r, "answer", "ok")
           \/ /\ calls[c].state # "initiating"
              /\ Finish(r, "answer", "error")
              /\ UNCHANGED orchVars
        /\ UNCHANGED connected

\* Faulty variant: the caller gets its error and the record is left as it was.
StartUnansweredUnmarked(r) ==
    /\ Awaiting(r)
    /\ handlers[r].method = "start"
    /\ Finish(r, "null", "error")
    /\ UNCHANGED <<orchVars, connected>>

\* invokeRtcNode returned null: no node, a failed command, an empty payload.
StartUnanswered(r) ==
    /\ Awaiting(r)
    /\ handlers[r].method = "start"
    /\ setError(handlers[r].call, InvokeFailed)
    /\ Finish(r, "null", "error")
    /\ UNCHANGED connected

-----------------------------------------------------------------------------
(* rtc.call.ice and rtc.call.hangup *)

\* The orchestrator has the request; it goes on to a node if the gateway gave
\* the handler a registry.
Forward(r, method, c, registry) ==
    /\ IF registry THEN Await(r, method, c) ELSE Respond(r, method, c, "ok")
    /\ UNCHANGED connected

IceRequest(r, c, registry) ==
    /\ Fresh(r)
    /\ handleIceCandidate(c, "remote")
    /\ Forward(r, "ice", c, registry)

\* Faulty variant: the node is told to hang up, the record is not.
HangupRequestUnrecorded(r, c, reason, registry) ==
    /\ Fresh(r)
    /\ Known(c)
    /\ Forward(r, "hangup", c, registry)
    /\ UNCHANGED orchVars

HangupRequest(r, c, reason, registry) ==
    /\ Fresh(r)
    /\ hangup(c, reason)
    /\ Forward(r, "hangup", c, registry)

\* No call id, no candidate, or "Call not found".
RequestRefused(r, method) ==
    /\ Fresh(r)
    /\ Respond(r, method, Undefined, "error")
    /\ UNCHANGED <<orchVars, connected>>

\* Faulty variant: a handler that found no node is never resumed.
ForwardReturnedFromNode(r, outcome) ==
    /\ Awaiting(r)
    /\ handlers[r].method \in {"ice", "hangup"}
    /\ handlers[r].node # Undefined
    /\ Finish(r, outcome, "ok")
    /\ UNCHANGED <<orchVars, connected>>

\* Whatever the node made of it (null is ignored), the caller is told ok.
ForwardReturned(r, outcome) ==
    /\ Awaiting(r)
    /\ handlers[r].method \in {"ice", "hangup"}
    /\ outcome = "answer" => handlers[r].node # Undefined
    /\ Finish(r, outcome, "ok")
    /\ UNCHANGED <<orchVars, connected>>

-----------------------------------------------------------------------------
(* The registry and the service *)

\* nodeRegistry.invoke rejects after timeoutMs; every handler's catch only
\* sends the error.
InvokeTimeout(r) ==
    /\ Awaiting(r)
    /\ handlers[r].node # Undefined
    /\ Finish(r, "reject", "error")
    /\ UNCHANGED <<orchVars, connected>>

ConnectedNodes == {connected[i] : i \in 1..Len(connected)}

NodeConnect(n) ==
    /\ n \notin ConnectedNodes
    /\ connected' = Append(connected, n)
    /\ UNCHANGED <<orchVars, handlers>>

\* Losing a node rejects every invoke pending on it.
NodeDisconnect(n) ==
    /\ \E i \in 1..Len(connected) :
          /\ connected[i] = n
          /\ connected' = SubSeq(connected, 1, i - 1)
                              \o SubSeq(connected, i + 1, Len(connected))
    /\ handlers' = [r \in Requests |->
                       IF Awaiting(r) /\ handlers[r].node = n
                       THEN Settled(handlers[r], "reject", "error")
                       ELSE handlers[r]]
    /\ UNCHANGED orchVars

\* The service stops; handlers that are waiting go on waiting.
ServiceStop == stopService /\ UNCHANGED <<handlers, connected>>

PluginInit ==
    /\ Init
    /\ handlers = [r \in Requests |-> NoRequest]
    /\ connected = <<>>

\* A request arrives and runs to its await or its response.
Arrive(r) ==
    \/ \E s \in SessionKeys : \/ \E c \in CallIds : StartAccepted(r, c, s)
                              \/ \E sound \in BOOLEAN : StartRefused(r, s, sound)
    \/ \E c \in CallIds, registry \in BOOLEAN :
          \/ IceRequest(r, c, registry)
          \/ \E reason \in Reasons : HangupRequest(r, c, reason, registry)
    \/ \E method \in {"ice", "hangup"} : RequestRefused(r, method)

\* The invoke a handler awaits is settled and the handler responds.
Resume(r) ==
    \/ \E sdp \in Sdps : StartAnswered(r, sdp)
    \/ StartUnanswered(r)
    \/ \E outcome \in {"answer", "null"} : ForwardReturned(r, outcome)
    \/ InvokeTimeout(r)

PluginNext ==
    \/ \E r \in Requests : Arrive(r) \/ Resume(r)
    \/ \E n \in Nodes : NodeConnect(n) \/ NodeDisconnect(n)
    \/ ServiceStop

PluginSpec == PluginInit /\ [][PluginNext]_pluginVars

\* Every invoke is settled: by its result, or by its timeout.
FairPluginSpec == PluginSpec /\ \A r \in Requests : WF_pluginVars(Resume(r))
-----------------------------------------------------------------------------
(* Properties *)

\* Type invariant of the handlers and the registry: whoever waits, waits for a
\* call the orchestrator knows.
PluginTypeOK ==
    /\ TypeOK
    /\ handlers \in [Requests -> HandlerRecord]
    /\ connected \in Seq(Nodes)
    /\ \A r \in Requests :
          /\ handlers[r].call # Undefined => Known(handlers[r].call)
          /\ Awaiting(r) => handlers[r].call # Undefined /\ handlers[r].response = "none"

\* What the caller of rtc.call.start was told agrees with the record, whatever
\* raced the node's answer: ok exactly when the record took the answer; a call
\* whose node could not take it is over, in "error" unless a hang-up or a
\* shutdown ended it first; and no other caller was given the same call.
StartedCall(r) == IF handlers[r].method = "start" THEN handlers[r].call ELSE Undefined
StartResponseAgrees ==
    \A r \in Requests :
        LET h == handlers[r]
            c == StartedCall(r)
        IN  c # Undefined =>
               /\ h.response = "ok" <=> calls[c].answerSdp # Undefined
               /\ h.outcome = "null" => Terminal(c)
               /\ calls[c].state = "error" => h.outcome = "null"
               /\ \A q \in Requests : StartedCall(q) = c => q = r

\* Once the plugin has taken a hang-up the call is over for good, though the
\* node may not have heard of it yet and its answer may still be on the way.
HangupTakesEffect ==
    \A r \in Requests :
        (handlers[r].method = "hangup" /\ handlers[r].call # Undefined)
            => Terminal(handlers[r].call)

\* A call that is still "initiating" is being worked on, or the invoke that was
\* to answer it was rejected; nothing else leaves a call behind.
InitiatingExplained ==
    \A c \in CallIds :
        calls[c].state = "initiating" =>
            \E r \in Requests : /\ StartedCall(r) = c
                                /\ Awaiting(r) \/ handlers[r].outcome = "reject"

\* "initiating" means what types.ts says, "browser sent offer, awaiting node
\* accept": some handler is still waiting for the node.
InitiatingAwaitsNode ==
    \A c \in CallIds :
        calls[c].state = "initiating" =>
            \E r \in Requests : StartedCall(r) = c /\ Awaiting(r)

\* Every request that awaits a node is answered.
RequestsAnswered ==
    \A r \in Requests : Awaiting(r) ~> handlers[r].response # "none"
=============================================================================
